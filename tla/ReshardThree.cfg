SPECIFICATION ReshardingSpec
CONSTANTS
  NThreads = 3
  EdgeTypes <- Diamond
  MaxDuration = 3
INVARIANTS EveryProcessorOnce LoadBounded ReceiverIsWoken
