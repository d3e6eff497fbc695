SPECIFICATION ReshardingSpec
CONSTANTS
  NThreads = 3
  EdgeTypes <- Ring
  MaxDuration = 5
INVARIANT AssertionsHold
