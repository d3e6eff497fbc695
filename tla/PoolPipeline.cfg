\* Two threads run a pipeline of three message processors.
SPECIFICATION FairSpec
CONSTANTS
    EdgeTypes <- Pipeline
    NThreads = 2
    Confs <- PipelineConfs
    MaxMessages = 2
    NULL = NULL
INVARIANTS HandledInOrder SenderWakesServer PointersNotRaced
PROPERTY EveryMessageHandled
