\* The layout Vector<bool> gives: all threads' flags in one word.
SPECIFICATION Spec
CONSTANTS
    NThreads = 2
    Shards = {0, 1}
    Confs <- TwoConfs
    InitialConf <- TwoInitial
    ThrowingShards = {}
    Word <- OneWord
CHECK_DEADLOCK FALSE
INVARIANT
    ShardExclusion
