\* Three threads exchange their shards; any shard may throw.
SPECIFICATION FairSpec
CONSTANTS
    NThreads = 3
    Shards = {0, 1, 2}
    Confs <- ThreeConfs
    InitialConf <- UnevenConf
    ThrowingShards = {0, 1, 2}
    Word <- WordPerThread
INVARIANTS
    TypeOK
    ShardExclusion
    ReshardingAlone
    OverwrittenSlotUnused
    UnlockedByOwner
    PromisesCounted
PROPERTIES
    ImplementsOwnership
    EveryThreadSwitches
    ReshardingResumes
