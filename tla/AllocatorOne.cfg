SPECIFICATION Spec
CONSTANTS
    MemAllocatedAtOnce = 304
    MaxMemLayers = 10
    ArenaBases <- OneArena
    Requests <- ManySizes
    NULL = NULL
INVARIANTS BlocksTile ConsumersApart Coalesced HeadsServe
PROPERTY ImplementsHeap
