SPECIFICATION Spec
CONSTANTS
    MemAllocatedAtOnce = 304
    MaxMemLayers = 10
    ArenaBases <- OneArena
    Requests <- ManySizes
    NULL = NULL
INVARIANT DataUntouched
