\* Traces of six requests on the allocators with several lists, and on the naive one.
SPECIFICATION Spec
CONSTANTS
    MAX_HEAP = 384
    CHUNKSIZE = 64
    SIZE_T = 8
    Allocators = {"naive", "targeted", "segregated"}
    TargetSizes <- Targets
    BATCH = 16
    Stray = 8
    Index = {1, 2}
    Sizes = {8, 32, 40}
    MaxOps = 6
INVARIANTS
    FreeListExact
PROPERTIES
    ImplementsAllocator
CHECK_DEADLOCK FALSE
