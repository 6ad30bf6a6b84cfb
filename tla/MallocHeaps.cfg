\* Traces of seven requests; the heap grows by 64 bytes, once after mm_init, and then is
\* full.  No request needs CHUNKSIZE - 8 bytes: mm-explicit.c has no use for the rest of 8.
SPECIFICATION Spec
CONSTANTS
    MAX_HEAP = 160
    CHUNKSIZE = 64
    SIZE_T = 8
    Allocators = {"implicit", "explicit"}
    Index = {1, 2, 3}
    Sizes = {8, 32}
    MaxOps = 7
    BATCH = 16
    TargetSizes <- Targets
    Stray = 8
INVARIANTS
    HeapTiled
    NoFreeNeighbours
    FreeListExact
PROPERTIES
    FailsOnlyWhenFull
    ImplementsAllocator
CHECK_DEADLOCK FALSE
