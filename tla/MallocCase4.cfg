\* Three blocks of mm.c side by side, the outer two freed before the one between them.
SPECIFICATION Spec
CONSTANTS
    MAX_HEAP = 192
    CHUNKSIZE = 64
    SIZE_T = 8
    Allocators = {"segregated"}
    TargetSizes <- Targets
    BATCH = 16
    Stray = 8
    Index = {1, 2, 3}
    Sizes = {8}
    MaxOps = 9
INVARIANT DriverIsContent
CHECK_DEADLOCK FALSE
