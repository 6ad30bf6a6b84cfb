\* The three matrices of the assignment and a small one; the addresses of trace.f0.
SPECIFICATION Spec
CONSTANTS
    Shapes <- MCShapes
    Base = 96
    BOffset = 262144
    Globals = 524384
    Reported <- MCReported
INVARIANTS
    AccessesInBounds
    Transposed
    MissesAsReported
CHECK_DEADLOCK FALSE
