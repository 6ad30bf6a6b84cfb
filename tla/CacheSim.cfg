\* Two sets of two lines, blocks of two bytes, five addresses in four blocks.
SPECIFICATION Spec
CONSTANTS
    W = 6
    s = 1
    E = 2
    b = 1
    Addrs = {0, 1, 4, 40, 6}
    MaxTime = 7
INVARIANTS
    BlocksAreFound
    LinesAreLru
PROPERTIES
    ImplementsLru
CHECK_DEADLOCK FALSE
