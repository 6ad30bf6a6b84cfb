\* One connection after the other: five connections, four URIs, three blocks.
SPECIFICATION Spec
CONSTANTS
    Threads = {t1, t2, t3, t4, t5}
    Urls = {u1, u2, u3, u4}
    NoUrl = NoUrl
    Cacheable = {u1, u2, u3, u4}
    Silent = {}
    CACHE_OBJS_COUNT = 3
    LRU_MAGIC_NUMBER = 9999
    MaxActive = 1
SYMMETRY ThreadSymmetry
INVARIANTS NoDuplicates
PROPERTIES ReplacesOnlyWhenFull KeepsTheNewest
CHECK_DEADLOCK FALSE
