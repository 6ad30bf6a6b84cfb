\* Three connections at once, two URIs that fit a block and one that does not, two blocks.
SPECIFICATION Spec
CONSTANTS
    Threads = {t1, t2, t3}
    Urls = {u1, u2, u3}
    NoUrl = NoUrl
    Cacheable = {u1, u2}
    Silent = {}
    CACHE_OBJS_COUNT = 2
    LRU_MAGIC_NUMBER = 9999
    MaxActive = 3
SYMMETRY ThreadSymmetry
INVARIANTS
    TypeOK
    Exclusion
    ReadCntExact
    ServesWhatWasAsked
    BlockConsistent
    LruRanks
PROPERTIES
    PinnedBlocksStay
    ImplementsPageCache
CHECK_DEADLOCK FALSE
