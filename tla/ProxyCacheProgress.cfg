\* Liveness: three connections, two URIs, the origin of one of them never answers.
SPECIFICATION FairSpec
CONSTANTS
    Threads = {t1, t2, t3}
    Urls = {u1, u2}
    NoUrl = NoUrl
    Cacheable = {u1}
    Silent = {u2}
    CACHE_OBJS_COUNT = 2
    LRU_MAGIC_NUMBER = 9999
    MaxActive = 3
PROPERTIES ServedUnlessStoresCollide
CHECK_DEADLOCK FALSE
