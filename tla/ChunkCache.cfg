CONSTANTS
    Thread = {t1, t2, t3}
    Keys = {k1, k2}
    Obj = {o1, o2, o3}
    Null = Null
    Capacity = 1
    PoolCap = 1
SPECIFICATION FairCacheSpec
INVARIANTS PinSafe OneOwner
PROPERTY DeferredIsRecycled
