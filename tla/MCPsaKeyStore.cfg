SPECIFICATION FairSpec
CONSTANTS
    t1 = t1
    t2 = t2
    t3 = t3
    p1 = p1
    b1 = b1
    Threads = {t1, t2, t3}
    SlotCount = 2
    PersistentIds = {p1}
    BuiltinIds = {b1}
    MaxKeys = 3
    SIZE_MAX = 4
    NoSlot = NoSlot
    NoKey = NoKey
    NullId = NullId
INVARIANTS
    TypeOK
    ReaderCountExact
    FillingHasOneCreator
    OneSlotPerKey
    CacheIsCoherent
    NoCorruption
PROPERTIES
    ImplementsApi
    DeletionCompletes
