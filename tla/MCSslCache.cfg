SPECIFICATION Spec
CONSTANTS
    i1 = i1
    i2 = i2
    i3 = i3
    s1 = s1
    s2 = s2
    BufLen = 18
    HdrSize = 2
    Align = 2
    SizeMod = 32
    NULL = NULL
    Ids = {i1, i2, i3}
    Sessions = {s1, s2}
    SessionLen <- Lengths
    EntrySize = 2
    NoId = NoId
    NoSession = NoSession
    Requests <- SmallAndOverflow
    MaxRequests = 1
    Builds <- Both
    MaxTime = 3
SYMMETRY Identifiers
INVARIANTS
    HeapIsExact
    NothingLeaks
    ServesLatest
PROPERTY EvictsOldestOnly
