\* Every state of the cache, in the middle of a cache_put too, and its
\* behaviours as its users see them: an LRU store, for every order of calls.
CONSTANTS
    Entries = {e1, e2, e3}
    NULL = NULL
    Keys <- MCKeys
    Objects <- MCObjects
    SizeOf <- MCSizeOf
    Buckets = {0, 1}
    Hash <- MCHash
    MaxTotal = 3
    MaxObject = 3
    NoKey = NoKey
    NoObject = NoObject
SPECIFICATION Spec
INVARIANTS
    TypeOK
    ListIntact
    TableIntact
    BytesExact
    RoomIsFound
    ReplacedEntrySurvives
    NothingLeaked
PROPERTIES
    ImplementsLruCache
