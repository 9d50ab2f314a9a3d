\* Two workers share the cache; one socket short of what they could use.
CONSTANTS
    Workers = {w1, w2}
    Keys = {k1, k2}
    Responses <- MCResponses
    Length <- MCLength
    MaxCapture = 2
    Sockets = {s1, s2, s3}
    NoSocket = NoSocket
    NoKey = NoKey
    MaxConnections = 3
SPECIFICATION Spec
SYMMETRY Symmetry
INVARIANTS
    TypeOK
    SocketsOwned
    CacheHoldsRelayed
    ReplayIsRelayed
    ActiveIsBusy
    CountersFitTogether
