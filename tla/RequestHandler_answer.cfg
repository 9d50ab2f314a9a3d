\* What a client gets when the origin fails in mid-response.
CONSTANTS
    Workers = {w1}
    Keys = {k1}
    Responses <- MCResponses
    Length <- MCLength
    MaxCapture = 2
    Sockets = {s1, s2}
    NoSocket = NoSocket
    NoKey = NoKey
    MaxConnections = 1
SPECIFICATION Spec
INVARIANTS
    FailureIsAnErrorResponse
