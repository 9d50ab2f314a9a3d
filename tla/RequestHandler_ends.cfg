\* Two workers with a socket to spare for neither; every connection ends.
CONSTANTS
    Workers = {w1, w2}
    Keys = {k1}
    Responses <- MCResponses
    Length <- MCLength
    MaxCapture = 2
    Sockets = {s1, s2, s3}
    NoSocket = NoSocket
    NoKey = NoKey
    MaxConnections = 2
SPECIFICATION Spec
PROPERTIES
    ConnectionEnds
