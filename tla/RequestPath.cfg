\* Every reading of every short request, to its end at the origin.
CONSTANTS
    Tokens <- MCTokens
    MaxPort = 85
    PortSize = 4
    HostSize = 3
    PathSize = 3
    Refused = Refused
    Limit = 19
    Streams <- MCStreams
    Addresses <- MCAddresses
    UrlTokens = {"h", ":", "/", "|", "+", "8", "0", "6", "sp"}
    UrlLength = 3
    FieldTokens = {"x", "host", "CR", "LF", "NUL"}
    FieldLength = 3
SPECIFICATION Spec
INVARIANTS
    TypeOK
    VerdictFixed
    ForwardedAsMeant
    OriginReached
    Understood
PROPERTIES
    RequestEnds
