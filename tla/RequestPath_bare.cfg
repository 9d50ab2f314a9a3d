\* README.md:8 says that absolute-form GET requests are parsed.
CONSTANTS
    Tokens <- MCTokens
    MaxPort = 85
    PortSize = 4
    HostSize = 3
    PathSize = 3
    Refused = Refused
    Limit = 19
    Streams <- MCStreams
    Addresses <- MCAddresses
    UrlTokens = {"h", "/"}
    UrlLength = 1
    FieldTokens = {"x", "CR", "LF"}
    FieldLength = 1
SPECIFICATION Spec
INVARIANTS
    GetIsParsed
