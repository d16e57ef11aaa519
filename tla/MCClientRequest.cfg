SPECIFICATION Spec
CONSTANTS
    PeerUnits <- AnyUnit
    Lengths <- ShortLengths
    InSize = 3
    MaxRecv = 2
    AppHeaders <- NoHeaders
    Formatted <- NoHeaders
    MaxOut = 1
    Timeout = 1
    Calls = {"response", "flush", "reject"}
    EarlyAnswer = TRUE
    OutOfMemory = FALSE
INVARIANTS TypeOK ReadXorWrite BodyAccounted
PROPERTIES EventOrder
