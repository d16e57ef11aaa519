SPECIFICATION Spec
CONSTANTS
    PeerUnits <- Plain
    Lengths <- ShortLengths
    InSize = 2
    MaxRecv = 1
    AppHeaders <- SpelledHeaders
    Formatted <- NoHeaders
    MaxOut = 1
    Timeout = 1
    Calls = {"header", "write", "flush"}
    EarlyAnswer = FALSE
    OutOfMemory = FALSE
INVARIANT ConnectionHonest
