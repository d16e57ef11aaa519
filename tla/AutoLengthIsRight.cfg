SPECIFICATION Spec
CONSTANTS
    PeerUnits <- Plain
    Lengths <- ShortLengths
    InSize = 2
    MaxRecv = 1
    AppHeaders <- NoHeaders
    Formatted <- NoHeaders
    MaxOut = 1
    Timeout = 1
    Calls = {"response", "write", "flush"}
    EarlyAnswer = FALSE
    OutOfMemory = FALSE
INVARIANT AutoLengthIsRight
