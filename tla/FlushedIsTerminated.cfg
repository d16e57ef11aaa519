SPECIFICATION Spec
CONSTANTS
    PeerUnits <- Plain
    Lengths <- ShortLengths
    InSize = 2
    MaxRecv = 1
    AppHeaders <- SomeHeaders
    Formatted <- SomeHeaders
    MaxOut = 1
    Timeout = 1
    Calls = {"response", "header", "flush"}
    EarlyAnswer = FALSE
    OutOfMemory = FALSE
INVARIANT FlushedIsTerminated
