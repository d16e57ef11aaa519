SPECIFICATION FairSpec
CONSTANTS
    PeerUnits <- Plain
    Lengths <- ShortLengths
    InSize = 2
    MaxRecv = 2
    AppHeaders <- NoHeaders
    Formatted <- NoHeaders
    MaxOut = 1
    Timeout = 1
    Calls = {"response", "write", "flush", "reject"}
    EarlyAnswer = FALSE
    OutOfMemory = FALSE
PROPERTY RejectedIsSilent
