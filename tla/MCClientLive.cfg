SPECIFICATION FairSpec
CONSTANTS
    PeerUnits <- BodyUnits
    Lengths <- ShortLengths
    InSize = 2
    MaxRecv = 1
    AppHeaders <- NoHeaders
    Formatted <- NoHeaders
    MaxOut = 1
    Timeout = 1
    Calls = {"write", "flush", "set_output_event", "reject"}
    EarlyAnswer = FALSE
    OutOfMemory = FALSE
PROPERTIES TouchReturns SilentClosed OfflineReaped
