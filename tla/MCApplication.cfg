SPECIFICATION FairAppSpec
CONSTANTS
    PeerUnits <- MCUnits
    Lengths <- MCLengths
    InSize = 3
    MaxRecv = 2
    AppHeaders <- MCHeaders
    Formatted <- MCHeaders
    MaxOut = 1
    Timeout = 1
    Calls = {"response", "write", "flush", "reject"}
    EarlyAnswer = TRUE
    OutOfMemory = TRUE
INVARIANTS AppTypeOK ContextsFreed Answered PageWhole
PROPERTIES FlushedIsCompleted Served
