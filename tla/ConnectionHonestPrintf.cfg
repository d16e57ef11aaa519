SPECIFICATION Spec
CONSTANTS
    PeerUnits <- Plain
    Lengths <- ShortLengths
    InSize = 2
    MaxRecv = 1
    AppHeaders <- ConnectionHeaders
    Formatted <- ConnectionHeaders
    MaxOut = 1
    Timeout = 1
    Calls = {"header_printf", "write", "flush"}
    EarlyAnswer = FALSE
    OutOfMemory = FALSE
INVARIANT ConnectionHonest
