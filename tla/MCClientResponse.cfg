SPECIFICATION Spec
CONSTANTS
    PeerUnits <- SimpleUnits
    Lengths <- ShortLengths
    InSize = 2
    MaxRecv = 1
    AppHeaders <- KeepHeaders
    Formatted <- FormattedHeaders
    MaxOut = 2
    Timeout = 1
    Calls = {"response", "header", "header_printf", "write", "flush"}
    EarlyAnswer = FALSE
    OutOfMemory = TRUE
INVARIANTS CompleteIsWellFormed KeptAsSpelled
PROPERTIES EventOrder OnlyFlushedCompletes
