SPECIFICATION FairSpec
CONSTANTS
    c1 = c1
    c2 = c2
    c3 = c3
    Clients = {c1, c2, c3}
    NumServers = 2
    Secure = {2}
    SpoolSize = 1
    AcceptLimit = 1
    Timeout = 2
    OutOfMemory = TRUE
INVARIANTS TypeOK SpoolOwnsLive DisconnectOnce MissedMovesUp
PROPERTIES EveryClientVisited OfflineReaped SilentClosed
