SPECIFICATION Spec
CONSTANTS
    c1 = c1
    c2 = c2
    c3 = c3
    Clients = {c1, c2, c3}
    NumServers = 1
    Secure = {}
    SpoolSize = 1
    AcceptLimit = 1
    Timeout = 1
    OutOfMemory = FALSE
INVARIANT TeardownSurvives
