SPECIFICATION Spec
CONSTANTS
    i1 = i1
    i2 = i2
    Instances = {i1, i2}
    NumServers = 1
    Configs <- MCConfigs
    Loadable <- MCLoadable
    CounterSize = 4
    MaxFailures = 5
    OutOfMemory = FALSE
PROPERTY ConfigAccepted
