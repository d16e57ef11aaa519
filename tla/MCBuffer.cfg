SPECIFICATION Spec
CONSTANTS
    a = a
    b = b
    Byte = {a, b}
    Texts <- MCTexts
    Page = 2
    InitialSize = 4
    Sizes = {0, 1, 4}
    MemoryLimit = 6
    OutOfMemory = TRUE
INVARIANTS TypeOK WithinBlock RetryOnce
PROPERTIES FailureKeepsData IsByteQueue
