SPECIFICATION Spec
CHECK_DEADLOCK FALSE
CONSTANTS
    Keys = {"PAUSE", "PLAY", "STOP"}
    Fields = {}
    MaxItems = 3
    MaxChunks = 2
    PrimeMax = 0
    InbufMax = 2
    StartSync = FALSE
    StdinNonblock = TRUE
    StdinMayFail = FALSE
    FifoMayFail = FALSE
INVARIANTS
    TypeOK
    AtMostOneLateWrite
    ExitOnlyAfterEnd
PROPERTIES
    KeepsContract
