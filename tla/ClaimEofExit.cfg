SPECIFICATION FairSpec
CHECK_DEADLOCK FALSE
CONSTANTS
    Keys = {}
    Fields = {}
    MaxItems = 0
    MaxChunks = 1
    PrimeMax = 0
    InbufMax = 2
    StartSync = FALSE
    StdinNonblock = TRUE
    StdinMayFail = FALSE
    FifoMayFail = FALSE
PROPERTIES
    EofLeadsToExit
