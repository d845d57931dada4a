SPECIFICATION FairSpec
CHECK_DEADLOCK FALSE
CONSTANTS
    Keys = {"PAUSE", "STOP"}
    Fields = {}
    MaxItems = 2
    MaxChunks = 1
    PrimeMax = 0
    InbufMax = 2
    StartSync = FALSE
    StdinNonblock = TRUE
    StdinMayFail = FALSE
    FifoMayFail = FALSE
PROPERTIES
    StopIsObeyed
