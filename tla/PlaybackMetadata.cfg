SPECIFICATION Spec
CHECK_DEADLOCK FALSE
CONSTANTS
    Keys = {"TITLE", "ARTWORK", "BAD_ARTWORK", "PIN"}
    Fields = {"TITLE"}
    MaxItems = 3
    MaxChunks = 2
    PrimeMax = 0
    InbufMax = 2
    StartSync = TRUE
    StdinNonblock = TRUE
    StdinMayFail = TRUE
    FifoMayFail = TRUE
INVARIANTS
    AtMostOneTakePerTrigger
    PinIsLive
    PreparedArtworkExists
PROPERTIES
    TakenFieldsAreNewer
