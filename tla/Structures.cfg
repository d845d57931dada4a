SPECIFICATION StructuresSpec
CONSTANTS
    MsPerSec = 3
    NsPerMs = 4
    Operands <- SmallOperands
    Millis = {0, 1, 4, 7}
    MaxNs = 60
    IntRange = 16
    LongRange = 32
    NoNumber = NoNumber
    None = None
    NoFile = NoFile
    BadFile = BadFile
    CommandLines <- SmallCommandLines
    Contents <- SmallContents
    DacMs = 2
    StartBufferMs = 4
    Cells = {c1, c2, c3}
    NULL = NULL
    NoUrl = NoUrl
    BaseIds = {0, 1}
    Urls = {"png", "gif"}
    KeepIds = {0}
    Nodes = {n1, n2, n3}
    NoNode = NoNode
    Names = {0, 1, 3, 4}
    Letters = 4
    v = v
    w = w
    Values = {v, w}
    NoValue = NoValue
    Texts <- SmallTexts
    Size = 3
    Bytes = {0, 1}
    MaxLen = 4
SYMMETRY Heaps
INVARIANTS
    Exact
    Ordered
    MillisTowardZero
    
    LastValueWins
    QueueIsSound
    KvIsSound
    TxtIsComplete
PROPERTIES
    CallsServeTheTable
    KvServesTheMap
    RingIsQueue
CHECK_DEADLOCK FALSE
