SPECIFICATION StartSpec
CONSTANTS
    MsPerSec = 3
    NsPerMs = 2
    Starts = {6, 9}
    PairingLatency = 2
    OutputBuffer = 3
    LatencyMs = 1
    InputWriteMs = 0
    PrimeMax = 2
    ReadMax = 2
    MaxAudio = 6
    MaxTime = 11
    Wrap = 64
    Word = 16
    Frac = 8
    EpochDelta = 9
    StartBufferMs = 4
    Boots = {0, 17, 32, 38}
    Leads = {0, 1, 4}
    MaxClock = 14
INVARIANTS
    TypeOK
    NeverTooEarly
    AlignedUnlessEmptied
    DropsOnlyOld
    TimeTypeOK
    StartIsAsAsked
