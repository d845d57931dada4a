SPECIFICATION Spec
CONSTANTS
    MsPerSec = 1
    NsPerMs = 2
    Starts = {3, 6}
    PairingLatency = 2
    OutputBuffer = 2
    LatencyMs = 1
    InputWriteMs = 0
    PrimeMax = 2
    ReadMax = 2
    MaxAudio = 3
    MaxTime = 8
    Wrap = 64
INVARIANTS
    FirstIsAligned
