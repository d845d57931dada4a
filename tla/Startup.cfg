SPECIFICATION StartupFairSpec
CONSTANTS
    MaxNotify = 2
    CanFail = TRUE
    Signals = {"TERM", "HUP", "CHLD"}
    MaxSignals = 2
INVARIANTS
    StartupTypeOK
    ReleasesWhatIsMade
    OnlyTheseAreLeft
    ThreadsInheritTheMask
    StopsWhenTold
    ConfigOutlivesAudio
    NoMisuseBeforeStop
    AudioStartsOnce
    AudioPipesAreFreed
PROPERTIES
    TermEnds
    StopCompletes
CHECK_DEADLOCK FALSE
