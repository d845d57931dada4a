SPECIFICATION Spec
CONSTANTS
    MaxNotify = 0
    CanFail = FALSE
INVARIANT
    ThreadIsStopped
CHECK_DEADLOCK FALSE
