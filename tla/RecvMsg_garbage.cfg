SPECIFICATION Spec
CONSTANTS
    Readers = {p1, p2}
    MaxCalls = 2
    Garbage = {FALSE, TRUE}
    MapMayFail = FALSE
    StartMayFail = FALSE
    StatusMayFail = FALSE
    WaitMayTimeOut = FALSE
INVARIANT SemaphoreReleased
CHECK_DEADLOCK FALSE
