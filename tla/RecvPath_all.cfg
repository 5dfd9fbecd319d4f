SPECIFICATION PathFairSpec
CONSTANTS
    Readers = {p1, p2}
    Sender = s
    Users = {p1, p2, s}
    MaxCalls = 2
    MaxSends = 1
    Room = 4
    Needs = {2}
    Garbage = {FALSE}
    MapMayFail = TRUE
    IommuMayFail = TRUE
    StartMayFail = TRUE
    StatusMayFail = TRUE
    WaitMayTimeOut = TRUE
INVARIANTS
    OneToken
    OwnTransferDone
    SkbsAccounted
    ReadersInv
    AllOrNothing
    PullsMapped
PROPERTY ReadReturns
CHECK_DEADLOCK FALSE
