SPECIFICATION Spec
CONSTANTS
    Connectors = {c1, c2}
    Others = {x}
    MaxFd = 2
    NoFile = NoFile
    MayFail = TRUE
INVARIANTS
    Counted
    OwnFileReplaced
    NewSocketHeld
CHECK_DEADLOCK FALSE
