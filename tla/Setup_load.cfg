SPECIFICATION FairSpec
CONSTANTS
    Nodes = {a, b}
    MaxLoads = 3
    MaxSends = 2
    MayFail = TRUE
INVARIANTS
    LinkWorks
    ProperUseIsSafe
PROPERTY LoadEnds
CHECK_DEADLOCK FALSE
