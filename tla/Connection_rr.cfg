SPECIFICATION Spec
CONSTANTS
    a = a
    b = b
    Nodes = {a, b}
    Clients = {c1, c2}
    ClientNode <- FromA
    Acceptors = {p1}
    AcceptorNode <- AtB
    MaxData = 3
    Closers = {"client", "server"}
    ClientsStartClosed = FALSE
    MayGiveUp = TRUE
    MaxErrors = 1
    RequestResponse = TRUE
INVARIANTS
    TypeOK
    OneTable
    NoCrossTalk
    Gapless
    AnswersArrive
    CrashCauses
    AcceptFindsConnection
    ConnectionsInv
CONSTRAINTS
    FewAfterHalfOpen
    OneWritesMuch
SYMMETRY Symmetry
CHECK_DEADLOCK FALSE
