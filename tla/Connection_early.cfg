SPECIFICATION Spec
CONSTANTS
    a = a
    b = b
    Nodes = {a, b}
    Clients = {c1}
    ClientNode <- FromA
    Acceptors = {p1}
    AcceptorNode <- AtB
    MaxData = 1
    Closers = {"client", "server"}
    ClientsStartClosed = FALSE
    MayGiveUp = FALSE
    MaxErrors = 0
    RequestResponse = TRUE
INVARIANT EarlyDataKept
CHECK_DEADLOCK FALSE
