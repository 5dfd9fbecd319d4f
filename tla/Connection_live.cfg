SPECIFICATION FairSpec
CONSTANTS
    a = a
    b = b
    Nodes = {a, b}
    Clients = {c1, c2}
    ClientNode <- FromA
    Acceptors = {p1, p2}
    AcceptorNode <- AtB
    MaxData = 0
    Closers = {}
    ClientsStartClosed = FALSE
    MayGiveUp = TRUE
    MaxErrors = 0
    RequestResponse = FALSE
PROPERTY HeadIsTaken
CHECK_DEADLOCK FALSE
