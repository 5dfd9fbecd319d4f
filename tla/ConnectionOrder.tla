--------------------------- MODULE ConnectionOrder ---------------------------
(***************************************************************************)
(* What holds of the messages in a channel and of the tables at any time   *)
(* when all programs that connect are on one node, all that accept on the  *)
(* other, and both behave like the test programs: each message meets the   *)
(* entry of its own connection, although all entries have the same key.    *)
(***************************************************************************)
EXTENDS Connection

OneWay == \E n \in Nodes :
    /\ \A c \in Clients : ClientNode[c] = n
    /\ \A p \in Acceptors : AcceptorNode[p] = Other(n)

\* The node that connects and the node that accepts.
Near == CHOOSE n \in Nodes :
    /\ \A c \in Clients : ClientNode[c] = n
    /\ \A p \in Acceptors : AcceptorNode[p] = Other(n)
Far == Other(Near)

Cl(c) == <<c, "client">>
Sv(c) == <<c, "server">>

-----------------------------------------------------------------------------
(* Messages in a channel *)

ConnOf(m) == m.sock[1]

\* q holds a message of type t of connection c.
Has(q, t, c) == \E i \in DOMAIN q : q[i].type = t /\ ConnOf(q[i]) = c

NoneOf(q, c) == \A i \in DOMAIN q : ConnOf(q[i]) # c
AllOf(q, c) == \A i \in DOMAIN q : ConnOf(q[i]) = c

\* What is in front of the message t of c, if not of c, is of connections before it.
Heralded(q, t, c) ==
    \A i \in DOMAIN q : ConnOf(q[i]) # c =>
        \E k \in DOMAIN q : k > i /\ q[k].type = t /\ ConnOf(q[k]) = c

\* A message t is the first of its connection, or the last.
FirstIs(q, t) == \A i, j \in DOMAIN q : q[j].type = t /\ i < j => ConnOf(q[i]) # ConnOf(q[j])
LastIs(q, t) == \A i, j \in DOMAIN q : q[j].type = t /\ i > j => ConnOf(q[i]) # ConnOf(q[j])

\* Up to the CLOSE of c there are only messages of c.
EndsIn(q, c) == \E k \in DOMAIN q :
    q[k].type = "CLOSE" /\ \A i \in DOMAIN q : i <= k => ConnOf(q[i]) = c

-----------------------------------------------------------------------------
(* Connections *)

\* connect has sent its message.
Begun(c) == spc[Cl(c)] \notin {"idle", "failed"}

\* ... and not both programs have closed.
Busy(c) == Begun(c) /\ ~(spc[Cl(c)] = "closed" /\ spc[Sv(c)] = "closed")

\* The program has its socket, or had it.
Opened(x) == spc[x] \in {"open", "removing", "closing", "closed"}

\* The entry of the server is on its way to accept, which has not confirmed it.
Waiting(c) ==
    \/ Sv(c) \in ToSet(incoming[Far])
    \/ hpc[Far] = "add" /\ hsock[Far] = Sv(c)
    \/ \E p \in Acceptors : apc[p] \in {"add", "notify"} /\ asock[p] = Sv(c)

Unannounced(c) == spc[Sv(c)] = "absent" \/ Waiting(c)

\* The socket has received a message.
Got(x) == received[x] # << >> \/ \E n \in Nodes : hpc[n] = "queue" /\ hsock[n] = x

\* The confirmation has met the entry of the client.
InConns(c) == Cl(c) \in ToSet(conns[Near]) \/ (hpc[Near] = "move" /\ hsock[Near] = Cl(c))

\* The CLOSE of the client has reached the other node, or none was sent.
Gone(c) ==
    /\ spc[Cl(c)] = "closed" /\ ~ClientsStartClosed
    /\ ~Has(chan[Far], "CLOSE", c)

InTables(x) == Carried(x) \/ \E n \in Nodes : x \in ToSet(incoming[n]) \cup ToSet(conns[n])
BeingClosed(x) == x \in closedSks \/ \E n \in Nodes : hpc[n] = "close" /\ hsock[n] = x

-----------------------------------------------------------------------------
(* The invariant *)

\* A socket whose state a CLOSE has set has lost its entry for good.
ClosedIsOut ==
    \A x \in Sockets : BeingClosed(x) /\ (x[2] = "server" \/ ~ClientsStartClosed) =>
        ~InTables(x) /\ spc[x] \notin {"idle", "connecting", "absent", "failed"}

\* What accept is about to confirm is in no queue and confirmed by nobody else.
NotifyAlone ==
    \A p \in Acceptors : apc[p] = "notify" =>
        /\ asock[p] \notin ToSet(incoming[AcceptorNode[p]])
        /\ \A n \in Nodes : hpc[n] = "add" => hsock[n] # asock[p]
        /\ \A q \in Acceptors : apc[q] \in {"add", "notify"} /\ asock[q] = asock[p] => q = p

\* Connects come to Far and confirmations to Near.
Roles == hpc[Near] # "add" /\ hpc[Far] # "move"

\* Each message is from the other side, of a connection that was begun; CLOSE comes
\* from a program that has closed, and an answer from one that has its socket.
Proper(m, n) ==
    /\ m.sock \in Sockets
    /\ m.sock[2] = IF n = Near THEN "server" ELSE "client"
    /\ Begun(ConnOf(m))
    /\ m.type = "CLOSE" => spc[m.sock] = "closed"
    /\ n = Near /\ m.type \in {"REGULAR", "CLOSE"} => Opened(m.sock)

Flow == \A n \in Nodes : \A i \in DOMAIN chan[n] : Proper(chan[n][i], n)

\* One connection is in use at a time.
OneBusy == \A c, d \in Clients : Busy(c) /\ Busy(d) => c = d

\* What is in a channel is in the order of the connections.
Order ==
    /\ \A n \in Nodes : LastIs(chan[n], "CLOSE")
    /\ FirstIs(chan[Near], "CONNECT_SUCCESS")
    /\ \A c \in Clients :
          /\ Busy(c) => Heralded(chan[Far], "CONNECT", c)
          /\ Busy(c) /\ ~Unannounced(c) => Heralded(chan[Near], "CONNECT_SUCCESS", c)
          /\ Unannounced(c) => NoneOf(chan[Near], c)
          /\ Has(chan[Near], "CONNECT_SUCCESS", c) => ~Got(Cl(c))

\* The connecting program closes after an answer, which comes when its entry is made.
Asking(c) ==
    /\ Closing(Cl(c)) => received[Cl(c)] # << >>
    /\ Got(Cl(c)) =>
          /\ Opened(Sv(c))
          /\ Cl(c) \notin ToSet(incoming[Near])
          /\ ~(hpc[Near] = "move" /\ hsock[Near] = Cl(c))
          /\ spc[Cl(c)] # "connecting"

\* The accepting side has an entry from accept to its close, or to that of the client.
Serving(c) ==
    /\ ~Begun(c) => spc[Sv(c)] = "absent"
    /\ Waiting(c) => spc[Sv(c)] = "cloned"
    /\ Sv(c) \in ToSet(conns[Far]) => spc[Sv(c)] \notin {"closing", "closed"}
    /\ spc[Sv(c)] \in {"open", "removing"} /\ ~Gone(c) => Sv(c) \in ToSet(conns[Far])
    /\ \A p \in Acceptors :
          apc[p] = "notify" /\ asock[p] = Sv(c) /\ ~Gone(c) => Sv(c) \in ToSet(conns[Far])

\* The entry of the connecting side is the one the next messages are for.
Entry(c) == InConns(c) =>
    /\ ~ClientsStartClosed => spc[Cl(c)] \notin {"closing", "closed"}
    /\ AllOf(chan[Near], c) \/ EndsIn(chan[Near], c)
    /\ ClientsStartClosed /\ spc[Sv(c)] = "closed" => EndsIn(chan[Near], c)

\* A program whose socket starts in TCP_CLOSE never tells that it closes.
Silent == ClientsStartClosed =>
    /\ \A c \in Clients :
          /\ Cl(c) \in closedSks /\ spc[Cl(c)] \notin {"removing", "closing"}
          /\ ~BeingClosed(Sv(c)) /\ ~Has(chan[Far], "CLOSE", c)
          /\ spc[Sv(c)] = "closed" /\ Has(chan[Near], "CONNECT_SUCCESS", c)
                => Has(chan[Near], "CLOSE", c)

\* close removes its own entry, and a message is queued on the socket it is for.
Own ==
    /\ \A s \in Sockets : spc[s] = "closing" => csock[s] = s
    /\ \A n \in Nodes : hpc[n] = "queue" => hmsg[n].sock = Peer(hsock[n])

OrderInv == ~HalfOpen =>
    /\ Flow /\ OneBusy /\ Order /\ Silent /\ Own /\ NoCrossTalk
    /\ \A c \in Clients : Asking(c) /\ Serving(c) /\ Entry(c)

AlwaysInv == ClosedIsOut /\ NotifyAlone /\ Roles

\* The confirmation is on its way or was lost, its entry is there, or was removed.
Alive(c) ==
    \/ Has(chan[Near], "CONNECT_SUCCESS", c)
    \/ InConns(c) \/ SuccessLost(c) \/ Closing(Cl(c))

Answered(c) ==
    \/ Has(chan[Near], "REGULAR", c) \/ Has(chan[Near], "CLOSE", c)
    \/ spc[Sv(c)] \in {"open", "removing", "closing"}
    => Alive(c)

AnswersInv == ~HalfOpen => \A c \in Clients : Answered(c)

-----------------------------------------------------------------------------
(* The numbers of the data *)

Data(m, x) == m.type = "REGULAR" /\ m.sock = x

\* Of what x wrote up to number w, q holds that after number k and nothing before.
RestIn(q, x, k, w) ==
    /\ \A i \in DOMAIN q : Data(q[i], x) => q[i].n > k
    /\ \A l \in k + 1 .. w : \E i \in DOMAIN q : Data(q[i], x) /\ q[i].n = l

\* The data of x in q is in order, and none is missing after the first.
InLine(q, x, w) == \A i \in DOMAIN q : Data(q[i], x) =>
    /\ q[i].n <= w
    /\ \A j \in DOMAIN q : i < j /\ Data(q[j], x) => q[i].n < q[j].n
    /\ \A l \in q[i].n + 1 .. w : \E j \in DOMAIN q : Data(q[j], x) /\ q[j].n = l

\* What y has received, with the message that is being queued.
Arrived(y) ==
    IF hpc[Home(y)] = "queue" /\ hsock[Home(y)] = y
    THEN Append(received[y], hmsg[Home(y)]) ELSE received[y]

NoHole(q) == \A i \in 1 .. Len(q) - 1 : q[i + 1].n = q[i].n + 1

\* While y has an entry, the next data for it is what comes after its newest message.
Continues(y) ==
    y \in ToSet(conns[Home(y)]) /\ Arrived(y) # << >> =>
        LET k == Arrived(y)[Len(Arrived(y))].n IN
        /\ k <= written[Peer(y)]
        /\ RestIn(chan[Home(y)], Peer(y), k, written[Peer(y)])

\* A socket that has received never gets another entry.
EnteredOnce(c) == Arrived(Sv(c)) # << >> =>
    /\ spc[Sv(c)] # "absent"
    /\ Sv(c) \notin ToSet(incoming[Far])
    /\ ~(hpc[Far] = "add" /\ hsock[Far] = Sv(c))
    /\ \A p \in Acceptors : ~(apc[p] = "add" /\ asock[p] = Sv(c))

Numbered ==
    /\ \A c \in Clients : EnteredOnce(c)
    /\ \A x \in Sockets :
          /\ InLine(chan[Other(Home(x))], x, written[x])
          /\ Continues(x) /\ NoHole(Arrived(x))

NumbersInv == ~HalfOpen => Numbered

\* While no socket is half-open the connections follow each other: the entry a message
\* meets is its own, what was announced is in a table or on its way, and data comes in
\* order, although all entries of a node have the same key.
ConnectionsInv == AlwaysInv /\ OrderInv /\ AnswersInv /\ NumbersInv
=============================================================================
