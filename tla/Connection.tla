----------------------------- MODULE Connection -----------------------------
(***************************************************************************)
(* How sockets of ltcp/local_tcp_protocol.c are connected, used and closed *)
(* over the link: connect, accept, sendmsg and close run in the processes  *)
(* of both nodes, local_tcp_rcv runs in the interrupt callback of the node *)
(* that receives a message.  They share the tables incoming_conns and      *)
(* conns of their node.                                                    *)
(*                                                                         *)
(* One port is modelled.  ltcp_tcp_v4_connect uses the destination port as *)
(* the local port, and a node has one remote address, so every entry of    *)
(* the port has the same key (lport, rport, rip): a look-up finds the head *)
(* of the list whichever socket it is meant for, and the lists are queues. *)
(* Which connection a socket or a message belongs to is known to the model *)
(* only.  Each direction of the link is the channel of MetaRing.           *)
(***************************************************************************)
EXTENDS Integers, Sequences, FiniteSets, SequencesExt

CONSTANTS
    Nodes,              \* the two nodes
    Clients,            \* the connections, named by the process that connects
    ClientNode,         \* the node of each of them
    Acceptors,          \* processes that call accept on a listening socket
    AcceptorNode,       \* the node of each of them
    MaxData,            \* bound: REGULAR messages written on one socket
    Closers,            \* the sides ("client", "server") that may close
    ClientsStartClosed, \* the state sock_create gives a socket is TCP_CLOSE
    MayGiveUp,          \* accept may end with a signal or its timeout
    MaxErrors,          \* bound: failures of rdma_xmit and of allocations
    RequestResponse     \* the programs behave like the test programs of the module

ASSUME NodesAssumption == IsFiniteSet(Nodes) /\ Cardinality(Nodes) = 2
ASSUME PlacesAssumption ==
    /\ ClientNode \in [Clients -> Nodes]
    /\ AcceptorNode \in [Acceptors -> Nodes]
ASSUME BoundsAssumption ==
    /\ MaxData \in Nat
    /\ Closers \subseteq {"client", "server"}
    /\ MaxErrors \in Nat
    /\ {ClientsStartClosed, MayGiveUp} \subseteq BOOLEAN
    /\ RequestResponse \in BOOLEAN

Sockets == Clients \X {"client", "server"}
NoSocket == <<"none", "none">>

Other(n) == CHOOSE m \in Nodes : m # n
Home(s) == IF s[2] = "client" THEN ClientNode[s[1]] ELSE Other(ClientNode[s[1]])
Peer(s) == <<s[1], IF s[2] = "client" THEN "server" ELSE "client">>

VARIABLES
    chan,      \* chan[n]: the messages on their way to node n, in order
    incoming,  \* incoming_conns[port] of each node, from head to tail
    conns,     \* conns[port] of each node, from head to tail
    listening, \* incoming_conns[port].listening_sock is set
    waiters,   \* the wait queue of the listening socket of each node
    spc,       \* where the program that uses a socket is
    closedSks, \* sockets whose sk_state is TCP_CLOSE
    received,  \* what was put on the sk_receive_queue of a socket, in order
    apc,       \* where an acceptor is in ltcp_inet_csk_accept
    asock,     \* the socket it has taken from incoming
    csock,     \* the socket whose entry ltcp_tcp_close has removed
    hpc,       \* where the interrupt callback of a node is in local_tcp_rcv
    hmsg,      \* the message it handles
    hsock,     \* the socket it works on
    crashed,   \* callbacks that dereferenced a null pointer: node, pointer, message
    written,   \* history: REGULAR messages written on each socket
    lost,      \* history: messages local_tcp_rcv let fall
    wasted,    \* history: nodes where a wake-up went to a process giving up
    errors     \* history: what failed, and for which connection or on which node

tables == <<incoming, conns>>
acceptVars == <<listening, waiters, apc, asock>>
rareVars == <<closedSks, wasted, errors>>
handlerVars == <<hpc, hmsg, hsock, crashed, lost, received>>
programVars == <<spc, csock, written>>
vars == <<chan, tables, acceptVars, handlerVars, programVars, rareVars>>

Msg(type, s, n) == [type |-> type, sock |-> s, n |-> n]
NoMsg == Msg("none", NoSocket, 0)

Up(n) == \A x \in crashed : x.node # n

\* The callback of n uses a null pointer while it handles the message that is next.
Crash(n, null) ==
    crashed' = crashed \cup {[node |-> n, null |-> null, msg |-> Head(chan[n])]}

\* local_tcp_sendmsg_helper: the message is on its way to the other node.
Transmit(s, m) ==
    chan' = [chan EXCEPT ![Other(Home(s))] = Append(@, m)]

\* A call of the kernel or of the adapter returns an error.
Error(kind, where) ==
    /\ Cardinality(errors) < MaxErrors
    /\ errors' = errors \cup {<<kind, where>>}
    /\ UNCHANGED <<closedSks, wasted>>

Init ==
    /\ chan = [n \in Nodes |-> << >>]
    /\ incoming = [n \in Nodes |-> << >>]
    /\ conns = [n \in Nodes |-> << >>]
    /\ listening = [n \in Nodes |-> FALSE]
    /\ waiters = [n \in Nodes |-> << >>]
    /\ spc = [s \in Sockets |-> IF s[2] = "client" THEN "idle" ELSE "absent"]
    /\ closedSks = IF ClientsStartClosed THEN {s \in Sockets : s[2] = "client"} ELSE {}
    /\ received = [s \in Sockets |-> << >>]
    /\ apc = [p \in Acceptors |-> "idle"]
    /\ asock = [p \in Acceptors |-> NoSocket]
    /\ csock = [s \in Sockets |-> NoSocket]
    /\ hpc = [n \in Nodes |-> "idle"]
    /\ hmsg = [n \in Nodes |-> NoMsg]
    /\ hsock = [n \in Nodes |-> NoSocket]
    /\ crashed = {}
    /\ written = [s \in Sockets |-> 0]
    /\ lost = {}
    /\ wasted = {}
    /\ errors = {}

-----------------------------------------------------------------------------
(* ltcp_tcp_v4_connect *)

\* No code of the module or of its programs tests this: the assumption RequestResponse
\* that a program connects when every other connection of the port is closed at both
\* ends, could not be made, or was never begun, as client.c with one server does.
PortFree(c) ==
    \A d \in Clients \ {c} :
        \/ spc[<<d, "client">>] = "idle"
        \/ /\ spc[<<d, "client">>] \in {"closed", "failed"}
           /\ spc[<<d, "server">>] \in {"absent", "closed"}

\* The CONNECT message is sent before the socket is in any table.
SendConnect(c) ==
    LET s == <<c, "client">> IN
    /\ spc[s] = "idle" /\ Up(Home(s))
    /\ RequestResponse => PortFree(c)
    /\ Transmit(s, Msg("CONNECT", s, 0))
    /\ spc' = [spc EXCEPT ![s] = "connecting"]
    /\ UNCHANGED <<tables, acceptVars, handlerVars, csock, written, rareVars>>

\* connect returns an error: a step before the message fails, or rdma_xmit cannot
\* trigger the interrupt for a message it has published.
ConnectFails(c) ==
    LET s == <<c, "client">> IN
    /\ spc[s] = "idle" /\ Up(Home(s))
    /\ RequestResponse => PortFree(c)
    /\ \/ Error("connect", c) /\ UNCHANGED chan
       \/ Error("half-open", c) /\ Transmit(s, Msg("CONNECT", s, 0))
    /\ spc' = [spc EXCEPT ![s] = "failed"]
    /\ UNCHANGED <<tables, acceptVars, handlerVars, csock, written>>

\* add_port_sk(incoming_conns, lport, psk), and connect returns to the program.
AddConnecting(c) ==
    LET s == <<c, "client">> IN
    /\ spc[s] = "connecting" /\ Up(Home(s))
    /\ incoming' = [incoming EXCEPT ![Home(s)] = Append(@, s)]
    /\ spc' = [spc EXCEPT ![s] = "open"]
    /\ UNCHANGED <<chan, conns, acceptVars, handlerVars, csock, written, rareVars>>

-----------------------------------------------------------------------------
(* ltcp_inet_csk_accept and wait_on_connection *)

\* A wait queue without the entry of p, which is on it at most once.
Without(queue, p) ==
    IF Contains(queue, p) THEN RemoveAt(queue, CHOOSE i \in DOMAIN queue : queue[i] = p)
    ELSE queue

AGoto(p, to) == apc' = [apc EXCEPT ![p] = to]

\* With an empty queue the listening socket is registered and the caller waits; if it
\* must not block, nothing happens at all.
AcceptEnter(p) ==
    LET n == AcceptorNode[p] IN
    /\ apc[p] = "idle" /\ Up(n)
    /\ IF incoming[n] = << >>
       THEN /\ listening' = [listening EXCEPT ![n] = TRUE]
            /\ AGoto(p, "prepare")
       ELSE /\ AGoto(p, "take")
            /\ UNCHANGED listening
    /\ UNCHANGED <<chan, tables, waiters, asock, handlerVars, programVars, rareVars>>

\* prepare_to_wait_exclusive: at the tail of the wait queue, unless still on it.
AcceptPrepare(p) ==
    LET n == AcceptorNode[p] IN
    /\ apc[p] = "prepare" /\ Up(n)
    /\ waiters' = IF Contains(waiters[n], p) THEN waiters
                  ELSE [waiters EXCEPT ![n] = Append(@, p)]
    /\ AGoto(p, "check")
    /\ UNCHANGED <<chan, tables, listening, asock, handlerVars, programVars, rareVars>>

\* Mutant of AcceptCheck: the caller sleeps without testing the queue again.
AcceptCheckFirst(p) ==
    LET n == AcceptorNode[p] IN
    /\ apc[p] = "check" /\ Up(n)
    /\ AGoto(p, "asleep")
    /\ UNCHANGED <<chan, tables, listening, waiters, asock, handlerVars, programVars,
                   rareVars>>

\* The queue is tested after the caller is on the wait queue; schedule_timeout
\* returns at once when it was woken since.
AcceptCheck(p) ==
    LET n == AcceptorNode[p] IN
    /\ apc[p] = "check" /\ Up(n)
    /\ AGoto(p, IF incoming[n] = << >> /\ Contains(waiters[n], p)
                THEN "asleep" ELSE "recheck")
    /\ UNCHANGED <<chan, tables, listening, waiters, asock, handlerVars, programVars,
                   rareVars>>

\* A signal, or the end of the timeout: the process runs, and wake_up passes over it.
AcceptInterrupted(p) ==
    LET n == AcceptorNode[p] IN
    /\ apc[p] = "asleep" /\ Up(n) /\ MayGiveUp
    /\ waiters' = [waiters EXCEPT ![n] = Without(@, p)]
    /\ AGoto(p, "interrupted")
    /\ UNCHANGED <<chan, tables, listening, asock, handlerVars, programVars, rareVars>>

\* Mutant of AcceptRecheck: a wake-up is taken for a connection.
AcceptTrustsWakeUp(p) ==
    /\ apc[p] \in {"recheck", "interrupted"} /\ Up(AcceptorNode[p])
    /\ AGoto(p, "finish")
    /\ UNCHANGED <<chan, tables, listening, waiters, asock, handlerVars, programVars,
                   rareVars>>

\* Awake: a connection in the table, or wait again unless a signal is pending.
AcceptRecheck(p) ==
    LET n == AcceptorNode[p] IN
    /\ apc[p] \in {"recheck", "interrupted"} /\ Up(n)
    /\ \/ incoming[n] # << >> /\ AGoto(p, "finish")
       \/ incoming[n] = << >> /\ apc[p] = "recheck" /\ AGoto(p, "prepare")
       \/ incoming[n] = << >> /\ MayGiveUp /\ AGoto(p, "give up")
    /\ UNCHANGED <<chan, tables, listening, waiters, asock, handlerVars, programVars,
                   rareVars>>

\* finish_wait; a process that gives up returns the error.
AcceptFinish(p) ==
    LET n == AcceptorNode[p] IN
    /\ apc[p] \in {"finish", "give up"} /\ Up(n)
    /\ waiters' = [waiters EXCEPT ![n] = Without(@, p)]
    /\ AGoto(p, IF apc[p] = "finish" THEN "take" ELSE "idle")
    /\ UNCHANGED <<chan, tables, listening, asock, handlerVars, programVars, rareVars>>

\* Mutant of AcceptTake: the entry is not removed.
AcceptTakeKeepsEntry(p) ==
    LET n == AcceptorNode[p] IN
    /\ apc[p] = "take" /\ Up(n)
    /\ IF incoming[n] = << >>
       THEN AGoto(p, "failed") /\ UNCHANGED asock
       ELSE asock' = [asock EXCEPT ![p] = Head(incoming[n])] /\ AGoto(p, "add")
    /\ UNCHANGED <<chan, tables, listening, waiters, handlerVars, programVars, rareVars>>

\* put_port_sk(incoming_conns, lport); an empty list makes accept fail.
AcceptTake(p) ==
    LET n == AcceptorNode[p] IN
    /\ apc[p] = "take" /\ Up(n)
    /\ IF incoming[n] = << >>
       THEN /\ AGoto(p, "failed")
            /\ UNCHANGED <<incoming, asock>>
       ELSE /\ asock' = [asock EXCEPT ![p] = Head(incoming[n])]
            /\ incoming' = [incoming EXCEPT ![n] = Tail(@)]
            /\ AGoto(p, "add")
    /\ UNCHANGED <<chan, conns, listening, waiters, handlerVars, programVars, rareVars>>

\* Mutant of AcceptAdd: added back to incoming_conns.
AcceptAddIncoming(p) ==
    LET n == AcceptorNode[p] IN
    /\ apc[p] = "add" /\ Up(n)
    /\ incoming' = [incoming EXCEPT ![n] = Append(@, asock[p])]
    /\ AGoto(p, "notify")
    /\ UNCHANGED <<chan, conns, listening, waiters, asock, handlerVars, programVars,
                   rareVars>>

\* add_port_sk(conns, lport, psk)
AcceptAdd(p) ==
    LET n == AcceptorNode[p] IN
    /\ apc[p] = "add" /\ Up(n)
    /\ conns' = [conns EXCEPT ![n] = Append(@, asock[p])]
    /\ AGoto(p, "notify")
    /\ UNCHANGED <<chan, incoming, listening, waiters, asock, handlerVars, programVars,
                   rareVars>>

\* CONNECT_SUCCESS is sent and the socket is returned to the program, which may
\* call accept again.
AcceptNotify(p) ==
    /\ apc[p] = "notify" /\ Up(AcceptorNode[p])
    /\ Transmit(asock[p], Msg("CONNECT_SUCCESS", asock[p], 0))
    /\ spc' = [spc EXCEPT ![asock[p]] = "open"]
    /\ asock' = [asock EXCEPT ![p] = NoSocket]
    /\ AGoto(p, "idle")
    /\ UNCHANGED <<tables, listening, waiters, handlerVars, csock, written, rareVars>>

\* The interrupt cannot be triggered: accept returns an error, and the connection
\* stays in conns without a program.
AcceptNotifyFails(p) ==
    /\ apc[p] = "notify" /\ Up(AcceptorNode[p])
    /\ Error("orphan", asock[p][1])
    /\ Transmit(asock[p], Msg("CONNECT_SUCCESS", asock[p], 0))
    /\ asock' = [asock EXCEPT ![p] = NoSocket]
    /\ AGoto(p, "idle")
    /\ UNCHANGED <<tables, listening, waiters, handlerVars, spc, csock, written>>

AcceptStep(p) ==
    \/ AcceptPrepare(p) \/ AcceptCheck(p) \/ AcceptRecheck(p) \/ AcceptFinish(p)
    \/ AcceptTake(p) \/ AcceptAdd(p) \/ AcceptNotify(p)

-----------------------------------------------------------------------------
(* local_tcp_sendmsg and ltcp_tcp_close *)

\* Mutant of Write: the ring may be full, and the message is not sent.
WriteDropped(s) ==
    /\ spc[s] = "open" /\ Up(Home(s))
    /\ written[s] < MaxData
    /\ written' = [written EXCEPT ![s] = @ + 1]
    /\ Transmit(s, Msg("REGULAR", s, written[s] + 1)) \/ UNCHANGED chan
    /\ UNCHANGED <<tables, acceptVars, handlerVars, spc, csock, rareVars>>

\* A program writes; nothing tells it how far the connection is set up.  A write
\* that fails before it has published its message changes nothing, and after that
\* it differs from this one in its result only; so does close.
Write(s) ==
    /\ spc[s] = "open" /\ Up(Home(s))
    /\ written[s] < MaxData
    /\ written' = [written EXCEPT ![s] = @ + 1]
    /\ Transmit(s, Msg("REGULAR", s, written[s] + 1))
    /\ UNCHANGED <<tables, acceptVars, handlerVars, spc, csock, rareVars>>

\* A socket in the state TCP_CLOSE is closed without a word.
CloseCheck(s) ==
    /\ spc[s] = "open" /\ Up(Home(s))
    /\ s[2] \in Closers
    /\ RequestResponse /\ s[2] = "client" => received[s] # << >>
    /\ spc' = [spc EXCEPT ![s] = IF s \in closedSks THEN "closed" ELSE "removing"]
    /\ UNCHANGED <<chan, tables, acceptVars, handlerVars, csock, written, rareVars>>

\* Mutant of CloseRemove: the entry is found and not unlinked.
CloseRemoveKeepsEntry(s) ==
    LET n == Home(s) IN
    /\ spc[s] = "removing" /\ Up(n)
    /\ csock' = [csock EXCEPT ![s] = IF conns[n] = << >> THEN @ ELSE Head(conns[n])]
    /\ spc' = [spc EXCEPT ![s] = IF conns[n] = << >> THEN "closed" ELSE "closing"]
    /\ UNCHANGED <<chan, tables, acceptVars, handlerVars, written, rareVars>>

\* remove_port_sk(conns, ...): the first entry with the key of s, or none and the
\* other node is not told.
CloseRemove(s) ==
    LET n == Home(s) IN
    /\ spc[s] = "removing" /\ Up(n)
    /\ IF conns[n] = << >>
       THEN /\ spc' = [spc EXCEPT ![s] = "closed"]
            /\ UNCHANGED <<conns, csock>>
       ELSE /\ csock' = [csock EXCEPT ![s] = Head(conns[n])]
            /\ conns' = [conns EXCEPT ![n] = Tail(@)]
            /\ spc' = [spc EXCEPT ![s] = "closing"]
    /\ UNCHANGED <<chan, incoming, acceptVars, handlerVars, written, rareVars>>

\* CLOSE is sent for the entry that was removed.
CloseSend(s) ==
    /\ spc[s] = "closing" /\ Up(Home(s))
    /\ Transmit(s, Msg("CLOSE", csock[s], 0))
    /\ csock' = [csock EXCEPT ![s] = NoSocket]
    /\ spc' = [spc EXCEPT ![s] = "closed"]
    /\ UNCHANGED <<tables, acceptVars, handlerVars, written, rareVars>>

CloseStep(s) == CloseRemove(s) \/ CloseSend(s)

-----------------------------------------------------------------------------
(* local_tcp_rcv, one message at a time under recv_queue_lock *)

Arrives(n, type) ==
    /\ hpc[n] = "idle" /\ Up(n)
    /\ chan[n] # << >>
    /\ Head(chan[n]).type = type
    /\ chan' = [chan EXCEPT ![n] = Tail(@)]

\* The callback has found what the message needs and goes on with it.
Proceed(n, to, s) ==
    /\ hpc' = [hpc EXCEPT ![n] = to]
    /\ hmsg' = [hmsg EXCEPT ![n] = Head(chan[n])]
    /\ hsock' = [hsock EXCEPT ![n] = s]
    /\ UNCHANGED lost

\* The message has no effect.
LetFall(n) ==
    /\ lost' = lost \cup {Head(chan[n])}
    /\ UNCHANGED <<hpc, hmsg, hsock>>

Finish(n) ==
    /\ hpc' = [hpc EXCEPT ![n] = "idle"]
    /\ hmsg' = [hmsg EXCEPT ![n] = NoMsg]
    /\ hsock' = [hsock EXCEPT ![n] = NoSocket]

\* rdma_recv: the skb for the next message cannot be allocated and is used all the
\* same; local_tcp_rcv is not called.
RcvNoMemory(n) ==
    /\ hpc[n] = "idle" /\ Up(n)
    /\ chan[n] # << >>
    /\ Error("skb", n)
    /\ Crash(n, "skb")
    /\ UNCHANGED <<chan, tables, acceptVars, hpc, hmsg, hsock, lost, received, programVars>>

\* REGULAR: get_port_sk(conns, ...); without an entry the message is discarded.
RcvRegular(n) ==
    /\ Arrives(n, "REGULAR")
    /\ IF conns[n] = << >> THEN LetFall(n)
       ELSE Proceed(n, "queue", Head(conns[n]))
    /\ UNCHANGED <<tables, acceptVars, crashed, received, programVars, rareVars>>

\* local_tcp_do_rcv: the skb is put on the receive queue of the socket.
RcvQueue(n) ==
    /\ hpc[n] = "queue"
    /\ received' = [received EXCEPT ![hsock[n]] = Append(@, hmsg[n])]
    /\ Finish(n)
    /\ UNCHANGED <<chan, tables, acceptVars, crashed, lost, programVars, rareVars>>

\* CONNECT: nobody listens, or the connection exists: the message is ignored.
\* Otherwise the listening socket is cloned for the new connection.
RcvConnect(n) ==
    /\ Arrives(n, "CONNECT")
    /\ LET s == Peer(Head(chan[n]).sock) IN
       IF ~listening[n] \/ conns[n] # << >>
       THEN LetFall(n) /\ UNCHANGED spc
       ELSE Proceed(n, "add", s) /\ spc' = [spc EXCEPT ![s] = "cloned"]
    /\ UNCHANGED <<tables, acceptVars, crashed, received, csock, written, rareVars>>

\* Without memory the clone is a null pointer whose state is set, or the message is
\* let fall when it is the entry of the table that cannot be allocated.
RcvConnectFails(n) ==
    /\ Arrives(n, "CONNECT")
    /\ listening[n] /\ conns[n] = << >>
    /\ \/ /\ Error("clone", Head(chan[n]).sock[1])
          /\ Crash(n, "clone")
          /\ UNCHANGED <<hpc, hmsg, hsock, lost>>
       \/ /\ Error("entry", Head(chan[n]).sock[1])
          /\ LetFall(n) /\ UNCHANGED crashed
    /\ UNCHANGED <<tables, acceptVars, received, programVars>>

\* add_port_sk(incoming_conns, ...)
RcvAdd(n) ==
    /\ hpc[n] = "add"
    /\ incoming' = [incoming EXCEPT ![n] = Append(@, hsock[n])]
    /\ hpc' = [hpc EXCEPT ![n] = "wake"]
    /\ UNCHANGED <<chan, conns, acceptVars, hmsg, hsock, crashed, lost, received,
                   programVars, rareVars>>

\* wake_up_listening_sock: the first exclusive waiter leaves the wait queue.
RcvWake(n) ==
    /\ hpc[n] = "wake"
    /\ IF waiters[n] = << >> THEN UNCHANGED <<waiters, apc>>
       ELSE /\ waiters' = [waiters EXCEPT ![n] = Tail(@)]
            /\ apc' = [apc EXCEPT ![Head(waiters[n])] =
                          IF @ = "asleep" THEN "recheck" ELSE @]
    /\ wasted' = IF waiters[n] # << >> /\ apc[Head(waiters[n])] = "give up"
                 THEN wasted \cup {n} ELSE wasted
    /\ Finish(n)
    /\ UNCHANGED <<chan, tables, listening, asock, crashed, lost, received, programVars,
                   closedSks, errors>>

\* Mutant of RcvClose: the entry is not removed.
RcvCloseKeepsEntry(n) ==
    /\ Arrives(n, "CLOSE")
    /\ IF conns[n] = << >>
       THEN Crash(n, "psk") /\ UNCHANGED <<hpc, hmsg, hsock, lost>>
       ELSE Proceed(n, "close", Head(conns[n])) /\ UNCHANGED crashed
    /\ UNCHANGED <<tables, acceptVars, received, programVars, rareVars>>

\* CLOSE: remove_port_sk(conns, ...), whose result is used before it is tested.
RcvClose(n) ==
    /\ Arrives(n, "CLOSE")
    /\ IF conns[n] = << >>
       THEN /\ Crash(n, "psk")
            /\ UNCHANGED <<conns, hpc, hmsg, hsock, lost>>
       ELSE /\ Proceed(n, "close", Head(conns[n]))
            /\ conns' = [conns EXCEPT ![n] = Tail(@)]
            /\ UNCHANGED crashed
    /\ UNCHANGED <<incoming, acceptVars, received, programVars, rareVars>>

\* inet_sk_set_state(psk->sk, TCP_CLOSE), and the entry is freed.
RcvCloseState(n) ==
    /\ hpc[n] = "close"
    /\ closedSks' = closedSks \cup {hsock[n]}
    /\ Finish(n)
    /\ UNCHANGED <<chan, tables, acceptVars, crashed, lost, received, programVars,
                   wasted, errors>>

\* Mutant of RcvSuccess: a missing entry is moved too.
RcvSuccessAddsNull(n) ==
    /\ Arrives(n, "CONNECT_SUCCESS")
    /\ IF incoming[n] = << >>
       THEN Proceed(n, "move", NoSocket) /\ UNCHANGED incoming
       ELSE /\ Proceed(n, "move", Head(incoming[n]))
            /\ incoming' = [incoming EXCEPT ![n] = Tail(@)]
    /\ UNCHANGED <<conns, acceptVars, crashed, received, programVars, rareVars>>

\* CONNECT_SUCCESS: remove_port_sk(incoming_conns, ...); add_port_sk ignores a
\* null pointer.
RcvSuccess(n) ==
    /\ Arrives(n, "CONNECT_SUCCESS")
    /\ IF incoming[n] = << >>
       THEN LetFall(n) /\ UNCHANGED incoming
       ELSE /\ Proceed(n, "move", Head(incoming[n]))
            /\ incoming' = [incoming EXCEPT ![n] = Tail(@)]
    /\ UNCHANGED <<conns, acceptVars, crashed, received, programVars, rareVars>>

\* Mutant of RcvMove: moved back to incoming_conns.
RcvMoveBack(n) ==
    /\ hpc[n] = "move"
    /\ incoming' = [incoming EXCEPT ![n] = Append(@, hsock[n])]
    /\ Finish(n)
    /\ UNCHANGED <<chan, conns, acceptVars, crashed, lost, received, programVars,
                   rareVars>>

\* add_port_sk(conns, ...)
RcvMove(n) ==
    /\ hpc[n] = "move"
    /\ conns' = [conns EXCEPT ![n] = Append(@, hsock[n])]
    /\ Finish(n)
    /\ UNCHANGED <<chan, incoming, acceptVars, crashed, lost, received, programVars,
                   rareVars>>

RcvStep(n) ==
    \/ RcvRegular(n) \/ RcvQueue(n) \/ RcvConnect(n) \/ RcvConnectFails(n) \/ RcvAdd(n) \/ RcvWake(n)
    \/ RcvClose(n) \/ RcvCloseState(n) \/ RcvSuccess(n) \/ RcvMove(n) \/ RcvNoMemory(n)

-----------------------------------------------------------------------------
Next ==
    \/ \E c \in Clients : SendConnect(c) \/ ConnectFails(c) \/ AddConnecting(c)
    \/ \E p \in Acceptors :
          AcceptEnter(p) \/ AcceptInterrupted(p) \/ AcceptStep(p) \/ AcceptNotifyFails(p)
    \/ \E s \in Sockets : Write(s) \/ CloseCheck(s) \/ CloseStep(s)
    \/ \E n \in Nodes : RcvStep(n)

Spec == Init /\ [][Next]_vars

\* Kernel code runs on: a process inside accept, connect or close, and the
\* interrupt callback.  Programs need not call, write or close.
Fairness ==
    /\ \A p \in Acceptors : WF_vars(AcceptStep(p))
    /\ \A n \in Nodes : WF_vars(RcvStep(n))
    /\ \A c \in Clients : WF_vars(AddConnecting(c))
    /\ \A s \in Sockets : WF_vars(CloseStep(s))

FairSpec == Spec /\ Fairness

-----------------------------------------------------------------------------
(* Properties *)

AcceptStates == {"idle", "prepare", "check", "asleep", "interrupted", "recheck", "finish",
                 "give up", "take", "add", "notify", "failed"}
Messages == [type : {"none", "REGULAR", "CONNECT", "CLOSE", "CONNECT_SUCCESS"},
             sock : Sockets \cup {NoSocket}, n : 0 .. MaxData]
Crashes == [node : Nodes, null : {"skb", "clone", "psk"}, msg : Messages]
Failures == ({"connect", "half-open", "orphan", "clone", "entry"} \X Clients) \cup ({"skb"} \X Nodes)

TypeOK ==
    /\ chan \in [Nodes -> Seq(Messages)]
    /\ incoming \in [Nodes -> Seq(Sockets)]
    /\ conns \in [Nodes -> Seq(Sockets)]
    /\ listening \in [Nodes -> BOOLEAN]
    /\ waiters \in [Nodes -> Seq(Acceptors)]
    /\ spc \in [Sockets -> {"idle", "connecting", "absent", "cloned", "open",
                            "removing", "closing", "closed", "failed"}]
    /\ closedSks \subseteq Sockets
    /\ received \in [Sockets -> Seq(Messages)]
    /\ apc \in [Acceptors -> AcceptStates]
    /\ asock \in [Acceptors -> Sockets \cup {NoSocket}]
    /\ csock \in [Sockets -> Sockets \cup {NoSocket}]
    /\ hpc \in [Nodes -> {"idle", "queue", "add", "wake", "close", "move"}]
    /\ hmsg \in [Nodes -> Messages]
    /\ hsock \in [Nodes -> Sockets \cup {NoSocket}]
    /\ crashed \subseteq Crashes
    /\ written \in [Sockets -> 0 .. MaxData]
    /\ lost \subseteq Messages
    /\ wasted \subseteq Nodes
    /\ errors \subseteq Failures

\* The entry a process or a callback carries from one table to another.
Carried(x) ==
    \/ \E p \in Acceptors : apc[p] = "add" /\ asock[p] = x
    \/ \E n \in Nodes : hpc[n] \in {"add", "move"} /\ hsock[n] = x

\* A port_sk has one pair of link pointers: it is in at most one list, once, and
\* in none while it is carried from incoming_conns to conns; no two processes
\* carry the same one, whatever accept, connect, close and callbacks do.
OneTable ==
    /\ \A n \in Nodes :
          /\ IsInjective(incoming[n]) /\ IsInjective(conns[n])
          /\ ToSet(incoming[n]) \cap ToSet(conns[n]) = {}
          /\ \A x \in ToSet(incoming[n]) \cup ToSet(conns[n]) : ~Carried(x)
    /\ \A p, q \in Acceptors :
          apc[p] = "add" /\ apc[q] = "add" /\ asock[p] = asock[q] => p = q

\* A connect returned an error for a connection that the other node makes.
HalfOpen == \E e \in errors : e[1] = "half-open"

\* A message reaches the socket connected to the one it was written on, although
\* every connection of the port has the same key, unless a connect that reported an
\* error had sent its message.
NoCrossTalk == ~HalfOpen =>
    \A s \in Sockets : \A i \in DOMAIN received[s] : received[s][i].sock = Peer(s)

\* What a socket receives has no hole: local_tcp_rcv discards what is written
\* before the connection is in conns and after it has left, nothing between.
Gapless == ~HalfOpen =>
    \A s \in Sockets : \A i \in 1 .. Len(received[s]) - 1 :
        received[s][i + 1].n = received[s][i].n + 1

\* The confirmation of c came before connect had put the socket in incoming_conns.
SuccessLost(c) == \E m \in lost : m.type = "CONNECT_SUCCESS" /\ m.sock[1] = c

\* The program of s has called close.
Closing(s) == spc[s] \in {"removing", "closing", "closed"}

\* What the accepting side writes is only discarded when the confirmation of that
\* connection was lost, its connecting side has closed, or some connection is half-open.
AnswersArrive == ~HalfOpen =>
    \A m \in lost :
        m.type = "REGULAR" /\ m.sock[2] = "server" =>
            SuccessLost(m.sock[1]) \/ Closing(Peer(m.sock))

\* The callback meets a null pointer when the skb of the message or the clone for its
\* CONNECT could not be allocated.  The entry that its CLOSE is for is only missing
\* when the confirmation of that same connection was lost or both its ends have called
\* close, unless some connection is half-open.
CrashCauses == ~HalfOpen =>
    \A x \in crashed : LET c == x.msg.sock[1] IN
        \/ x.null = "skb" /\ <<"skb", x.node>> \in errors
        \/ x.null = "clone" /\ <<"clone", c>> \in errors
        \/ /\ x.null = "psk" /\ x.msg.type = "CLOSE"
           /\ SuccessLost(c) \/ (Closing(<<c, "client">>) /\ Closing(<<c, "server">>))

\* The comment of RcvAdd: a connection is set up "right away to avoid issues where
\* regular packets are handled before accept is called".
EarlyDataKept ==
    \A m \in lost : m.type = "REGULAR" => spc[Peer(m.sock)] # "cloned"

\* The handler of CLOSE expects that the connection may be unknown: if(psk).
NoCrash == crashed = {}

\* The comment in accept, on a connection that is gone after the wait: "want to see
\* that is never actually happens".  It does not with one process in accept.
AcceptFindsConnection ==
    (\A p, q \in Acceptors : p = q) => \A p \in Acceptors : apc[p] # "failed"

\* A connection at the head of the accept queue is taken when a process is in
\* accept that has not taken another one, unless the wake-up for a connection went to
\* a process that had decided to give up and was still on the wait queue.
HeadIsTaken ==
    \A n \in Nodes : \A c \in Clients :
        LET s == <<c, "server">>
            AtHead == incoming[n] # << >> /\ Head(incoming[n]) = s
            Seeking == \E p \in Acceptors :
                          /\ AcceptorNode[p] = n
                          /\ apc[p] \in {"prepare", "check", "asleep", "interrupted",
                                         "recheck", "finish", "take"}
        IN  AtHead /\ Seeking /\ Up(n) ~> ~AtHead \/ ~Up(n) \/ n \in wasted
=============================================================================
