------------------------------- MODULE Setup --------------------------------
(***************************************************************************)
(* Loading and removing the module on both nodes: init, daemon_setup, the  *)
(* setup_*_queue functions and cleanup of rdma/rdma_daemon.c, with the     *)
(* registration of the protocol in ltcp/local_tcp_protocol.c.  A node      *)
(* offers its ring and its aperture, sleeps to give the other node time to *)
(* start, and connects to what that node offers.  The hooks of tcp_prot    *)
(* are in place from the first step on, so programs may use them early.    *)
(***************************************************************************)
EXTENDS Integers, FiniteSets

CONSTANTS
    Nodes,    \* the two nodes
    MaxLoads, \* bound: how often the module is loaded, on both nodes together
    MaxSends, \* bound: messages sent, by both nodes together
    MayFail   \* calls of the kernel and of the adapter may return an error

ASSUME NodesAssumption == IsFiniteSet(Nodes) /\ Cardinality(Nodes) = 2
ASSUME LimitsAssumption == MaxLoads \in Nat /\ MaxSends \in Nat /\ MayFail \in BOOLEAN

VARIABLES
    pc,      \* where init or cleanup of the node is, or why its kernel has stopped
    have,    \* what the node has registered and offers
    segment, \* the segment of the other node it connects to
    sem,     \* the count of client_semaphore
    asked,   \* the callback of sci_connect_segment is due
    err,     \* callback_error
    loads,   \* how often the module was loaded, which names the present one
    mapped,  \* send_queue: the loading of the other node whose ring it is, or 0
    rih,     \* the loading whose interrupt it triggers, 0 for none, Wrong for another
    ring,    \* messages between start and end of the node's own ring
    irq,     \* interrupt_callback is due, or has not returned
    sends,   \* messages sent
    late,    \* history: the other node was not there when the sleep ended
    stalled, \* history: the messages in the node's ring are behind a trigger that
             \* failed or a message that local_tcp_rcv refused
    misused, \* history: a socket was used before or after the link was up
    erased   \* history: a message was written where nobody will read it

loadVars == <<pc, have, segment, sem, asked, err, loads, late>>
linkVars == <<mapped, rih>>
msgVars == <<ring, irq, sends, stalled, misused, erased>>
vars == <<loadVars, linkVars, msgVars>>

Peer(n) == CHOOSE m \in Nodes : m # n
Wrong == -1

Init ==
    /\ pc = [n \in Nodes |-> "unloaded"]
    /\ have = [n \in Nodes |-> {}]
    /\ segment = [n \in Nodes |-> "ring"]
    /\ sem = [n \in Nodes |-> 1]
    /\ asked = [n \in Nodes |-> FALSE]
    /\ err = [n \in Nodes |-> FALSE]
    /\ loads = [n \in Nodes |-> 0]
    /\ mapped = [n \in Nodes |-> 0]
    /\ rih = [n \in Nodes |-> 0]
    /\ ring = [n \in Nodes |-> 0]
    /\ irq = [n \in Nodes |-> FALSE]
    /\ sends = 0
    /\ stalled = [n \in Nodes |-> FALSE]
    /\ late = [n \in Nodes |-> FALSE]
    /\ misused = FALSE
    /\ erased = FALSE

\* A null send_queue, a list without the entry to remove, a stack written over, no
\* memory for the skb of a message.
Oops == {"oops send_queue", "oops unregister", "oops stack", "oops skb"}
Alive(n) == pc[n] \notin Oops

Goto(n, label) == pc' = [pc EXCEPT ![n] = label]

\* An error of a call that init makes itself ends in cleanup.
Fails(n) == MayFail /\ Goto(n, "cleanup")

-----------------------------------------------------------------------------
(* init: what the node offers *)

\* Where a node is that has slept and goes by what the other one offered then.
Connecting == {"connect", "wait", "map", "interrupt", "ready"}

\* insmod
Load(n) ==
    /\ pc[n] = "unloaded" /\ loads[n] + loads[Peer(n)] < MaxLoads
    /\ loads' = [loads EXCEPT ![n] = @ + 1]
    /\ late' = [late EXCEPT ![Peer(n)] = @ \/ pc[Peer(n)] \in Connecting]
    /\ Goto(n, "register")
    /\ UNCHANGED <<have, segment, sem, asked, err, linkVars, msgVars>>

\* local_tcp_module_init_function sets the hooks whatever became of the
\* registration, which stops at its first error.
Register(n) ==
    /\ pc[n] = "register"
    /\ \E done \in {{"proto", "sockets"}}
                   \cup IF MayFail THEN {{}, {"proto"}} ELSE {} :
          have' = [have EXCEPT ![n] = {"hooks"} \cup done]
    /\ Goto(n, "export")
    /\ UNCHANGED <<segment, sem, asked, err, loads, late, linkVars, msgVars>>

Offer(n, label, thing, next) ==
    /\ pc[n] = label
    /\ \/ have' = [have EXCEPT ![n] = @ \cup {thing}] /\ Goto(n, next)
       \/ Fails(n) /\ UNCHANGED have
    /\ UNCHANGED <<segment, sem, asked, err, loads, late, linkVars, msgVars>>

\* From sci_export_segment on the other node can connect.
ExportRing(n) == Offer(n, "export", "segment", "zero")

\* start and end are set to zero behind it.
ZeroIndices(n) ==
    /\ pc[n] = "zero"
    /\ ring' = [ring EXCEPT ![n] = 0]
    /\ erased' = (erased \/ ring[n] > 0)
    /\ stalled' = [stalled EXCEPT ![n] = FALSE]
    /\ Goto(n, "flag")
    /\ UNCHANGED <<have, segment, sem, asked, err, loads, late, linkVars,
                   irq, sends, misused>>

\* sci_allocate_interrupt_flag; the number of the flag is written to the ring.
PublishNumber(n) == Offer(n, "flag", "number", "aperture")

OfferAperture(n) == Offer(n, "aperture", "aperture", "asleep")

\* The end of msleep(20000), whatever the other node has done in that time.
Wake(n) ==
    /\ pc[n] = "asleep"
    /\ late' = [late EXCEPT ![n] = "aperture" \notin have[Peer(n)]]
    /\ Goto(n, "connect")
    /\ UNCHANGED <<have, segment, sem, asked, err, loads, linkVars, msgVars>>

-----------------------------------------------------------------------------
(* init: connecting to the ring and then to the aperture of the other node *)

\* callback_error is zero; down(&client_semaphore) and sci_connect_segment
Connect(n) ==
    /\ pc[n] = "connect" /\ sem[n] > 0
    /\ sem' = [sem EXCEPT ![n] = @ - 1]
    /\ err' = [err EXCEPT ![n] = FALSE]
    /\ \/ asked' = [asked EXCEPT ![n] = TRUE] /\ Goto(n, "wait")
       \/ Fails(n) /\ UNCHANGED asked
    /\ UNCHANGED <<have, segment, loads, late, linkVars, msgVars>>

Offered(n) ==
    (IF segment[n] = "ring" THEN "segment" ELSE "aperture") \in have[Peer(n)]

\* client_segment_callback: a bad status is stored where callback_error was, which
\* after a timeout is the stack of another function.
Callback(n) ==
    /\ asked[n] /\ Alive(n)
    /\ asked' = [asked EXCEPT ![n] = FALSE]
    /\ sem' = [sem EXCEPT ![n] = @ + 1]
    /\ \/ Offered(n) /\ UNCHANGED <<err, pc>>
       \/ /\ ~Offered(n) \/ MayFail
          /\ \/ pc[n] = "wait" /\ err' = [err EXCEPT ![n] = TRUE] /\ UNCHANGED pc
             \/ pc[n] # "wait" /\ (UNCHANGED pc \/ Goto(n, "oops stack")) /\ UNCHANGED err
    /\ UNCHANGED <<have, segment, loads, late, linkVars, msgVars>>

\* Mutant of Connected: success without up.
ConnectedWithoutUp(n) ==
    /\ pc[n] = "wait" /\ sem[n] > 0
    /\ sem' = [sem EXCEPT ![n] = @ - 1]
    /\ err' = [err EXCEPT ![n] = FALSE]
    /\ Goto(n, IF err[n] THEN "cleanup" ELSE IF segment[n] = "ring" THEN "map" ELSE "ready")
    /\ UNCHANGED <<have, segment, asked, loads, late, linkVars, msgVars>>

\* down_timeout(&client_semaphore, SEMAPHORE_TIMEOUT), then callback_error and up,
\* but no up after an error
Connected(n) ==
    /\ pc[n] = "wait" /\ sem[n] > 0
    /\ err' = [err EXCEPT ![n] = FALSE]
    /\ IF err[n]
       THEN sem' = [sem EXCEPT ![n] = @ - 1] /\ Goto(n, "cleanup")
       ELSE Goto(n, IF segment[n] = "ring" THEN "map" ELSE "ready") /\ UNCHANGED sem
    /\ UNCHANGED <<have, segment, asked, loads, late, linkVars, msgVars>>

TimeOut(n) ==
    /\ pc[n] = "wait" /\ sem[n] = 0
    /\ Goto(n, "cleanup")
    /\ UNCHANGED <<have, segment, sem, asked, err, loads, late, linkVars, msgVars>>

\* Mutant of Map: its error is not looked at.
MapUnchecked(n) ==
    /\ pc[n] = "map"
    /\ \/ mapped' = [mapped EXCEPT ![n] = loads[Peer(n)]]
       \/ MayFail /\ UNCHANGED mapped
    /\ Goto(n, "interrupt")
    /\ UNCHANGED <<have, segment, sem, asked, err, loads, late, rih, msgVars>>

\* sci_map_segment gives send_queue its value.
Map(n) ==
    /\ pc[n] = "map"
    /\ \/ mapped' = [mapped EXCEPT ![n] = loads[Peer(n)]] /\ Goto(n, "interrupt")
       \/ Fails(n) /\ UNCHANGED mapped
    /\ UNCHANGED <<have, segment, sem, asked, err, loads, late, rih, msgVars>>

\* The loading of the other node whose ring is mapped is the one that runs there.
Live(n) == mapped[n] = loads[Peer(n)] /\ "segment" \in have[Peer(n)]
Numbered(n) == Live(n) /\ "number" \in have[Peer(n)]

\* Mutant of ConnectInterrupt: the int_no of the node's own ring.
ConnectInterruptOwn(n) ==
    /\ pc[n] = "interrupt"
    /\ \/ /\ rih' = [rih EXCEPT ![n] = Wrong]
          /\ segment' = [segment EXCEPT ![n] = "aperture"]
          /\ Goto(n, "connect")
       \/ Fails(n) /\ UNCHANGED <<rih, segment>>
    /\ UNCHANGED <<have, sem, asked, err, loads, late, mapped, msgVars>>

\* sci_connect_interrupt_flag with the int_no found in the ring, garbage before
\* the other node has written it.
ConnectInterrupt(n) ==
    /\ pc[n] = "interrupt"
    /\ \/ /\ rih' = [rih EXCEPT ![n] = IF Numbered(n) THEN mapped[n] ELSE Wrong]
          /\ segment' = [segment EXCEPT ![n] = "aperture"]
          /\ Goto(n, "connect")
       \/ Fails(n) /\ UNCHANGED <<rih, segment>>
    /\ UNCHANGED <<have, sem, asked, err, loads, late, mapped, msgVars>>

\* cleanup: proto_unregister of a protocol that was never registered takes it off a
\* list it is not on; sci_unbind takes back what the node offers and ends callbacks.
\* With the module its data is gone: the next insmod finds it as it was compiled.
CleanUp(n) ==
    /\ pc[n] = "cleanup"
    /\ IF "proto" \notin have[n]
       THEN /\ Goto(n, "oops unregister")
            /\ UNCHANGED <<have, segment, sem, asked, late, linkVars, ring, irq, stalled>>
       ELSE /\ have' = [have EXCEPT ![n] = {}]
            /\ asked' = [asked EXCEPT ![n] = FALSE]
            /\ segment' = [segment EXCEPT ![n] = "ring"]
            /\ sem' = [sem EXCEPT ![n] = 1]
            /\ late' = [late EXCEPT ![n] = FALSE]
            /\ mapped' = [mapped EXCEPT ![n] = 0]
            /\ rih' = [rih EXCEPT ![n] = 0]
            /\ ring' = [ring EXCEPT ![n] = 0]
            /\ irq' = [irq EXCEPT ![n] = FALSE]
            /\ stalled' = [stalled EXCEPT ![n] = FALSE]
            /\ Goto(n, "unloaded")
    /\ UNCHANGED <<err, loads, sends, misused, erased>>

\* rmmod
Remove(n) ==
    /\ pc[n] = "ready"
    /\ Goto(n, "cleanup")
    /\ UNCHANGED <<have, segment, sem, asked, err, loads, late, linkVars, msgVars>>

-----------------------------------------------------------------------------
(* Programs and the messages they cause *)

\* Both nodes are loaded, each before the sleep of the other one was over.
LinkUp == \A n \in Nodes : pc[n] = "ready" /\ ~late[n]

\* sci_trigger_interrupt: the other node is told if the interrupt is one it offers.
\* After an error the message stays published: end has moved already.
Trigger(n) ==
    \/ /\ rih[n] = loads[Peer(n)] /\ "number" \in have[Peer(n)]
       /\ irq' = [irq EXCEPT ![Peer(n)] = TRUE]
       /\ stalled' = [stalled EXCEPT ![Peer(n)] = FALSE]
    \/ /\ ~(rih[n] = loads[Peer(n)] /\ "number" \in have[Peer(n)])
       /\ UNCHANGED <<irq, stalled>>
    \/ /\ MayFail
       /\ stalled' = [stalled EXCEPT ![Peer(n)] = TRUE]
       /\ UNCHANGED irq

\* A program connects, accepts, writes or closes, and rdma_xmit sends its message
\* into a ring that is inside its window; without send_queue it dereferences a null
\* pointer.
Send(n) ==
    /\ Alive(n) /\ {"hooks", "sockets"} \subseteq have[n]
    /\ sends < MaxSends
    /\ sends' = sends + 1
    /\ misused' = (misused \/ ~LinkUp)
    /\ \/ /\ mapped[n] = 0
          /\ Goto(n, "oops send_queue")
          /\ UNCHANGED <<ring, irq, stalled, erased>>
       \/ /\ mapped[n] # 0
          /\ ring' = IF Live(n) THEN [ring EXCEPT ![Peer(n)] = @ + 1] ELSE ring
          /\ erased' = (erased \/ ~Live(n))
          /\ Trigger(n)
          /\ UNCHANGED pc
    /\ UNCHANGED <<have, segment, sem, asked, err, loads, late, linkVars>>

\* interrupt_callback empties the ring, up to a message that local_tcp_rcv refuses:
\* the ones behind it wait for the next interrupt.
Interrupt(n) ==
    /\ irq[n] /\ Alive(n)
    /\ irq' = [irq EXCEPT ![n] = FALSE]
    /\ \E left \in {0} \cup IF MayFail THEN 0 .. ring[n] - 1 ELSE {} :
          /\ ring' = [ring EXCEPT ![n] = left]
          /\ stalled' = [stalled EXCEPT ![n] = left > 0]
    /\ UNCHANGED <<loadVars, linkVars, sends, misused, erased>>

\* alloc_skb returns NULL to interrupt_callback, which does not test it.
InterruptNoMemory(n) ==
    /\ irq[n] /\ Alive(n) /\ MayFail /\ ring[n] > 0
    /\ Goto(n, "oops skb")
    /\ UNCHANGED <<have, segment, sem, asked, err, loads, late, linkVars, msgVars>>

-----------------------------------------------------------------------------
\* The steps of init and cleanup on one node.
LoadStep(n) ==
    \/ Register(n) \/ ExportRing(n) \/ ZeroIndices(n) \/ PublishNumber(n)
    \/ OfferAperture(n) \/ Wake(n) \/ Connect(n) \/ Connected(n) \/ TimeOut(n)
    \/ Map(n) \/ ConnectInterrupt(n) \/ CleanUp(n)

Next ==
    \E n \in Nodes :
        \/ Load(n) \/ LoadStep(n) \/ Callback(n) \/ Remove(n)
        \/ Send(n) \/ Interrupt(n) \/ InterruptNoMemory(n)

Spec == Init /\ [][Next]_vars

\* insmod runs on: every call it makes returns, and a wait ends with the callback or
\* with its timeout.  The callback, the programs and the interrupts may never come.
FairSpec == Spec /\ \A n \in Nodes : WF_vars(LoadStep(n))

-----------------------------------------------------------------------------
(* Properties *)

\* A node that says it is ready is linked to the loading that runs on the other
\* node, with the right interrupt and the semaphore free for recvmsg, provided the
\* other node had its side ready when the sleep was over and still has.
LinkWorks ==
    \A n \in Nodes :
        pc[n] = "ready" /\ ~late[n] /\ "number" \in have[Peer(n)] =>
            /\ mapped[n] = loads[Peer(n)]
            /\ rih[n] = loads[Peer(n)]
            /\ sem[n] = 1 /\ ~asked[n]

\* Programs that use their sockets only while both nodes are ready, each in time for
\* the other, meet no null send_queue; no message of theirs is written where nobody
\* will read it or zeroed by a set-up; and each message in the ring has an
\* interrupt to come, except behind a trigger that failed or a message that
\* local_tcp_rcv refused.  Removing the module empties the ring.
ProperUseIsSafe ==
    ~misused =>
        /\ \A n \in Nodes : pc[n] # "oops send_queue"
        /\ ~erased
        /\ \A n \in Nodes : ring[n] > 0 => irq[n] \/ stalled[n]

\* insmod returns, with the link up or everything taken back, unless the kernel of
\* the node stops: the semaphore that is lock and signal never blocks it for ever.
LoadEnds ==
    \A n \in Nodes :
        pc[n] = "register" ~> pc[n] \in {"ready", "unloaded"} \/ ~Alive(n)
=============================================================================
