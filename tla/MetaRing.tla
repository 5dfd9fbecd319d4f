------------------------------ MODULE MetaRing ------------------------------
(***************************************************************************)
(* One direction of the metadata ring of rdma/rdma_daemon.c: the struct    *)
(* ltcp_ring_queue that lives in the memory of the receiving node and is   *)
(* written by the sending node over the PCIe window.  The senders are the  *)
(* processes that run rdma_xmit at the same time (sendmsg, connect, accept *)
(* and close of different sockets); the receiver is the interrupt callback *)
(* that runs rdma_recv under recv_queue_lock.                              *)
(*                                                                         *)
(* A message is its number in the order in which the slots were filled: 0  *)
(* stands for the contents of a slot that was never filled.                *)
(***************************************************************************)
EXTENDS Integers, Sequences, FiniteSets

CONSTANTS
    Size,           \* LTCP_MSG_QUEUE_SIZE, the number of slots
    Senders,        \* the processes that may run rdma_xmit
    MaxInFlight,    \* how many messages the programs leave unreceived
    MaxSent,        \* bound: calls of rdma_xmit in one behaviour
    Coalesce,       \* TRUE: a trigger that finds one pending is merged with it
    TriggerMayFail, \* TRUE: sci_trigger_interrupt may return an error
    Outcomes        \* what local_tcp_rcv may do with a message

ASSUME SizeAssumption == Size \in Nat /\ Size >= 3
ASSUME SendersAssumption == IsFiniteSet(Senders)
ASSUME BoundsAssumption == MaxInFlight \in Nat /\ MaxSent \in Nat
ASSUME FlagsAssumption ==
    /\ Coalesce \in BOOLEAN
    /\ TriggerMayFail \in BOOLEAN
    /\ Outcomes \subseteq {"queued", "handled", "error"}

VARIABLES
    start,      \* rq->start, advanced by the receiver
    end,        \* rq->end, advanced by the senders
    queue,      \* rq->queue, slot by slot
    sendLock,   \* send_queue_lock is held
    spc,        \* where each sender is in rdma_xmit
    slot,       \* the index of the slot get_free_metamessage returned
    tmp,        \* the value of end a sender loaded for end++
    irq,        \* interrupt callbacks triggered and not yet started
    rpc,        \* where the receiver is in rdma_recv
    rslot,      \* the index of the slot ltcp_msg points to
    held,       \* the skbs on sockets that still point into the ring
    begun, dropped, filled, \* history: calls begun, dropped, slots filled
    rcvd        \* history: the messages handed to local_tcp_rcv, in order

ringVars == <<start, end, queue>>
senderVars == <<sendLock, spc, slot, tmp>>
receiverVars == <<rpc, rslot, held, rcvd>>
countVars == <<begun, dropped, filled>>
vars == <<ringVars, senderVars, receiverVars, countVars, irq>>

Slots == 0 .. Size - 1

\* The statements of rdma_xmit between which other processes can be seen.
SenderStates == {"idle", "lock", "alloc", "full", "fill", "wrap", "load",
                 "store", "trigger", "unlock"}

\* A sender that works on the ring: from spin_lock to its last spin_unlock.
CriticalStates == SenderStates \ {"idle", "lock"}

InFlight == begun - Len(rcvd) - dropped

Init ==
    /\ start = 0 /\ end = 0
    /\ queue = [i \in Slots |-> 0]
    /\ sendLock = FALSE
    /\ spc = [s \in Senders |-> "idle"]
    /\ slot = [s \in Senders |-> 0]
    /\ tmp = [s \in Senders |-> 0]
    /\ irq = 0
    /\ rpc = "idle" /\ rslot = 0 /\ held = {} /\ rcvd = << >>
    /\ begun = 0 /\ dropped = 0 /\ filled = 0

Goto(s, to) == spc' = [spc EXCEPT ![s] = to]

-----------------------------------------------------------------------------
(* rdma_xmit *)

\* A process calls rdma_xmit.  The window is a fact about the programs that use
\* the link (each waits for an answer), nothing in the code enforces it.
Begin(s) ==
    /\ spc[s] = "idle"
    /\ begun < MaxSent
    /\ InFlight < MaxInFlight
    /\ begun' = begun + 1
    /\ Goto(s, "lock")
    /\ UNCHANGED <<ringVars, sendLock, slot, tmp, receiverVars, dropped, filled, irq>>

\* Mutant of Acquire: the lock is not tested.
AcquireWithoutTest(s) ==
    /\ spc[s] = "lock"
    /\ sendLock' = TRUE
    /\ Goto(s, "alloc")
    /\ UNCHANGED <<ringVars, slot, tmp, receiverVars, countVars, irq>>

\* spin_lock(&send_queue_lock)
Acquire(s) ==
    /\ spc[s] = "lock"
    /\ ~sendLock
    /\ sendLock' = TRUE
    /\ Goto(s, "alloc")
    /\ UNCHANGED <<ringVars, slot, tmp, receiverVars, countVars, irq>>

\* get_free_metamessage: the slot at end, after wrapping end past the last slot.
Alloc(s) ==
    /\ spc[s] = "alloc"
    /\ IF end + 1 = start
       THEN Goto(s, "full") /\ UNCHANGED <<end, slot>>
       ELSE /\ end' = IF end + 1 = Size THEN 0 ELSE end
            /\ slot' = [slot EXCEPT ![s] = end']
            /\ Goto(s, "fill")
    /\ UNCHANGED <<start, queue, sendLock, tmp, receiverVars, countVars, irq>>

\* The ring is full: the message is dropped and the lock released, but control
\* goes on to the publication below.
DropUnlock(s) ==
    /\ spc[s] = "full"
    /\ sendLock' = FALSE
    /\ dropped' = dropped + 1
    /\ Goto(s, "wrap")
    /\ UNCHANGED <<ringVars, slot, tmp, receiverVars, begun, filled, irq>>

\* Mutant of Fill: the slot behind the one that was allocated.
FillNextSlot(s) ==
    /\ spc[s] = "fill"
    /\ filled' = filled + 1
    /\ queue' = [i \in Slots |-> IF i = slot[s] + 1 THEN filled + 1 ELSE queue[i]]
    /\ Goto(s, "wrap")
    /\ UNCHANGED <<start, end, sendLock, slot, tmp, receiverVars, begun, dropped, irq>>

\* The fields of the slot are written.  An index past the array changes memory
\* behind the ring and no slot.
Fill(s) ==
    /\ spc[s] = "fill"
    /\ filled' = filled + 1
    /\ queue' = [i \in Slots |-> IF i = slot[s] THEN filled + 1 ELSE queue[i]]
    /\ Goto(s, "wrap")
    /\ UNCHANGED <<start, end, sendLock, slot, tmp, receiverVars, begun, dropped, irq>>

\* if(send_queue->end+1 == LTCP_MSG_QUEUE_SIZE) send_queue->end = 0
Wrap(s) ==
    /\ spc[s] = "wrap"
    /\ end' = IF end + 1 = Size THEN 0 ELSE end
    /\ Goto(s, "load")
    /\ UNCHANGED <<start, queue, sendLock, slot, tmp, receiverVars, countVars, irq>>

\* send_queue->end++ is a load and a store of the mapped word.
Load(s) ==
    /\ spc[s] = "load"
    /\ tmp' = [tmp EXCEPT ![s] = end]
    /\ Goto(s, "store")
    /\ UNCHANGED <<ringVars, sendLock, slot, receiverVars, countVars, irq>>

Store(s) ==
    /\ spc[s] = "store"
    /\ end' = tmp[s] + 1
    /\ Goto(s, "trigger")
    /\ UNCHANGED <<start, queue, sendLock, slot, tmp, receiverVars, countVars, irq>>

\* Mutant of Trigger: a failed trigger returns before spin_unlock.
TriggerFailsLocked(s) ==
    /\ spc[s] = "trigger"
    /\ \/ /\ irq' = IF Coalesce THEN 1 ELSE irq + 1
          /\ Goto(s, "unlock")
       \/ TriggerMayFail /\ UNCHANGED irq /\ Goto(s, "idle")
    /\ UNCHANGED <<ringVars, sendLock, slot, tmp, receiverVars, countVars>>

\* sci_trigger_interrupt; both its success and its failure lead to spin_unlock.
Trigger(s) ==
    /\ spc[s] = "trigger"
    /\ \/ irq' = IF Coalesce THEN 1 ELSE irq + 1
       \/ TriggerMayFail /\ UNCHANGED irq
    /\ Goto(s, "unlock")
    /\ UNCHANGED <<ringVars, sendLock, slot, tmp, receiverVars, countVars>>

\* spin_unlock(&send_queue_lock), whoever holds it, and return.
Unlock(s) ==
    /\ spc[s] = "unlock"
    /\ sendLock' = FALSE
    /\ Goto(s, "idle")
    /\ UNCHANGED <<ringVars, slot, tmp, receiverVars, countVars, irq>>

SenderStep(s) ==
    \/ Acquire(s) \/ Alloc(s) \/ DropUnlock(s) \/ Fill(s) \/ Wrap(s)
    \/ Load(s) \/ Store(s) \/ Trigger(s) \/ Unlock(s)

-----------------------------------------------------------------------------
(* interrupt_callback and rdma_recv *)

\* spin_lock(&recv_queue_lock): a callback starts when none is running.
IrqEnter ==
    /\ rpc = "idle" /\ irq > 0
    /\ irq' = irq - 1
    /\ rpc' = "loop"
    /\ UNCHANGED <<ringVars, senderVars, rslot, held, rcvd, countVars>>

\* while(rq->start != rq->end) ends.
LoopExit ==
    /\ rpc = "loop" /\ start = end
    /\ rpc' = "idle"
    /\ UNCHANGED <<ringVars, senderVars, rslot, held, rcvd, countVars, irq>>

\* rq->start = 0 when it stands on the slot that is never used.
WrapStart ==
    /\ rpc = "loop" /\ start # end
    /\ start + 1 = Size
    /\ start' = 0
    /\ rpc' = "wrapped"
    /\ UNCHANGED <<end, queue, senderVars, rslot, held, rcvd, countVars, irq>>

\* After the wrap the emptiness is tested once more.
WrappedExit ==
    /\ rpc = "wrapped" /\ end = start
    /\ rpc' = "idle"
    /\ UNCHANGED <<ringVars, senderVars, rslot, held, rcvd, countVars, irq>>

\* Mutant of Take: the last slot is not skipped.
TakeWithoutWrap ==
    /\ \/ rpc = "loop" /\ start # end
       \/ rpc = "wrapped" /\ end # start
    /\ rslot' = start
    /\ start' = start + 1
    /\ rpc' = "deliver"
    /\ UNCHANGED <<end, queue, senderVars, held, rcvd, countVars, irq>>

\* Mutant of Take: no test for emptiness after the wrap.
TakeWithoutRetest ==
    /\ \/ rpc = "loop" /\ start # end /\ start + 1 # Size
       \/ rpc = "wrapped"
    /\ rslot' = start
    /\ start' = start + 1
    /\ rpc' = "deliver"
    /\ UNCHANGED <<end, queue, senderVars, held, rcvd, countVars, irq>>

\* ltcp_msg = &(rq->queue[rq->start++])
Take ==
    /\ \/ rpc = "loop" /\ start # end /\ start + 1 # Size
       \/ rpc = "wrapped" /\ end # start
    /\ rslot' = start
    /\ start' = start + 1
    /\ rpc' = "deliver"
    /\ UNCHANGED <<end, queue, senderVars, held, rcvd, countVars, irq>>

\* Mutant of Deliver: the skb points to the next slot.
DeliverNextSlot ==
    /\ rpc = "deliver"
    /\ rcvd' = Append(rcvd, queue[rslot])
    /\ \E o \in Outcomes :
          /\ held' = IF o = "queued"
                     THEN held \cup {[slot |-> start, msg |-> queue[rslot]]}
                     ELSE held
          /\ rpc' = IF o = "error" THEN "idle" ELSE "loop"
    /\ UNCHANGED <<ringVars, senderVars, rslot, countVars, irq>>

\* Mutant of Deliver: one message per interrupt.
DeliverOnce ==
    /\ rpc = "deliver"
    /\ rcvd' = Append(rcvd, queue[rslot])
    /\ \E o \in Outcomes :
          held' = IF o = "queued"
                  THEN held \cup {[slot |-> rslot, msg |-> queue[rslot]]}
                  ELSE held
    /\ rpc' = "idle"
    /\ UNCHANGED <<ringVars, senderVars, rslot, countVars, irq>>

\* local_tcp_rcv reads the slot.  A REGULAR message is left on a socket as a
\* pointer to the slot; an error ends rdma_recv with the loop unfinished.
Deliver ==
    /\ rpc = "deliver"
    /\ rcvd' = Append(rcvd, queue[rslot])
    /\ \E o \in Outcomes :
          /\ held' = IF o = "queued"
                     THEN held \cup {[slot |-> rslot, msg |-> queue[rslot]]}
                     ELSE held
          /\ rpc' = IF o = "error" THEN "idle" ELSE "loop"
    /\ UNCHANGED <<ringVars, senderVars, rslot, countVars, irq>>

\* alloc_skb returns no memory and its result is used untested: the receiving node
\* stops, with recv_queue_lock held and the message not handed on.
NoMemory ==
    /\ rpc = "deliver"
    /\ rpc' = "oops"
    /\ UNCHANGED <<ringVars, senderVars, rslot, held, rcvd, countVars, irq>>

\* recvmsg of some socket consumes an skb and with it the pointer.
AppRecv ==
    /\ rpc # "oops"
    /\ \E x \in held : held' = held \ {x}
    /\ UNCHANGED <<ringVars, senderVars, rpc, rslot, rcvd, countVars, irq>>

ReceiverStep ==
    \/ IrqEnter \/ LoopExit \/ WrapStart \/ WrappedExit \/ Take \/ Deliver \/ NoMemory

-----------------------------------------------------------------------------
Next ==
    \/ \E s \in Senders : Begin(s) \/ SenderStep(s)
    \/ ReceiverStep
    \/ AppRecv

Spec == Init /\ [][Next]_vars

\* A process inside rdma_xmit and the interrupt callback keep running, and
\* send_queue_lock is a queued spin lock: a waiter gets it.  No program has to
\* send or to read.
Fairness ==
    /\ \A s \in Senders : WF_vars(SenderStep(s)) /\ SF_vars(Acquire(s))
    /\ WF_vars(ReceiverStep)

FairSpec == Spec /\ Fairness

-----------------------------------------------------------------------------
(* Properties *)

\* Every variable keeps its type; in particular the indices start and end stay
\* inside the array, so no access to rq->queue leaves it.
TypeOK ==
    /\ start \in Slots /\ end \in Slots
    /\ queue \in [Slots -> Nat]
    /\ sendLock \in BOOLEAN
    /\ spc \in [Senders -> SenderStates]
    /\ slot \in [Senders -> Slots]
    /\ tmp \in [Senders -> Slots]
    /\ irq \in Nat
    /\ rpc \in {"idle", "loop", "wrapped", "deliver", "oops"}
    /\ rslot \in Slots
    /\ held \subseteq [slot : Slots, msg : Nat]
    /\ begun \in Nat /\ dropped \in Nat /\ filled \in Nat
    /\ rcvd \in Seq(Nat)

\* The comment above spin_lock in rdma_xmit: a slot is filled and published
\* before any other process adds a message.
MutualExclusion ==
    \A s, t \in Senders :
        spc[s] \in CriticalStates /\ spc[t] \in CriticalStates => s = t

\* The messages reach local_tcp_rcv exactly in the order in which they were
\* filled, none lost, repeated or read before it was filled.
Fifo == \A i \in 1 .. Len(rcvd) : rcvd[i] = i

\* The pointer an skb keeps to its slot still finds the message there for as
\* long as fewer than Size - 1 later messages were filled: rdma_recv frees the
\* slot when it takes it, the message only survives until the ring comes round.
DescriptorLifetime ==
    \A x \in held : filled - x.msg < Size - 1 => queue[x.slot] = x.msg

\* Every path out of rdma_xmit has released send_queue_lock.
LockReleased == (\A s \in Senders : spc[s] = "idle") => ~sendLock

\* Whatever overflows, rdma_recv never hands on a slot that was never filled.
OnlyFilledRead == \A i \in 1 .. Len(rcvd) : rcvd[i] # 0

\* What was filled and published is received in the end, with no further
\* message needed to push it out, unless the receiver stops for want of memory.
EveryMessageReceived ==
    \A n \in 1 .. MaxSent : filled >= n ~> Len(rcvd) >= n \/ rpc = "oops"

-----------------------------------------------------------------------------
(* The inductive invariant behind the safety properties, for a window of at   *)
(* most Size - 2 messages.                                                    *)

M == Size - 1       \* the slots that are used, and the period of the ring

\* Messages taken by rdma_recv, and slots between start and end.
Taken == Len(rcvd) + (IF rpc \in {"deliver", "oops"} THEN 1 ELSE 0)
Unread == IF start <= end THEN end - start ELSE end - start + M

\* Senders that have called rdma_xmit and not yet filled a slot.
PreFill == {s \in Senders : spc[s] \in {"lock", "alloc", "fill"}}

\* The slot of message n, counted from start, where message Taken + 1 is next.
Pos(n) ==
    LET p == start + n - Taken - 1
    IN  IF p >= M THEN p - M ELSE IF p < 0 THEN p + M ELSE p

LockInv ==
    /\ \A s \in Senders : spc[s] \in CriticalStates => sendLock
    /\ sendLock => \E s \in Senders : spc[s] \in CriticalStates
    /\ MutualExclusion

CountInv ==
    /\ dropped = 0
    /\ begun <= MaxSent
    /\ begun = filled + Cardinality(PreFill)
    /\ begun - Len(rcvd) <= MaxInFlight

\* A message is published, except that of a sender on its way to the store.
PublishInv ==
    \/ /\ filled = Taken + Unread
       /\ \A s \in Senders : spc[s] \notin {"wrap", "load", "store"}
    \/ /\ filled = Taken + Unread + 1
       /\ \E s \in Senders : spc[s] \in {"wrap", "load", "store"}

SenderInv ==
    \A s \in Senders :
        /\ spc[s] # "full"
        /\ spc[s] \in {"fill", "wrap", "load", "store"} => slot[s] = end /\ end < M
        /\ spc[s] = "store" => tmp[s] = end

ReceiverInv ==
    /\ ~(start = 0 /\ end = M)
    /\ rpc = "deliver" => rslot = start - 1
    /\ rpc = "wrapped" => start = 0

QueueInv == \A n \in 1 .. filled : filled - n < M => queue[Pos(n)] = n

HeldInv ==
    \A x \in held :
        /\ x.msg \in 1 .. Len(rcvd)
        /\ filled - x.msg < M => x.slot = Pos(x.msg)

\* The ring is in order: who is where in rdma_xmit and rdma_recv, how many
\* messages are unread, and which message each slot holds, all agree.
RingInv ==
    /\ TypeOK
    /\ LockInv
    /\ CountInv
    /\ PublishInv
    /\ SenderInv
    /\ ReceiverInv
    /\ QueueInv
    /\ Fifo
    /\ HeldInv

-----------------------------------------------------------------------------
\* The ring implements the channel local_tcp_protocol.c relies on.
FC == INSTANCE FifoChannel
        WITH Msg <- 1 .. MaxSent, sent <- [i \in 1 .. filled |-> i], rcvd <- rcvd
Implements == FC!Spec
=============================================================================
