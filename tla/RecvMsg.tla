------------------------------ MODULE RecvMsg -------------------------------
(***************************************************************************)
(* local_tcp_recvmsg of ltcp/local_tcp_protocol.c as it is built (with     *)
(* MAP_USER_PAGES_RECV): each reader takes the first skb of its socket,    *)
(* maps its own buffer and pulls the data from the other node by DMA.  One *)
(* semaphore, client_semaphore, is both the lock on the DMA engine and the *)
(* signal that a transfer has ended: down, start, down again until the     *)
(* callback has called up, up.                                             *)
(***************************************************************************)
EXTENDS Integers, Sequences, FiniteSets

CONSTANTS
    Readers,       \* processes in recvmsg, each on a socket of its own
    MaxCalls,      \* bound: calls of recvmsg by one process
    Garbage,       \* what the stack may hold where callback_error is declared
    MapMayFail,    \* the pages cannot be pinned or mapped
    StartMayFail,  \* dis_start_dma_transfer may return an error
    StatusMayFail, \* the callback may be told that the transfer failed
    WaitMayTimeOut \* the transfer may take longer than SEMAPHORE_TIMEOUT

ASSUME BoundsAssumption == MaxCalls \in Nat /\ IsFiniteSet(Readers)
ASSUME GarbageAssumption == Garbage \subseteq BOOLEAN /\ Garbage # {}
ASSUME FlagsAssumption ==
    {MapMayFail, StartMayFail, StatusMayFail, WaitMayTimeOut} \subseteq BOOLEAN

VARIABLES
    sem,      \* the count of client_semaphore
    semQueue, \* its wait list: readers in down and in down_timeout
    pc,       \* where each reader is in recvmsg
    calls,    \* which call of recvmsg of this reader it is
    err,      \* callback_error, a variable on the stack of the call
    dma,      \* the transfers in flight: the reader and its call
    skbs,     \* length of the receive queue of the socket
    arrived,  \* history: skbs put on it
    leaked,   \* history: errors that left the semaphore down
    good,     \* history: calls that returned data
    failed    \* history: calls that returned an error after taking an skb

semVars == <<sem, semQueue>>
skbVars == <<skbs, arrived>>
resultVars == <<good, failed>>
vars == <<semVars, pc, calls, err, dma, skbVars, leaked, resultVars>>

States == {"idle", "peek", "map", "down", "downwait", "start", "wait", "timedwait",
           "check", "success", "error"}

Goto(p, to) == pc' = [pc EXCEPT ![p] = to]

Init ==
    /\ sem = 1 /\ semQueue = << >>
    /\ pc = [p \in Readers |-> "idle"]
    /\ calls = [p \in Readers |-> 0]
    /\ err = [p \in Readers |-> FALSE]
    /\ dma = {}
    /\ skbs = [p \in Readers |-> 0]
    /\ arrived = [p \in Readers |-> 0]
    /\ good = [p \in Readers |-> 0]
    /\ failed = [p \in Readers |-> 0]
    /\ leaked = 0

-----------------------------------------------------------------------------
(* The semaphore: a reader that finds it zero joins the wait list, up hands it *)
(* to the first reader of the list, which goes on behind its down.             *)

DownOr(p, taken, waiting) ==
    IF sem > 0
    THEN sem' = sem - 1 /\ Goto(p, taken) /\ UNCHANGED semQueue
    ELSE semQueue' = Append(semQueue, p) /\ Goto(p, waiting) /\ UNCHANGED sem

Granted(at) == CASE at = "downwait" -> "start" [] at = "timedwait" -> "check"

\* up, after which the program counters are those of pcs but for the one it wakes.
Up(pcs) ==
    IF semQueue = << >>
    THEN sem' = sem + 1 /\ pc' = pcs /\ UNCHANGED semQueue
    ELSE /\ semQueue' = Tail(semQueue)
         /\ pc' = [pcs EXCEPT ![Head(semQueue)] = Granted(@)]
         /\ UNCHANGED sem

\* A waiter leaves the list from any place.
Without(q, k) == [i \in 1 .. Len(q) - 1 |-> IF i < k THEN q[i] ELSE q[i + 1]]

-----------------------------------------------------------------------------
(* local_tcp_do_rcv puts an skb on the socket. *)
Arrive(p) ==
    /\ arrived[p] < MaxCalls
    /\ arrived' = [arrived EXCEPT ![p] = @ + 1]
    /\ skbs' = [skbs EXCEPT ![p] = @ + 1]
    /\ UNCHANGED <<semVars, pc, calls, err, dma, leaked, resultVars>>

(* local_tcp_recvmsg *)

\* callback_error is declared and not initialized.
Call(p) ==
    /\ pc[p] = "idle" /\ calls[p] < MaxCalls
    /\ calls' = [calls EXCEPT ![p] = @ + 1]
    /\ \E g \in Garbage : err' = [err EXCEPT ![p] = g]
    /\ Goto(p, "peek")
    /\ UNCHANGED <<semVars, dma, skbVars, leaked, resultVars>>

\* skb_peek: without an skb the reader sleeps in sk_wait_data until there is one.
Peek(p) ==
    /\ pc[p] = "peek" /\ skbs[p] > 0
    /\ Goto(p, "map")
    /\ UNCHANGED <<semVars, calls, err, dma, skbVars, leaked, resultVars>>

\* A socket that does not block, or with a timeout: -EAGAIN, and no skb is taken.
NoData(p) ==
    /\ pc[p] = "peek" /\ skbs[p] = 0
    /\ Goto(p, "idle")
    /\ UNCHANGED <<semVars, calls, err, dma, skbVars, leaked, resultVars>>

\* get_user_pages_locked and osif_iommu_map_user_pages
Map(p) ==
    /\ pc[p] = "map"
    /\ \/ Goto(p, "down")
       \/ MapMayFail /\ Goto(p, "error")
    /\ UNCHANGED <<semVars, calls, err, dma, skbVars, leaked, resultVars>>

\* down(&client_semaphore)
Down(p) ==
    /\ pc[p] = "down"
    /\ DownOr(p, "start", "downwait")
    /\ UNCHANGED <<calls, err, dma, skbVars, leaked, resultVars>>

\* dis_start_dma_transfer; on an error the semaphore is left down.
StartDma(p) ==
    /\ pc[p] = "start"
    /\ \/ /\ dma' = dma \cup {[reader |-> p, call |-> calls[p]]}
          /\ Goto(p, "wait")
          /\ UNCHANGED leaked
       \/ StartMayFail /\ Goto(p, "error") /\ UNCHANGED dma /\ leaked' = leaked + 1
    /\ UNCHANGED <<semVars, calls, err, skbVars, resultVars>>

\* down_timeout(&client_semaphore, SEMAPHORE_TIMEOUT)
Wait(p) ==
    /\ pc[p] = "wait"
    /\ DownOr(p, "check", "timedwait")
    /\ UNCHANGED <<calls, err, dma, skbVars, leaked, resultVars>>

\* Mutant of TimeOut: the reader stays on the wait list.
TimeOutStaysListed(p) ==
    /\ pc[p] = "timedwait" /\ WaitMayTimeOut
    /\ Goto(p, "error")
    /\ UNCHANGED <<semVars, calls, err, dma, skbVars, leaked, resultVars>>

\* Mutant of TimeOut: the reader calls up after a timeout.
TimeOutReleases(p) ==
    /\ pc[p] = "timedwait" /\ WaitMayTimeOut
    /\ LET rest == SelectSeq(semQueue, LAMBDA q : q # p) IN
       IF rest = << >>
       THEN semQueue' = rest /\ sem' = sem + 1 /\ Goto(p, "error")
       ELSE /\ semQueue' = Tail(rest)
            /\ pc' = [pc EXCEPT ![p] = "error", ![Head(rest)] = Granted(@)]
            /\ UNCHANGED sem
    /\ UNCHANGED <<calls, err, dma, skbVars, leaked, resultVars>>

\* The transfer goes on; the reader leaves the wait list.
TimeOut(p) ==
    /\ pc[p] = "timedwait" /\ WaitMayTimeOut
    /\ \E k \in 1 .. Len(semQueue) : semQueue[k] = p /\ semQueue' = Without(semQueue, k)
    /\ Goto(p, "error")
    /\ UNCHANGED <<sem, calls, err, dma, skbVars, leaked, resultVars>>

\* Mutant of Check: success without up.
CheckWithoutUp(p) ==
    /\ pc[p] = "check"
    /\ Goto(p, IF err[p] THEN "error" ELSE "success")
    /\ UNCHANGED <<semVars, calls, err, dma, skbVars, leaked, resultVars>>

\* On an error of the callback the semaphore is left down.
Check(p) ==
    /\ pc[p] = "check"
    /\ IF err[p]
       THEN Goto(p, "error") /\ leaked' = leaked + 1 /\ UNCHANGED semVars
       ELSE Up([pc EXCEPT ![p] = "success"]) /\ UNCHANGED leaked
    /\ UNCHANGED <<calls, err, dma, skbVars, resultVars>>

\* Mutant of Return: an error leaves the skb on the socket.
ReturnKeepsSkb(p) ==
    /\ pc[p] \in {"success", "error"}
    /\ IF pc[p] = "success"
       THEN /\ skbs' = [skbs EXCEPT ![p] = @ - 1]
            /\ good' = [good EXCEPT ![p] = @ + 1]
            /\ UNCHANGED failed
       ELSE failed' = [failed EXCEPT ![p] = @ + 1] /\ UNCHANGED <<good, skbs>>
    /\ Goto(p, "idle")
    /\ UNCHANGED <<semVars, calls, err, dma, arrived, leaked>>

\* out: the skb is unlinked and consumed, whatever the result.
Return(p) ==
    /\ pc[p] \in {"success", "error"}
    /\ skbs' = [skbs EXCEPT ![p] = @ - 1]
    /\ IF pc[p] = "success"
       THEN good' = [good EXCEPT ![p] = @ + 1] /\ UNCHANGED failed
       ELSE failed' = [failed EXCEPT ![p] = @ + 1] /\ UNCHANGED good
    /\ Goto(p, "idle")
    /\ UNCHANGED <<semVars, calls, err, dma, arrived, leaked>>

(* client_dma_callback: it writes to the callback_error of the call that    *)
(* started the transfer, wherever that call is now, and calls up.           *)
Live(d) ==
    calls[d.reader] = d.call /\ pc[d.reader] # "idle"

\* The write may hit the callback_error of a later call, on the same stack.  What else
\* it may damage there, which can stop the kernel, is left out.
StrayWrite(p) == UNCHANGED err \/ err' = [err EXCEPT ![p] = TRUE]

Callback ==
    \E d \in dma :
        /\ dma' = dma \ {d}
        /\ \/ UNCHANGED err
           \/ /\ StatusMayFail
              /\ IF Live(d)
                 THEN err' = [err EXCEPT ![d.reader] = TRUE]
                 ELSE StrayWrite(d.reader)
        /\ Up(pc)
        /\ UNCHANGED <<calls, skbVars, leaked, resultVars>>

ReaderStep(p) ==
    \/ Peek(p) \/ NoData(p) \/ Map(p) \/ Down(p) \/ StartDma(p) \/ Wait(p)
    \/ TimeOut(p) \/ Check(p) \/ Return(p)

Next ==
    \/ \E p \in Readers : Arrive(p) \/ Call(p) \/ ReaderStep(p)
    \/ Callback

Spec == Init /\ [][Next]_vars

\* The kernel runs a process inside recvmsg on, the adapter ends every transfer,
\* and a timeout is nothing to count on.
Fairness ==
    /\ \A p \in Readers :
          WF_vars(Peek(p) \/ Map(p) \/ Down(p) \/ StartDma(p) \/ Wait(p) \/ Check(p)
                  \/ Return(p))
    /\ WF_vars(Callback)

FairSpec == Spec /\ Fairness

-----------------------------------------------------------------------------
(* Properties *)

TypeOK ==
    /\ sem \in Nat
    /\ semQueue \in Seq(Readers)
    /\ pc \in [Readers -> States]
    /\ calls \in [Readers -> 0 .. MaxCalls]
    /\ err \in [Readers -> BOOLEAN]
    /\ dma \subseteq [reader : Readers, call : 0 .. MaxCalls]
    /\ skbs \in [Readers -> 0 .. MaxCalls]
    /\ arrived \in [Readers -> 0 .. MaxCalls]
    /\ good \in [Readers -> Nat] /\ failed \in [Readers -> Nat]
    /\ leaked \in Nat

\* Readers that hold the semaphore.
Holders == {p \in Readers : pc[p] \in {"start", "check"}}

\* One thing at a time holds the semaphore: its own count, a reader, a transfer
\* whose callback will call up, or nobody any more after an error.
OneToken ==
    /\ sem + Cardinality(Holders) + Cardinality(dma) + leaked = 1
    /\ sem > 0 => semQueue = << >>

\* A reader goes on behind the wait for its transfer only when that transfer has
\* ended, although any up of any reader or callback may be the one that wakes it.
OwnTransferDone ==
    \A p \in Readers : pc[p] \in {"check", "success"} =>
        [reader |-> p, call |-> calls[p]] \notin dma

\* The wait list holds the readers that wait, each once.
WaitersListed ==
    /\ \A p \in Readers : pc[p] \in {"downwait", "timedwait"}
                            <=> \E k \in 1 .. Len(semQueue) : semQueue[k] = p
    /\ \A j, k \in 1 .. Len(semQueue) : semQueue[j] = semQueue[k] => j = k

\* Every skb that arrived is on the socket, was read, or was dropped by a call that
\* returned an error.
SkbsAccounted == \A p \in Readers : arrived[p] = skbs[p] + good[p] + failed[p]

\* The comment at down: "when the callback is called it will release the semaphore
\* again", so with no transfer and no reader at work the semaphore is free.
SemaphoreReleased == dma = {} /\ Holders = {} => sem = 1

\* A reader that has found an skb returns, as long as no error of any reader has
\* left the semaphore down.
ReadReturns == \A p \in Readers : pc[p] = "map" ~> pc[p] = "idle" \/ leaked > 0

-----------------------------------------------------------------------------
(* The inductive invariant behind the safety properties. *)

Waiting == {"downwait", "timedwait"}

\* The semaphore is in one place: its count, a reader, a transfer, or lost.
TokenInv ==
    \/ sem = 1 /\ Holders = {} /\ dma = {} /\ leaked = 0
    \/ sem = 0 /\ (\E p \in Readers : Holders = {p}) /\ dma = {} /\ leaked = 0
    \/ sem = 0 /\ Holders = {} /\ (\E d \in dma : dma = {d}) /\ leaked = 0
    \/ sem = 0 /\ Holders = {} /\ dma = {} /\ leaked = 1

\* Where a reader may be while the transfer of its present call goes on.
Late == {"wait", "timedwait", "error", "idle"}

\* A transfer belongs to a call that is over, or that has not got past its wait.
TransferInv ==
    \A d \in dma :
        /\ d.call <= calls[d.reader]
        /\ d.call = calls[d.reader] => pc[d.reader] \in Late

\* The skb a reader has peeked at stays on its socket until it returns.
SkbInv == \A p \in Readers : pc[p] \notin {"idle", "peek"} => skbs[p] > 0

\* Where the semaphore is, who waits for it, which transfer is whose, and the skbs
\* of every socket, all agree.
ReadersInv ==
    /\ TypeOK
    /\ TokenInv
    /\ sem > 0 => semQueue = << >>
    /\ WaitersListed
    /\ TransferInv
    /\ SkbInv
    /\ SkbsAccounted
=============================================================================
