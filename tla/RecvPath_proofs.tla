--------------------------- MODULE RecvPath_proofs --------------------------
(***************************************************************************)
(* Proofs about RecvMsg, IommuAperture and RecvPath, for any number of     *)
(* readers and processes, any aperture and any buffers: the semaphore is   *)
(* in one place and a reader goes on only when its own transfer has ended; *)
(* a buffer is mapped as a whole or not at all; what holds of the readers  *)
(* and of the aperture alone holds of them together, and a transfer always *)
(* writes to a block of its own.                                           *)
(***************************************************************************)
EXTENDS RecvPath, FiniteSetTheorems, SequenceTheorems, TLAPS

-----------------------------------------------------------------------------
(* The wait list *)

\* What is left of a sequence when one place of it is taken out.
LEMMA WithoutPlace ==
    ASSUME NEW S, NEW q \in Seq(S), NEW k \in 1 .. Len(q)
    PROVE  /\ Without(q, k) \in Seq(S)
           /\ Len(Without(q, k)) = Len(q) - 1
           /\ \A i \in 1 .. Len(q) - 1 :
                 Without(q, k)[i] = IF i < k THEN q[i] ELSE q[i + 1]
<1>1. \A i \in 1 .. Len(q) - 1 : (IF i < k THEN q[i] ELSE q[i + 1]) \in S
  OBVIOUS
<1> QED
  BY <1>1 DEF Without

\* The members of the list after a waiter has left it.
LEMMA OneLeaves ==
    ASSUME NEW q \in Seq(Readers), NEW k \in 1 .. Len(q),
           \A i, j \in 1 .. Len(q) : q[i] = q[j] => i = j
    PROVE  LET r == Without(q, k) IN
           /\ r \in Seq(Readers)
           /\ \A i, j \in 1 .. Len(r) : r[i] = r[j] => i = j
           /\ \A p \in Readers : (\E i \in 1 .. Len(r) : r[i] = p)
                                  <=> p # q[k] /\ \E i \in 1 .. Len(q) : q[i] = p
<1> DEFINE r == Without(q, k)
<1>1. /\ r \in Seq(Readers) /\ Len(r) = Len(q) - 1
      /\ \A i \in 1 .. Len(q) - 1 : r[i] = IF i < k THEN q[i] ELSE q[i + 1]
  BY WithoutPlace
<1> HIDE DEF r
<1>2. \A i, j \in 1 .. Len(r) : r[i] = r[j] => i = j
  <2> SUFFICES ASSUME NEW i \in 1 .. Len(r), NEW j \in 1 .. Len(r), r[i] = r[j]
               PROVE  i = j
    OBVIOUS
  <2>1. r[i] = q[IF i < k THEN i ELSE i + 1] /\ r[j] = q[IF j < k THEN j ELSE j + 1]
    BY <1>1
  <2>2. /\ (IF i < k THEN i ELSE i + 1) \in 1 .. Len(q)
        /\ (IF j < k THEN j ELSE j + 1) \in 1 .. Len(q)
    BY <1>1
  <2>3. (IF i < k THEN i ELSE i + 1) = (IF j < k THEN j ELSE j + 1)
    BY <2>1, <2>2
  <2> QED
    BY <2>3, <1>1
<1>3. ASSUME NEW i \in 1 .. Len(r)
      PROVE  r[i] # q[k] /\ \E j \in 1 .. Len(q) : q[j] = r[i]
  <2>1. PICK j \in 1 .. Len(q) : j # k /\ r[i] = q[j]
    <3>1. CASE i < k
      BY <1>1, <3>1
    <3>2. CASE ~(i < k)
      BY <1>1, <3>2
    <3> QED
      BY <3>1, <3>2
  <2> QED
    BY <2>1
<1>4. ASSUME NEW i \in 1 .. Len(q), i # k
      PROVE  \E j \in 1 .. Len(r) : r[j] = q[i]
  <2>1. CASE i < k
    <3>1. i \in 1 .. Len(r) /\ r[i] = q[i]
      BY <1>1, <2>1
    <3> QED
      BY <3>1
  <2>2. CASE i > k
    <3>1. i - 1 \in 1 .. Len(r) /\ r[i - 1] = q[i]
      BY <1>1, <2>2
    <3> QED
      BY <3>1
  <2> QED
    BY <1>4, <2>1, <2>2
<1>5. ASSUME NEW p \in Readers
      PROVE  (\E i \in 1 .. Len(r) : r[i] = p)
               <=> p # q[k] /\ \E i \in 1 .. Len(q) : q[i] = p
  BY <1>3, <1>4
<1> QED
  BY <1>1, <1>2, <1>5 DEF r

-----------------------------------------------------------------------------
(* down and up *)

\* The states a reader can be in.
LEMMA Moves ==
    ASSUME TypeOK, NEW p \in Readers, NEW to \in States, Goto(p, to)
    PROVE  /\ pc' \in [Readers -> States]
           /\ pc'[p] = to
           /\ \A q \in Readers : q # p => pc'[q] = pc[q]
BY DEF TypeOK, Goto

\* A reader that moves between two states outside the wait list leaves it alone.
LEMMA ListStill ==
    ASSUME TypeOK, WaitersListed, NEW p \in Readers, NEW to \in States, Goto(p, to),
           UNCHANGED semQueue, pc[p] \notin Waiting, to \notin Waiting
    PROVE  WaitersListed'
<1>1. pc'[p] = to /\ \A q \in Readers : q # p => pc'[q] = pc[q]
  BY Moves
<1> QED
  BY <1>1 DEF WaitersListed, Waiting

\* A reader that finds the count zero goes to the end of the list.
LEMMA JoinList ==
    ASSUME TypeOK, WaitersListed, NEW p \in Readers, NEW to \in Waiting, Goto(p, to),
           semQueue' = Append(semQueue, p), pc[p] \notin Waiting
    PROVE  WaitersListed' /\ semQueue' \in Seq(Readers)
<1>1. to \in States
  BY DEF Waiting, States
<1>2. pc'[p] = to /\ \A q \in Readers : q # p => pc'[q] = pc[q]
  BY <1>1, Moves
<1>3. semQueue \in Seq(Readers) /\ Len(semQueue) \in Nat
  BY DEF TypeOK
<1>4. /\ semQueue' \in Seq(Readers) /\ Len(semQueue') = Len(semQueue) + 1
      /\ semQueue'[Len(semQueue) + 1] = p
      /\ \A k \in 1 .. Len(semQueue) : semQueue'[k] = semQueue[k]
  BY <1>3
<1>5. \A k \in 1 .. Len(semQueue) : semQueue[k] # p
  BY DEF WaitersListed, Waiting
<1>6. \A j, k \in 1 .. Len(semQueue') : semQueue'[j] = semQueue'[k] => j = k
  BY <1>3, <1>4, <1>5 DEF WaitersListed
<1>7. ASSUME NEW q \in Readers
      PROVE  pc'[q] \in Waiting <=> \E k \in 1 .. Len(semQueue') : semQueue'[k] = q
  <2>1. CASE q = p
    <3>1. Len(semQueue') \in 1 .. Len(semQueue') /\ semQueue'[Len(semQueue')] = p
      BY <1>3, <1>4
    <3> QED
      BY <2>1, <3>1, <1>2
  <2>2. CASE q # p
    <3>1. (\E k \in 1 .. Len(semQueue') : semQueue'[k] = q)
            <=> \E k \in 1 .. Len(semQueue) : semQueue[k] = q
      BY <1>3, <1>4, <2>2
    <3> QED
      BY <2>2, <3>1, <1>2 DEF WaitersListed, Waiting
  <2> QED
    BY <2>1, <2>2
<1> QED
  BY <1>4, <1>6, <1>7 DEF WaitersListed, Waiting

\* A waiter leaves the list, from whatever place, for a state outside it.
LEMMA LeaveList ==
    ASSUME TypeOK, WaitersListed, NEW k \in 1 .. Len(semQueue),
           semQueue' = Without(semQueue, k),
           NEW to \in States \ Waiting, NEW pcs \in [Readers -> States],
           \A q \in Readers : pcs[q] \in Waiting <=> pc[q] \in Waiting,
           pc' = [pcs EXCEPT ![semQueue[k]] = to]
    PROVE  /\ WaitersListed'
           /\ semQueue' \in Seq(Readers)
           /\ pc' \in [Readers -> States]
<1>1. semQueue \in Seq(Readers) /\ semQueue[k] \in Readers
  BY DEF TypeOK
<1>2. \A i, j \in 1 .. Len(semQueue) : semQueue[i] = semQueue[j] => i = j
  BY DEF WaitersListed
<1>3. /\ semQueue' \in Seq(Readers)
      /\ \A i, j \in 1 .. Len(semQueue') : semQueue'[i] = semQueue'[j] => i = j
      /\ \A p \in Readers :
            (\E i \in 1 .. Len(semQueue') : semQueue'[i] = p)
                  <=> p # semQueue[k] /\ \E i \in 1 .. Len(semQueue) : semQueue[i] = p
  <2>1. /\ Without(semQueue, k) \in Seq(Readers)
        /\ \A i, j \in 1 .. Len(Without(semQueue, k)) :
              Without(semQueue, k)[i] = Without(semQueue, k)[j] => i = j
        /\ \A p \in Readers :
              (\E i \in 1 .. Len(Without(semQueue, k)) : Without(semQueue, k)[i] = p)
                    <=> p # semQueue[k] /\ \E i \in 1 .. Len(semQueue) : semQueue[i] = p
    BY <1>1, <1>2, OneLeaves
  <2> QED
    BY <2>1
<1>4. ASSUME NEW q \in Readers
      PROVE  pc'[q] \in Waiting <=> \E i \in 1 .. Len(semQueue') : semQueue'[i] = q
  <2>1. CASE q = semQueue[k]
    BY <2>1, <1>1, <1>3
  <2>2. CASE q # semQueue[k]
    <3>1. pc'[q] = pcs[q]
      BY <2>2
    <3>2. pc[q] \in Waiting <=> \E i \in 1 .. Len(semQueue) : semQueue[i] = q
      BY DEF WaitersListed, Waiting
    <3> QED
      BY <2>2, <3>1, <3>2, <1>3
  <2> QED
    BY <2>1, <2>2
<1>5. pc' \in [Readers -> States]
  BY <1>1
<1> QED
  BY <1>3, <1>4, <1>5 DEF WaitersListed, Waiting

\* up raises the count when nobody waits, and lets the first waiter go on when
\* somebody does.
LEMMA UpGrants ==
    ASSUME TypeOK, WaitersListed, sem > 0 => semQueue = << >>,
           NEW pcs \in [Readers -> States], Up(pcs),
           \A q \in Readers : pcs[q] # pc[q] => {pcs[q], pc[q]} \cap Waiting = {}
    PROVE  /\ WaitersListed'
           /\ semQueue' \in Seq(Readers)
           /\ pc' \in [Readers -> States]
           /\ \/ /\ sem' = sem + 1 /\ semQueue' = << >>
                 /\ pc' = pcs
              \/ /\ sem' = sem /\ sem = 0
                 /\ \E h \in Readers :
                       \/ pc[h] = "downwait" /\ pc' = [pcs EXCEPT ![h] = "start"]
                       \/ pc[h] = "timedwait" /\ pc' = [pcs EXCEPT ![h] = "check"]
<1>1. \A q \in Readers : pcs[q] \in Waiting <=> pc[q] \in Waiting
  OBVIOUS
<1>2. semQueue \in Seq(Readers) /\ sem \in Nat
  BY DEF TypeOK
<1>3. CASE semQueue = << >>
  <2>1. sem' = sem + 1 /\ pc' = pcs /\ semQueue' = semQueue
    BY <1>3 DEF Up
  <2>2. WaitersListed'
    BY <2>1, <1>1 DEF WaitersListed, Waiting
  <2> QED
    BY <2>1, <2>2, <1>2, <1>3
<1>4. CASE semQueue # << >>
  <2> DEFINE h == Head(semQueue)
  <2>1. 1 \in 1 .. Len(semQueue) /\ h = semQueue[1] /\ h \in Readers
    BY <1>2, <1>4
  <2>2. Tail(semQueue) = Without(semQueue, 1)
    <3>1. /\ Tail(semQueue) \in Seq(Readers) /\ Len(Tail(semQueue)) = Len(semQueue) - 1
          /\ \A i \in 1 .. Len(semQueue) - 1 : Tail(semQueue)[i] = semQueue[i + 1]
      BY <1>2, <1>4
    <3>2. /\ Without(semQueue, 1) \in Seq(Readers)
          /\ Len(Without(semQueue, 1)) = Len(semQueue) - 1
          /\ \A i \in 1 .. Len(semQueue) - 1 : Without(semQueue, 1)[i] = semQueue[i + 1]
      BY <1>2, <2>1, WithoutPlace
    <3> QED
      BY <3>1, <3>2, SeqEqual
  <2>3. pc[h] \in Waiting
    BY <2>1 DEF WaitersListed, Waiting
  <2>4. pcs[h] = pc[h]
    BY <2>1, <2>3
  <2>5. /\ semQueue' = Without(semQueue, 1) /\ sem' = sem
        /\ pc' = [pcs EXCEPT ![h] = Granted(pcs[h])]
    BY <1>4, <2>2 DEF Up
  <2>6. /\ pc[h] = "downwait" => Granted(pcs[h]) = "start"
        /\ pc[h] = "timedwait" => Granted(pcs[h]) = "check"
    BY <2>4 DEF Granted
  <2>7. Granted(pcs[h]) \in States \ Waiting
    BY <2>3, <2>6 DEF Waiting, States
  <2>8. WaitersListed' /\ semQueue' \in Seq(Readers) /\ pc' \in [Readers -> States]
    BY <2>1, <2>5, <2>7, <1>1, LeaveList
  <2>9. sem = 0
    BY <1>2, <1>4
  <2>10. \/ pc[h] = "downwait" /\ pc' = [pcs EXCEPT ![h] = "start"]
         \/ pc[h] = "timedwait" /\ pc' = [pcs EXCEPT ![h] = "check"]
    BY <2>3, <2>5, <2>6 DEF Waiting
  <2> QED
    BY <2>1, <2>5, <2>8, <2>9, <2>10
<1> QED
  BY <1>3, <1>4

-----------------------------------------------------------------------------
(* The invariant, action by action *)

\* Where the semaphore is, when a reader moves that neither holds it nor will.
LEMMA TokenStays ==
    ASSUME TypeOK, TokenInv, NEW p \in Readers, NEW to \in States, Goto(p, to),
           pc[p] \notin {"start", "check"}, to \notin {"start", "check"},
           UNCHANGED <<sem, dma, leaked>>
    PROVE  TokenInv'
<1>1. pc'[p] = to /\ \A q \in Readers : q # p => pc'[q] = pc[q]
  BY Moves
<1>2. Holders' = Holders
  BY <1>1 DEF Holders
<1> QED
  BY <1>2 DEF TokenInv

\* A reader that is outside the wait list and does not hold the semaphore moves to
\* such a place: nobody else notices.
LEMMA QuietMove ==
    ASSUME ReadersInv, NEW p \in Readers, NEW to \in States, Goto(p, to),
           {pc[p], to} \cap (Waiting \cup {"start", "check"}) = {},
           UNCHANGED <<semVars, dma, leaked>>
    PROVE  /\ pc' \in [Readers -> States]
           /\ pc'[p] = to
           /\ \A q \in Readers : q # p => pc'[q] = pc[q]
           /\ TokenInv'
           /\ (sem > 0 => semQueue = << >>)'
           /\ WaitersListed'
<1>1. TypeOK /\ TokenInv /\ WaitersListed /\ (sem > 0 => semQueue = << >>)
  BY DEF ReadersInv
<1>2. /\ pc' \in [Readers -> States]
      /\ pc'[p] = to
      /\ \A q \in Readers : q # p => pc'[q] = pc[q]
  BY <1>1, Moves
<1>3. TokenInv'
  BY <1>1, TokenStays DEF semVars
<1>4. WaitersListed'
  BY <1>1, ListStill DEF semVars
<1> QED
  BY <1>1, <1>2, <1>3, <1>4 DEF semVars

\* A transfer names a reader and a number of a call.
LEMMA TransferType ==
    ASSUME TypeOK, NEW d \in dma
    PROVE  d.reader \in Readers /\ d.call \in Nat
<1>1. d \in [reader : Readers, call : 0 .. MaxCalls]
  BY DEF TypeOK
<1> QED
  BY <1>1, BoundsAssumption

\* The invariant holds at first: the semaphore is free and nobody reads.
LEMMA InitInv == Init => ReadersInv
<1> SUFFICES ASSUME Init PROVE ReadersInv
  OBVIOUS
<1>1. TypeOK
  BY BoundsAssumption DEF Init, TypeOK, States
<1>2. TokenInv
  BY DEF Init, TokenInv, Holders
<1>3. WaitersListed
  BY DEF Init, WaitersListed
<1>4. TransferInv /\ SkbInv /\ SkbsAccounted /\ (sem > 0 => semQueue = << >>)
  BY DEF Init, TransferInv, SkbInv, SkbsAccounted
<1> QED
  BY <1>1, <1>2, <1>3, <1>4 DEF ReadersInv

\* Arrive adds an skb to what arrived and to what is on the socket.
LEMMA ArriveInv ==
    ASSUME ReadersInv, NEW p \in Readers, Arrive(p)
    PROVE  ReadersInv'
<1>1. /\ arrived[p] < MaxCalls
      /\ arrived' = [arrived EXCEPT ![p] = arrived[p] + 1]
      /\ skbs' = [skbs EXCEPT ![p] = skbs[p] + 1]
      /\ UNCHANGED <<sem, semQueue, pc, calls, err, dma, leaked, good, failed>>
  BY DEF Arrive, semVars, resultVars
<1>2. /\ arrived \in [Readers -> 0 .. MaxCalls] /\ skbs \in [Readers -> 0 .. MaxCalls]
      /\ good[p] \in Nat /\ failed[p] \in Nat
  BY DEF ReadersInv, TypeOK
<1>3. /\ arrived'[p] = arrived[p] + 1 /\ skbs'[p] = skbs[p] + 1
      /\ \A q \in Readers : q # p => arrived'[q] = arrived[q] /\ skbs'[q] = skbs[q]
  BY <1>1, <1>2
<1>4. arrived[p] = skbs[p] + good[p] + failed[p]
  BY DEF ReadersInv, SkbsAccounted
<1>5. arrived[p] \in Nat /\ skbs[p] \in Nat
  BY <1>2, BoundsAssumption
<1>6. arrived[p] + 1 \in 0 .. MaxCalls /\ skbs[p] + 1 \in 0 .. MaxCalls
  BY <1>1, <1>2, <1>4, <1>5, BoundsAssumption
<1>7. arrived' \in [Readers -> 0 .. MaxCalls] /\ skbs' \in [Readers -> 0 .. MaxCalls]
  BY <1>1, <1>2, <1>6
<1>8. TypeOK'
  BY <1>1, <1>7 DEF ReadersInv, TypeOK
<1>9. SkbsAccounted'
  <2>1. ASSUME NEW q \in Readers
        PROVE  arrived'[q] = skbs'[q] + good'[q] + failed'[q]
    <3>1. CASE q = p
      BY <3>1, <1>1, <1>2, <1>3, <1>4, <1>5
    <3>2. CASE q # p
      BY <3>2, <1>1, <1>3 DEF ReadersInv, SkbsAccounted
    <3> QED
      BY <3>1, <3>2
  <2> QED
    BY <2>1 DEF SkbsAccounted
<1>10. SkbInv'
  BY <1>1, <1>3, <1>5 DEF ReadersInv, SkbInv
<1>11. TokenInv' /\ (sem > 0 => semQueue = << >>)'
  BY <1>1 DEF ReadersInv, TokenInv, Holders
<1>12. WaitersListed' /\ TransferInv'
  BY <1>1 DEF ReadersInv, WaitersListed, TransferInv
<1> QED
  BY <1>8, <1>9, <1>10, <1>11, <1>12 DEF ReadersInv

\* Call starts a later call than that of any transfer of the reader.
LEMMA CallInv ==
    ASSUME ReadersInv, NEW p \in Readers, Call(p)
    PROVE  ReadersInv'
<1>1. /\ pc[p] = "idle" /\ calls[p] < MaxCalls
      /\ calls' = [calls EXCEPT ![p] = @ + 1]
      /\ Goto(p, "peek")
      /\ UNCHANGED <<semVars, dma, skbVars, leaked, resultVars>>
      /\ err' \in [Readers -> BOOLEAN]
  BY GarbageAssumption DEF Call, ReadersInv, TypeOK
<1>2. /\ pc' \in [Readers -> States]
      /\ pc'[p] = "peek"
      /\ \A q \in Readers : q # p => pc'[q] = pc[q]
      /\ TokenInv'
      /\ (sem > 0 => semQueue = << >>)'
      /\ WaitersListed'
  BY <1>1, QuietMove DEF Waiting, States
<1>3. /\ calls' \in [Readers -> 0 .. MaxCalls]
      /\ calls'[p] = calls[p] + 1 /\ calls[p] \in Nat
      /\ \A q \in Readers : q # p => calls'[q] = calls[q]
  <2>1. calls \in [Readers -> 0 .. MaxCalls] /\ calls[p] \in Nat
    BY BoundsAssumption DEF ReadersInv, TypeOK
  <2>2. calls[p] + 1 \in 0 .. MaxCalls
    BY <2>1, <1>1, BoundsAssumption
  <2> QED
    BY <2>1, <2>2, <1>1
<1>4. TypeOK'
  BY <1>1, <1>2, <1>3 DEF ReadersInv, TypeOK, semVars, skbVars, resultVars
<1>5. TransferInv'
  <2> SUFFICES ASSUME NEW d \in dma
               PROVE  /\ d.call <= calls'[d.reader]
                      /\ d.call = calls'[d.reader] =>
                             pc'[d.reader] \in Late
    BY <1>1 DEF TransferInv
  <2>1. d.reader \in Readers /\ d.call \in Nat
    BY TransferType DEF ReadersInv
  <2>2. /\ d.call <= calls[d.reader]
        /\ d.call = calls[d.reader] =>
               pc[d.reader] \in Late
    BY DEF ReadersInv, TransferInv
  <2> QED
    BY <2>1, <2>2, <1>2, <1>3
<1>6. SkbInv' /\ SkbsAccounted'
  BY <1>1, <1>2 DEF ReadersInv, SkbInv, SkbsAccounted, skbVars, resultVars
<1> QED
  BY <1>2, <1>4, <1>5, <1>6 DEF ReadersInv

\* TransferInv as long as no transfer is new and who is late stays late.
LEMMA TransferStays ==
    ASSUME TypeOK, TransferInv, UNCHANGED calls, dma' \subseteq dma,
           \A q \in Readers : pc[q] \in Late => pc'[q] \in Late
    PROVE  TransferInv'
<1> SUFFICES ASSUME NEW d \in dma
             PROVE  /\ d.call <= calls[d.reader]
                    /\ d.call = calls[d.reader] => pc'[d.reader] \in Late
  BY DEF TransferInv
<1>1. d.reader \in Readers
  BY TransferType
<1> QED
  BY <1>1 DEF TransferInv

\* Peek has seen an skb.
LEMMA PeekInv ==
    ASSUME ReadersInv, NEW p \in Readers, Peek(p)
    PROVE  ReadersInv'
<1>1. /\ pc[p] = "peek" /\ skbs[p] > 0 /\ Goto(p, "map")
      /\ UNCHANGED <<semVars, calls, err, dma, skbVars, leaked, resultVars>>
  BY DEF Peek
<1>2. /\ pc' \in [Readers -> States]
      /\ pc'[p] = "map" /\ \A q \in Readers : q # p => pc'[q] = pc[q]
      /\ TokenInv' /\ (sem > 0 => semQueue = << >>)' /\ WaitersListed'
  BY <1>1, QuietMove DEF Waiting, States
<1>3. TypeOK'
  BY <1>1, <1>2 DEF ReadersInv, TypeOK, semVars, skbVars, resultVars
<1>4. TransferInv'
  <2>1. \A q \in Readers : pc[q] \in Late => pc'[q] \in Late
    BY <1>1, <1>2 DEF Late
  <2> QED
    BY <2>1, <1>1, TransferStays DEF ReadersInv
<1>5. SkbInv' /\ SkbsAccounted'
  BY <1>1, <1>2 DEF ReadersInv, SkbInv, SkbsAccounted, skbVars, resultVars
<1> QED
  BY <1>2, <1>3, <1>4, <1>5 DEF ReadersInv

\* A call that finds no skb ends without a trace.
LEMMA NoDataInv ==
    ASSUME ReadersInv, NEW p \in Readers, NoData(p)
    PROVE  ReadersInv'
<1>1. /\ pc[p] = "peek" /\ skbs[p] = 0 /\ Goto(p, "idle")
      /\ UNCHANGED <<semVars, calls, err, dma, skbVars, leaked, resultVars>>
  BY DEF NoData
<1>2. /\ pc' \in [Readers -> States]
      /\ pc'[p] = "idle" /\ \A q \in Readers : q # p => pc'[q] = pc[q]
      /\ TokenInv' /\ (sem > 0 => semQueue = << >>)' /\ WaitersListed'
  BY <1>1, QuietMove DEF Waiting, States
<1>3. TypeOK'
  BY <1>1, <1>2 DEF ReadersInv, TypeOK, semVars, skbVars, resultVars
<1>4. TransferInv'
  <2>1. \A q \in Readers : pc[q] \in Late => pc'[q] \in Late
    BY <1>1, <1>2 DEF Late
  <2> QED
    BY <2>1, <1>1, TransferStays DEF ReadersInv
<1>5. SkbInv' /\ SkbsAccounted'
  BY <1>1, <1>2 DEF ReadersInv, SkbInv, SkbsAccounted, skbVars, resultVars
<1> QED
  BY <1>2, <1>3, <1>4, <1>5 DEF ReadersInv

\* Map changes nothing that others see, whether it fails or not.
LEMMA MapInv ==
    ASSUME ReadersInv, NEW p \in Readers, Map(p)
    PROVE  ReadersInv'
<1>1. PICK to \in {"down", "error"} : Goto(p, to)
  BY DEF Map
<1>2. /\ pc[p] = "map"
      /\ UNCHANGED <<semVars, calls, err, dma, skbVars, leaked, resultVars>>
  BY DEF Map
<1>3. to \in States /\ {pc[p], to} \cap (Waiting \cup {"start", "check"}) = {}
  BY <1>2 DEF States, Waiting
<1>4. /\ pc' \in [Readers -> States]
      /\ pc'[p] = to /\ \A q \in Readers : q # p => pc'[q] = pc[q]
      /\ TokenInv' /\ (sem > 0 => semQueue = << >>)' /\ WaitersListed'
  BY <1>1, <1>2, <1>3, QuietMove
<1>5. TypeOK'
  BY <1>2, <1>4 DEF ReadersInv, TypeOK, semVars, skbVars, resultVars
<1>6. TransferInv'
  <2>1. \A q \in Readers : pc[q] \in Late => pc'[q] \in Late
    BY <1>2, <1>4 DEF Late
  <2> QED
    BY <2>1, <1>2, TransferStays DEF ReadersInv
<1>7. SkbInv' /\ SkbsAccounted'
  BY <1>2, <1>4 DEF ReadersInv, SkbInv, SkbsAccounted, skbVars, resultVars
<1> QED
  BY <1>4, <1>5, <1>6, <1>7 DEF ReadersInv

\* Return takes off the skb that was peeked at, and counts one result.
LEMMA ReturnInv ==
    ASSUME ReadersInv, NEW p \in Readers, Return(p)
    PROVE  ReadersInv'
<1>1. /\ pc[p] \in {"success", "error"}
      /\ skbs' = [skbs EXCEPT ![p] = @ - 1]
      /\ Goto(p, "idle")
      /\ UNCHANGED <<semVars, calls, err, dma, arrived, leaked>>
  BY DEF Return
<1>2. /\ pc' \in [Readers -> States]
      /\ pc'[p] = "idle" /\ \A q \in Readers : q # p => pc'[q] = pc[q]
      /\ TokenInv' /\ (sem > 0 => semQueue = << >>)' /\ WaitersListed'
  BY <1>1, QuietMove DEF Waiting, States
<1>3. skbs[p] > 0 /\ skbs \in [Readers -> 0 .. MaxCalls]
  BY <1>1 DEF ReadersInv, SkbInv, TypeOK
<1>4. /\ skbs' \in [Readers -> 0 .. MaxCalls]
      /\ skbs'[p] = skbs[p] - 1
      /\ \A q \in Readers : q # p => skbs'[q] = skbs[q]
  <2>1. skbs[p] - 1 \in 0 .. MaxCalls
    BY <1>3, BoundsAssumption
  <2> QED
    BY <2>1, <1>1, <1>3
<1>5. /\ good' \in [Readers -> Nat] /\ failed' \in [Readers -> Nat]
      /\ good'[p] + failed'[p] = good[p] + failed[p] + 1
      /\ \A q \in Readers : q # p => good'[q] = good[q] /\ failed'[q] = failed[q]
  <2>1. good \in [Readers -> Nat] /\ failed \in [Readers -> Nat]
    BY DEF ReadersInv, TypeOK
  <2>2. CASE pc[p] = "success"
    <3>1. good' = [good EXCEPT ![p] = good[p] + 1] /\ failed' = failed
      BY <2>2 DEF Return
    <3> QED
      BY <2>1, <3>1
  <2>3. CASE pc[p] # "success"
    <3>1. failed' = [failed EXCEPT ![p] = failed[p] + 1] /\ good' = good
      BY <2>3 DEF Return
    <3> QED
      BY <2>1, <3>1
  <2> QED
    BY <2>2, <2>3
<1>6. TypeOK'
  BY <1>1, <1>2, <1>4, <1>5 DEF ReadersInv, TypeOK, semVars
<1>7. TransferInv'
  <2>1. \A q \in Readers : pc[q] \in Late => pc'[q] \in Late
    BY <1>2 DEF Late
  <2> QED
    BY <2>1, <1>1, TransferStays DEF ReadersInv
<1>8. SkbInv'
  BY <1>2, <1>4 DEF ReadersInv, SkbInv
<1>9. SkbsAccounted'
  <2>1. /\ arrived' = arrived
        /\ \A q \in Readers : arrived[q] = skbs[q] + good[q] + failed[q]
        /\ \A q \in Readers : skbs[q] \in Int /\ good[q] \in Nat /\ failed[q] \in Nat
        /\ \A q \in Readers : good'[q] \in Nat /\ failed'[q] \in Nat
    <3>1. \A q \in Readers : arrived[q] = skbs[q] + good[q] + failed[q]
      BY DEF ReadersInv, SkbsAccounted
    <3>2. \A q \in Readers : skbs[q] \in Int
      BY <1>3, BoundsAssumption
    <3>3. good \in [Readers -> Nat] /\ failed \in [Readers -> Nat]
      BY DEF ReadersInv, TypeOK
    <3> QED
      BY <3>1, <3>2, <3>3, <1>1, <1>5
  <2>2. ASSUME NEW q \in Readers
        PROVE  arrived'[q] = skbs'[q] + good'[q] + failed'[q]
    <3>1. CASE q = p
      BY <3>1, <2>1, <1>4, <1>5
    <3>2. CASE q # p
      BY <3>2, <2>1, <1>4, <1>5
    <3> QED
      BY <3>1, <3>2
  <2> QED
    BY <2>2 DEF SkbsAccounted
<1> QED
  BY <1>2, <1>6, <1>7, <1>8, <1>9 DEF ReadersInv

\* A reader that holds the semaphore is the only one, and nothing is in flight.
LEMMA HolderAlone ==
    ASSUME TypeOK, TokenInv, NEW p \in Readers, pc[p] \in {"start", "check"}
    PROVE  sem = 0 /\ Holders = {p} /\ dma = {} /\ leaked = 0
<1>1. p \in Holders
  BY DEF Holders
<1> QED
  BY <1>1 DEF TokenInv

\* down finds the semaphore free: the reader holds it.
LEMMA TokenTaken ==
    ASSUME TypeOK, TokenInv, sem > 0, sem' = sem - 1, NEW p \in Readers,
           NEW to \in {"start", "check"}, Goto(p, to), UNCHANGED <<dma, leaked>>
    PROVE  TokenInv' /\ dma' = {} /\ sem' = 0
<1>1. sem = 1 /\ Holders = {} /\ dma = {} /\ leaked = 0
  BY DEF TokenInv
<1>2. to \in States
  BY DEF States
<1>3. pc'[p] = to /\ \A q \in Readers : q # p => pc'[q] = pc[q]
  BY <1>2, Moves
<1>4. Holders' = {p}
  BY <1>1, <1>3 DEF Holders
<1> QED
  BY <1>1, <1>4 DEF TokenInv

\* Either kind of down, from outside the wait list.
LEMMA DownMoves ==
    ASSUME ReadersInv, NEW p \in Readers,
           NEW taken \in {"start", "check"}, NEW waiting \in Waiting,
           DownOr(p, taken, waiting), UNCHANGED <<dma, leaked>>,
           pc[p] \notin Waiting \cup {"start", "check"}
    PROVE  /\ sem' \in Nat /\ semQueue' \in Seq(Readers)
           /\ pc' \in [Readers -> States]
           /\ \A q \in Readers : q # p => pc'[q] = pc[q]
           /\ pc'[p] = waiting \/ (pc'[p] = taken /\ dma' = {})
           /\ TokenInv'
           /\ (sem > 0 => semQueue = << >>)'
           /\ WaitersListed'
<1>1. /\ TypeOK /\ TokenInv /\ WaitersListed /\ (sem > 0 => semQueue = << >>)
      /\ sem \in Nat /\ semQueue \in Seq(Readers)
  BY DEF ReadersInv, TypeOK
<1>2. taken \in States \ Waiting /\ waiting \in States \ {"start", "check"}
  BY DEF States, Waiting
<1>3. CASE sem > 0
  <2>1. sem' = sem - 1 /\ Goto(p, taken) /\ semQueue' = semQueue
    BY <1>3 DEF DownOr
  <2>2. /\ pc' \in [Readers -> States] /\ pc'[p] = taken
        /\ \A q \in Readers : q # p => pc'[q] = pc[q]
    BY <2>1, <1>1, <1>2, Moves
  <2>3. TokenInv' /\ dma' = {} /\ sem' = 0
    BY <2>1, <1>1, <1>3, TokenTaken
  <2>4. WaitersListed'
    BY <2>1, <1>1, <1>2, ListStill
  <2> QED
    BY <2>1, <2>2, <2>3, <2>4, <1>1
<1>4. CASE ~(sem > 0)
  <2>1. semQueue' = Append(semQueue, p) /\ Goto(p, waiting) /\ sem' = sem
    BY <1>4 DEF DownOr
  <2>2. /\ pc' \in [Readers -> States] /\ pc'[p] = waiting
        /\ \A q \in Readers : q # p => pc'[q] = pc[q]
    BY <2>1, <1>1, <1>2, Moves
  <2>3. WaitersListed' /\ semQueue' \in Seq(Readers)
    BY <2>1, <1>1, JoinList
  <2>4. TokenInv'
    BY <2>1, <1>1, <1>2, TokenStays
  <2> QED
    BY <2>1, <2>2, <2>3, <2>4, <1>1, <1>4
<1> QED
  BY <1>3, <1>4

\* Down takes the token or waits for it.
LEMMA DownInv ==
    ASSUME ReadersInv, NEW p \in Readers, Down(p)
    PROVE  ReadersInv'
<1>1. /\ pc[p] = "down" /\ DownOr(p, "start", "downwait")
      /\ UNCHANGED <<calls, err, dma, skbVars, leaked, resultVars>>
  BY DEF Down
<1>2. /\ sem' \in Nat /\ semQueue' \in Seq(Readers)
      /\ pc' \in [Readers -> States]
      /\ \A q \in Readers : q # p => pc'[q] = pc[q]
      /\ TokenInv' /\ (sem > 0 => semQueue = << >>)' /\ WaitersListed'
  BY <1>1, DownMoves DEF Waiting
<1>3. TypeOK'
  BY <1>1, <1>2 DEF ReadersInv, TypeOK, skbVars, resultVars
<1>4. TransferInv'
  <2>1. \A q \in Readers : pc[q] \in Late => pc'[q] \in Late
    BY <1>1, <1>2 DEF Late
  <2> QED
    BY <2>1, <1>1, TransferStays DEF ReadersInv
<1>5. SkbInv' /\ SkbsAccounted'
  BY <1>1, <1>2 DEF ReadersInv, SkbInv, SkbsAccounted, skbVars, resultVars
<1> QED
  BY <1>2, <1>3, <1>4, <1>5 DEF ReadersInv

\* Wait goes on at once only if the token is back, so nothing is in flight.
LEMMA WaitInv ==
    ASSUME ReadersInv, NEW p \in Readers, Wait(p)
    PROVE  ReadersInv'
<1>1. /\ pc[p] = "wait" /\ DownOr(p, "check", "timedwait")
      /\ UNCHANGED <<calls, err, dma, skbVars, leaked, resultVars>>
  BY DEF Wait
<1>2. /\ sem' \in Nat /\ semQueue' \in Seq(Readers)
      /\ pc' \in [Readers -> States]
      /\ \A q \in Readers : q # p => pc'[q] = pc[q]
      /\ pc'[p] = "timedwait" \/ (pc'[p] = "check" /\ dma' = {})
      /\ TokenInv' /\ (sem > 0 => semQueue = << >>)' /\ WaitersListed'
  BY <1>1, DownMoves DEF Waiting
<1>3. TypeOK'
  BY <1>1, <1>2 DEF ReadersInv, TypeOK, skbVars, resultVars
<1>4. TransferInv'
  <2>1. CASE dma' = {}
    BY <2>1 DEF TransferInv
  <2>2. CASE pc'[p] = "timedwait"
    <3>1. \A q \in Readers : pc[q] \in Late => pc'[q] \in Late
      BY <2>2, <1>2 DEF Late
    <3> QED
      BY <3>1, <1>1, TransferStays DEF ReadersInv
  <2> QED
    BY <2>1, <2>2, <1>2
<1>5. SkbInv' /\ SkbsAccounted'
  BY <1>1, <1>2 DEF ReadersInv, SkbInv, SkbsAccounted, skbVars, resultVars
<1> QED
  BY <1>2, <1>3, <1>4, <1>5 DEF ReadersInv

\* StartDma hands the token to the transfer, or loses it.
LEMMA StartDmaInv ==
    ASSUME ReadersInv, NEW p \in Readers, StartDma(p)
    PROVE  ReadersInv'
<1> DEFINE mine == [reader |-> p, call |-> calls[p]]
<1>1. /\ pc[p] = "start"
      /\ UNCHANGED <<semVars, calls, err, skbVars, resultVars>>
      /\ \/ dma' = dma \cup {mine} /\ Goto(p, "wait") /\ leaked' = leaked
         \/ Goto(p, "error") /\ dma' = dma /\ leaked' = leaked + 1
  BY DEF StartDma
<1>2. /\ TypeOK /\ TokenInv /\ WaitersListed /\ (sem > 0 => semQueue = << >>)
      /\ sem = 0 /\ Holders = {p} /\ dma = {} /\ leaked = 0
  BY <1>1, HolderAlone DEF ReadersInv
<1>3. PICK to \in {"wait", "error"} : Goto(p, to)
  BY <1>1
<1>4. to \in States \ Waiting /\ pc[p] \notin Waiting
  BY <1>1 DEF States, Waiting
<1>5. /\ pc' \in [Readers -> States]
      /\ pc'[p] = to /\ \A q \in Readers : q # p => pc'[q] = pc[q]
  BY <1>2, <1>3, <1>4, Moves
<1>6. WaitersListed'
  BY <1>1, <1>2, <1>3, <1>4, ListStill DEF semVars
<1>7. Holders' = {}
  BY <1>2, <1>5 DEF Holders
<1>8. TokenInv'
  <2>1. sem' = 0
    BY <1>1, <1>2 DEF semVars
  <2>2. CASE dma' = dma \cup {mine} /\ leaked' = leaked
    <3>1. mine \in dma' /\ dma' = {mine} /\ leaked' = 0
      BY <2>2, <1>2
    <3>2. (\E d \in dma : dma = {d})'
      BY <3>1
    <3> QED
      BY <2>1, <3>1, <3>2, <1>7 DEF TokenInv
  <2>3. CASE dma' = dma /\ leaked' = leaked + 1
    BY <2>1, <2>3, <1>2, <1>7 DEF TokenInv
  <2> QED
    BY <2>2, <2>3, <1>1
<1>9. mine \in [reader : Readers, call : 0 .. MaxCalls]
  BY <1>2 DEF TypeOK
<1>10. TypeOK'
  <2>1. dma' \subseteq [reader : Readers, call : 0 .. MaxCalls] /\ leaked' \in Nat
    BY <1>1, <1>2, <1>9
  <2> QED
    BY <2>1, <1>1, <1>2, <1>5 DEF TypeOK, semVars, skbVars, resultVars
<1>11. TransferInv'
  <2>1. CASE dma' = dma
    BY <2>1, <1>2 DEF TransferInv
  <2>2. CASE dma' = dma \cup {mine} /\ Goto(p, "wait")
    <3>1. pc'[p] = "wait" /\ calls' = calls /\ dma' = {mine}
      BY <2>2, <1>1, <1>2 DEF Goto, TypeOK
    <3>2. calls[p] \in Nat
      BY <1>2, BoundsAssumption DEF TypeOK
    <3> QED
      BY <3>1, <3>2 DEF TransferInv, Late
  <2> QED
    BY <2>1, <2>2, <1>1
<1>12. SkbInv' /\ SkbsAccounted'
  BY <1>1, <1>5 DEF ReadersInv, SkbInv, SkbsAccounted, skbVars, resultVars
<1> QED
  BY <1>1, <1>2, <1>6, <1>8, <1>10, <1>11, <1>12 DEF ReadersInv, semVars

\* TimeOut leaves the token where it is, with the transfer.
LEMMA TimeOutInv ==
    ASSUME ReadersInv, NEW p \in Readers, TimeOut(p)
    PROVE  ReadersInv'
<1>1. /\ pc[p] = "timedwait" /\ Goto(p, "error")
      /\ UNCHANGED <<sem, calls, err, dma, skbVars, leaked, resultVars>>
  BY DEF TimeOut
<1>2. PICK k \in 1 .. Len(semQueue) : semQueue[k] = p /\ semQueue' = Without(semQueue, k)
  BY DEF TimeOut
<1>3. /\ TypeOK /\ TokenInv /\ WaitersListed /\ (sem > 0 => semQueue = << >>)
      /\ pc \in [Readers -> States] /\ semQueue \in Seq(Readers) /\ sem \in Nat
  BY DEF ReadersInv, TypeOK
<1>4. "error" \in States \ Waiting
  BY DEF States, Waiting
<1>5. pc' = [pc EXCEPT ![semQueue[k]] = "error"]
  BY <1>1, <1>2 DEF Goto
<1>6. /\ WaitersListed' /\ semQueue' \in Seq(Readers) /\ pc' \in [Readers -> States]
  BY <1>2, <1>3, <1>4, <1>5, LeaveList
<1>7. pc'[p] = "error" /\ \A q \in Readers : q # p => pc'[q] = pc[q]
  BY <1>1, <1>3, <1>4, Moves
<1>8. TokenInv'
  BY <1>1, <1>3, <1>4, TokenStays
<1>9. ~(sem' > 0)
  BY <1>1, <1>2, <1>3
<1>10. TypeOK'
  BY <1>1, <1>3, <1>6 DEF TypeOK, skbVars, resultVars
<1>11. TransferInv'
  <2>1. \A q \in Readers : pc[q] \in Late => pc'[q] \in Late
    BY <1>7 DEF Late
  <2> QED
    BY <2>1, <1>1, TransferStays DEF ReadersInv
<1>12. SkbInv' /\ SkbsAccounted'
  BY <1>1, <1>7 DEF ReadersInv, SkbInv, SkbsAccounted, skbVars, resultVars
<1> QED
  BY <1>6, <1>8, <1>9, <1>10, <1>11, <1>12 DEF ReadersInv

\* up by whoever had the semaphore, with nothing in flight any more: the count has
\* it, or the first waiter.
LEMMA UpHandsOver ==
    ASSUME ReadersInv, sem = 0, NEW pcs \in [Readers -> States], Up(pcs),
           \A q \in Readers : pcs[q] # pc[q] => {pcs[q], pc[q]} \cap Waiting = {},
           \A q \in Readers : pcs[q] \notin {"start", "check"},
           dma' = {}, leaked' = 0
    PROVE  /\ sem' \in Nat /\ semQueue' \in Seq(Readers)
           /\ pc' \in [Readers -> States]
           /\ TokenInv' /\ (sem > 0 => semQueue = << >>)' /\ WaitersListed'
           /\ \A q \in Readers :
                 pcs[q] \in {"idle", "peek"} => pc'[q] \in {"idle", "peek"}
<1>1. /\ WaitersListed' /\ semQueue' \in Seq(Readers) /\ pc' \in [Readers -> States]
      /\ \/ sem' = sem + 1 /\ semQueue' = << >> /\ pc' = pcs
         \/ /\ sem' = sem
            /\ \E h \in Readers :
                  \/ pc[h] = "downwait" /\ pc' = [pcs EXCEPT ![h] = "start"]
                  \/ pc[h] = "timedwait" /\ pc' = [pcs EXCEPT ![h] = "check"]
  BY UpGrants DEF ReadersInv
<1>2. CASE sem' = sem + 1 /\ semQueue' = << >> /\ pc' = pcs
  <2>1. Holders' = {}
    BY <1>2 DEF Holders
  <2> QED
    BY <1>1, <1>2, <2>1 DEF TokenInv
<1>3. CASE /\ sem' = sem
           /\ \E h \in Readers :
                 \/ pc[h] = "downwait" /\ pc' = [pcs EXCEPT ![h] = "start"]
                 \/ pc[h] = "timedwait" /\ pc' = [pcs EXCEPT ![h] = "check"]
  <2>1. PICK h \in Readers, at \in {"start", "check"} :
           pc[h] \in Waiting /\ pc' = [pcs EXCEPT ![h] = at]
    BY <1>3 DEF Waiting
  <2>2. pc'[h] = at /\ \A q \in Readers : q # h => pc'[q] = pcs[q]
    BY <2>1
  <2>3. Holders' = {h}
    BY <2>2 DEF Holders
  <2>4. TokenInv'
    BY <1>3, <2>3 DEF TokenInv
  <2>5. pcs[h] \in Waiting
    BY <2>1
  <2>6. \A q \in Readers : pcs[q] \in {"idle", "peek"} => pc'[q] \in {"idle", "peek"}
    BY <2>2, <2>5 DEF Waiting
  <2> QED
    BY <1>1, <1>3, <2>4, <2>6
<1> QED
  BY <1>1, <1>2, <1>3

\* Check loses the token on an error and calls up otherwise.
LEMMA CheckInv ==
    ASSUME ReadersInv, NEW p \in Readers, Check(p)
    PROVE  ReadersInv'
<1>1. pc[p] = "check" /\ UNCHANGED <<calls, err, dma, skbVars, resultVars>>
  BY DEF Check
<1>2. /\ TypeOK /\ TokenInv /\ WaitersListed /\ (sem > 0 => semQueue = << >>)
      /\ pc \in [Readers -> States]
      /\ sem = 0 /\ Holders = {p} /\ dma = {} /\ leaked = 0
  BY <1>1, HolderAlone DEF ReadersInv, TypeOK
<1>3. TransferInv' /\ SkbsAccounted'
  BY <1>1, <1>2 DEF TransferInv, ReadersInv, SkbsAccounted, skbVars, resultVars
<1>4. CASE err[p]
  <2>1. Goto(p, "error") /\ leaked' = leaked + 1 /\ UNCHANGED semVars
    BY <1>4 DEF Check
  <2>2. "error" \in States \ Waiting /\ pc[p] \notin Waiting
    BY <1>1 DEF States, Waiting
  <2>3. /\ pc' \in [Readers -> States]
        /\ pc'[p] = "error" /\ \A q \in Readers : q # p => pc'[q] = pc[q]
    BY <2>1, <2>2, <1>2, Moves
  <2>4. Holders' = {}
    BY <2>3, <1>2 DEF Holders
  <2>5. TokenInv'
    BY <2>1, <2>4, <1>1, <1>2 DEF TokenInv, semVars
  <2>6. WaitersListed'
    BY <2>1, <2>2, <1>2, ListStill DEF semVars
  <2>7. TypeOK'
    BY <2>1, <2>3, <1>1, <1>2 DEF TypeOK, semVars, skbVars, resultVars
  <2>8. SkbInv'
    BY <2>3, <1>1 DEF ReadersInv, SkbInv, skbVars
  <2> QED
    BY <2>1, <2>5, <2>6, <2>7, <2>8, <1>2, <1>3 DEF ReadersInv, semVars
<1>5. CASE ~err[p]
  <2> DEFINE pcs == [pc EXCEPT ![p] = "success"]
  <2>1. Up(pcs) /\ leaked' = 0 /\ dma' = {}
    BY <1>5, <1>1, <1>2 DEF Check
  <2>2. /\ pcs \in [Readers -> States]
        /\ pcs[p] = "success" /\ \A q \in Readers : q # p => pcs[q] = pc[q]
    BY <1>2 DEF States
  <2> HIDE DEF pcs
  <2>3. \A q \in Readers : pcs[q] \notin {"start", "check"}
    BY <2>2, <1>2 DEF Holders
  <2>4. \A q \in Readers : pcs[q] # pc[q] => {pcs[q], pc[q]} \cap Waiting = {}
    BY <2>2, <1>1 DEF Waiting
  <2>5. /\ sem' \in Nat /\ semQueue' \in Seq(Readers)
        /\ pc' \in [Readers -> States]
        /\ TokenInv' /\ (sem > 0 => semQueue = << >>)' /\ WaitersListed'
        /\ \A q \in Readers : pcs[q] \in {"idle", "peek"} => pc'[q] \in {"idle", "peek"}
    BY <2>1, <2>2, <2>3, <2>4, <1>2, UpHandsOver
  <2>6. TypeOK'
    BY <2>1, <2>5, <1>1, <1>2 DEF TypeOK, skbVars, resultVars
  <2>7. SkbInv'
    BY <2>2, <2>5, <1>1 DEF ReadersInv, SkbInv, skbVars
  <2> QED
    BY <2>5, <2>6, <2>7, <1>3 DEF ReadersInv
<1> QED
  BY <1>4, <1>5

\* Callback has the token of the only transfer and calls up.
LEMMA CallbackInv ==
    ASSUME ReadersInv, Callback
    PROVE  ReadersInv'
<1>1. PICK d \in dma :
         /\ dma' = dma \ {d}
         /\ \/ UNCHANGED err
            \/ /\ StatusMayFail
               /\ IF Live(d)
                  THEN err' = [err EXCEPT ![d.reader] = TRUE]
                  ELSE StrayWrite(d.reader)
         /\ Up(pc)
         /\ UNCHANGED <<calls, skbVars, leaked, resultVars>>
  BY DEF Callback
<1>2. /\ TypeOK /\ pc \in [Readers -> States] /\ err \in [Readers -> BOOLEAN]
      /\ sem = 0 /\ Holders = {} /\ dma = {d} /\ leaked = 0
  BY DEF ReadersInv, TypeOK, TokenInv
<1>3. dma' = {} /\ leaked' = 0
  BY <1>1, <1>2
<1>4. \A q \in Readers : pc[q] \notin {"start", "check"}
  BY <1>2 DEF Holders
<1>5. /\ sem' \in Nat /\ semQueue' \in Seq(Readers)
      /\ pc' \in [Readers -> States]
      /\ TokenInv' /\ (sem > 0 => semQueue = << >>)' /\ WaitersListed'
      /\ \A q \in Readers : pc[q] \in {"idle", "peek"} => pc'[q] \in {"idle", "peek"}
  BY <1>1, <1>2, <1>3, <1>4, UpHandsOver
<1>6. err' \in [Readers -> BOOLEAN]
  <2>1. err' = err \/ err' = [err EXCEPT ![d.reader] = TRUE]
    BY <1>1 DEF StrayWrite
  <2> QED
    BY <2>1, <1>2
<1>7. TypeOK'
  BY <1>1, <1>2, <1>3, <1>5, <1>6 DEF TypeOK, skbVars, resultVars
<1>8. TransferInv'
  BY <1>3 DEF TransferInv
<1>9. SkbInv' /\ SkbsAccounted'
  BY <1>1, <1>5 DEF ReadersInv, SkbInv, SkbsAccounted, skbVars, resultVars
<1> QED
  BY <1>5, <1>7, <1>8, <1>9 DEF ReadersInv

\* Every step keeps the invariant.
LEMMA StepInv == ReadersInv /\ [Next]_vars => ReadersInv'
<1> SUFFICES ASSUME ReadersInv, [Next]_vars PROVE ReadersInv'
  OBVIOUS
<1>1. ASSUME NEW p \in Readers, Arrive(p) PROVE ReadersInv'
  BY <1>1, ArriveInv
<1>2. ASSUME NEW p \in Readers, Call(p) PROVE ReadersInv'
  BY <1>2, CallInv
<1>3. ASSUME NEW p \in Readers, Peek(p) PROVE ReadersInv'
  BY <1>3, PeekInv
<1>13. ASSUME NEW p \in Readers, NoData(p) PROVE ReadersInv'
  BY <1>13, NoDataInv
<1>4. ASSUME NEW p \in Readers, Map(p) PROVE ReadersInv'
  BY <1>4, MapInv
<1>5. ASSUME NEW p \in Readers, Down(p) PROVE ReadersInv'
  BY <1>5, DownInv
<1>6. ASSUME NEW p \in Readers, StartDma(p) PROVE ReadersInv'
  BY <1>6, StartDmaInv
<1>7. ASSUME NEW p \in Readers, Wait(p) PROVE ReadersInv'
  BY <1>7, WaitInv
<1>8. ASSUME NEW p \in Readers, TimeOut(p) PROVE ReadersInv'
  BY <1>8, TimeOutInv
<1>9. ASSUME NEW p \in Readers, Check(p) PROVE ReadersInv'
  BY <1>9, CheckInv
<1>10. ASSUME NEW p \in Readers, Return(p) PROVE ReadersInv'
  BY <1>10, ReturnInv
<1>11. CASE Callback
  BY <1>11, CallbackInv
<1>12. CASE UNCHANGED vars
  <2>1. /\ sem' = sem /\ semQueue' = semQueue /\ pc' = pc /\ calls' = calls
        /\ err' = err /\ dma' = dma /\ skbs' = skbs /\ arrived' = arrived
        /\ leaked' = leaked /\ good' = good /\ failed' = failed
    BY <1>12 DEF vars, semVars, skbVars, resultVars
  <2>2. TypeOK' /\ TokenInv'
    BY <2>1 DEF ReadersInv, TypeOK, TokenInv, Holders
  <2>3. WaitersListed'
    BY <2>1 DEF ReadersInv, WaitersListed
  <2>4. TransferInv' /\ SkbInv' /\ SkbsAccounted' /\ (sem > 0 => semQueue = << >>)'
    BY <2>1 DEF ReadersInv, TransferInv, SkbInv, SkbsAccounted
  <2> QED
    BY <2>2, <2>3, <2>4 DEF ReadersInv
<1> QED
  BY <1>1, <1>2, <1>3, <1>4, <1>5, <1>6, <1>7, <1>8, <1>9, <1>10, <1>11, <1>12, <1>13
     DEF Next, ReaderStep

-----------------------------------------------------------------------------
(* Theorems *)

\* Whatever fails and however late a callback comes, the semaphore, its wait list,
\* the transfers and the receive queues agree in every reachable state.
THEOREM InductiveInvariant == Spec => []ReadersInv
<1> QED
  BY InitInv, StepInv, PTL DEF Spec

\* Every variable stays in its range.
THEOREM TypeCorrect == Spec => []TypeOK
<1>1. ReadersInv => TypeOK
  BY DEF ReadersInv
<1> QED
  BY <1>1, InductiveInvariant, PTL

\* client_semaphore is a lock for any number of readers: the count, one reader, one
\* transfer or one error that leaked it, and never two of these.
THEOREM TokenIsOne == Spec => []OneToken
<1>1. ReadersInv => OneToken
  <2> SUFFICES ASSUME ReadersInv PROVE OneToken
    OBVIOUS
  <2>1. Cardinality({}) = 0 /\ \A x : Cardinality({x}) = 1
    BY FS_EmptySet, FS_Singleton
  <2>2. CASE sem = 1 /\ Holders = {} /\ dma = {} /\ leaked = 0
    BY <2>1, <2>2 DEF OneToken, ReadersInv
  <2>3. CASE sem = 0 /\ (\E p \in Readers : Holders = {p}) /\ dma = {} /\ leaked = 0
    <3>1. Cardinality(Holders) = 1 /\ Cardinality(dma) = 0
      BY <2>1, <2>3
    <3> QED
      BY <2>3, <3>1 DEF OneToken
  <2>4. CASE sem = 0 /\ Holders = {} /\ (\E d \in dma : dma = {d}) /\ leaked = 0
    <3>1. Cardinality(Holders) = 0 /\ Cardinality(dma) = 1
      BY <2>1, <2>4
    <3> QED
      BY <2>4, <3>1 DEF OneToken
  <2>5. CASE sem = 0 /\ Holders = {} /\ dma = {} /\ leaked = 1
    BY <2>1, <2>5 DEF OneToken
  <2> QED
    BY <2>2, <2>3, <2>4, <2>5 DEF ReadersInv, TokenInv
<1> QED
  BY <1>1, InductiveInvariant, PTL

\* A reader passes its wait only when its own transfer has ended, although up names
\* no one: data that is not there yet is never returned.
THEOREM OwnTransfer == Spec => []OwnTransferDone
<1>1. ReadersInv => OwnTransferDone
  BY DEF ReadersInv, TransferInv, Late, OwnTransferDone
<1> QED
  BY <1>1, InductiveInvariant, PTL

\* The wait list of the semaphore has every reader in down or down_timeout once and
\* nobody else, also after timeouts in the middle of it.
THEOREM ListIsRight == Spec => []WaitersListed
<1>1. ReadersInv => WaitersListed
  BY DEF ReadersInv
<1> QED
  BY <1>1, InductiveInvariant, PTL

\* No call consumes an skb twice or none: what arrived on a socket is still there,
\* or one call returned it, or one call failed with it.
THEOREM SkbsAreAccounted == Spec => []SkbsAccounted
<1>1. ReadersInv => SkbsAccounted
  BY DEF ReadersInv
<1> QED
  BY <1>1, InductiveInvariant, PTL

-----------------------------------------------------------------------------
(* The aperture by itself *)

Blocks == [first : Nat, len : Nat]

ApertureType ==
    /\ blocks \subseteq Blocks
    /\ step \in [Users -> {"out", "map", "unmap"}]
    /\ block \in [Users -> Blocks]
    /\ count \in [Users -> Nat]

\* Blocks are apart from each other, and none is empty.
Apart ==
    /\ \A b \in blocks : b.len > 0
    /\ \A b, c \in blocks : b # c => Pages(b) \cap Pages(c) = {}

\* A process at work has a block of its own, mapped up to its count.
OwnBlock ==
    /\ \A u \in Users : AtWork(u) => block[u] \in blocks /\ count[u] <= block[u].len
    /\ \A u, v \in Users : AtWork(u) /\ AtWork(v) /\ block[u] = block[v] => u = v

\* A page of a block is mapped unless a process at work has not come to it, or has
\* come back over it.
Behind(x, b) ==
    x \in Pages(b) /\ \A u \in Users : AtWork(u) /\ block[u] = b => x < b.first + count[u]

MappedIs == \A x : x \in mapped <=> \E b \in blocks : Behind(x, b)

\* The inductive invariant behind AllOrNothing.
ApertureInv == ApertureType /\ Apart /\ OwnBlock /\ MappedIs

-----------------------------------------------------------------------------

LEMMA ApertureInitInv == ApertureInit => ApertureInv
  BY RoomAssumption DEF ApertureInit, ApertureInv, ApertureType, Apart, OwnBlock,
     MappedIs, AtWork, NoBlock, Blocks

\* Reserve takes a block of its own.
LEMMA ReserveInv ==
    ASSUME ApertureInv, NEW u \in Users, NEW n \in Needs, Reserve(u, n)
    PROVE  ApertureInv'
<1> USE DEF ApertureInv
<1> n \in Nat \ {0} /\ Room \in Nat
  BY RoomAssumption
<1>1. PICK f \in Places(n) :
         /\ block' = [block EXCEPT ![u] = [first |-> f, len |-> n]]
         /\ blocks' = blocks \cup {[first |-> f, len |-> n]}
  BY DEF Reserve
<1> DEFINE new == [first |-> f, len |-> n]
<1>2. /\ f \in Nat /\ new \in Blocks /\ new.first = f /\ new.len = n
      /\ \A b \in blocks : Pages(b) \cap Pages(new) = {}
  BY DEF Places, Pages, Blocks
<1>3. /\ f \in Pages(new)
      /\ new \notin blocks
  BY <1>2 DEF Pages, Apart
<1> HIDE DEF new
<1>4. ApertureType'
  BY <1>1, <1>2 DEF Reserve, ApertureType, new
<1>5. Apart'
  BY <1>1, <1>2 DEF Apart, Pages, new
<1>6. /\ step' = [step EXCEPT ![u] = "map"] /\ count' = [count EXCEPT ![u] = 0]
      /\ mapped' = mapped /\ ~AtWork(u)
      /\ block'[u] = new /\ \A v \in Users \ {u} : block'[v] = block[v]
      /\ blocks' = blocks \cup {new}
  BY <1>1 DEF Reserve, AtWork, new, ApertureType
<1>7. /\ AtWork(u)' /\ count'[u] = 0
      /\ \A v \in Users \ {u} : (AtWork(v)' <=> AtWork(v)) /\ count'[v] = count[v]
  BY <1>6 DEF AtWork, ApertureType
<1>8. OwnBlock'
  BY <1>2, <1>3, <1>6, <1>7 DEF OwnBlock
<1>9. MappedIs'
  <2>1. ASSUME NEW x PROVE ~Behind(x, new)'
    BY <1>2, <1>6, <1>7 DEF Behind, Pages
  <2>2. ASSUME NEW x, NEW b \in blocks PROVE Behind(x, b)' <=> Behind(x, b)
    BY <1>3, <1>6, <1>7 DEF Behind
  <2> QED
    BY <1>6, <2>1, <2>2 DEF MappedIs
<1> QED
  BY <1>4, <1>5, <1>8, <1>9

\* One process moves its count over the pages of its block; the page it passes is
\* mapped or unmapped.
LEMMA PageInv ==
    ASSUME ApertureInv, NEW u \in Users, MapPage(u) \/ UnmapPage(u)
    PROVE  ApertureInv'
<1> USE DEF ApertureInv
<1>1. ApertureType'
  BY DEF MapPage, UnmapPage, ApertureType, Blocks
<1>2. Apart'
  BY DEF MapPage, UnmapPage, Apart, Pages
<1>3. /\ AtWork(u) /\ block[u] \in blocks /\ block[u] \in Blocks
      /\ blocks' = blocks /\ block' = block /\ step' = step
      /\ \A v \in Users \ {u} : count'[v] = count[v]
      /\ \A v \in Users : AtWork(v)' <=> AtWork(v)
      /\ count[u] \in Nat /\ count'[u] \in Nat
  BY <1>1 DEF MapPage, UnmapPage, AtWork, OwnBlock, ApertureType
<1>4. OwnBlock'
  <2>1. count'[u] <= block[u].len
    BY <1>3 DEF MapPage, UnmapPage, OwnBlock, ApertureType, Blocks
  <2> QED
    BY <1>3, <2>1 DEF OwnBlock
<1>5. MappedIs'
  <2>1. ASSUME NEW x, NEW b \in blocks, b # block[u]
        PROVE  Behind(x, b)' <=> Behind(x, b)
    BY <1>3, <2>1 DEF Behind
  <2>2. ASSUME NEW x
        PROVE  /\ Behind(x, block[u]) <=> x \in Prefix(u)
               /\ Behind(x, block[u])' <=> x \in Prefix(u)'
    <3>1. \A v \in Users : AtWork(v) /\ block[v] = block[u] => v = u
      BY <1>3 DEF OwnBlock
    <3>2. count[u] <= block[u].len /\ count'[u] <= block[u].len
      BY <1>3, <1>4 DEF OwnBlock
    <3> QED
      BY <1>3, <3>1, <3>2 DEF Behind, Prefix, Pages, Blocks
  <2>3. \A b \in blocks : \A x : b # block[u] /\ x \in Pages(block[u]) => x \notin Pages(b)
    BY <1>3 DEF Apart
  <2>4. \A x : x \in Prefix(u) \/ x \in Prefix(u)' => x \in Pages(block[u])
    BY <1>3, <1>4 DEF Prefix, Pages, OwnBlock, Blocks
  <2>5. CASE MapPage(u)
    <3> DEFINE y == block[u].first + count[u]
    <3>1. mapped' = mapped \cup {y} /\ count'[u] = count[u] + 1
      BY <2>5, <1>3 DEF MapPage, ApertureType
    <3>2. \A x : x \in Prefix(u)' <=> x \in Prefix(u) \/ x = y
      BY <1>3, <3>1 DEF Prefix, Blocks
    <3> HIDE DEF y
    <3> QED
      BY <1>3, <2>1, <2>2, <3>1, <3>2 DEF MappedIs
  <2>6. CASE UnmapPage(u)
    <3> DEFINE y == block[u].first + count[u] - 1
    <3>1. mapped' = mapped \ {y} /\ count'[u] = count[u] - 1 /\ count[u] > 0
      BY <2>6, <1>3 DEF UnmapPage, ApertureType
    <3>2. (\A x : x \in Prefix(u)' <=> x \in Prefix(u) /\ x # y) /\ y \in Prefix(u)
      BY <1>3, <3>1 DEF Prefix, Blocks
    <3> HIDE DEF y
    <3>3. \A b \in blocks : b # block[u] => ~Behind(y, b)
      BY <2>3, <2>4, <3>2 DEF Behind
    <3> QED
      BY <1>3, <2>1, <2>2, <3>1, <3>2, <3>3 DEF MappedIs
  <2> QED
    BY <2>5, <2>6
<1> QED
  BY <1>1, <1>2, <1>4, <1>5

\* A page that cannot be mapped turns the process round; nothing else changes.
LEMMA TurnInv ==
    ASSUME ApertureInv, NEW u \in Users, MapPageFails(u)
    PROVE  ApertureInv'
<1> USE DEF ApertureInv
<1>1. ApertureType'
  BY DEF MapPageFails, ApertureType
<1>2. \A v \in Users : AtWork(v)' <=> AtWork(v)
  BY DEF MapPageFails, AtWork, ApertureType
<1>3. UNCHANGED <<blocks, mapped, block, count>>
  BY DEF MapPageFails
<1>4. \A x, b : Behind(x, b)' <=> Behind(x, b)
  BY <1>2, <1>3 DEF Behind
<1> QED
  BY <1>1, <1>2, <1>3, <1>4 DEF Apart, OwnBlock, MappedIs

\* The block that is given back has no page mapped.
LEMMA ReleaseInv ==
    ASSUME ApertureInv, NEW u \in Users, Release(u)
    PROVE  ApertureInv'
<1> USE DEF ApertureInv
<1>1. ApertureType'
  BY DEF Release, ApertureType, NoBlock, Blocks
<1>2. /\ blocks' = blocks \ {block[u]} /\ mapped' = mapped /\ count' = count
      /\ AtWork(u) /\ ~AtWork(u)' /\ count[u] = 0 /\ block[u] \in Blocks
      /\ \A v \in Users \ {u} : (AtWork(v)' <=> AtWork(v)) /\ block'[v] = block[v]
  BY DEF Release, AtWork, ApertureType
<1>3. Apart'
  BY <1>2 DEF Apart, Pages
<1>4. OwnBlock'
  BY <1>2 DEF OwnBlock
<1>5. MappedIs'
  <2>1. ASSUME NEW x PROVE ~Behind(x, block[u])
    BY <1>2 DEF Behind, Pages, Blocks
  <2>2. ASSUME NEW x, NEW b \in blocks, b # block[u]
        PROVE  Behind(x, b)' <=> Behind(x, b)
    BY <1>2, <2>2 DEF Behind
  <2> QED
    BY <1>2, <2>1, <2>2 DEF MappedIs
<1> QED
  BY <1>1, <1>3, <1>4, <1>5

\* The block of a call that succeeds is mapped from end to end.
LEMMA SucceedInv ==
    ASSUME ApertureInv, NEW u \in Users, Succeed(u)
    PROVE  ApertureInv'
<1> USE DEF ApertureInv
<1>1. ApertureType'
  BY DEF Succeed, ApertureType
<1>2. /\ UNCHANGED <<blocks, mapped, block, count>>
      /\ AtWork(u) /\ ~AtWork(u)' /\ count[u] = block[u].len /\ block[u] \in Blocks
      /\ \A v \in Users \ {u} : AtWork(v)' <=> AtWork(v)
  BY DEF Succeed, AtWork, ApertureType
<1>3. Apart' /\ OwnBlock'
  BY <1>2 DEF Apart, OwnBlock, Pages
<1>4. MappedIs'
  <2>1. ASSUME NEW x, NEW b \in blocks PROVE Behind(x, b)' <=> Behind(x, b)
    <3>1. CASE b = block[u]
      BY <1>2, <3>1 DEF Behind, Pages, Blocks
    <3>2. CASE b # block[u]
      BY <1>2, <3>2 DEF Behind
    <3> QED
      BY <3>1, <3>2
  <2> QED
    BY <1>2, <2>1 DEF MappedIs
<1> QED
  BY <1>1, <1>3, <1>4

LEMMA ApertureStill ==
    ASSUME ApertureInv, UNCHANGED apertureVars
    PROVE  ApertureInv'
  BY DEF apertureVars, ApertureInv, ApertureType, Apart, OwnBlock, MappedIs, Behind,
     AtWork, Pages

LEMMA ApertureStepInv == ApertureInv /\ [ApertureNext]_apertureVars => ApertureInv'
<1> SUFFICES ASSUME ApertureInv, [ApertureNext]_apertureVars PROVE ApertureInv'
  OBVIOUS
<1>1. CASE UNCHANGED apertureVars
  BY <1>1, ApertureStill
<1>2. ASSUME NEW u \in Users, ApertureStep(u) PROVE ApertureInv'
  <2>1. ASSUME NEW n \in Needs, Reserve(u, n) PROVE ApertureInv'
    BY <2>1, ReserveInv
  <2>2. ASSUME NEW n \in Needs, Refused(u, n) PROVE ApertureInv'
    BY <2>2, ApertureStill DEF Refused
  <2>3. CASE MapPage(u) \/ UnmapPage(u)
    BY <2>3, PageInv
  <2>4. CASE MapPageFails(u)
    BY <2>4, TurnInv
  <2>5. CASE Release(u)
    BY <2>5, ReleaseInv
  <2>6. CASE Succeed(u)
    BY <2>6, SucceedInv
  <2> QED
    BY <1>2, <2>1, <2>2, <2>3, <2>4, <2>5, <2>6 DEF ApertureStep
<1> QED
  BY <1>1, <1>2 DEF ApertureNext

-----------------------------------------------------------------------------

\* What the invariant says of the pages is what AllOrNothing says of them.
LEMMA InvImplies == ApertureInv => AllOrNothing
<1> SUFFICES ASSUME ApertureInv PROVE AllOrNothing
  OBVIOUS
<1> USE DEF ApertureInv
<1> DEFINE Work == {v \in Users : AtWork(v)}
           Done == blocks \ {block[u] : u \in Work}
<1>1. ASSUME NEW x, NEW b \in Done PROVE Behind(x, b) <=> x \in Pages(b)
  BY <1>1 DEF Behind
<1>2. ASSUME NEW u \in Work, NEW x PROVE Behind(x, block[u]) <=> x \in Prefix(u)
  <2>1. \A v \in Users : AtWork(v) /\ block[v] = block[u] => v = u
    BY DEF OwnBlock
  <2>2. count[u] <= block[u].len /\ block[u] \in Blocks /\ count[u] \in Nat
    BY DEF OwnBlock, ApertureType
  <2> QED
    BY <2>1, <2>2 DEF Behind, Prefix, Pages, Blocks
<1>3. \A u \in Work : block[u] \in blocks
  BY DEF OwnBlock
<1>4. ASSUME NEW x
      PROVE  x \in mapped <=> \/ \E b \in Done : x \in Pages(b)
                              \/ \E u \in Work : x \in Prefix(u)
  <2>1. x \in mapped <=> \E b \in blocks : Behind(x, b)
    BY DEF MappedIs
  <2>2. blocks = Done \cup {block[u] : u \in Work}
    BY <1>3
  <2> HIDE DEF Done, Work
  <2> QED
    BY <2>1, <2>2, <1>1, <1>2
<1>5. mapped = UNION ({Pages(b) : b \in Done} \cup {Prefix(u) : u \in Work})
  <2> HIDE DEF Done, Work
  <2> QED
    BY <1>4
<1> QED
  BY <1>5 DEF AllOrNothing, Apart

\* A buffer is mapped as a whole or not at all, however many processes map buffers of
\* any size at the same time, and whichever of their steps fails.
THEOREM MappedWhole == ApertureSpec => []AllOrNothing
<1>1. ApertureSpec => []ApertureInv
  BY ApertureInitInv, ApertureStepInv, PTL DEF ApertureSpec
<1> QED
  BY <1>1, InvImplies, PTL

-----------------------------------------------------------------------------
(* The steps of the parts *)

\* Every step of the composition is a step of the readers, or leaves them alone.
LEMMA StepOfReaders == [PathNext]_pathVars => [Next]_vars
<1> SUFFICES ASSUME PathNext, ~UNCHANGED vars PROVE Next
  BY DEF pathVars
<1>1. ASSUME NEW p \in Readers, MapBuffer(p) PROVE Map(p)
  BY <1>1 DEF MapBuffer
<1>2. ASSUME NEW p \in Readers, StartPull(p) PROVE StartDma(p)
  BY <1>2 DEF StartPull
<1>3. ASSUME NEW p \in Readers, OtherReaderStep(p)
      PROVE  Call(p) \/ Arrive(p) \/ ReaderStep(p)
  BY <1>3 DEF OtherReaderStep, ReaderStep
<1>4. PullEnds => Callback
  BY DEF PullEnds
<1>5. ~SendBuffer
  BY DEF SendBuffer
<1> QED
  BY <1>1, <1>2, <1>3, <1>4, <1>5 DEF PathNext, Next, ReaderStep

\* Every step of it is a step of the aperture, or leaves that alone.
LEMMA StepOfAperture == [PathNext]_pathVars => [ApertureNext]_apertureVars
<1> SUFFICES ASSUME PathNext, ~UNCHANGED apertureVars PROVE ApertureNext
  BY DEF pathVars
<1>1. ASSUME NEW p \in Readers, MapBuffer(p) PROVE ApertureStep(p)
  BY <1>1 DEF MapBuffer, ApertureStep
<1>2. ASSUME NEW p \in Readers PROVE ~StartPull(p) /\ ~OtherReaderStep(p)
  BY DEF StartPull, OtherReaderStep
<1>3. ~PullEnds
  BY DEF PullEnds
<1>4. SendBuffer => ApertureStep(Sender)
  BY DEF SendBuffer, ApertureStep
<1> QED
  BY <1>1, <1>2, <1>3, <1>4, UsersAssumption DEF PathNext, ApertureNext

-----------------------------------------------------------------------------
(* The blocks of the transfers *)

\* The readers between the end of the mapping and the start of the transfer.
Ready == {"down", "downwait", "start"}

\* No process in osif_iommu_map_user_pages works on the block.
Settled(b) == b \in blocks /\ \A u \in Users : AtWork(u) => block[u] # b

TargetInv ==
    /\ DOMAIN target = dma
    /\ \A p \in Readers : AtWork(p) => pc[p] = "map"
    /\ \A p \in Readers : pc[p] \in Ready => Settled(block[p])
    /\ \A d \in dma : Settled(target[d])

PathInv == ReadersInv /\ ApertureInv /\ TargetInv

LEMMA PathInitInv == PathInit => PathInv
<1> SUFFICES ASSUME PathInit PROVE PathInv
  OBVIOUS
<1>1. ReadersInv /\ ApertureInv
  BY InitInv, ApertureInitInv DEF PathInit
<1>2. TargetInv
  BY UsersAssumption DEF PathInit, Init, ApertureInit, TargetInv, AtWork, Ready
<1> QED
  BY <1>1, <1>2 DEF PathInv

\* A step of one process in the aperture does not touch the block of another.
LEMMA OthersKeepBlock ==
    ASSUME ApertureType, NEW u \in Users, ApertureStep(u)
    PROVE  \A v \in Users \ {u} : block'[v] = block[v] /\ (AtWork(v)' <=> AtWork(v))
  BY DEF ApertureStep, Reserve, Refused, MapPage, MapPageFails, UnmapPage, Release,
     Succeed, apertureVars, AtWork, ApertureType

\* A settled block stays so while processes map theirs.
LEMMA StaysSettled ==
    ASSUME ApertureInv, NEW u \in Users, ApertureStep(u), NEW b, Settled(b)
    PROVE  Settled(b)'
<1> USE DEF ApertureInv
<1>1. \A v \in Users \ {u} : block'[v] = block[v] /\ (AtWork(v)' <=> AtWork(v))
  BY OthersKeepBlock
<1>2. ASSUME NEW n \in Needs, Reserve(u, n) PROVE Settled(b)'
  <2>1. PICK f \in Places(n) :
           /\ block' = [block EXCEPT ![u] = [first |-> f, len |-> n]]
           /\ blocks' = blocks \cup {[first |-> f, len |-> n]}
    BY <1>2 DEF Reserve
  <2>2. n \in Nat \ {0} /\ f \in Nat /\ Pages(b) \cap (f .. f + n - 1) = {}
    BY RoomAssumption DEF Places, Settled
  <2>3. b # [first |-> f, len |-> n]
    BY <2>2 DEF Pages
  <2>4. block'[u] # b /\ b \in blocks'
    BY <2>1, <2>3 DEF Settled, ApertureType
  <2> QED
    BY <2>4, <1>1 DEF Settled
<1>3. ASSUME MapPage(u) \/ MapPageFails(u) \/ UnmapPage(u) \/ Succeed(u)
             \/ \E n \in Needs : Refused(u, n)
      PROVE  Settled(b)'
  <2>1. blocks' = blocks /\ block' = block /\ (AtWork(u)' => AtWork(u))
    BY <1>3 DEF MapPage, MapPageFails, UnmapPage, Succeed, Refused, apertureVars,
       AtWork, ApertureType
  <2> QED
    BY <2>1, <1>1 DEF Settled
<1>4. CASE Release(u)
  <2>1. AtWork(u) /\ ~AtWork(u)' /\ blocks' = blocks \ {block[u]}
    BY <1>4 DEF Release, AtWork, ApertureType
  <2> QED
    BY <2>1, <1>1 DEF Settled
<1> QED
  BY <1>2, <1>3, <1>4 DEF ApertureStep

\* Only mapping its buffer takes a reader out of "map", and only its end makes one
\* ready.
LEMMA ReadersMove ==
    ASSUME ReadersInv, NEW p \in Readers, OtherReaderStep(p) \/ StartDma(p) \/ Callback
    PROVE  \A q \in Readers : /\ pc[q] = "map" => pc'[q] = "map"
                              /\ pc'[q] \in Ready => pc[q] \in Ready
<1>0. /\ TypeOK /\ WaitersListed /\ (sem > 0 => semQueue = << >>)
      /\ pc \in [Readers -> States]
  BY DEF ReadersInv, TypeOK
<1>1. CASE Call(p) \/ Arrive(p) \/ Peek(p) \/ NoData(p) \/ TimeOut(p) \/ Return(p)
  BY <1>0, <1>1 DEF Call, Arrive, Peek, NoData, TimeOut, Return, Goto, Ready
<1>2. CASE Down(p) \/ Wait(p) \/ StartDma(p)
  BY <1>0, <1>2 DEF Down, Wait, StartDma, DownOr, Goto, Ready
<1>3. ASSUME NEW pcs \in [Readers -> States], Up(pcs),
             \A q \in Readers : pcs[q] # pc[q] => {pcs[q], pc[q]} \subseteq {"check", "success"}
      PROVE  \A q \in Readers : /\ pc[q] = "map" => pc'[q] = "map"
                                /\ pc'[q] \in Ready => pc[q] \in Ready
  <2>1. \A q \in Readers : pcs[q] # pc[q] => {pcs[q], pc[q]} \cap Waiting = {}
    BY <1>3 DEF Waiting
  <2>2. \/ pc' = pcs
        \/ \E h \in Readers : \/ pc[h] = "downwait" /\ pc' = [pcs EXCEPT ![h] = "start"]
                              \/ pc[h] = "timedwait" /\ pc' = [pcs EXCEPT ![h] = "check"]
    BY <1>0, <1>3, <2>1, UpGrants
  <2> QED
    BY <1>3, <2>2 DEF Ready
<1>4. CASE Check(p)
  <2>1. pc[p] = "check"
    BY <1>4 DEF Check
  <2>2. CASE err[p]
    BY <1>0, <1>4, <2>1, <2>2 DEF Check, Goto, Ready
  <2>3. CASE ~err[p]
    <3>1. Up([pc EXCEPT ![p] = "success"])
      BY <1>4, <2>3 DEF Check
    <3>2. [pc EXCEPT ![p] = "success"] \in [Readers -> States]
      BY <1>0 DEF States
    <3> QED
      BY <1>0, <1>3, <2>1, <3>1, <3>2
  <2> QED
    BY <2>2, <2>3
<1>5. CASE Callback
  BY <1>0, <1>3, <1>5 DEF Callback
<1> QED
  BY <1>1, <1>2, <1>4, <1>5 DEF OtherReaderStep

LEMMA TargetStep == PathInv /\ [PathNext]_pathVars => TargetInv'
<1> SUFFICES ASSUME PathInv, [PathNext]_pathVars PROVE TargetInv'
  OBVIOUS
<1>0. ReadersInv /\ ApertureInv /\ TargetInv /\ pc \in [Readers -> States]
      /\ Readers \subseteq Users /\ ApertureType
  BY UsersAssumption DEF PathInv, ReadersInv, TypeOK, ApertureInv
<1>1. ASSUME UNCHANGED apertureVars PROVE \A b : Settled(b)' <=> Settled(b)
  BY <1>1 DEF apertureVars, Settled, AtWork
<1>2. ASSUME NEW p \in Readers, OtherReaderStep(p) \/ StartPull(p) \/ PullEnds
      PROVE  TargetInv'
  <2>1. /\ \A q \in Readers : pc[q] = "map" => pc'[q] = "map"
        /\ \A q \in Readers : pc'[q] \in Ready => pc[q] \in Ready
    BY <1>0, <1>2, ReadersMove DEF StartPull, PullEnds
  <2>2. UNCHANGED apertureVars
    BY <1>2 DEF OtherReaderStep, StartPull, PullEnds
  <2>3. \A q \in Readers : /\ AtWork(q)' => pc'[q] = "map"
                           /\ pc'[q] \in Ready => Settled(block[q])'
    BY <1>0, <1>1, <2>1, <2>2 DEF TargetInv, AtWork, apertureVars
  <2>4. DOMAIN target' = dma' /\ \A d \in dma' : Settled(target'[d])
    <3>1. CASE OtherReaderStep(p)
      BY <1>0, <3>1 DEF OtherReaderStep, TargetInv, Call, Arrive, Peek, NoData, Down,
         Wait, TimeOut, Check, Return
    <3>2. CASE PullEnds
      BY <1>0, <3>2 DEF PullEnds, Callback, TargetInv
    <3>3. CASE StartPull(p)
      <4>1. pc[p] = "start" /\ target' = [d \in dma' |-> IF d \in dma THEN target[d] ELSE block[p]]
        BY <3>3 DEF StartPull, StartDma
      <4>2. Settled(block[p])
        BY <1>0, <4>1 DEF TargetInv, Ready
      <4> QED
        BY <1>0, <4>1, <4>2 DEF TargetInv
    <3> QED
      BY <1>2, <3>1, <3>2, <3>3
  <2>5. \A d \in dma' : Settled(target'[d]) => Settled(target[d])'
    BY <1>1, <2>2 DEF Settled, apertureVars, AtWork
  <2> QED
    BY <2>3, <2>4, <2>5 DEF TargetInv, Settled, AtWork, apertureVars
<1>3. ASSUME NEW u \in Users, ApertureStep(u), UNCHANGED <<dma, target>>,
             \A q \in Readers \ {u} : pc'[q] = pc[q],
             u \in Readers => /\ AtWork(u)' => pc'[u] = "map"
                              /\ pc'[u] \in Ready => Settled(block[u])'
      PROVE  TargetInv'
  <2>1. \A v \in Users \ {u} : block'[v] = block[v] /\ (AtWork(v)' <=> AtWork(v))
    BY <1>0, <1>3, OthersKeepBlock
  <2>2. ASSUME NEW b, Settled(b) PROVE b \in blocks' /\ \A v \in Users : AtWork(v)' => block'[v] # b
    BY <1>0, <1>3, <2>2, StaysSettled DEF Settled
  <2>3. ASSUME NEW q \in Readers
        PROVE  /\ AtWork(q)' => pc'[q] = "map"
               /\ pc'[q] \in Ready => Settled(block[q])'
    <3>1. CASE q = u
      BY <1>3, <3>1
    <3>2. CASE q # u
      BY <1>0, <1>3, <2>1, <2>2, <3>2 DEF TargetInv, Settled
    <3> QED
      BY <3>1, <3>2
  <2>4. DOMAIN target' = dma' /\ \A d \in dma' : Settled(target[d])'
    BY <1>0, <1>3, <2>2 DEF TargetInv, Settled
  <2> QED
    BY <2>3, <2>4 DEF TargetInv
<1>4. ASSUME NEW p \in Readers, MapBuffer(p) PROVE TargetInv'
  <2>1. pc[p] = "map" /\ UNCHANGED <<dma, target>>
        /\ \A q \in Readers \ {p} : pc'[q] = pc[q]
    BY <1>0, <1>4 DEF MapBuffer, Map, Goto, vars
  <2>2. CASE Succeed(p) /\ Map(p) /\ pc'[p] = "down"
    <3>1. ~AtWork(p)' /\ AtWork(p) /\ UNCHANGED <<blocks, block>> /\ ApertureStep(p)
      BY <1>0, <2>2 DEF Succeed, AtWork, ApertureType, ApertureStep
    <3>2. \A v \in Users : AtWork(v)' => AtWork(v) /\ v # p
      BY <1>0, <3>1, OthersKeepBlock
    <3>3. Settled(block[p])'
      BY <1>0, <3>1, <3>2 DEF ApertureInv, OwnBlock, Settled
    <3> QED
      BY <1>0, <1>3, <2>1, <2>2, <3>1, <3>3
  <2>3. CASE UNCHANGED vars /\ ApertureStep(p)
    BY <1>0, <1>3, <2>1, <2>3 DEF vars, Ready
  <2>4. CASE Map(p) /\ pc'[p] = "error" /\ step'[p] = "out" /\ ApertureStep(p)
    BY <1>0, <1>3, <2>1, <2>4 DEF Ready, AtWork
  <2>5. CASE Map(p) /\ pc'[p] = "error" /\ step[p] = "out" /\ UNCHANGED apertureVars
    <3>1. ASSUME NEW q \in Readers
          PROVE  /\ AtWork(q)' => pc'[q] = "map"
                 /\ pc'[q] \in Ready => Settled(block[q])'
      <4>1. block' = block /\ step' = step /\ blocks' = blocks
        BY <2>5 DEF apertureVars
      <4>2. CASE q = p
        BY <2>5, <4>1, <4>2 DEF Ready, AtWork
      <4>3. CASE q # p
        BY <1>0, <2>1, <4>1, <4>3 DEF TargetInv, Settled, AtWork
      <4> QED
        BY <4>2, <4>3
    <3>2. DOMAIN target' = dma' /\ \A d \in dma' : Settled(target[d])'
      BY <1>0, <2>1, <2>5 DEF TargetInv, Settled, AtWork, apertureVars
    <3> QED
      BY <3>1, <3>2 DEF TargetInv
  <2>6. Release(p) => step'[p] = "out" /\ ApertureStep(p)
    BY <1>0 DEF Release, ApertureType, ApertureStep
  <2>7. \A n \in Needs : Refused(p, n) => step[p] = "out" /\ UNCHANGED apertureVars
    BY DEF Refused
  <2> QED
    BY <1>4, <2>2, <2>3, <2>4, <2>5, <2>6, <2>7 DEF MapBuffer, ApertureStep
<1>5. CASE SendBuffer
  <2>1. ApertureStep(Sender) /\ Sender \in Users \ Readers
    BY <1>5, UsersAssumption DEF SendBuffer, ApertureStep
  <2> QED
    BY <1>3, <1>5, <2>1 DEF SendBuffer, vars
<1>6. CASE UNCHANGED pathVars
  BY <1>0, <1>6 DEF pathVars, vars, apertureVars, TargetInv, Settled, AtWork
<1>7. CASE PullEnds /\ Readers = {}
  BY <1>0, <1>7 DEF PullEnds, Callback, ReadersInv, TypeOK
<1> QED
  BY <1>2, <1>4, <1>5, <1>6, <1>7 DEF PathNext

LEMMA PathStepInv == PathInv /\ [PathNext]_pathVars => PathInv'
  BY StepOfReaders, StepOfAperture, StepInv, ApertureStepInv, TargetStep DEF PathInv

LEMMA PathAlways == PathSpec => []PathInv
<1> QED
  BY PathInitInv, PathStepInv, PTL DEF PathSpec

-----------------------------------------------------------------------------
(* Theorems *)

\* A transfer writes to pages that are mapped and that nobody maps or unmaps, also one
\* that ends after its call, for any number of readers, any aperture and any buffers.
THEOREM PullsAreMapped == PathSpec => []PullsMapped
<1>1. PathInv => PullsMapped
  <2> SUFFICES ASSUME PathInv, NEW d \in dma
               PROVE  /\ Pages(target[d]) \subseteq mapped
                      /\ \A u \in Users : AtWork(u) =>
                                 Pages(target[d]) \cap Pages(block[u]) = {}
    BY DEF PullsMapped
  <2>1. Settled(target[d]) /\ MappedIs /\ Apart /\ OwnBlock
    BY DEF PathInv, TargetInv, ApertureInv
  <2>2. \A x \in Pages(target[d]) : Behind(x, target[d])
    BY <2>1 DEF Settled, Behind
  <2> QED
    BY <2>1, <2>2 DEF Settled, MappedIs, Apart, OwnBlock
<1> QED
  BY <1>1, PathAlways, PTL

\* A buffer is mapped as a whole or not at all, for readers and a sender together.
THEOREM PathMapsWhole == PathSpec => []AllOrNothing
<1>1. PathInv => AllOrNothing
  BY InvImplies DEF PathInv
<1> QED
  BY <1>1, PathAlways, PTL

\* What is true of the readers alone is true of them with the aperture between them:
\* the composition implements RecvMsg.
THEOREM PathImplementsReaders == PathSpec => Spec
<1>1. PathInit => Init
  BY DEF PathInit
<1> QED
  BY <1>1, StepOfReaders, PTL DEF PathSpec, Spec

\* So the semaphore, the wait list, the transfers and the receive queues agree.
THEOREM PathKeepsReaders == PathSpec => []ReadersInv
  BY PathImplementsReaders, InductiveInvariant, PTL
=============================================================================
