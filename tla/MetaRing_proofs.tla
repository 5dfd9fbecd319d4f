--------------------------- MODULE MetaRing_proofs ---------------------------
(***************************************************************************)
(* Proofs about MetaRing for every ring size, every finite set of senders  *)
(* and every bound, as long as the programs leave at most Size - 2         *)
(* messages unreceived: the inductive invariant RingInv, and what follows   *)
(* from it.  Behind it, what holds of the ring with no window at all.      *)
(***************************************************************************)
EXTENDS MetaRing, FiniteSetTheorems, TLAPS

\* The widest window the ring can bear.
SafeWindow == MaxInFlight <= Size - 2

-----------------------------------------------------------------------------
(* Facts about the pieces of the invariant *)

\* The senders that have not filled a slot are finitely many.
LEMMA PreFillFinite ==
    ASSUME TypeOK
    PROVE  IsFiniteSet(PreFill) /\ Cardinality(PreFill) \in Nat
BY SendersAssumption, FS_Subset, FS_CardinalityType DEF PreFill

\* One step of one sender changes the set PreFill by at most that sender.
LEMMA PreFillChange ==
    ASSUME TypeOK, NEW s \in Senders, NEW to \in SenderStates, Goto(s, to)
    PROVE  PreFill' = IF to \in {"lock", "alloc", "fill"}
                      THEN PreFill \cup {s} ELSE PreFill \ {s}
BY DEF PreFill, Goto, TypeOK

\* The numbers the ring arithmetic works on are integers in their ranges.
LEMMA Arithmetic ==
    ASSUME TypeOK
    PROVE  /\ Size \in Nat /\ M \in Nat /\ M >= 2 /\ M = Size - 1
           /\ start \in Nat /\ start <= M /\ end \in Nat /\ end <= M
           /\ filled \in Nat
           /\ Len(rcvd) \in Nat
           /\ Taken \in Nat /\ (Taken = Len(rcvd) \/ Taken = Len(rcvd) + 1)
           /\ Unread \in Nat
BY SizeAssumption DEF TypeOK, M, Slots, Taken, Unread

LEMMA SlotsRange == Slots = 0 .. M
BY SizeAssumption DEF Slots, M

\* With a safe window at most Size - 2 messages are filled and not received,
\* one fewer while a sender still has a slot to fill.
LEMMA Window ==
    ASSUME TypeOK, CountInv, SafeWindow
    PROVE  /\ filled - Len(rcvd) <= M - 1
           /\ \A s \in Senders :
                spc[s] \in {"lock", "alloc", "fill"} => filled - Len(rcvd) <= M - 2
<1>1. /\ IsFiniteSet(PreFill) /\ Cardinality(PreFill) \in Nat
      /\ Len(rcvd) \in Nat /\ M = Size - 1 /\ Size \in Nat
      /\ begun \in Nat /\ filled \in Nat /\ MaxInFlight \in Nat
  BY PreFillFinite, Arithmetic, BoundsAssumption, SizeAssumption DEF TypeOK
<1>2. filled - Len(rcvd) <= M - 1
  BY <1>1 DEF CountInv, SafeWindow
<1>3. ASSUME NEW s \in Senders, spc[s] \in {"lock", "alloc", "fill"}
      PROVE  filled - Len(rcvd) <= M - 2
  <2>1. s \in PreFill
    BY <1>3 DEF PreFill
  <2>2. Cardinality(PreFill) # 0
    BY <2>1, <1>1, FS_EmptySet
  <2> QED
    BY <2>2, <1>1 DEF CountInv, SafeWindow
<1> QED
  BY <1>2, <1>3

-----------------------------------------------------------------------------
(* Initially *)

LEMMA InitInv == Init => RingInv
<1> SUFFICES ASSUME Init PROVE RingInv
  OBVIOUS
<1> USE DEF Init
<1>1. TypeOK
  <2>1. 0 \in Slots
    BY SizeAssumption DEF Slots
  <2>2. rcvd \in Seq(Nat)
    OBVIOUS
  <2>3. /\ slot \in [Senders -> Slots]
        /\ tmp \in [Senders -> Slots]
        /\ queue \in [Slots -> Nat]
    BY <2>1
  <2>4. spc \in [Senders -> SenderStates]
    BY DEF SenderStates
  <2> QED
    BY <2>1, <2>2, <2>3, <2>4 DEF TypeOK
<1>2. M \in Nat /\ M >= 2 /\ Taken = 0 /\ Unread = 0
  BY SizeAssumption DEF M, Taken, Unread
<1>3. LockInv
  BY DEF LockInv, MutualExclusion, CriticalStates, SenderStates
<1>4. CountInv
  <2>1. PreFill = {}
    BY DEF PreFill
  <2> QED
    BY <2>1, FS_EmptySet, BoundsAssumption DEF CountInv
<1>5. PublishInv /\ SenderInv /\ ReceiverInv
  BY <1>2 DEF PublishInv, SenderInv, ReceiverInv
<1>6. QueueInv /\ Fifo /\ HeldInv
  BY DEF QueueInv, Fifo, HeldInv
<1> QED
  BY <1>1, <1>3, <1>4, <1>5, <1>6 DEF RingInv

-----------------------------------------------------------------------------
(* The steps of rdma_xmit *)

\* The arithmetic of the ring does not move when its variables do not.
LEMMA SameRing ==
    ASSUME UNCHANGED <<start, end, queue, filled, rpc, rslot, held, rcvd>>
    PROVE  /\ Taken' = Taken /\ Unread' = Unread
           /\ QueueInv => QueueInv'
           /\ HeldInv => HeldInv'
           /\ Fifo => Fifo'
           /\ ReceiverInv => ReceiverInv'
<1>1. Taken' = Taken /\ Unread' = Unread
  BY DEF Taken, Unread, M
<1>2. \A n : Pos(n)' = Pos(n)
  BY <1>1 DEF Pos, M
<1> QED
  BY <1>1, <1>2 DEF QueueInv, HeldInv, Fifo, ReceiverInv, M

\* Only the sender that takes a step moves.
LEMMA OneMoves ==
    ASSUME TypeOK, NEW s \in Senders, NEW to \in SenderStates, Goto(s, to)
    PROVE  /\ spc' \in [Senders -> SenderStates]
           /\ \A t \in Senders : spc'[t] = IF t = s THEN to ELSE spc[t]
BY DEF TypeOK, Goto

\* A step from one place of the critical section to another keeps the lock.
LEMMA StayCritical ==
    ASSUME TypeOK, LockInv, NEW s \in Senders, NEW to \in CriticalStates,
           Goto(s, to), spc[s] \in CriticalStates, UNCHANGED sendLock
    PROVE  LockInv'
BY OneMoves DEF LockInv, MutualExclusion, CriticalStates

\* A step that neither begins a call nor fills a slot keeps the counts.
LEMMA SameCount ==
    ASSUME CountInv, PreFill' = PreFill, UNCHANGED <<begun, dropped, filled, rcvd>>
    PROVE  CountInv'
BY DEF CountInv

LEMMA BeginInv ==
    ASSUME RingInv, NEW s \in Senders, Begin(s)
    PROVE  RingInv'
<1> USE DEF RingInv
<1>1. TypeOK'
  BY DEF TypeOK, Begin, Goto, SenderStates, ringVars, receiverVars, Slots
<1>2. LockInv'
  BY DEF LockInv, MutualExclusion, Begin, Goto, TypeOK, CriticalStates, SenderStates
<1>3. CountInv'
  <2>1. PreFill' = PreFill \cup {s} /\ s \notin PreFill
    BY DEF PreFill, Begin, Goto, TypeOK
  <2>2. Cardinality(PreFill') = Cardinality(PreFill) + 1
    BY <2>1, PreFillFinite, FS_AddElement
  <2>3. /\ begun' = begun + 1 /\ begun < MaxSent
        /\ begun - Len(rcvd) - dropped < MaxInFlight
        /\ UNCHANGED <<rcvd, dropped, filled>>
    BY DEF Begin, InFlight, receiverVars
  <2>4. /\ begun \in Nat /\ Len(rcvd) \in Nat /\ filled \in Nat
        /\ Cardinality(PreFill) \in Nat
    BY PreFillFinite, Arithmetic DEF TypeOK
  <2> QED
    BY <2>2, <2>3, <2>4, BoundsAssumption DEF CountInv
<1>4. UNCHANGED <<start, end, queue, filled, rpc, rslot, held, rcvd, slot, tmp>>
  BY DEF Begin, ringVars, receiverVars
<1>5. PublishInv' /\ SenderInv'
  <2>1. \A t \in Senders : spc'[t] = IF t = s THEN "lock" ELSE spc[t]
    BY DEF Begin, Goto, TypeOK
  <2>2. spc[s] = "idle"
    BY DEF Begin
  <2> QED
    BY <1>4, <2>1, <2>2, SameRing DEF PublishInv, SenderInv, M
<1> QED
  BY <1>1, <1>2, <1>3, <1>4, <1>5, SameRing

LEMMA AcquireInv ==
    ASSUME RingInv, NEW s \in Senders, Acquire(s)
    PROVE  RingInv'
<1> USE DEF RingInv
<1>1. /\ UNCHANGED <<start, end, queue, filled, rpc, rslot, held, rcvd>>
      /\ UNCHANGED <<slot, tmp, begun, dropped, irq>>
      /\ spc[s] = "lock" /\ ~sendLock /\ sendLock' = TRUE /\ Goto(s, "alloc")
  BY DEF Acquire, ringVars, receiverVars, countVars
<1>2. "alloc" \in SenderStates
  BY DEF SenderStates
<1>3. /\ spc' \in [Senders -> SenderStates]
      /\ \A t \in Senders : spc'[t] = IF t = s THEN "alloc" ELSE spc[t]
  BY <1>1, <1>2, OneMoves
<1>4. TypeOK'
  BY <1>1, <1>3 DEF TypeOK
<1>5. LockInv'
  BY <1>1, <1>3 DEF LockInv, MutualExclusion, CriticalStates, SenderStates
<1>6. PreFill' = PreFill
  BY <1>1, <1>3 DEF PreFill
<1>7. CountInv'
  BY <1>1, <1>6, SameCount
<1>8. PublishInv' /\ SenderInv'
  BY <1>1, <1>3, SameRing DEF PublishInv, SenderInv, M
<1> QED
  BY <1>1, <1>4, <1>5, <1>7, <1>8, SameRing

\* With a safe window the ring is never found full.
LEMMA NotFull ==
    ASSUME RingInv, SafeWindow, NEW s \in Senders, spc[s] = "alloc"
    PROVE  /\ end + 1 # start
           /\ Taken + Unread = filled
           /\ Unread <= M - 2
<1> USE DEF RingInv
<1>1. \A t \in Senders : spc[t] \notin {"wrap", "load", "store"}
  BY DEF LockInv, MutualExclusion, CriticalStates, SenderStates
<1>2. filled = Taken + Unread
  BY <1>1 DEF PublishInv
<1>3. filled - Len(rcvd) <= M - 2
  BY Window
<1>4. Unread <= M - 2
  BY <1>2, <1>3, Arithmetic
<1> QED
  BY <1>2, <1>4, Arithmetic DEF Unread

LEMMA AllocInv ==
    ASSUME RingInv, SafeWindow, NEW s \in Senders, Alloc(s)
    PROVE  RingInv'
<1> USE DEF RingInv
<1>1. /\ UNCHANGED <<start, queue, filled, rpc, rslot, held, rcvd>>
      /\ UNCHANGED <<sendLock, tmp, begun, dropped, irq>>
      /\ spc[s] = "alloc"
  BY DEF Alloc, receiverVars, countVars
<1>2. end + 1 # start
  BY <1>1, NotFull
<1>3. /\ end' = IF end + 1 = Size THEN 0 ELSE end
      /\ slot' = [slot EXCEPT ![s] = end']
      /\ Goto(s, "fill")
  BY <1>2 DEF Alloc
<1>4. "fill" \in SenderStates /\ "fill" \in CriticalStates /\ "alloc" \in CriticalStates
  BY DEF SenderStates, CriticalStates
<1>5. /\ spc' \in [Senders -> SenderStates]
      /\ \A t \in Senders : spc'[t] = IF t = s THEN "fill" ELSE spc[t]
  BY <1>3, <1>4, OneMoves
<1>6. /\ end' \in Slots /\ end' < M
      /\ end = M => end' = 0
      /\ end # M => end' = end
  BY <1>3, Arithmetic, SlotsRange
<1>7. TypeOK'
  BY <1>1, <1>3, <1>5, <1>6 DEF TypeOK
<1>8. LockInv'
  BY <1>1, <1>3, <1>4, StayCritical
<1>9. CountInv'
  <2>1. PreFill' = PreFill
    BY <1>1, <1>5 DEF PreFill
  <2> QED
    BY <1>1, <2>1, SameCount
<1>10. Taken' = Taken /\ Unread' = Unread
  BY <1>1, <1>6, Arithmetic DEF Taken, Unread, ReceiverInv, M
<1>11. \A t \in Senders : spc[t] \in CriticalStates => t = s
  BY <1>1, <1>4 DEF LockInv, MutualExclusion
<1>12. PublishInv'
  BY <1>1, <1>5, <1>10 DEF PublishInv
<1>13. SenderInv'
  <2>1. slot'[s] = end'
    BY <1>3 DEF TypeOK
  <2>2. \A t \in Senders : t # s => spc[t] \in {"idle", "lock"}
    BY <1>11 DEF CriticalStates, TypeOK
  <2> QED
    BY <1>5, <1>6, <2>1, <2>2 DEF SenderInv, M
<1>14. ReceiverInv'
  BY <1>1, <1>6, Arithmetic DEF ReceiverInv, M
<1>15. \A n : Pos(n)' = Pos(n)
  BY <1>1, <1>10 DEF Pos, M
<1>16. QueueInv' /\ Fifo' /\ HeldInv'
  BY <1>1, <1>15 DEF QueueInv, Fifo, HeldInv, M
<1> QED
  BY <1>7, <1>8, <1>9, <1>12, <1>13, <1>14, <1>16

\* While one sender works on the ring the others have not entered it.
LEMMA OthersOutside ==
    ASSUME TypeOK, LockInv, NEW s \in Senders, spc[s] \in CriticalStates
    PROVE  \A t \in Senders : t # s => spc[t] \in {"idle", "lock"}
BY DEF LockInv, MutualExclusion, CriticalStates, TypeOK

\* A message in the window has a slot of its own among the M that are used.
LEMMA PosRange ==
    ASSUME TypeOK, PublishInv, filled - Len(rcvd) <= M - 1,
           NEW n \in 1 .. filled, filled - n < M
    PROVE  /\ Pos(n) \in 0 .. M - 1
           /\ \/ Pos(n) = start + n - Taken - 1
              \/ Pos(n) = start + n - Taken - 1 - M
              \/ Pos(n) = start + n - Taken - 1 + M
<1>1. /\ start \in Nat /\ start <= M /\ M \in Nat /\ Taken \in Nat /\ filled \in Nat
      /\ Len(rcvd) \in Nat /\ Taken >= Len(rcvd) /\ Unread \in Nat
  BY Arithmetic
<1>2. n \in Nat /\ n >= 1 /\ n <= filled
  BY <1>1
<1>3. filled >= Taken
  BY <1>1 DEF PublishInv
<1>4. start + n - Taken - 1 >= -M /\ start + n - Taken - 1 <= 2 * M - 1
  BY <1>1, <1>2, <1>3
<1> QED
  BY <1>1, <1>2, <1>4 DEF Pos

LEMMA FillInv ==
    ASSUME RingInv, SafeWindow, NEW s \in Senders, Fill(s)
    PROVE  RingInv'
<1> USE DEF RingInv
<1>1. /\ UNCHANGED <<start, end, rpc, rslot, held, rcvd>>
      /\ UNCHANGED <<sendLock, slot, tmp, begun, dropped, irq>>
      /\ spc[s] = "fill" /\ Goto(s, "wrap")
      /\ filled' = filled + 1
      /\ queue' = [i \in Slots |-> IF i = slot[s] THEN filled + 1 ELSE queue[i]]
  BY DEF Fill, receiverVars
<1>2. {"fill", "wrap"} \subseteq SenderStates \cap CriticalStates
  BY DEF SenderStates, CriticalStates
<1>3. /\ spc' \in [Senders -> SenderStates]
      /\ \A t \in Senders : spc'[t] = IF t = s THEN "wrap" ELSE spc[t]
  BY <1>1, <1>2, OneMoves
<1>4. filled' \in Nat /\ queue' \in [Slots -> Nat]
  BY <1>1 DEF TypeOK
<1>5. TypeOK'
  BY <1>1, <1>3, <1>4 DEF TypeOK
<1>6. LockInv'
  BY <1>1, <1>2, StayCritical
<1>7. CountInv'
  <2>1. PreFill' = PreFill \ {s} /\ s \in PreFill
    BY <1>1, <1>3 DEF PreFill
  <2>2. Cardinality(PreFill') = Cardinality(PreFill) - 1
    BY <2>1, PreFillFinite, FS_RemoveElement
  <2>3. begun \in Nat /\ filled \in Nat /\ Cardinality(PreFill) \in Nat
    BY PreFillFinite DEF TypeOK
  <2> QED
    BY <1>1, <2>2, <2>3 DEF CountInv
<1>8. Taken' = Taken /\ Unread' = Unread
  BY <1>1 DEF Taken, Unread, M
<1>9. \A t \in Senders : t # s => spc[t] \in {"idle", "lock"}
  BY <1>1, <1>2, OthersOutside
<1>10. filled = Taken + Unread
  BY <1>1, <1>9 DEF PublishInv
<1>11. PublishInv'
  BY <1>1, <1>3, <1>8, <1>10 DEF PublishInv
<1>12. slot[s] = end /\ end < M
  BY <1>1 DEF SenderInv
<1>13. SenderInv'
  BY <1>1, <1>3, <1>9, <1>12 DEF SenderInv, M
<1>14. ReceiverInv' /\ Fifo'
  BY <1>1 DEF ReceiverInv, Fifo, M
<1>15. M' = M /\ \A n : Pos(n)' = Pos(n)
  BY <1>1, <1>8 DEF Pos, M
<1>16. filled - Len(rcvd) <= M - 2 /\ filled' - Len(rcvd') <= M - 1
  BY <1>1, Window, Arithmetic
<1>17. /\ start \in Nat /\ start <= M /\ end \in Nat /\ M \in Nat /\ filled \in Nat
       /\ Taken \in Nat /\ Len(rcvd) \in Nat /\ Unread \in Nat
  BY Arithmetic
<1>18. Pos(filled + 1) = end
  <2>1. start + (filled + 1) - Taken - 1 = start + Unread
    BY <1>10, <1>17
  <2>2. Pos(filled + 1) = IF start + Unread >= M THEN start + Unread - M
                          ELSE IF start + Unread < 0 THEN start + Unread + M
                          ELSE start + Unread
    BY <2>1, <1>17 DEF Pos
  <2> QED
    BY <2>2, <1>12, <1>17 DEF Unread
<1>19. ASSUME NEW n \in 1 .. filled, filled + 1 - n < M
       PROVE  Pos(n) # end /\ Pos(n) \in Slots
  <2>1. n \in Nat /\ n >= 1 /\ n <= filled /\ filled - n < M
    BY <1>17, <1>19
  <2>2. /\ \/ Pos(n) = start + n - Taken - 1
           \/ Pos(n) = start + n - Taken - 1 - M
           \/ Pos(n) = start + n - Taken - 1 + M
        /\ Pos(n) \in 0 .. M - 1
    <3>1. filled - Len(rcvd) <= M - 1
      BY <1>16, <1>17
    <3> QED
      BY <2>1, <3>1, PosRange
  <2>3. Unread = end - start \/ Unread = end - start + M
    BY DEF Unread
  <2>4. Pos(n) # end
    BY <1>10, <1>12, <1>17, <1>19, <2>1, <2>2, <2>3
  <2> QED
    BY <2>2, <2>4, <1>17, SlotsRange
<1>20. \A n \in 1 .. filled + 1 : filled + 1 - n < M => queue'[Pos(n)] = n
  <2> SUFFICES ASSUME NEW n \in 1 .. filled + 1, filled + 1 - n < M
               PROVE  queue'[Pos(n)] = n
    OBVIOUS
  <2>1. CASE n = filled + 1
    BY <2>1, <1>1, <1>12, <1>18 DEF TypeOK
  <2>2. CASE n # filled + 1
    <3>1. n \in 1 .. filled /\ filled - n < M
      BY <2>2, <1>17
    <3>2. Pos(n) # end /\ Pos(n) \in Slots
      BY <3>1, <1>19
    <3> QED
      BY <3>1, <3>2, <1>1, <1>12 DEF QueueInv
  <2> QED
    BY <2>1, <2>2
<1>21. QueueInv'
  <2>1. filled' = filled + 1 /\ M' = M
    BY <1>1, <1>15
  <2> SUFFICES ASSUME NEW n \in 1 .. filled', filled' - n < M'
               PROVE  queue'[Pos(n)'] = n
    BY DEF QueueInv
  <2>2. n \in 1 .. filled + 1 /\ filled + 1 - n < M
    BY <2>1, <1>17 DEF M
  <2>3. queue'[Pos(n)] = n
    BY <1>20, <2>2
  <2>4. Pos(n)' = Pos(n)
    BY <1>15
  <2> QED
    BY <2>3, <2>4
<1>22. \A x \in held : /\ x.msg \in 1 .. Len(rcvd)
                       /\ filled + 1 - x.msg < M => x.slot = Pos(x.msg)
  <2> SUFFICES ASSUME NEW x \in held
               PROVE  /\ x.msg \in 1 .. Len(rcvd)
                      /\ filled + 1 - x.msg < M => x.slot = Pos(x.msg)
    OBVIOUS
  <2>1. x.msg \in 1 .. Len(rcvd) /\ (filled - x.msg < M => x.slot = Pos(x.msg))
    BY DEF HeldInv
  <2> QED
    BY <2>1, <1>17
<1>23. HeldInv'
  <2>1. held' = held /\ rcvd' = rcvd /\ filled' = filled + 1
    BY <1>1
  <2> QED
    BY <2>1, <1>15, <1>17, <1>22 DEF HeldInv, M
<1> QED
  BY <1>5, <1>6, <1>7, <1>11, <1>13, <1>14, <1>21, <1>23

LEMMA WrapInv ==
    ASSUME RingInv, NEW s \in Senders, Wrap(s)
    PROVE  RingInv'
<1> USE DEF RingInv
<1>1. /\ UNCHANGED <<start, queue, filled, rpc, rslot, held, rcvd>>
      /\ UNCHANGED <<slot, tmp, begun, dropped, irq, sendLock>>
      /\ spc[s] = "wrap" /\ Goto(s, "load")
      /\ end' = IF end + 1 = Size THEN 0 ELSE end
  BY DEF Wrap, receiverVars, countVars
<1>2. end' = end
  BY <1>1, Arithmetic DEF SenderInv
<1>3. {"wrap", "load"} \subseteq SenderStates \cap CriticalStates
  BY DEF SenderStates, CriticalStates
<1>4. /\ spc' \in [Senders -> SenderStates]
      /\ \A t \in Senders : spc'[t] = IF t = s THEN "load" ELSE spc[t]
  BY <1>1, <1>3, OneMoves
<1>5. TypeOK'
  BY <1>1, <1>2, <1>4 DEF TypeOK
<1>6. LockInv'
  BY <1>1, <1>3, StayCritical
<1>7. PreFill' = PreFill
  BY <1>1, <1>4 DEF PreFill
<1>8. CountInv'
  BY <1>1, <1>7, SameCount
<1>9. PublishInv' /\ SenderInv'
  <2>1. Taken' = Taken /\ Unread' = Unread
    BY <1>1, <1>2, SameRing
  <2> QED
    BY <1>1, <1>2, <1>4, <2>1 DEF PublishInv, SenderInv, M
<1> QED
  BY <1>1, <1>2, <1>5, <1>6, <1>8, <1>9, SameRing

LEMMA LoadInv ==
    ASSUME RingInv, NEW s \in Senders, Load(s)
    PROVE  RingInv'
<1> USE DEF RingInv
<1>1. /\ UNCHANGED <<start, end, queue, filled, rpc, rslot, held, rcvd>>
      /\ UNCHANGED <<slot, begun, dropped, irq, sendLock>>
      /\ spc[s] = "load" /\ Goto(s, "store")
      /\ tmp' = [tmp EXCEPT ![s] = end]
  BY DEF Load, ringVars, receiverVars, countVars
<1>2. {"load", "store"} \subseteq SenderStates \cap CriticalStates
  BY DEF SenderStates, CriticalStates
<1>3. /\ spc' \in [Senders -> SenderStates]
      /\ \A t \in Senders : spc'[t] = IF t = s THEN "store" ELSE spc[t]
  BY <1>1, <1>2, OneMoves
<1>4. TypeOK'
  BY <1>1, <1>3 DEF TypeOK
<1>5. LockInv'
  BY <1>1, <1>2, StayCritical
<1>6. PreFill' = PreFill
  BY <1>1, <1>3 DEF PreFill
<1>7. CountInv'
  BY <1>1, <1>6, SameCount
<1>8. PublishInv'
  BY <1>1, <1>3, SameRing DEF PublishInv
<1>9. SenderInv'
  <2>1. \A t \in Senders : tmp'[t] = IF t = s THEN end ELSE tmp[t]
    BY <1>1 DEF TypeOK
  <2> QED
    BY <1>1, <1>3, <2>1 DEF SenderInv, M
<1> QED
  BY <1>1, <1>4, <1>5, <1>7, <1>8, <1>9, SameRing

LEMMA StoreInv ==
    ASSUME RingInv, SafeWindow, NEW s \in Senders, Store(s)
    PROVE  RingInv'
<1> USE DEF RingInv
<1>1. /\ UNCHANGED <<start, queue, filled, rpc, rslot, held, rcvd>>
      /\ UNCHANGED <<slot, tmp, begun, dropped, irq, sendLock>>
      /\ spc[s] = "store" /\ Goto(s, "trigger")
      /\ end' = tmp[s] + 1
  BY DEF Store, receiverVars, countVars
<1>2. {"store", "trigger"} \subseteq SenderStates \cap CriticalStates
  BY DEF SenderStates, CriticalStates
<1>3. /\ spc' \in [Senders -> SenderStates]
      /\ \A t \in Senders : spc'[t] = IF t = s THEN "trigger" ELSE spc[t]
  BY <1>1, <1>2, OneMoves
<1>4. /\ start \in Nat /\ start <= M /\ end \in Nat /\ M \in Nat /\ filled \in Nat
      /\ Taken \in Nat /\ Len(rcvd) \in Nat /\ Unread \in Nat
      /\ Taken >= Len(rcvd)
  BY Arithmetic
<1>5. end < M /\ end' = end + 1
  BY <1>1 DEF SenderInv
<1>6. \A t \in Senders : t # s => spc[t] \in {"idle", "lock"}
  BY <1>1, <1>2, OthersOutside
<1>7. filled = Taken + Unread + 1 /\ Unread <= M - 2
  <2>1. filled = Taken + Unread + 1
    BY <1>1, <1>6 DEF PublishInv
  <2>2. filled - Len(rcvd) <= M - 1
    BY Window
  <2> QED
    BY <2>1, <2>2, <1>4
<1>8. end + 1 # start /\ ~(start = 0 /\ end + 1 = M)
  BY <1>4, <1>7 DEF Unread
<1>9. Unread' = Unread + 1
  <2>1. Unread' = IF start <= end + 1 THEN (end + 1) - start ELSE (end + 1) - start + M
    BY <1>1, <1>5 DEF Unread, M
  <2> QED
    BY <2>1, <1>4, <1>8 DEF Unread
<1>10. Taken' = Taken
  BY <1>1 DEF Taken
<1>11. TypeOK'
  <2>1. end' \in Slots
    BY <1>4, <1>5, SlotsRange
  <2> QED
    BY <2>1, <1>1, <1>3 DEF TypeOK
<1>12. LockInv'
  BY <1>1, <1>2, StayCritical
<1>13. CountInv'
  <2>1. PreFill' = PreFill
    BY <1>1, <1>3 DEF PreFill
  <2> QED
    BY <1>1, <2>1, SameCount
<1>14. PublishInv'
  <2>1. filled' = Taken' + Unread'
    BY <1>1, <1>4, <1>7, <1>9, <1>10
  <2>2. \A t \in Senders : spc'[t] \notin {"wrap", "load", "store"}
    BY <1>3, <1>6
  <2> QED
    BY <2>1, <2>2 DEF PublishInv
<1>15. SenderInv'
  BY <1>3, <1>6 DEF SenderInv
<1>16. ReceiverInv'
  BY <1>1, <1>5, <1>8 DEF ReceiverInv, M
<1>17. \A n : Pos(n)' = Pos(n)
  BY <1>1, <1>10 DEF Pos, M
<1>18. QueueInv' /\ Fifo' /\ HeldInv'
  BY <1>1, <1>17 DEF QueueInv, Fifo, HeldInv, M
<1> QED
  BY <1>11, <1>12, <1>13, <1>14, <1>15, <1>16, <1>18

LEMMA TriggerInv ==
    ASSUME RingInv, NEW s \in Senders, Trigger(s)
    PROVE  RingInv'
<1> USE DEF RingInv
<1>1. /\ UNCHANGED <<start, end, queue, filled, rpc, rslot, held, rcvd>>
      /\ UNCHANGED <<slot, tmp, begun, dropped, sendLock>>
      /\ spc[s] = "trigger" /\ Goto(s, "unlock")
  BY DEF Trigger, ringVars, receiverVars, countVars
<1>2. irq' \in Nat
  BY DEF Trigger, TypeOK
<1>3. {"trigger", "unlock"} \subseteq SenderStates \cap CriticalStates
  BY DEF SenderStates, CriticalStates
<1>4. /\ spc' \in [Senders -> SenderStates]
      /\ \A t \in Senders : spc'[t] = IF t = s THEN "unlock" ELSE spc[t]
  BY <1>1, <1>3, OneMoves
<1>5. TypeOK'
  BY <1>1, <1>2, <1>4 DEF TypeOK
<1>6. LockInv'
  BY <1>1, <1>3, StayCritical
<1>7. PreFill' = PreFill
  BY <1>1, <1>4 DEF PreFill
<1>8. CountInv'
  BY <1>1, <1>7, SameCount
<1>9. PublishInv' /\ SenderInv'
  BY <1>1, <1>4, SameRing DEF PublishInv, SenderInv, M
<1> QED
  BY <1>1, <1>5, <1>6, <1>8, <1>9, SameRing

LEMMA UnlockInv ==
    ASSUME RingInv, NEW s \in Senders, Unlock(s)
    PROVE  RingInv'
<1> USE DEF RingInv
<1>1. /\ UNCHANGED <<start, end, queue, filled, rpc, rslot, held, rcvd>>
      /\ UNCHANGED <<slot, tmp, begun, dropped, irq>>
      /\ spc[s] = "unlock" /\ Goto(s, "idle") /\ sendLock' = FALSE
  BY DEF Unlock, ringVars, receiverVars, countVars
<1>2. "idle" \in SenderStates /\ "unlock" \in CriticalStates
  BY DEF SenderStates, CriticalStates
<1>3. /\ spc' \in [Senders -> SenderStates]
      /\ \A t \in Senders : spc'[t] = IF t = s THEN "idle" ELSE spc[t]
  BY <1>1, <1>2, OneMoves
<1>4. TypeOK'
  BY <1>1, <1>3 DEF TypeOK
<1>5. \A t \in Senders : t # s => spc[t] \in {"idle", "lock"}
  BY <1>1, <1>2, OthersOutside
<1>6. LockInv'
  BY <1>1, <1>3, <1>5 DEF LockInv, MutualExclusion, CriticalStates
<1>7. PreFill' = PreFill
  BY <1>1, <1>3 DEF PreFill
<1>8. CountInv'
  BY <1>1, <1>7, SameCount
<1>9. PublishInv' /\ SenderInv'
  BY <1>1, <1>3, SameRing DEF PublishInv, SenderInv, M
<1> QED
  BY <1>1, <1>4, <1>6, <1>8, <1>9, SameRing

-----------------------------------------------------------------------------
(* The steps of rdma_recv *)

\* What the senders rely on does not move when the receiver only moves start
\* and hands on messages.
LEMMA SendersStill ==
    ASSUME UNCHANGED <<sendLock, spc, slot, tmp, end>>
    PROVE  /\ LockInv => LockInv'
           /\ SenderInv => SenderInv'
           /\ PreFill' = PreFill
BY DEF LockInv, MutualExclusion, SenderInv, PreFill, M

\* A step of the receiver that leaves start and rcvd alone.
LEMMA QuietReceiver ==
    ASSUME RingInv, UNCHANGED <<ringVars, senderVars, rslot, rcvd, countVars>>,
           rpc \in {"idle", "loop", "wrapped"}, rpc' \in {"idle", "loop"},
           irq' \in Nat, held' \subseteq held
    PROVE  RingInv'
<1> USE DEF RingInv
<1>1. /\ UNCHANGED <<start, end, queue, filled, rslot, rcvd>>
      /\ UNCHANGED <<sendLock, spc, slot, tmp, begun, dropped>>
  BY DEF ringVars, senderVars, countVars
<1>2. Taken' = Taken /\ Unread' = Unread
  BY <1>1 DEF Taken, Unread, M
<1>3. \A n : Pos(n)' = Pos(n)
  BY <1>1, <1>2 DEF Pos, M
<1>4. TypeOK'
  BY <1>1 DEF TypeOK
<1>5. LockInv' /\ SenderInv' /\ CountInv'
  BY <1>1, SendersStill, SameCount
<1>6. PublishInv' /\ ReceiverInv'
  BY <1>1, <1>2 DEF PublishInv, ReceiverInv, M
<1>7. QueueInv' /\ Fifo' /\ HeldInv'
  BY <1>1, <1>3 DEF QueueInv, Fifo, HeldInv, M
<1> QED
  BY <1>4, <1>5, <1>6, <1>7

LEMMA WrapStartInv ==
    ASSUME RingInv, SafeWindow, WrapStart
    PROVE  RingInv'
<1> USE DEF RingInv
<1>1. /\ UNCHANGED <<end, queue, filled, rslot, rcvd, held, irq>>
      /\ UNCHANGED <<sendLock, spc, slot, tmp, begun, dropped>>
      /\ rpc = "loop" /\ rpc' = "wrapped"
      /\ start # end /\ start + 1 = Size /\ start' = 0
  BY DEF WrapStart, senderVars, countVars
<1>2. /\ start \in Nat /\ start <= M /\ end \in Nat /\ end <= M
      /\ M \in Nat /\ M >= 2 /\ filled \in Nat
      /\ Taken \in Nat /\ Len(rcvd) \in Nat /\ Unread \in Nat
      /\ Taken >= Len(rcvd)
  BY Arithmetic
<1>3. start = M /\ end < M
  BY <1>1, <1>2, Arithmetic
<1>4. Taken' = Taken
  BY <1>1 DEF Taken
<1>5. Unread' = Unread
  BY <1>1, <1>2, <1>3 DEF Unread, M
<1>6. TypeOK'
  <2>1. 0 \in Slots
    BY <1>2, SlotsRange
  <2> QED
    BY <1>1, <2>1 DEF TypeOK
<1>7. LockInv' /\ SenderInv' /\ CountInv'
  BY <1>1, SendersStill, SameCount
<1>8. PublishInv' /\ ReceiverInv' /\ Fifo'
  BY <1>1, <1>3, <1>4, <1>5 DEF PublishInv, ReceiverInv, Fifo, M
<1>9. filled - Len(rcvd) <= M - 1 /\ filled >= Taken
  BY Window, <1>2 DEF PublishInv
<1>10. ASSUME NEW n \in 1 .. filled, filled - n < M
       PROVE  Pos(n)' = Pos(n)
  <2>1. n \in Nat /\ n <= filled
    BY <1>2
  <2> DEFINE d == n - Taken - 1
  <2>2. d \in Int /\ d >= -M /\ d < M
    BY <1>2, <1>9, <1>10, <2>1
  <2>3. Pos(n)' = IF 0 + n - Taken - 1 >= M THEN 0 + n - Taken - 1 - M
                  ELSE IF 0 + n - Taken - 1 < 0 THEN 0 + n - Taken - 1 + M
                  ELSE 0 + n - Taken - 1
    BY <1>1, <1>2, <1>4, <2>1 DEF Pos, M
  <2>4. Pos(n) = IF M + n - Taken - 1 >= M THEN M + n - Taken - 1 - M
                 ELSE IF M + n - Taken - 1 < 0 THEN M + n - Taken - 1 + M
                 ELSE M + n - Taken - 1
    BY <1>2, <1>3, <2>1 DEF Pos
  <2> QED
    BY <1>2, <2>1, <2>2, <2>3, <2>4
<1>11. QueueInv'
  BY <1>1, <1>10 DEF QueueInv, M
<1>12. HeldInv'
  <2>1. \A x \in held : x.msg \in 1 .. filled
    BY <1>2, <1>9 DEF HeldInv
  <2> QED
    BY <1>1, <1>10, <2>1 DEF HeldInv, M
<1> QED
  BY <1>6, <1>7, <1>8, <1>11, <1>12

LEMMA TakeInv ==
    ASSUME RingInv, SafeWindow, Take
    PROVE  RingInv'
<1> USE DEF RingInv
<1>1. /\ UNCHANGED <<end, queue, filled, rcvd, held, irq>>
      /\ UNCHANGED <<sendLock, spc, slot, tmp, begun, dropped>>
      /\ rpc \in {"loop", "wrapped"} /\ rpc' = "deliver"
      /\ start # end /\ rslot' = start /\ start' = start + 1
  BY DEF Take, senderVars, countVars
<1>2. /\ start \in Nat /\ start <= M /\ end \in Nat /\ end <= M
      /\ M \in Nat /\ M >= 2 /\ filled \in Nat
      /\ Taken \in Nat /\ Len(rcvd) \in Nat /\ Unread \in Nat
  BY Arithmetic
<1>3. start < M
  <2>1. CASE rpc = "loop"
    BY <2>1, <1>1, <1>2, Arithmetic DEF Take
  <2>2. CASE rpc = "wrapped"
    BY <2>2, <1>2 DEF ReceiverInv
  <2> QED
    BY <1>1, <2>1, <2>2
<1>4. Taken' = Taken + 1
  BY <1>1, <1>2 DEF Taken
<1>5. Unread >= 1 /\ Unread' = Unread - 1
  <2>1. Unread' = IF start + 1 <= end THEN end - (start + 1) ELSE end - (start + 1) + M
    BY <1>1 DEF Unread, M
  <2> QED
    BY <1>1, <1>2, <1>3, <2>1 DEF Unread, ReceiverInv
<1>6. TypeOK'
  <2>1. start' \in Slots /\ rslot' \in Slots
    BY <1>1, <1>2, <1>3, SlotsRange
  <2> QED
    BY <1>1, <2>1 DEF TypeOK
<1>7. LockInv' /\ SenderInv' /\ CountInv'
  BY <1>1, SendersStill, SameCount
<1>8. PublishInv'
  <2>1. Taken' + Unread' = Taken + Unread
    BY <1>2, <1>4, <1>5
  <2> QED
    BY <1>1, <2>1 DEF PublishInv
<1>9. ReceiverInv' /\ Fifo'
  BY <1>1, <1>2, <1>3 DEF ReceiverInv, Fifo, M
<1>10. ASSUME NEW n \in Nat
       PROVE  Pos(n)' = Pos(n)
  <2>1. start + 1 + n - (Taken + 1) - 1 = start + n - Taken - 1
    BY <1>2
  <2> QED
    BY <1>1, <1>2, <1>4, <2>1 DEF Pos, M
<1>11. QueueInv'
  <2>1. \A n \in 1 .. filled : n \in Nat
    BY <1>2
  <2> QED
    BY <1>1, <1>10, <2>1 DEF QueueInv, M
<1>12. HeldInv'
  <2>1. \A x \in held : x.msg \in Nat
    BY <1>2 DEF HeldInv
  <2> QED
    BY <1>1, <1>10, <2>1 DEF HeldInv, M
<1> QED
  BY <1>6, <1>7, <1>8, <1>9, <1>11, <1>12

\* The slot rdma_recv has taken holds the next message in order.
LEMMA TakenSlot ==
    ASSUME RingInv, SafeWindow, rpc = "deliver"
    PROVE  /\ Taken = Len(rcvd) + 1
           /\ Len(rcvd) + 1 \in 1 .. filled
           /\ filled - (Len(rcvd) + 1) < M
           /\ Pos(Len(rcvd) + 1) = rslot
           /\ queue[rslot] = Len(rcvd) + 1
<1> USE DEF RingInv
<1>1. /\ start \in Nat /\ start <= M /\ M \in Nat /\ filled \in Nat
      /\ Taken \in Nat /\ Len(rcvd) \in Nat /\ Unread \in Nat
  BY Arithmetic
<1>2. Taken = Len(rcvd) + 1
  BY DEF Taken
<1>3. rslot = start - 1 /\ rslot \in Nat
  <2>1. rslot \in Nat
    BY SizeAssumption DEF TypeOK, Slots
  <2> QED
    BY <2>1 DEF ReceiverInv
<1>4. filled >= Taken
  BY <1>1 DEF PublishInv
<1>5. filled - Len(rcvd) <= M - 1
  BY Window
<1>6. Len(rcvd) + 1 \in 1 .. filled /\ filled - (Len(rcvd) + 1) < M
  BY <1>1, <1>2, <1>4, <1>5
<1>7. Pos(Len(rcvd) + 1) = rslot
  <2>1. start + (Len(rcvd) + 1) - Taken - 1 = rslot
    BY <1>1, <1>2, <1>3
  <2> QED
    BY <1>1, <1>2, <1>3, <2>1 DEF Pos
<1> QED
  BY <1>2, <1>6, <1>7 DEF QueueInv

LEMMA DeliverInv ==
    ASSUME RingInv, SafeWindow, Deliver
    PROVE  RingInv'
<1> USE DEF RingInv
<1> DEFINE n == Len(rcvd) + 1
           x == [slot |-> rslot, msg |-> n]
<1>1. /\ Taken = n /\ n \in 1 .. filled /\ filled - n < M
      /\ Pos(n) = rslot /\ queue[rslot] = n
  BY TakenSlot DEF Deliver
<1>2. /\ UNCHANGED <<start, end, queue, filled, rslot, irq>>
      /\ UNCHANGED <<sendLock, spc, slot, tmp, begun, dropped>>
      /\ rcvd' = Append(rcvd, n)
      /\ rpc = "deliver" /\ rpc' \in {"idle", "loop"}
      /\ held' \subseteq held \cup {x}
  BY <1>1 DEF Deliver, ringVars, senderVars, countVars
<1>3. /\ Len(rcvd) \in Nat /\ M \in Nat /\ filled \in Nat
      /\ n \in Nat /\ rcvd \in Seq(Nat) /\ begun \in Nat /\ MaxInFlight \in Nat
  BY Arithmetic, BoundsAssumption DEF TypeOK
<1>4. /\ rcvd' \in Seq(Nat) /\ Len(rcvd') = n
      /\ \A i \in 1 .. Len(rcvd) : rcvd'[i] = rcvd[i]
      /\ rcvd'[n] = n
  BY <1>2, <1>3
<1>5. Taken' = Taken /\ Unread' = Unread
  BY <1>1, <1>2, <1>4 DEF Taken, Unread, M
<1>6. \A k : Pos(k)' = Pos(k)
  BY <1>2, <1>5 DEF Pos, M
<1>7. TypeOK'
  <2>1. x \in [slot : Slots, msg : Nat]
    BY <1>3 DEF TypeOK
  <2>2. held' \subseteq [slot : Slots, msg : Nat]
    BY <1>2, <2>1 DEF TypeOK
  <2> QED
    BY <1>2, <1>4, <2>2 DEF TypeOK
<1>8. LockInv' /\ SenderInv' /\ PreFill' = PreFill
  BY <1>2, SendersStill
<1>9. CountInv'
  <2>1. begun - n <= MaxInFlight
    BY <1>3 DEF CountInv
  <2> QED
    BY <1>2, <1>4, <1>8, <2>1 DEF CountInv
<1>10. PublishInv' /\ ReceiverInv'
  BY <1>2, <1>5 DEF PublishInv, ReceiverInv, M
<1>11. QueueInv'
  BY <1>2, <1>6 DEF QueueInv, M
<1>12. Fifo'
  <2>1. \A i \in 1 .. n : i \in 1 .. Len(rcvd) \/ i = n
    BY <1>3
  <2> QED
    BY <1>4, <2>1 DEF Fifo
<1>13. HeldInv'
  <2> SUFFICES ASSUME NEW y \in held \cup {x}
               PROVE  /\ y.msg \in 1 .. n
                      /\ filled - y.msg < M => y.slot = Pos(y.msg)
    BY <1>2, <1>4, <1>6 DEF HeldInv, M
  <2>1. CASE y = x
    BY <2>1, <1>1, <1>3
  <2>2. CASE y \in held
    BY <2>2, <1>3 DEF HeldInv
  <2> QED
    BY <2>1, <2>2
<1> QED
  BY <1>7, <1>8, <1>9, <1>10, <1>11, <1>12, <1>13

-----------------------------------------------------------------------------
(* The theorems *)

\* Every step of every process keeps the ring in order.
LEMMA NextInv ==
    ASSUME RingInv, SafeWindow, Next
    PROVE  RingInv'
<1>1. ASSUME NEW s \in Senders, Begin(s)
      PROVE  RingInv'
  BY <1>1, BeginInv
<1>2. ASSUME NEW s \in Senders, SenderStep(s)
      PROVE  RingInv'
  <2>1. CASE Acquire(s)
    BY <2>1, AcquireInv
  <2>2. CASE Alloc(s)
    BY <2>2, AllocInv
  <2>3. CASE DropUnlock(s)
    BY <2>3 DEF DropUnlock, RingInv, SenderInv
  <2>4. CASE Fill(s)
    BY <2>4, FillInv
  <2>5. CASE Wrap(s)
    BY <2>5, WrapInv
  <2>6. CASE Load(s)
    BY <2>6, LoadInv
  <2>7. CASE Store(s)
    BY <2>7, StoreInv
  <2>8. CASE Trigger(s)
    BY <2>8, TriggerInv
  <2>9. CASE Unlock(s)
    BY <2>9, UnlockInv
  <2> QED
    BY <1>2, <2>1, <2>2, <2>3, <2>4, <2>5, <2>6, <2>7, <2>8, <2>9 DEF SenderStep
<1>3. CASE IrqEnter
  <2>1. irq' \in Nat
    BY <1>3 DEF IrqEnter, RingInv, TypeOK
  <2>2. /\ UNCHANGED <<ringVars, senderVars, rslot, rcvd, countVars, held>>
        /\ rpc = "idle" /\ rpc' = "loop"
    BY <1>3 DEF IrqEnter
  <2> QED
    BY <2>1, <2>2, QuietReceiver
<1>4. CASE LoopExit \/ WrappedExit
  <2>1. /\ UNCHANGED <<ringVars, senderVars, rslot, rcvd, countVars, held, irq>>
        /\ rpc \in {"loop", "wrapped"} /\ rpc' = "idle"
    BY <1>4 DEF LoopExit, WrappedExit
  <2>2. irq' \in Nat
    BY <2>1 DEF RingInv, TypeOK
  <2> QED
    BY <2>1, <2>2, QuietReceiver
<1>5. CASE WrapStart
  BY <1>5, WrapStartInv
<1>6. CASE Take
  BY <1>6, TakeInv
<1>7. CASE Deliver
  BY <1>7, DeliverInv
<1>8. CASE AppRecv
  <2>1. /\ UNCHANGED <<start, end, queue, filled, rslot, rcvd, rpc, irq>>
        /\ UNCHANGED <<sendLock, spc, slot, tmp, begun, dropped>>
        /\ held' \subseteq held
    BY <1>8 DEF AppRecv, ringVars, senderVars, countVars
  <2>2. Taken' = Taken /\ Unread' = Unread
    BY <2>1 DEF Taken, Unread, M
  <2>3. \A n : Pos(n)' = Pos(n)
    BY <2>1, <2>2 DEF Pos, M
  <2>4. TypeOK'
    BY <2>1 DEF TypeOK, RingInv
  <2>5. LockInv' /\ SenderInv' /\ CountInv'
    BY <2>1, SendersStill, SameCount DEF RingInv
  <2>6. PublishInv' /\ ReceiverInv'
    BY <2>1, <2>2 DEF PublishInv, ReceiverInv, M, RingInv
  <2>7. QueueInv' /\ Fifo' /\ HeldInv'
    BY <2>1, <2>3 DEF QueueInv, Fifo, HeldInv, M, RingInv
  <2> QED
    BY <2>4, <2>5, <2>6, <2>7 DEF RingInv
<1>9. CASE NoMemory
  <2>1. /\ UNCHANGED <<start, end, queue, filled, rslot, rcvd, irq, held>>
        /\ UNCHANGED <<sendLock, spc, slot, tmp, begun, dropped>>
        /\ rpc = "deliver" /\ rpc' = "oops"
    BY <1>9 DEF NoMemory, ringVars, senderVars, countVars
  <2>2. Taken' = Taken /\ Unread' = Unread
    BY <2>1 DEF Taken, Unread, M
  <2>3. \A n : Pos(n)' = Pos(n)
    BY <2>1, <2>2 DEF Pos, M
  <2>4. TypeOK'
    BY <2>1 DEF TypeOK, RingInv
  <2>5. LockInv' /\ SenderInv' /\ CountInv'
    BY <2>1, SendersStill, SameCount DEF RingInv
  <2>6. PublishInv' /\ ReceiverInv'
    BY <2>1, <2>2 DEF PublishInv, ReceiverInv, M, RingInv
  <2>7. QueueInv' /\ Fifo' /\ HeldInv'
    BY <2>1, <2>3 DEF QueueInv, Fifo, HeldInv, M, RingInv
  <2> QED
    BY <2>4, <2>5, <2>6, <2>7 DEF RingInv
<1> QED
  BY <1>1, <1>2, <1>3, <1>4, <1>5, <1>6, <1>7, <1>8, <1>9 DEF Next, ReceiverStep

\* The variables as one list, for the steps in which nothing happens.
LEMMA StutterInv ==
    ASSUME RingInv, UNCHANGED vars
    PROVE  RingInv'
<1>1. /\ UNCHANGED <<start, end, queue, filled, rpc, rslot, held, rcvd>>
      /\ UNCHANGED <<sendLock, spc, slot, tmp, begun, dropped, irq>>
  BY DEF vars, ringVars, senderVars, receiverVars, countVars
<1>2. TypeOK' /\ PublishInv'
  BY <1>1, SameRing DEF RingInv, TypeOK, PublishInv
<1>3. LockInv' /\ SenderInv' /\ CountInv'
  BY <1>1, SendersStill, SameCount DEF RingInv
<1> QED
  BY <1>1, <1>2, <1>3, SameRing DEF RingInv

\* For rings and windows of every size the ring stays in order: rdma_xmit and
\* rdma_recv agree on which message each slot holds at every point of theirs.
THEOREM InductiveInvariant ==
    ASSUME SafeWindow
    PROVE  Spec => []RingInv
<1>1. Init => RingInv
  BY InitInv
<1>2. RingInv /\ [Next]_vars => RingInv'
  BY NextInv, StutterInv
<1> QED
  BY <1>1, <1>2, PTL DEF Spec

\* No index of rdma_xmit or rdma_recv ever leaves the array of slots.
THEOREM TypeCorrect ==
    ASSUME SafeWindow
    PROVE  Spec => []TypeOK
<1>1. RingInv => TypeOK
  BY DEF RingInv
<1> QED
  BY <1>1, InductiveInvariant, PTL

\* Between spin_lock and its last spin_unlock a sender has the ring to itself.
THEOREM Exclusion ==
    ASSUME SafeWindow
    PROVE  Spec => []MutualExclusion
<1>1. RingInv => MutualExclusion
  BY DEF RingInv, LockInv
<1> QED
  BY <1>1, InductiveInvariant, PTL

\* The messages are handed to local_tcp_rcv once each and in order, on a ring
\* that is never locked by the receiver.
THEOREM FifoDelivery ==
    ASSUME SafeWindow
    PROVE  Spec => []Fifo
<1>1. RingInv => Fifo
  BY DEF RingInv
<1> QED
  BY <1>1, InductiveInvariant, PTL

\* The slot an skb points to keeps its message while fewer than Size - 1 later
\* ones were filled, however long the socket leaves the skb unread.
THEOREM DescriptorsLive ==
    ASSUME SafeWindow
    PROVE  Spec => []DescriptorLifetime
<1>1. ASSUME RingInv
      PROVE  DescriptorLifetime
  <2> SUFFICES ASSUME NEW x \in held, filled - x.msg < Size - 1
               PROVE  queue[x.slot] = x.msg
    BY DEF DescriptorLifetime
  <2>1. /\ Len(rcvd) \in Nat /\ filled \in Nat /\ Taken \in Nat
        /\ Taken >= Len(rcvd) /\ Unread \in Nat
    BY <1>1, Arithmetic DEF RingInv
  <2>2. filled >= Len(rcvd)
    BY <1>1, <2>1 DEF RingInv, PublishInv
  <2>3. x.msg \in 1 .. filled /\ x.slot = Pos(x.msg)
    BY <1>1, <2>1, <2>2 DEF RingInv, HeldInv, M
  <2> QED
    BY <1>1, <2>3 DEF RingInv, QueueInv, M
<1> QED
  BY <1>1, InductiveInvariant, PTL

-----------------------------------------------------------------------------
(* The ring implements the reliable FIFO channel *)

\* Filling a slot sends the next message; every other step of a sender sends
\* and receives nothing.
LEMMA SenderImplements ==
    ASSUME RingInv, RingInv', NEW s \in Senders, Begin(s) \/ SenderStep(s)
    PROVE  FC!Next \/ UNCHANGED FC!vars
<1>1. UNCHANGED rcvd
  BY DEF Begin, SenderStep, Acquire, Alloc, DropUnlock, Fill, Wrap, Load, Store,
         Trigger, Unlock, receiverVars
<1>2. CASE Fill(s)
  <2>1. filled' = filled + 1 /\ filled \in Nat
    BY <1>2 DEF Fill, RingInv, TypeOK
  <2>2. filled + 1 \in 1 .. MaxSent
    <3>1. /\ begun' \in Nat /\ filled' \in Nat /\ begun' <= MaxSent
          /\ begun' = filled' + Cardinality(PreFill')
      BY DEF RingInv, TypeOK, CountInv
    <3>2. IsFiniteSet(PreFill')
      BY SendersAssumption, FS_Subset DEF PreFill
    <3>3. Cardinality(PreFill') \in Nat
      BY <3>2, FS_CardinalityType
    <3> QED
      BY <2>1, <3>1, <3>3, BoundsAssumption
  <2>3. [i \in 1 .. filled + 1 |-> i] = Append([i \in 1 .. filled |-> i], filled + 1)
    BY <2>1
  <2>4. FC!Send
    BY <1>1, <2>1, <2>2, <2>3 DEF FC!Send
  <2> QED
    BY <2>4 DEF FC!Next
<1>3. CASE ~Fill(s)
  <2>1. UNCHANGED filled
    BY <1>3 DEF Begin, SenderStep, Acquire, Alloc, DropUnlock, Wrap, Load, Store,
                Trigger, Unlock, countVars
  <2> QED
    BY <1>1, <2>1 DEF FC!vars
<1> QED
  BY <1>2, <1>3

\* Handing a slot to local_tcp_rcv receives the next message; every other step
\* of the receiver sends and receives nothing.
LEMMA ReceiverImplements ==
    ASSUME RingInv, SafeWindow, ReceiverStep \/ AppRecv
    PROVE  FC!Next \/ UNCHANGED FC!vars
<1>1. UNCHANGED filled
  BY DEF ReceiverStep, IrqEnter, LoopExit, WrapStart, WrappedExit, Take, Deliver,
         NoMemory, AppRecv, countVars
<1>2. CASE Deliver
  <2> DEFINE sent == [i \in 1 .. filled |-> i]
  <2>1. /\ queue[rslot] = Len(rcvd) + 1
        /\ Len(rcvd) + 1 \in 1 .. filled
        /\ Len(rcvd) \in Nat /\ filled \in Nat
    BY <1>2, TakenSlot, Arithmetic DEF Deliver, RingInv
  <2>2. rcvd' = Append(rcvd, Len(rcvd) + 1)
    BY <1>2, <2>1 DEF Deliver
  <2>3. Len(sent) = filled /\ sent[Len(rcvd) + 1] = Len(rcvd) + 1
    BY <2>1
  <2>4. Len(rcvd) < Len(sent)
    BY <2>1, <2>3
  <2>5. rcvd' = Append(rcvd, sent[Len(rcvd) + 1])
    BY <2>2, <2>3
  <2>6. FC!Receive
    BY <1>1, <2>4, <2>5 DEF FC!Receive
  <2> QED
    BY <2>6 DEF FC!Next
<1>3. CASE ~Deliver
  <2>1. UNCHANGED rcvd
    BY <1>3 DEF ReceiverStep, IrqEnter, LoopExit, WrapStart, WrappedExit, Take,
                NoMemory, AppRecv
  <2> QED
    BY <1>1, <2>1 DEF FC!vars
<1> QED
  BY <1>2, <1>3

\* The ring is a reliable FIFO channel between rdma_xmit and local_tcp_rcv, for
\* every ring size and every number of concurrent senders.
THEOREM ImplementsChannel ==
    ASSUME SafeWindow
    PROVE  Spec => Implements
<1>1. Init => FC!Init
  <2>1. [i \in 1 .. 0 |-> i] = << >>
    OBVIOUS
  <2> QED
    BY <2>1 DEF Init, FC!Init
<1>2. RingInv /\ RingInv' /\ [Next]_vars => [FC!Next]_(FC!vars)
  <2> SUFFICES ASSUME RingInv, RingInv', [Next]_vars
               PROVE  FC!Next \/ UNCHANGED FC!vars
    OBVIOUS
  <2>1. ASSUME NEW s \in Senders, Begin(s) \/ SenderStep(s)
        PROVE  FC!Next \/ UNCHANGED FC!vars
    BY <2>1, SenderImplements
  <2>2. CASE ReceiverStep \/ AppRecv
    BY <2>2, ReceiverImplements
  <2>3. CASE UNCHANGED vars
    BY <2>3 DEF vars, receiverVars, countVars, FC!vars
  <2> QED
    BY <2>1, <2>2, <2>3 DEF Next
<1> QED
  BY <1>1, <1>2, InductiveInvariant, PTL DEF Spec, FC!Spec, Implements

-----------------------------------------------------------------------------
(* Without a window: what holds when the senders overrun the receiver, *)
(* whoever holds the lock.                                             *)

\* The indices of several senders may leave the array, those of the receiver not.
OverflowType ==
    /\ start \in 0 .. M /\ end \in Nat
    /\ queue \in [Slots -> Nat]
    /\ sendLock \in BOOLEAN
    /\ spc \in [Senders -> SenderStates]
    /\ slot \in [Senders -> Nat] /\ tmp \in [Senders -> Nat]
    /\ filled \in Nat
    /\ rpc \in {"idle", "loop", "wrapped", "deliver", "oops"}
    /\ rslot \in 0 .. M - 1
    /\ rcvd \in Seq(Nat)

AllFilled == \A i \in 0 .. M - 1 : queue[i] # 0

\* Until end wraps for the first time it stands behind the filled slots, no
\* sender finds the ring full, and so the lock still excludes.
FirstRound ==
    /\ start <= end /\ end <= M
    /\ \A i \in 0 .. M - 1 : i < end => queue[i] # 0
    /\ LockInv
    /\ \A s \in Senders :
          /\ spc[s] # "full"
          /\ spc[s] = "fill" => slot[s] = end /\ end < M
          /\ spc[s] \in {"wrap", "load", "store"} => end < M /\ queue[end] # 0
          /\ spc[s] = "store" => tmp[s] = end

\* What rdma_recv has taken is a filled slot.
TakenIsFilled ==
    /\ rpc = "deliver" => queue[rslot] # 0
    /\ rpc = "wrapped" => start = 0 /\ AllFilled

OverflowInv ==
    /\ OverflowType
    /\ FirstRound \/ AllFilled
    /\ TakenIsFilled
    /\ OnlyFilledRead

LEMMA MNat == M \in Nat /\ M >= 2 /\ Slots = 0 .. M /\ Size = M + 1
  BY SizeAssumption DEF M, Slots

LEMMA InitOverflow == Init => OverflowInv
<1> SUFFICES ASSUME Init PROVE OverflowInv
  OBVIOUS
<1>1. rcvd \in Seq(Nat) /\ Len(rcvd) = 0
  BY DEF Init
<1>2. OverflowType
  <2>1. /\ start \in 0 .. M /\ end \in Nat /\ filled \in Nat
        /\ sendLock \in BOOLEAN /\ rpc \in {"idle", "loop", "wrapped", "deliver", "oops"}
    <3>1. 0 \in 0 .. M /\ 0 \in Nat
      BY MNat
    <3> QED
      BY <3>1 DEF Init
  <2>5. rslot \in 0 .. M - 1
    <3>1. 0 \in 0 .. M - 1
      BY MNat
    <3> QED
      BY <3>1 DEF Init
  <2>2. queue \in [Slots -> Nat]
    BY DEF Init
  <2>3. spc \in [Senders -> SenderStates]
    BY DEF Init, SenderStates
  <2>4. slot \in [Senders -> Nat] /\ tmp \in [Senders -> Nat]
    BY DEF Init
  <2> QED
    BY <1>1, <2>1, <2>2, <2>3, <2>4, <2>5 DEF OverflowType
<1>3. LockInv
  BY DEF Init, LockInv, MutualExclusion, CriticalStates, SenderStates
<1>4. FirstRound
  BY <1>3, MNat DEF Init, FirstRound
<1> QED
  BY <1>1, <1>2, <1>4 DEF Init, OverflowInv, TakenIsFilled, OnlyFilledRead

\* A step that moves a sender and no slot, index or receiver.
LEMMA SenderTypes ==
    ASSUME OverflowType, NEW s \in Senders, Begin(s) \/ SenderStep(s)
    PROVE  OverflowType'
<1> USE MNat DEF OverflowType, Goto, SenderStates, ringVars, receiverVars, countVars
<1>1. CASE Begin(s)
  BY <1>1 DEF Begin
<1>2. CASE Acquire(s)
  BY <1>2 DEF Acquire
<1>3. CASE Alloc(s)
  <2>1. end' \in Nat /\ slot' \in [Senders -> Nat]
    BY <1>3 DEF Alloc
  <2>2. spc' \in [Senders -> SenderStates]
    BY <1>3 DEF Alloc
  <2> QED
    BY <1>3, <2>1, <2>2 DEF Alloc
<1>4. CASE DropUnlock(s)
  BY <1>4 DEF DropUnlock
<1>5. CASE Fill(s)
  BY <1>5 DEF Fill
<1>6. CASE Wrap(s)
  BY <1>6 DEF Wrap
<1>7. CASE Load(s)
  BY <1>7 DEF Load
<1>8. CASE Store(s)
  BY <1>8 DEF Store
<1>9. CASE Trigger(s)
  BY <1>9 DEF Trigger
<1>10. CASE Unlock(s)
  BY <1>10 DEF Unlock
<1> QED
  BY <1>1, <1>2, <1>3, <1>4, <1>5, <1>6, <1>7, <1>8, <1>9, <1>10 DEF SenderStep

\* Slots are only ever filled.
LEMMA FilledStays ==
    ASSUME OverflowType, NEW s \in Senders, Begin(s) \/ SenderStep(s)
    PROVE  /\ \A i \in 0 .. M - 1 : queue[i] # 0 => queue'[i] # 0
           /\ UNCHANGED <<start, rpc, rslot, held, rcvd>>
<1>1. CASE Fill(s)
  BY <1>1, MNat DEF Fill, OverflowType, receiverVars
<1>2. CASE ~Fill(s)
  BY <1>2 DEF Begin, SenderStep, Acquire, Alloc, DropUnlock, Wrap, Load, Store,
              Trigger, Unlock, ringVars, receiverVars
<1> QED
  BY <1>1, <1>2

\* In the first round a sender goes on with it or fills the last slot.
LEMMA SenderFirstRound ==
    ASSUME OverflowType, FirstRound, NEW s \in Senders, Begin(s) \/ SenderStep(s)
    PROVE  FirstRound' \/ AllFilled'
<1> USE MNat
<1>1. start \in Nat /\ end \in Nat /\ start <= end /\ end <= M
  BY DEF OverflowType, FirstRound
<1>2. \A t \in Senders : spc[t] \in CriticalStates /\ spc[s] \in CriticalStates => t = s
  BY DEF FirstRound, LockInv, MutualExclusion
<1>3. CASE Begin(s) \/ Acquire(s) \/ Trigger(s) \/ Unlock(s)
  <2>1. UNCHANGED <<start, end, queue, slot, tmp>>
    BY <1>3 DEF Begin, Acquire, Trigger, Unlock, ringVars
  <2>2. LockInv'
    <3> USE DEF OverflowType, FirstRound, LockInv, MutualExclusion, CriticalStates,
                SenderStates, Goto
    <3>1. CASE Begin(s)
      BY <3>1 DEF Begin
    <3>2. CASE Acquire(s)
      BY <3>2 DEF Acquire
    <3>3. CASE Trigger(s)
      BY <3>3 DEF Trigger
    <3>4. CASE Unlock(s)
      BY <3>4 DEF Unlock
    <3> QED
      BY <1>3, <3>1, <3>2, <3>3, <3>4
  <2>3. \A t \in Senders : spc'[t] = spc[t] \/ spc'[t] \in {"lock", "alloc", "unlock", "idle"}
    BY <1>3 DEF Begin, Acquire, Trigger, Unlock, Goto, OverflowType
  <2> QED
    BY <2>1, <2>2, <2>3 DEF FirstRound
<1>4. CASE DropUnlock(s)
  BY <1>4 DEF DropUnlock, FirstRound
<1>5. CASE Alloc(s)
  <2>1. end + 1 # start
    BY <1>1
  <2>2. /\ end' = IF end + 1 = Size THEN 0 ELSE end
        /\ slot' = [slot EXCEPT ![s] = end'] /\ spc' = [spc EXCEPT ![s] = "fill"]
        /\ UNCHANGED <<start, queue, sendLock>> /\ spc[s] = "alloc"
    BY <1>5, <2>1 DEF Alloc, Goto
  <2>3. CASE end = M
    BY <2>2, <2>3 DEF FirstRound, AllFilled
  <2>4. CASE end # M
    <3>1. end' = end /\ end < M
      BY <1>1, <2>2, <2>4
    <3>2. LockInv'
      BY <2>2 DEF OverflowType, FirstRound, LockInv, MutualExclusion, CriticalStates,
                  SenderStates
    <3>3. \A t \in Senders : t # s => spc'[t] = spc[t] /\ spc[t] \notin CriticalStates
      BY <1>2, <2>2 DEF OverflowType, CriticalStates, SenderStates
    <3>4. spc'[s] = "fill" /\ slot'[s] = end'
      BY <2>2 DEF OverflowType
    <3>5. \A t \in Senders : t # s =>
            spc'[t] \notin {"full", "fill", "wrap", "load", "store"}
      BY <3>3 DEF CriticalStates, SenderStates
    <3>6. \A t \in Senders :
            /\ spc'[t] # "full"
            /\ spc'[t] = "fill" => slot'[t] = end' /\ end' < M
            /\ spc'[t] \notin {"wrap", "load", "store"}
      BY <3>1, <3>4, <3>5
    <3> QED
      BY <2>2, <3>1, <3>2, <3>6 DEF FirstRound
  <2> QED
    BY <2>3, <2>4
<1>6. CASE Fill(s) \/ Wrap(s) \/ Load(s)
  <2>1. spc[s] \in {"fill", "wrap", "load"} /\ end < M /\ UNCHANGED <<start, sendLock, slot>>
    BY <1>6 DEF Fill, Wrap, Load, FirstRound, ringVars
  <2>2. end' = end /\ queue'[end] # 0
    BY <1>1, <1>6, <2>1 DEF Fill, Wrap, Load, FirstRound, OverflowType, ringVars
  <2>3. \A i \in 0 .. M - 1 : queue[i] # 0 => queue'[i] # 0
    BY <1>6, FilledStays DEF SenderStep
  <2>0. ASSUME Load(s) PROVE tmp'[s] = end
    BY <1>1, <2>0 DEF Load, OverflowType
  <2>4. PICK to \in {"wrap", "load", "store"} :
           spc' = [spc EXCEPT ![s] = to] /\ (to = "store" => tmp'[s] = end)
    <3>1. ASSUME Fill(s) PROVE spc' = [spc EXCEPT ![s] = "wrap"]
      BY <3>1 DEF Fill, Goto
    <3>2. ASSUME Wrap(s) PROVE spc' = [spc EXCEPT ![s] = "load"]
      BY <3>2 DEF Wrap, Goto
    <3>3. ASSUME Load(s) PROVE spc' = [spc EXCEPT ![s] = "store"]
      BY <3>3 DEF Load, Goto
    <3> QED
      BY <1>6, <2>0, <3>1, <3>2, <3>3
  <2>5. LockInv'
    BY <2>1, <2>4 DEF OverflowType, FirstRound, LockInv, MutualExclusion,
                      CriticalStates, SenderStates
  <2>6. \A t \in Senders : t # s =>
          spc'[t] \notin {"full", "fill", "wrap", "load", "store"}
    BY <1>2, <2>1, <2>4 DEF OverflowType, CriticalStates, SenderStates
  <2>7. spc'[s] = to
    BY <2>4 DEF OverflowType
  <2>8. \A t \in Senders :
          /\ spc'[t] \notin {"full", "fill"}
          /\ spc'[t] = "store" => tmp'[t] = end
    BY <2>4, <2>6, <2>7
  <2> QED
    BY <1>1, <2>1, <2>2, <2>3, <2>5, <2>8 DEF FirstRound
<1>7. CASE Store(s)
  <2>1. /\ end' = end + 1 /\ end < M /\ queue[end] # 0 /\ spc[s] = "store"
        /\ spc' = [spc EXCEPT ![s] = "trigger"] /\ UNCHANGED <<start, queue, sendLock>>
    BY <1>7 DEF Store, FirstRound, Goto
  <2>2. LockInv'
    BY <2>1 DEF OverflowType, FirstRound, LockInv, MutualExclusion,
                CriticalStates, SenderStates
  <2>3. \A t \in Senders :
          spc'[t] \notin {"full", "fill", "wrap", "load", "store"}
    BY <1>2, <2>1 DEF OverflowType, CriticalStates, SenderStates
  <2>4. \A i \in 0 .. M - 1 : i < end + 1 => queue[i] # 0
    BY <1>1, <2>1 DEF FirstRound
  <2> QED
    BY <1>1, <2>1, <2>2, <2>3, <2>4 DEF FirstRound
<1> QED
  BY <1>3, <1>4, <1>5, <1>6, <1>7 DEF SenderStep

LEMMA SenderOverflow ==
    ASSUME OverflowInv, NEW s \in Senders, Begin(s) \/ SenderStep(s)
    PROVE  OverflowInv'
<1>1. OverflowType /\ OverflowType'
  BY SenderTypes DEF OverflowInv
<1>2. /\ \A i \in 0 .. M - 1 : queue[i] # 0 => queue'[i] # 0
      /\ UNCHANGED <<start, rpc, rslot, held, rcvd>>
  BY <1>1, FilledStays
<1>3. AllFilled => AllFilled'
  BY <1>2 DEF AllFilled
<1>4. FirstRound' \/ AllFilled'
  BY <1>1, <1>3, SenderFirstRound DEF OverflowInv
<1>5. TakenIsFilled'
  BY <1>1, <1>2, <1>3 DEF OverflowInv, OverflowType, TakenIsFilled
<1> QED
  BY <1>1, <1>2, <1>4, <1>5 DEF OverflowInv, OnlyFilledRead

\* The receiver follows end, which in the first round is behind the filled slots.
LEMMA ReceiverOverflow ==
    ASSUME OverflowInv, ReceiverStep \/ AppRecv
    PROVE  OverflowInv'
<1> USE MNat
<1>1. /\ OverflowType /\ start \in Nat /\ end \in Nat
      /\ UNCHANGED <<end, queue, sendLock, spc, slot, tmp, filled>>
  BY DEF OverflowInv, OverflowType, ReceiverStep, AppRecv, IrqEnter, LoopExit, WrapStart,
         WrappedExit, Take, Deliver, NoMemory, ringVars, senderVars, countVars
<1>2. LockInv' <=> LockInv
  BY <1>1 DEF LockInv, MutualExclusion
<1>3. AllFilled' <=> AllFilled
  BY <1>1 DEF AllFilled
<1>4. FirstRound /\ start' <= end => FirstRound'
  BY <1>1, <1>2 DEF FirstRound
<1>5. CASE IrqEnter \/ LoopExit \/ WrappedExit \/ NoMemory \/ AppRecv
  <2>1. UNCHANGED <<start, rslot, rcvd>> /\ rpc' \in {"idle", "loop", "oops", rpc}
    BY <1>5 DEF IrqEnter, LoopExit, WrappedExit, NoMemory, AppRecv, ringVars
  <2> QED
    BY <1>1, <1>3, <1>4, <2>1
       DEF OverflowInv, OverflowType, FirstRound, TakenIsFilled, OnlyFilledRead
<1>6. CASE WrapStart
  <2>1. /\ start = M /\ start # end /\ start' = 0 /\ rpc' = "wrapped"
        /\ UNCHANGED <<rslot, rcvd>>
    BY <1>1, <1>6 DEF WrapStart
  <2>2. AllFilled
    BY <1>1, <2>1 DEF OverflowInv, FirstRound
  <2> QED
    BY <1>1, <1>3, <2>1, <2>2
       DEF OverflowInv, OverflowType, TakenIsFilled, OnlyFilledRead
<1>7. CASE Take
  <2>1. /\ start # end /\ rslot' = start /\ start' = start + 1 /\ rpc' = "deliver"
        /\ start < M /\ UNCHANGED rcvd
    BY <1>1, <1>7 DEF Take, OverflowInv, OverflowType, TakenIsFilled
  <2>2. queue[start] # 0
    BY <1>1, <2>1 DEF OverflowInv, FirstRound, AllFilled
  <2>3. FirstRound' \/ AllFilled'
    BY <1>1, <1>3, <1>4, <2>1 DEF OverflowInv, FirstRound
  <2>4. OverflowType'
    BY <1>1, <2>1 DEF OverflowType
  <2> QED
    BY <1>1, <2>1, <2>2, <2>3, <2>4 DEF OverflowInv, TakenIsFilled, OnlyFilledRead
<1>8. CASE Deliver
  <2>1. /\ rpc = "deliver" /\ rpc' \in {"idle", "loop"} /\ UNCHANGED <<start, rslot>>
        /\ rcvd' = Append(rcvd, queue[rslot])
    BY <1>8 DEF Deliver, ringVars
  <2>2. queue[rslot] \in Nat /\ queue[rslot] # 0
    BY <1>1, <2>1 DEF OverflowInv, OverflowType, TakenIsFilled
  <2>3. OnlyFilledRead'
    BY <1>1, <2>1, <2>2 DEF OverflowInv, OverflowType, OnlyFilledRead
  <2>4. OverflowType'
    BY <1>1, <2>1, <2>2 DEF OverflowType
  <2>5. FirstRound' \/ AllFilled'
    BY <1>3, <1>4, <2>1 DEF OverflowInv, FirstRound
  <2> QED
    BY <2>1, <2>3, <2>4, <2>5 DEF OverflowInv, TakenIsFilled
<1> QED
  BY <1>5, <1>6, <1>7, <1>8 DEF ReceiverStep

LEMMA OverflowStutter == OverflowInv /\ UNCHANGED vars => OverflowInv'
  BY DEF OverflowInv, OverflowType, FirstRound, LockInv, MutualExclusion, AllFilled,
         TakenIsFilled, OnlyFilledRead, vars, ringVars, senderVars, receiverVars, countVars

LEMMA OverflowAlways == Spec => []OverflowInv
<1>1. OverflowInv /\ [Next]_vars => OverflowInv'
  BY SenderOverflow, ReceiverOverflow, OverflowStutter DEF Next
<1> QED
  BY <1>1, InitOverflow, PTL DEF Spec

\* However far the senders overrun the receiver, and however many run past the
\* lock that a full ring releases early, rdma_recv hands local_tcp_rcv no slot
\* that was never filled: the ring is first found full when all are.
THEOREM NothingUnfilledIsRead == Spec => []OnlyFilledRead
<1>1. OverflowInv => OnlyFilledRead
  BY DEF OverflowInv
<1> QED
  BY <1>1, OverflowAlways, PTL

\* Outside the window the lock may be released under its owner, but what is taken is
\* taken by a sender that is still on its way to an unlock.
LockTaken == sendLock => \E s \in Senders : spc[s] \notin {"idle", "lock"}

LEMMA SenderKeepsLock ==
    ASSUME spc \in [Senders -> SenderStates], LockTaken, NEW s \in Senders, SenderStep(s)
    PROVE  LockTaken'
<1>1. CASE Unlock(s) \/ DropUnlock(s)
  BY <1>1 DEF Unlock, DropUnlock, LockTaken
<1>2. CASE ~(Unlock(s) \/ DropUnlock(s))
  <2>1. spc'[s] \notin {"idle", "lock"}
    BY <1>2 DEF SenderStep, Acquire, Alloc, Fill, Wrap, Load, Store, Trigger, Goto
  <2> QED
    BY <2>1 DEF LockTaken
<1> QED
  BY <1>1, <1>2

\* No path through rdma_xmit returns with send_queue_lock held, the one that goes on
\* after a full ring included.
THEOREM LockIsReleased == Spec => []LockReleased
<1>1. Init => LockTaken
  BY DEF Init, LockTaken
<1>2. OverflowInv /\ LockTaken /\ [Next]_vars => LockTaken'
  <2> SUFFICES ASSUME OverflowInv, LockTaken, [Next]_vars PROVE LockTaken'
    OBVIOUS
  <2>1. spc \in [Senders -> SenderStates]
    BY DEF OverflowInv, OverflowType
  <2>2. ASSUME NEW s \in Senders, Begin(s) PROVE LockTaken'
    <3>1. /\ sendLock' = sendLock /\ spc[s] = "idle"
          /\ \A q \in Senders : q # s => spc'[q] = spc[q]
      BY <2>1, <2>2 DEF Begin, Goto
    <3> QED
      BY <3>1 DEF LockTaken
  <2>3. ASSUME NEW s \in Senders, SenderStep(s) PROVE LockTaken'
    BY <2>1, <2>3, SenderKeepsLock
  <2>4. CASE ReceiverStep \/ AppRecv \/ UNCHANGED vars
    <3>1. UNCHANGED <<spc, sendLock>>
      BY <2>4 DEF ReceiverStep, IrqEnter, LoopExit, WrapStart, WrappedExit, Take, Deliver,
         NoMemory, AppRecv, vars, senderVars, ringVars, receiverVars, countVars
    <3> QED
      BY <3>1 DEF LockTaken
  <2> QED
    BY <2>2, <2>3, <2>4 DEF Next
<1>3. LockTaken => LockReleased
  BY DEF LockTaken, LockReleased
<1> QED
  BY <1>1, <1>2, <1>3, OverflowAlways, PTL DEF Spec

-----------------------------------------------------------------------------
(* One sender and no window *)

\* One process sends.
OneSender == \A s, t \in Senders : s = t

\* On its way to the store the only sender has wrapped the end it will add one to.
OneSenderInv ==
    /\ TypeOK
    /\ rpc = "wrapped" => start = 0
    /\ \A s \in Senders :
        /\ spc[s] = "load" => end < M
        /\ spc[s] = "store" => tmp[s] < M

LEMMA InitOneSender == Init => OneSenderInv
<1>1. Init => rpc = "idle" /\ \A s \in Senders : spc[s] = "idle"
  BY DEF Init
<1>2. Init => RingInv
  BY InitInv
<1> QED
  BY <1>1, <1>2 DEF OneSenderInv, RingInv

\* What the sender does to end, step by step.
LEMMA OneSenderMoves ==
    ASSUME OneSender, OneSenderInv, NEW s \in Senders, Begin(s) \/ SenderStep(s)
    PROVE  OneSenderInv'
<1> USE MNat
<1>0. /\ TypeOK /\ end \in Nat /\ end <= M
      /\ \A t \in Senders : t = s
  <2>1. TypeOK /\ end \in 0 .. M
    BY DEF OneSenderInv, TypeOK
  <2> QED
    BY <2>1 DEF OneSender
<1>1. CASE Begin(s) \/ Acquire(s) \/ DropUnlock(s) \/ Trigger(s) \/ Unlock(s)
  <2>0. /\ begun \in Nat /\ dropped \in Nat /\ irq \in Nat
        /\ sendLock \in {TRUE, FALSE}
    BY <1>0 DEF TypeOK
  <2>1. UNCHANGED <<start, end, queue, slot, tmp, rpc, rslot, held, rcvd, filled>>
    BY <1>1 DEF Begin, Acquire, DropUnlock, Trigger, Unlock,
                ringVars, receiverVars, countVars
  <2>2. /\ begun' = begun \/ begun' = begun + 1
        /\ dropped' = dropped \/ dropped' = dropped + 1
        /\ irq' = irq \/ irq' = irq + 1 \/ irq' = 1
    BY <1>1 DEF Begin, Acquire, DropUnlock, Trigger, Unlock, countVars
  <2>6. sendLock' = sendLock \/ sendLock' = TRUE \/ sendLock' = FALSE
    BY <1>1 DEF Begin, Acquire, DropUnlock, Trigger, Unlock
  <2>7. begun' \in Nat /\ dropped' \in Nat /\ irq' \in Nat
    BY <2>0, <2>2
  <2>8. sendLock' \in BOOLEAN
    BY <2>0, <2>6
  <2>3. PICK to \in {"lock", "alloc", "wrap", "unlock", "idle"} :
           spc' = [spc EXCEPT ![s] = to]
    BY <1>1 DEF Begin, Acquire, DropUnlock, Trigger, Unlock, Goto
  <2>4. spc' \in [Senders -> SenderStates] /\ \A t \in Senders : spc'[t] = to
    BY <1>0, <2>3 DEF TypeOK, SenderStates
  <2>5. TypeOK'
    BY <1>0, <2>1, <2>4, <2>7, <2>8 DEF TypeOK
  <2> QED
    BY <2>1, <2>4, <2>5 DEF OneSenderInv
<1>2. CASE Alloc(s)
  <2>1. /\ UNCHANGED <<start, queue, sendLock, tmp, rpc, rslot, held, rcvd, begun, dropped,
                      filled, irq>>
        /\ \/ UNCHANGED <<end, slot>> /\ spc' = [spc EXCEPT ![s] = "full"]
           \/ /\ end' = IF end + 1 = Size THEN 0 ELSE end
              /\ slot' = [slot EXCEPT ![s] = end'] /\ spc' = [spc EXCEPT ![s] = "fill"]
    BY <1>2 DEF Alloc, Goto, receiverVars, countVars
  <2>2. end' \in Slots /\ slot' \in [Senders -> Slots]
    BY <1>0, <2>1 DEF TypeOK
  <2>3. spc' \in [Senders -> SenderStates] /\ \A t \in Senders : spc'[t] \in {"full", "fill"}
    BY <1>0, <2>1 DEF TypeOK, SenderStates
  <2>4. TypeOK'
    BY <1>0, <2>1, <2>2, <2>3 DEF TypeOK
  <2> QED
    BY <2>1, <2>3, <2>4 DEF OneSenderInv
<1>3. CASE Fill(s)
  <2>1. /\ UNCHANGED <<start, end, sendLock, slot, tmp, rpc, rslot, held, rcvd, begun,
                      dropped, irq>>
        /\ filled' = filled + 1 /\ spc' = [spc EXCEPT ![s] = "wrap"]
        /\ queue' = [i \in Slots |-> IF i = slot[s] THEN filled + 1 ELSE queue[i]]
    BY <1>3 DEF Fill, Goto, receiverVars
  <2>2. filled' \in Nat /\ queue' \in [Slots -> Nat]
    BY <1>0, <2>1 DEF TypeOK
  <2>3. spc' \in [Senders -> SenderStates] /\ \A t \in Senders : spc'[t] = "wrap"
    BY <1>0, <2>1 DEF TypeOK, SenderStates
  <2>4. TypeOK'
    BY <1>0, <2>1, <2>2, <2>3 DEF TypeOK
  <2> QED
    BY <2>1, <2>3, <2>4 DEF OneSenderInv
<1>4. CASE Wrap(s) \/ Load(s) \/ Store(s)
  <2>1. UNCHANGED <<start, queue, sendLock, slot, rpc, rslot, held, rcvd, begun, dropped,
                   filled, irq>>
    BY <1>4 DEF Wrap, Load, Store, ringVars, receiverVars, countVars
  <2>2. \/ /\ end' = (IF end + 1 = Size THEN 0 ELSE end) /\ tmp' = tmp
           /\ spc' = [spc EXCEPT ![s] = "load"]
        \/ /\ spc[s] = "load" /\ end' = end /\ tmp' = [tmp EXCEPT ![s] = end]
           /\ spc' = [spc EXCEPT ![s] = "store"]
        \/ /\ spc[s] = "store" /\ end' = tmp[s] + 1 /\ tmp' = tmp
           /\ spc' = [spc EXCEPT ![s] = "trigger"]
    BY <1>4 DEF Wrap, Load, Store, Goto, ringVars
  <2>3. end' \in Slots /\ tmp' \in [Senders -> Slots]
    <3>1. tmp[s] \in Nat /\ (spc[s] = "store" => tmp[s] < M)
      BY <1>0 DEF OneSenderInv, TypeOK
    <3>2. end' \in Nat /\ end' <= M
      BY <1>0, <2>2, <3>1
    <3> QED
      BY <1>0, <2>2, <3>2 DEF TypeOK
  <2>4. /\ spc' \in [Senders -> SenderStates]
        /\ \A t \in Senders : /\ spc'[t] = "load" => end' < M
                              /\ spc'[t] = "store" => tmp'[t] < M
    <3>1. spc[s] = "load" => end < M
      BY DEF OneSenderInv
    <3> QED
      BY <1>0, <2>2, <3>1 DEF TypeOK, SenderStates
  <2>5. TypeOK'
    BY <1>0, <2>1, <2>3, <2>4 DEF TypeOK
  <2> QED
    BY <2>1, <2>4, <2>5 DEF OneSenderInv
<1> QED
  BY <1>1, <1>2, <1>3, <1>4 DEF SenderStep

\* The receiver stays in the ring wherever end is: it takes no slot at Size - 1.
LEMMA OneSenderReceiver ==
    ASSUME OneSenderInv, ReceiverStep \/ AppRecv
    PROVE  OneSenderInv'
<1> USE MNat
<1>0. /\ TypeOK /\ start \in 0 .. M
      /\ rpc = "wrapped" => start = 0
  BY DEF OneSenderInv, TypeOK
<1>1. /\ TypeOK /\ start \in Nat /\ start <= M
      /\ UNCHANGED <<end, queue, sendLock, spc, slot, tmp, begun, dropped, filled>>
  <2>1. UNCHANGED <<end, queue, sendLock, spc, slot, tmp, begun, dropped, filled>>
    BY DEF ReceiverStep, AppRecv, IrqEnter, LoopExit, WrapStart,
           WrappedExit, Take, Deliver, NoMemory, ringVars, senderVars, countVars
  <2> QED
    BY <1>0, <2>1
<1>2. CASE IrqEnter \/ LoopExit \/ WrappedExit \/ NoMemory \/ AppRecv
  <2>1. /\ UNCHANGED <<start, rslot, rcvd>> /\ rpc' \in {"idle", "loop", "oops", rpc}
        /\ irq' \in Nat /\ held' \subseteq held
    BY <1>1, <1>2 DEF IrqEnter, LoopExit, WrappedExit, NoMemory, AppRecv, ringVars, receiverVars,
                      TypeOK
  <2>2. TypeOK'
    BY <1>1, <2>1 DEF TypeOK
  <2> QED
    BY <1>1, <2>1, <2>2 DEF OneSenderInv
<1>3. CASE WrapStart \/ Take
  <2>1. /\ UNCHANGED <<held, rcvd, irq>> /\ start' \in Nat /\ start' <= M
        /\ rslot' \in {rslot, start}
        /\ rpc' = "deliver" \/ (rpc' = "wrapped" /\ start' = 0)
    BY <1>0, <1>1, <1>3 DEF WrapStart, Take
  <2>2. TypeOK'
    BY <1>1, <2>1 DEF TypeOK
  <2> QED
    BY <1>1, <2>1, <2>2 DEF OneSenderInv
<1>4. CASE Deliver
  <2>1. /\ UNCHANGED <<start, rslot, irq>> /\ rpc' \in {"idle", "loop"}
        /\ rcvd' = Append(rcvd, queue[rslot])
        /\ held' \subseteq held \cup {[slot |-> rslot, msg |-> queue[rslot]]}
    BY <1>4 DEF Deliver, ringVars
  <2>2. queue[rslot] \in Nat /\ rslot \in Slots
    BY <1>1 DEF TypeOK
  <2>3. rcvd' \in Seq(Nat) /\ held' \subseteq [slot : Slots, msg : Nat]
    BY <1>1, <2>1, <2>2 DEF TypeOK
  <2>4. TypeOK'
    BY <1>1, <2>1, <2>3 DEF TypeOK
  <2> QED
    BY <1>1, <2>1, <2>4 DEF OneSenderInv
<1> QED
  BY <1>2, <1>3, <1>4 DEF ReceiverStep

\* However far a single process that sends overruns the receiver, no index leaves the
\* ring: every access to rq->queue is inside the array, on either node.
THEOREM OneSenderStaysInside == OneSender => (Spec => []TypeOK)
<1>1. OneSender /\ OneSenderInv /\ [Next]_vars => OneSenderInv'
  <2> SUFFICES ASSUME OneSender, OneSenderInv, [Next]_vars PROVE OneSenderInv'
    OBVIOUS
  <2>1. CASE UNCHANGED vars
    BY <2>1 DEF OneSenderInv, TypeOK, vars, ringVars, senderVars, receiverVars, countVars
  <2> QED
    BY <2>1, OneSenderMoves, OneSenderReceiver DEF Next
<1>2. OneSenderInv => TypeOK
  BY DEF OneSenderInv
<1>3. OneSender => []OneSender
  <2>1. OneSender => OneSender'
    BY DEF OneSender
  <2> QED
    BY <2>1, PTL
<1> QED
  BY <1>1, <1>2, <1>3, InitOneSender, PTL DEF Spec

=============================================================================
