------------------------- MODULE Segmentation_proofs ------------------------
(***************************************************************************)
(* Proofs about Segmentation, for pages of any size, any limit on a        *)
(* message and buffers of any length: what is sent is the buffer, cut into *)
(* runs of pages that hold it.                                             *)
(***************************************************************************)
EXTENDS Segmentation, FiniteSetTheorems, TLAPS

-----------------------------------------------------------------------------
(* Arithmetic *)

LEMMA DivMod ==
    ASSUME NEW a \in Int, NEW n \in Nat \ {0}
    PROVE  a = n * (a \div n) + (a % n) /\ a % n \in 0 .. n - 1 /\ a \div n \in Int
  OBVIOUS

LEMMA DivModUnique ==
    ASSUME NEW n \in Nat \ {0}, NEW q \in Int, NEW r \in 0 .. n - 1
    PROVE  (n * q + r) % n = r /\ (n * q + r) \div n = q
  OBVIOUS

\* Quotient and remainder at once.
LEMMA Divide ==
    ASSUME NEW a \in Int, NEW n \in Nat \ {0}
    PROVE  \E q \in Int, r \in 0 .. n - 1 :
               a = n * q + r /\ a \div n = q /\ a % n = r
  BY DivMod

LEMMA Monotone == \A a, b, c \in Int : a <= b /\ c >= 0 => a * c <= b * c
  OBVIOUS

LEMMA Distribute ==
    \A a, b, c \in Int : /\ a * c \in Int /\ a * c = c * a /\ 1 * c = c
                         /\ (a + b) * c = a * c + b * c
                         /\ (a - b) * c = a * c - b * c
  OBVIOUS

LEMMA SmallMod == ASSUME NEW n \in Nat \ {0}, NEW a \in 0 .. n - 1 PROVE a % n = a
  OBVIOUS

\* A bound on a quotient, from either side.
LEMMA DivBounds ==
    ASSUME NEW a \in Int, NEW c \in Int, NEW n \in Nat \ {0}
    PROVE  /\ c * n <= a => c <= a \div n
           /\ a < c * n => a \div n < c
<1>1. PICK q \in Int, r \in 0 .. n - 1 : a = n * q + r /\ a \div n = q
  BY Divide
<1>2. n * q = q * n /\ (q + 1) * n = q * n + n /\ q * n \in Int /\ c * n \in Int
  BY Distribute
<1>3. ASSUME c * n <= a, ~(c <= q) PROVE FALSE
  <2>1. q + 1 <= c /\ n >= 0
    BY <1>3
  <2>2. (q + 1) * n <= c * n
    BY <2>1, Monotone
  <2> QED
    BY <1>1, <1>2, <1>3, <2>2
<1>4. ASSUME a < c * n, ~(q < c) PROVE FALSE
  <2>1. c <= q /\ n >= 0
    BY <1>4
  <2>2. c * n <= q * n
    BY <2>1, Monotone
  <2> QED
    BY <1>1, <1>2, <1>4, <2>2
<1> QED
  BY <1>1, <1>3, <1>4

\* A remainder may be taken early.
LEMMA ModEarly ==
    ASSUME NEW a \in Int, NEW b \in Int, NEW n \in Nat \ {0}
    PROVE  ((a % n) + b) % n = (a + b) % n
<1>1. PICK q \in Int, r \in 0 .. n - 1 : a = n * q + r /\ a % n = r
  BY Divide
<1>2. r + b \in Int
  OBVIOUS
<1>3. PICK p \in Int, s \in 0 .. n - 1 : r + b = n * p + s /\ (r + b) % n = s
  BY <1>2, Divide
<1>4. n * (q + p) = n * q + n * p /\ n * q \in Int /\ n * p \in Int
  BY Distribute
<1>5. a + b = n * (q + p) + s
  BY <1>1, <1>3, <1>4
<1>6. q + p \in Int /\ (n * (q + p) + s) % n = s
  BY DivModUnique
<1> QED
  BY <1>1, <1>3, <1>5, <1>6

\* A remainder of the same word after a subtraction.
LEMMA ModMinus ==
    ASSUME NEW a \in Int, NEW b \in Int, NEW n \in Nat \ {0}
    PROVE  ((a % n) - b) % n = (a - b) % n
<1>1. -b \in Int /\ a % n \in Int
  BY DivMod
<1>2. ((a % n) + (-b)) % n = (a + (-b)) % n
  BY <1>1, ModEarly
<1>3. (a % n) + (-b) = (a % n) - b /\ a + (-b) = a - b
  BY <1>1
<1> QED
  BY <1>2, <1>3

-----------------------------------------------------------------------------
(* The number of pages *)

\* The pages from the first one on hold the buffer, and one fewer would not.
LEMMA PagesHold ==
    ASSUME NEW start \in Nat, NEW len \in Nat
    PROVE  LET n == CalcNrPages(start, len)
               off == start % PageSize
           IN  /\ n \in Nat \ {0} /\ off \in 0 .. PageSize - 1
               /\ off + len <= n * PageSize
               /\ n > 1 => (n - 1) * PageSize < off + len
<1>0. PageSize \in Nat \ {0}
  BY SizesAssumption
<1>1. PICK off \in 0 .. PageSize - 1 : start % PageSize = off
  <2>1. start \in Int
    OBVIOUS
  <2>2. start % PageSize \in 0 .. PageSize - 1
    BY <1>0, <2>1, DivMod
  <2> QED
    BY <2>2
<1>2. (start + len) % PageSize = (off + len) % PageSize
  <2>1. start \in Int /\ len \in Int
    OBVIOUS
  <2>2. ((start % PageSize) + len) % PageSize = (start + len) % PageSize
    BY <1>0, <2>1, ModEarly
  <2> QED
    BY <1>1, <2>2
<1>3. len - (PageSize - off) \in Int
  BY <1>0
<1>4. PICK q \in Int, m \in 0 .. PageSize - 1 :
          /\ len - (PageSize - off) = PageSize * q + m
          /\ (len - (PageSize - off)) \div PageSize = q
  BY <1>0, <1>3, Divide
<1>5. PageSize * (q + 1) = PageSize * q + PageSize /\ PageSize * q \in Int
  BY <1>0
<1>6. off + len = PageSize * (q + 1) + m
  BY <1>0, <1>4, <1>5
<1>7. (start + len) % PageSize = m
  <2>1. q + 1 \in Int
    OBVIOUS
  <2> QED
    BY <1>0, <1>2, <1>6, <2>1, DivModUnique
<1>8. CASE off + len > PageSize
  <2>1. CalcNrPages(start, len) = 1 + q + (IF m # 0 THEN 1 ELSE 0)
    BY <1>1, <1>4, <1>7, <1>8 DEF CalcNrPages
  <2>2. q >= 0
    <3>1. q < 0 => q <= -1
      OBVIOUS
    <3>2. q <= -1 => q * PageSize <= (-1) * PageSize
      BY <1>0, Monotone
    <3>3. q * PageSize = PageSize * q /\ (-1) * PageSize = -PageSize
      BY <1>0
    <3> QED
      BY <1>0, <1>4, <1>5, <1>8, <3>1, <3>2, <3>3
  <2>3. /\ (1 + q) * PageSize = PageSize * q + PageSize
        /\ (2 + q) * PageSize = PageSize * q + PageSize + PageSize
        /\ q * PageSize = PageSize * q
    BY <1>0
  <2>4. CASE m = 0
    <3>1. CalcNrPages(start, len) = 1 + q /\ (1 + q) - 1 = q
      BY <2>1, <2>4
    <3> QED
      BY <1>0, <1>1, <1>5, <1>6, <2>2, <2>3, <2>4, <3>1
  <2>5. CASE m # 0
    <3>1. CalcNrPages(start, len) = 2 + q /\ (2 + q) - 1 = 1 + q
      BY <2>1, <2>5
    <3> QED
      BY <1>0, <1>1, <1>5, <1>6, <2>2, <2>3, <2>5, <3>1
  <2> QED
    BY <2>4, <2>5
<1>9. CASE ~(off + len > PageSize)
  BY <1>0, <1>1, <1>9 DEF CalcNrPages
<1> QED
  BY <1>8, <1>9

-----------------------------------------------------------------------------
(* The inductive invariant *)

\* The size of the message the loop sends next.
NextSize == IF LastRound THEN left ELSE PagesToSend * PageSize

\* What the loop sends in every round but the last.
Full(k) ==
    [addr |-> buf.start + (k - 1) * MaxPages * PageSize, pages |-> MaxPages,
     off |-> Offset(buf), size |-> MaxPages * PageSize]

\* The loop is behind n rounds, and left_to_send counts down in its own word.
InLoop(n) ==
    /\ nrPages = CalcNrPages(buf.start, buf.len)
    /\ i = n * MaxPages /\ i < nrPages
    /\ left = (buf.len - i * PageSize) % Word

\* The messages of n rounds were sent, and perhaps that of the round after them.
SentBy(n) ==
    /\ Len(sent) \in {n, n + 1}
    /\ \A k \in 1 .. n : sent[k] = Full(k)
    /\ Len(sent) = n + 1 => sent[n + 1] = Message(NextSize)
    /\ pc = "loop" => Len(sent) = n
    /\ pc = "done" => Len(sent) = n + 1 /\ LastRound

Parts == \E n \in Nat : InLoop(n) /\ SentBy(n)

SegType ==
    /\ buf \in Buffers
    /\ pc \in {"start", "loop", "done", "failed"}
    /\ sent \in Seq([addr : Int, pages : Int, off : Int, size : Int])

SegInv ==
    /\ SegType
    /\ pc = "start" => nrPages = 0 /\ i = 0 /\ left = 0 /\ sent = << >>
    /\ pc # "start" => Parts

-----------------------------------------------------------------------------
(* Its steps *)

LEMMA BufType ==
    ASSUME buf \in Buffers
    PROVE  buf.start \in Nat /\ buf.len \in 0 .. Word - 1 /\ buf.len \in Nat
  BY SizesAssumption, BuffersAssumption

\* The numbers of a round.
LEMMA RoundType ==
    ASSUME buf \in Buffers, NEW n \in Nat, InLoop(n)
    PROVE  /\ PageSize \in Nat \ {0} /\ MaxPages \in Nat \ {0} /\ Word \in Nat \ {0}
           /\ i \in Nat /\ nrPages \in Nat \ {0} /\ i = n * MaxPages
           /\ i < nrPages /\ left \in 0 .. Word - 1
           /\ PagesToSend \in 1 .. MaxPages
           /\ LastRound => PagesToSend = nrPages - i
           /\ ~LastRound => PagesToSend = MaxPages /\ MaxPages < nrPages - i
           /\ Offset(buf) \in 0 .. PageSize - 1
<1>1. PageSize \in Nat \ {0} /\ MaxPages \in Nat \ {0} /\ Word \in Nat \ {0}
  BY SizesAssumption
<1>2. nrPages \in Nat \ {0} /\ Offset(buf) \in 0 .. PageSize - 1
  BY BufType, PagesHold DEF InLoop, Offset
<1>3. i \in Nat /\ i = n * MaxPages /\ i < nrPages
  BY <1>1 DEF InLoop
<1>4. left \in 0 .. Word - 1
  <2>1. i * PageSize \in Int
    BY <1>1, <1>3
  <2>2. buf.len - i * PageSize \in Int
    BY <2>1, BufType
  <2> QED
    BY <1>1, <2>2, DivMod DEF InLoop
<1> QED
  BY <1>1, <1>2, <1>3, <1>4 DEF PagesToSend, LastRound

\* The pages of the call hold the buffer, and all of them are needed.
LEMMA LoopPages ==
    ASSUME buf \in Buffers, NEW n \in Nat, InLoop(n)
    PROVE  /\ Offset(buf) + buf.len <= nrPages * PageSize
           /\ nrPages > 1 => (nrPages - 1) * PageSize < Offset(buf) + buf.len
  BY BufType, PagesHold DEF InLoop, Offset

LEMMA MessageType ==
    ASSUME buf \in Buffers, NEW n \in Nat, InLoop(n), NEW size \in Int
    PROVE  Message(size) \in [addr : Int, pages : Int, off : Int, size : Int]
<1>1. i * PageSize \in Int
  BY RoundType
<1> QED
  BY <1>1, RoundType, BufType DEF Message

LEMMA NextSizeType ==
    ASSUME buf \in Buffers, NEW n \in Nat, InLoop(n)
    PROVE  NextSize \in Nat
<1>1. PagesToSend * PageSize \in Nat
  BY RoundType
<1> QED
  BY <1>1, RoundType DEF NextSize

LEMMA InitSeg == Init => SegInv
  BY DEF Init, SegInv, SegType

LEMMA StartSeg == SegInv /\ Start => SegInv'
<1> SUFFICES ASSUME SegInv, Start PROVE SegInv'
  OBVIOUS
<1>1. /\ buf' = buf /\ i' = 0 /\ sent' = << >> /\ pc' = "loop"
      /\ nrPages' = CalcNrPages(buf.start, buf.len) /\ left' = buf.len
      /\ buf \in Buffers
  BY DEF SegInv, SegType, Start
<1>2. buf.len = (buf.len - 0 * PageSize) % Word
  <2>1. 0 * PageSize = 0
    BY SizesAssumption
  <2> QED
    BY <1>1, <2>1, BufType, SizesAssumption
<1>3. 0 = 0 * MaxPages /\ 0 < CalcNrPages(buf.start, buf.len)
  <2>1. 0 = 0 * MaxPages
    BY SizesAssumption
  <2>2. buf.start \in Nat /\ buf.len \in Nat
    BY <1>1, BufType
  <2>3. CalcNrPages(buf.start, buf.len) \in Nat \ {0}
    BY <2>2, PagesHold
  <2> QED
    BY <2>1, <2>3
<1>4. InLoop(0)'
  BY <1>1, <1>2, <1>3 DEF InLoop
<1>5. SentBy(0)'
  BY <1>1 DEF SentBy
<1> QED
  BY <1>1, <1>4, <1>5 DEF SegInv, SegType, Parts

LEMMA SendPartSeg == SegInv /\ SendPart => SegInv'
<1> SUFFICES ASSUME SegInv, SendPart PROVE SegInv'
  OBVIOUS
<1>1. /\ pc = "loop" /\ pc' = "loop" /\ ~LastRound /\ buf' = buf /\ buf \in Buffers
      /\ nrPages' = nrPages /\ i' = i + MaxPages
      /\ sent' = Append(sent, Message(PagesToSend * PageSize))
      /\ left' = (left - PagesToSend * PageSize) % Word
      /\ sent \in Seq([addr : Int, pages : Int, off : Int, size : Int])
  BY DEF SegInv, SegType, SendPart
<1>2. PICK n \in Nat : InLoop(n) /\ SentBy(n)
  BY <1>1 DEF SegInv, Parts
<1>3. PagesToSend = MaxPages /\ MaxPages < nrPages - i /\ i = n * MaxPages
      /\ PageSize \in Nat \ {0} /\ MaxPages \in Nat \ {0} /\ Word \in Nat \ {0}
      /\ i \in Nat /\ nrPages \in Nat
  BY <1>1, <1>2, RoundType
<1>4. MaxPages * PageSize \in Int /\ i * PageSize \in Int
      /\ (n + 1) * MaxPages = n * MaxPages + MaxPages
      /\ (i + MaxPages) * PageSize = i * PageSize + MaxPages * PageSize
  BY <1>3, Distribute
<1>5. InLoop(n + 1)'
  <2>1. left' = (buf.len - i' * PageSize) % Word
    <3>1. left' = (((buf.len - i * PageSize) % Word) - MaxPages * PageSize) % Word
      BY <1>1, <1>2, <1>3 DEF InLoop
    <3>2. buf.len - i * PageSize \in Int
      BY <1>1, <1>4, BufType
    <3>3. left' = (buf.len - i * PageSize - MaxPages * PageSize) % Word
      BY <1>3, <1>4, <3>1, <3>2, ModMinus
    <3>4. buf.len - i * PageSize - MaxPages * PageSize = buf.len - i' * PageSize
      BY <1>1, <1>4, BufType
    <3> QED
      BY <3>3, <3>4
  <2>2. i' = (n + 1) * MaxPages /\ i' < nrPages'
    BY <1>1, <1>3, <1>4
  <2> QED
    BY <1>1, <1>2, <2>1, <2>2 DEF InLoop
<1>6. Message(PagesToSend * PageSize) = Full(n + 1)
  <2>1. (n + 1) - 1 = n
    OBVIOUS
  <2> QED
    BY <1>3, <2>1 DEF Message, Full
<1>7. Message(PagesToSend * PageSize) \in [addr : Int, pages : Int, off : Int, size : Int]
  BY <1>1, <1>2, <1>3, <1>4, MessageType
<1>8. /\ sent' \in Seq([addr : Int, pages : Int, off : Int, size : Int])
      /\ Len(sent) = n /\ Len(sent') = n + 1
      /\ \A k \in 1 .. n : sent'[k] = sent[k]
      /\ sent'[n + 1] = Full(n + 1)
  BY <1>1, <1>2, <1>6, <1>7 DEF SentBy
<1>9. SentBy(n + 1)'
  <2>1. \A k \in 1 .. n + 1 : sent'[k] = Full(k)
    BY <1>2, <1>8 DEF SentBy
  <2>2. \A k \in 1 .. n + 1 : Full(k)' = Full(k)
    BY <1>1 DEF Full, Offset
  <2> QED
    BY <1>1, <1>8, <2>1, <2>2 DEF SentBy
<1> QED
  BY <1>1, <1>5, <1>8, <1>9 DEF SegInv, SegType, Parts

\* The last step of a call: it publishes the next message or nothing.
LEMMA LastStepSeg ==
    ASSUME SegInv, pc = "loop", UNCHANGED <<buf, nrPages, i, left>>,
           \/ pc' = "failed" /\ sent' = sent
           \/ pc' = "failed" /\ sent' = Append(sent, Message(NextSize))
           \/ pc' = "done" /\ LastRound /\ sent' = Append(sent, Message(NextSize))
    PROVE  SegInv'
<1>1. buf \in Buffers /\ sent \in Seq([addr : Int, pages : Int, off : Int, size : Int])
  BY DEF SegInv, SegType
<1>2. PICK n \in Nat : InLoop(n) /\ SentBy(n)
  BY DEF SegInv, Parts
<1>3. InLoop(n)'
  BY <1>2 DEF InLoop
<1>4. /\ Message(NextSize)' = Message(NextSize) /\ LastRound' = LastRound
      /\ \A k \in 1 .. n : Full(k)' = Full(k)
  BY DEF Message, NextSize, LastRound, PagesToSend, Full, Offset
<1>5. Message(NextSize) \in [addr : Int, pages : Int, off : Int, size : Int]
  BY <1>1, <1>2, NextSizeType, MessageType
<1>6. Len(sent) = n /\ \A k \in 1 .. n : sent[k] = Full(k)
  BY <1>2 DEF SentBy
<1>7. CASE sent' = sent /\ pc' = "failed"
  <2>1. SentBy(n)'
    BY <1>4, <1>6, <1>7 DEF SentBy
  <2> QED
    BY <1>1, <1>3, <1>7, <2>1 DEF SegInv, SegType, Parts
<1>8. CASE sent' = Append(sent, Message(NextSize)) /\ pc' \in {"failed", "done"}
  <2>1. /\ sent' \in Seq([addr : Int, pages : Int, off : Int, size : Int])
        /\ Len(sent') = n + 1 /\ \A k \in 1 .. n : sent'[k] = Full(k)
        /\ sent'[n + 1] = Message(NextSize)
    BY <1>1, <1>5, <1>6, <1>8
  <2>2. SentBy(n)'
    BY <1>4, <1>8, <2>1 DEF SentBy
  <2> QED
    BY <1>1, <1>3, <1>8, <2>1, <2>2 DEF SegInv, SegType, Parts
<1> QED
  BY <1>7, <1>8

LEMMA SendLastSeg == SegInv /\ SendLast => SegInv'
  BY LastStepSeg DEF SendLast, NextSize

LEMMA XmitFailsSeg == SegInv /\ XmitFails => SegInv'
  BY LastStepSeg DEF XmitFails, NextSize

LEMMA CallAgainSeg == ASSUME NEW b \in Buffers PROVE SegInv /\ CallAgain(b) => SegInv'
  BY DEF CallAgain, SegInv, SegType

LEMMA SegStep == SegInv /\ [Next]_vars => SegInv'
<1> SUFFICES ASSUME SegInv, [Next]_vars PROVE SegInv'
  OBVIOUS
<1>1. CASE CallStep
  BY <1>1, StartSeg, SendPartSeg, SendLastSeg, XmitFailsSeg DEF CallStep
<1>2. CASE \E b \in Buffers : CallAgain(b)
  BY <1>2, CallAgainSeg
<1>3. CASE UNCHANGED vars
  BY <1>3 DEF vars, SegInv, SegType, Parts, InLoop, SentBy, Full, Message, NextSize,
              LastRound, PagesToSend, Offset
<1> QED
  BY <1>1, <1>2, <1>3 DEF Next

LEMMA SegAlways == Spec => []SegInv
  BY InitSeg, SegStep, PTL DEF Spec

-----------------------------------------------------------------------------
(* Messages follow one another *)

\* The end of a whole message is where the next round begins.
LEMMA FullEnd ==
    ASSUME buf \in Buffers, NEW k \in Nat \ {0}
    PROVE  /\ EndOf(Full(k)) = buf.start + (k * MaxPages) * PageSize
           /\ Full(k + 1).addr = buf.start + (k * MaxPages) * PageSize
           /\ (k * MaxPages) * PageSize \in Int
<1>1. /\ PageSize \in Int /\ MaxPages \in Int /\ MaxPages * PageSize \in Int
      /\ (k - 1) * MaxPages \in Int /\ ((k - 1) * MaxPages) * PageSize \in Int
      /\ k * MaxPages \in Int /\ (k * MaxPages) * PageSize \in Int
  BY SizesAssumption, Distribute
<1>2. k * MaxPages = (k - 1) * MaxPages + MaxPages
  BY <1>1, Distribute
<1>3. (k * MaxPages) * PageSize = ((k - 1) * MaxPages) * PageSize + MaxPages * PageSize
  BY <1>1, <1>2, Distribute
<1>4. (k + 1) - 1 = k
  OBVIOUS
<1> QED
  BY <1>1, <1>3, <1>4, BufType DEF EndOf, Full

\* What the k-th message is.
LEMMA SentIs ==
    ASSUME NEW n \in Nat, SentBy(n), NEW k \in 1 .. Len(sent)
    PROVE  \/ k <= n /\ sent[k] = Full(k)
           \/ k = n + 1 /\ sent[k] = Message(NextSize)
  BY DEF SentBy

\* The addresses and sizes that two rounds give to xmit fit together, whatever the
\* buffer: ltcp_direct_copy leaves no gap.
LEMMA SegContiguous == SegInv => Contiguous
<1> SUFFICES ASSUME SegInv, pc # "start" PROVE Contiguous
  BY DEF SegInv, Contiguous
<1>1. buf \in Buffers
  BY DEF SegInv, SegType
<1>2. PICK n \in Nat : InLoop(n) /\ SentBy(n)
  BY DEF SegInv, Parts
<1>3. ASSUME sent # << >> PROVE sent[1].addr = buf.start
  <2>1. 1 \in 1 .. Len(sent)
    BY <1>3 DEF SegInv, SegType
  <2>2. CASE 1 <= n /\ sent[1] = Full(1)
    <3>1. ((1 - 1) * MaxPages) * PageSize = 0
      BY SizesAssumption
    <3> QED
      BY <1>1, <2>2, <3>1, BufType DEF Full
  <2>3. CASE 1 = n + 1 /\ sent[1] = Message(NextSize)
    <3>1. i = 0 /\ i * PageSize = 0
      BY <1>2, <2>3, SizesAssumption DEF InLoop
    <3> QED
      BY <1>1, <2>3, <3>1, BufType DEF Message
  <2> QED
    BY <1>2, <2>1, <2>2, <2>3, SentIs
<1>4. ASSUME NEW k \in 1 .. Len(sent) - 1 PROVE sent[k + 1].addr = sent[k].addr + sent[k].size
  <2>1. Len(sent) \in Nat /\ k \in 1 .. Len(sent) /\ k + 1 \in 1 .. Len(sent)
    BY DEF SegInv, SegType
  <2>2. k <= n /\ sent[k] = Full(k)
    BY <1>2, <2>1, SentIs DEF SentBy
  <2>3. sent[k].addr + sent[k].size = buf.start + (k * MaxPages) * PageSize
    BY <1>1, <2>1, <2>2, FullEnd DEF EndOf
  <2>4. CASE sent[k + 1] = Full(k + 1)
    BY <1>1, <2>1, <2>3, <2>4, FullEnd
  <2>5. CASE k + 1 = n + 1 /\ sent[k + 1] = Message(NextSize)
    BY <1>2, <2>1, <2>3, <2>5 DEF InLoop, Message
  <2> QED
    BY <1>2, <2>1, <2>4, <2>5, SentIs
<1> QED
  BY <1>3, <1>4 DEF Contiguous

-----------------------------------------------------------------------------
(* Messages hold the buffer *)

\* Behind the first round the buffer begins on a page.
LEMMA SoundRounds ==
    ASSUME buf \in Buffers, NEW n \in Nat, InLoop(n), Sound
    PROVE  Offset(buf) = 0 \/ (n = 0 /\ i = 0 /\ LastRound)
<1>1. CASE nrPages <= MaxPages
  <2>1. n >= 1 => 1 * MaxPages <= n * MaxPages
    BY RoundType, Monotone
  <2>2. 1 * MaxPages = MaxPages
    BY RoundType
  <2>3. n = 0 /\ i = 0
    BY <1>1, <2>1, <2>2, RoundType
  <2> QED
    BY <1>1, <2>3, RoundType
<1> QED
  BY <1>1 DEF Sound

\* The pages that are not the last hold bytes of the buffer only.
LEMMA BeforeLast ==
    ASSUME buf \in Buffers, NEW n \in Nat, InLoop(n), NEW p \in 1 .. nrPages - 1
    PROVE  p * PageSize < Offset(buf) + buf.len
<1>1. /\ nrPages \in Nat \ {0} /\ PageSize \in Nat \ {0} /\ p <= nrPages - 1
      /\ Offset(buf) \in Nat
  BY RoundType
<1>2. p * PageSize <= (nrPages - 1) * PageSize
  BY <1>1, Monotone
<1>3. nrPages > 1 => (nrPages - 1) * PageSize < Offset(buf) + buf.len
  BY BufType, PagesHold DEF InLoop, Offset
<1>4. p * PageSize \in Int /\ (nrPages - 1) * PageSize \in Int
  BY <1>1
<1> QED
  BY <1>1, <1>2, <1>3, <1>4, BufType

\* What is left in a Sound buffer has not wrapped around.
LEMMA SoundLeft ==
    ASSUME buf \in Buffers, NEW n \in Nat, InLoop(n), Sound
    PROVE  /\ i * PageSize \in Nat /\ i * PageSize <= buf.len
           /\ left = buf.len - i * PageSize
<1>1. /\ i \in Nat /\ i * PageSize \in Nat /\ Word \in Nat \ {0}
      /\ buf.len \in 0 .. Word - 1
  BY RoundType, BufType
<1>2. i * PageSize <= buf.len
  <2>1. CASE i = 0
    <3>1. i * PageSize = 0
      BY <2>1, RoundType
    <3> QED
      BY <1>1, <3>1
  <2>2. CASE i # 0 /\ Offset(buf) = 0
    <3>1. i \in 1 .. nrPages - 1
      BY <2>2, RoundType
    <3>2. i * PageSize < 0 + buf.len
      BY <2>2, <3>1, BeforeLast
    <3> QED
      BY <1>1, <3>2
  <2> QED
    BY <2>1, <2>2, SoundRounds
<1>3. buf.len - i * PageSize \in 0 .. Word - 1
  BY <1>1, <1>2
<1>4. (buf.len - i * PageSize) % Word = buf.len - i * PageSize
  BY <1>1, <1>3, SmallMod
<1> QED
  BY <1>1, <1>2, <1>4 DEF InLoop

\* The message of a round lies in the buffer and in its pages.
LEMMA NextHolds ==
    ASSUME buf \in Buffers, NEW n \in Nat, InLoop(n), Sound
    PROVE  /\ Offset(buf) + NextSize <= PagesToSend * PageSize
           /\ EndOf(Message(NextSize)) <= buf.start + buf.len
           /\ LastRound => EndOf(Message(NextSize)) = buf.start + buf.len
<1>1. /\ i * PageSize \in Nat /\ PagesToSend * PageSize \in Nat /\ MaxPages * PageSize \in Nat
      /\ nrPages * PageSize \in Nat
  BY RoundType
<1>2. CASE LastRound
  <2>1. NextSize = buf.len - i * PageSize
    BY <1>2, SoundLeft DEF NextSize
  <2>2. Offset(buf) + buf.len <= nrPages * PageSize
    BY LoopPages
  <2>3. PagesToSend * PageSize = nrPages * PageSize - i * PageSize
    <3>1. PagesToSend = nrPages - i /\ nrPages \in Int /\ i \in Int /\ PageSize \in Int
      BY <1>2, RoundType
    <3> QED
      BY <3>1, Distribute
  <2>4. EndOf(Message(NextSize)) = buf.start + buf.len
    BY <1>1, <2>1, BufType DEF EndOf, Message
  <2>5. Offset(buf) \in Nat /\ buf.len \in Nat /\ buf.start \in Nat
    BY RoundType, BufType
  <2> QED
    BY <1>1, <2>1, <2>2, <2>3, <2>4, <2>5
<1>3. CASE ~LastRound
  <2>1. Offset(buf) = 0 /\ PagesToSend = MaxPages /\ NextSize = MaxPages * PageSize
    BY <1>3, SoundRounds, RoundType DEF NextSize
  <2>2. i + MaxPages \in 1 .. nrPages - 1
    BY <1>3, RoundType
  <2>3. (i + MaxPages) * PageSize < 0 + buf.len
    BY <2>1, <2>2, BeforeLast
  <2>4. (i + MaxPages) * PageSize = i * PageSize + MaxPages * PageSize
    <3>1. i \in Int /\ MaxPages \in Int /\ PageSize \in Int
      BY RoundType
    <3> QED
      BY <3>1, Distribute
  <2>5. EndOf(Message(NextSize)) = buf.start + i * PageSize + MaxPages * PageSize
    BY <2>1 DEF EndOf, Message
  <2> QED
    BY <1>1, <1>3, <2>1, <2>3, <2>4, <2>5, BufType
<1> QED
  BY <1>2, <1>3

-----------------------------------------------------------------------------
(* What the invariant implies *)

\* Each message lies in the buffer, and in the pages mapped for it.
LEMMA SentHolds ==
    ASSUME SegInv, pc # "start", Sound, NEW k \in 1 .. Len(sent)
    PROVE  /\ sent[k].off + sent[k].size <= sent[k].pages * PageSize
           /\ EndOf(sent[k]) <= buf.start + buf.len
<1>1. buf \in Buffers /\ Len(sent) \in Nat
  BY DEF SegInv, SegType
<1>2. PICK n \in Nat : InLoop(n) /\ SentBy(n)
  BY DEF SegInv, Parts
<1>3. CASE k <= n /\ sent[k] = Full(k)
  <2>1. Offset(buf) = 0 /\ MaxPages * PageSize \in Int
    BY <1>1, <1>2, <1>3, SoundRounds, RoundType
  <2>2. sent[k].off + sent[k].size <= sent[k].pages * PageSize
    BY <1>3, <2>1 DEF Full
  <2>3. EndOf(sent[k]) = buf.start + (k * MaxPages) * PageSize
    BY <1>1, <1>3, FullEnd
  <2>4. (k * MaxPages) * PageSize <= i * PageSize
    <3>1. MaxPages \in Nat /\ PageSize \in Nat /\ k \in Int /\ k <= n
      BY <1>1, <1>3, SizesAssumption
    <3>2. k * MaxPages <= n * MaxPages
      BY <3>1, Monotone
    <3>3. k * MaxPages \in Int /\ n * MaxPages \in Int
      BY <3>1
    <3>4. (k * MaxPages) * PageSize <= (n * MaxPages) * PageSize
      BY <3>1, <3>2, <3>3, Monotone
    <3> QED
      BY <1>2, <3>4 DEF InLoop
  <2>5. i * PageSize \in Nat /\ i * PageSize <= buf.len
    BY <1>1, <1>2, SoundLeft
  <2>6. (k * MaxPages) * PageSize \in Int
    BY <1>1, FullEnd
  <2> QED
    BY <1>1, <2>2, <2>3, <2>4, <2>5, <2>6, BufType
<1>4. CASE sent[k] = Message(NextSize)
  <2>1. sent[k].off = Offset(buf) /\ sent[k].size = NextSize /\ sent[k].pages = PagesToSend
    BY <1>4 DEF Message
  <2> QED
    BY <1>1, <1>2, <1>4, <2>1, NextHolds
<1> QED
  BY <1>2, <1>3, <1>4, SentIs

\* Success comes with the last message, which ends where the buffer does.
LEMMA SegWholeBuffer == SegInv => WholeBuffer
<1> SUFFICES ASSUME SegInv, Sound, pc # "start" PROVE WholeBuffer
  BY DEF SegInv, WholeBuffer
<1>1. ASSUME pc = "done" PROVE EndOf(sent[Len(sent)]) = buf.start + buf.len
  <2>1. buf \in Buffers
    BY DEF SegInv, SegType
  <2>2. PICK n \in Nat : InLoop(n) /\ SentBy(n)
    BY DEF SegInv, Parts
  <2>3. sent[Len(sent)] = Message(NextSize) /\ LastRound
    BY <1>1, <2>2 DEF SentBy
  <2> QED
    BY <2>1, <2>2, <2>3, NextHolds
<1> QED
  BY <1>1, SentHolds DEF WholeBuffer

\* Inside the mapping exactly when the buffer is Sound.
LEMMA SegInsideMapping == SegInv => InsideMapping
<1> SUFFICES ASSUME SegInv, pc # "start" PROVE InsideMapping
  BY DEF SegInv, InsideMapping
<1>1. ASSUME ~Sound, 1 \in DOMAIN sent
      PROVE  sent[1].off + sent[1].size > sent[1].pages * PageSize
  <2>1. buf \in Buffers /\ 1 \in 1 .. Len(sent)
    BY <1>1 DEF SegInv, SegType
  <2>2. PICK n \in Nat : InLoop(n) /\ SentBy(n)
    BY DEF SegInv, Parts
  <2>3. Offset(buf) \in 1 .. PageSize - 1 /\ nrPages > MaxPages /\ MaxPages * PageSize \in Int
    BY <1>1, <2>1, <2>2, RoundType DEF Sound
  <2>4. CASE sent[1] = Full(1)
    BY <2>3, <2>4, SizesAssumption DEF Full
  <2>5. CASE 1 = n + 1 /\ sent[1] = Message(NextSize)
    <3>1. i = 0
      BY <2>2, <2>5, SizesAssumption DEF InLoop
    <3>2. ~LastRound /\ PagesToSend = MaxPages
      BY <2>1, <2>2, <2>3, <3>1, RoundType
    <3>3. NextSize = MaxPages * PageSize
      BY <3>2 DEF NextSize
    <3> QED
      BY <2>3, <2>5, <3>2, <3>3, SizesAssumption DEF Message
  <2> QED
    BY <2>1, <2>2, <2>4, <2>5, SentIs
<1> QED
  BY <1>1, SentHolds DEF InsideMapping

\* The list that rdma_xmit allocates for size bytes is long enough, even for the last
\* message of a buffer that is not Sound, when left_to_send may have wrapped around.
LEMMA SegPageListFits == SegInv => PageListFits
<1> SUFFICES ASSUME SegInv, pc # "start", NEW k \in 1 .. Len(sent)
             PROVE  sent[k].pages <= sent[k].size \div PageSize + 2
  BY DEF SegInv, PageListFits
<1>1. buf \in Buffers
  BY DEF SegInv, SegType
<1>2. PICK n \in Nat : InLoop(n) /\ SentBy(n)
  BY DEF SegInv, Parts
<1>3. /\ PageSize \in Nat \ {0} /\ MaxPages \in Nat \ {0} /\ MaxPages * PageSize \in Int
      /\ i \in Nat /\ nrPages \in Nat \ {0} /\ i < nrPages
      /\ PageSize \in Int /\ i * PageSize \in Int /\ i \in Int /\ nrPages \in Int
  BY <1>1, <1>2, RoundType
<1>4. MaxPages <= (MaxPages * PageSize) \div PageSize + 2
  <2>1. MaxPages * PageSize <= MaxPages * PageSize /\ MaxPages \in Int
    BY <1>3
  <2>2. MaxPages <= (MaxPages * PageSize) \div PageSize
    BY <1>3, <2>1, DivBounds
  <2>3. (MaxPages * PageSize) \div PageSize \in Int
    BY <1>3, DivMod
  <2> QED
    BY <1>3, <2>2, <2>3
<1>5. CASE sent[k] = Full(k)
  BY <1>4, <1>5 DEF Full
<1>6. CASE sent[k] = Message(NextSize) /\ ~LastRound
  <2>1. PagesToSend = MaxPages /\ NextSize = MaxPages * PageSize
    BY <1>1, <1>2, <1>6, RoundType DEF NextSize
  <2> QED
    BY <1>4, <1>6, <2>1 DEF Message
<1>7. CASE sent[k] = Message(NextSize) /\ LastRound
  <2>1. PagesToSend = nrPages - i /\ NextSize = left /\ left \in Nat
    BY <1>1, <1>2, <1>7, RoundType DEF NextSize
  <2>2. left \div PageSize \in Int /\ 0 <= left \div PageSize
    <3>1. 0 * PageSize <= left /\ left \in Int /\ 0 \in Int
      BY <1>3, <2>1
    <3> QED
      BY <1>3, <3>1, DivBounds, DivMod
  <2>3. CASE nrPages - i <= 2
    BY <1>3, <1>7, <2>1, <2>2, <2>3 DEF Message
  <2>4. CASE nrPages - i > 2
    <3>1. nrPages - 1 \in 1 .. nrPages - 1 /\ nrPages - 1 \in Int
      BY <1>3, <2>4
    <3>2. (nrPages - 1) * PageSize < Offset(buf) + buf.len
      BY <1>1, <1>2, <3>1, BeforeLast
    <3>3. /\ (nrPages - 1) * PageSize = ((nrPages - 1) - i) * PageSize + i * PageSize
          /\ ((nrPages - 1) - i) * PageSize = ((nrPages - 1) - i - 1) * PageSize + PageSize
          /\ ((nrPages - 1) - i - 1) * PageSize \in Int
      <4>1. (nrPages - 1) - i \in Int /\ (nrPages - 1) - i - 1 \in Int
        BY <1>3
      <4>2. ((nrPages - 1) - i) * PageSize = (nrPages - 1) * PageSize - i * PageSize
        BY <1>3, <3>1, Distribute
      <4>3. (((nrPages - 1) - i) - 1) * PageSize = ((nrPages - 1) - i) * PageSize - 1 * PageSize
        BY <1>3, <4>1, Distribute
      <4>4. 1 * PageSize = PageSize /\ (nrPages - 1) * PageSize \in Int
            /\ ((nrPages - 1) - i) * PageSize \in Int
        BY <1>3, <3>1, <4>1, Distribute
      <4> QED
        BY <1>3, <4>1, <4>2, <4>3, <4>4
    <3>4. Offset(buf) \in 0 .. PageSize - 1 /\ buf.len \in 0 .. Word - 1 /\ Word \in Nat \ {0}
      BY <1>1, <1>2, RoundType, BufType
    <3>5. ((nrPages - 1) - i - 1) * PageSize < buf.len - i * PageSize
      BY <1>3, <3>2, <3>3, <3>4
    <3>6. ((nrPages - 1) - i - 1) * PageSize >= 0
      <4>1. 0 <= (nrPages - 1) - i - 1 /\ (nrPages - 1) - i - 1 \in Int
        BY <1>3, <2>4
      <4>2. 0 * PageSize <= ((nrPages - 1) - i - 1) * PageSize
        BY <1>3, <4>1, Monotone
      <4> QED
        BY <1>3, <4>2
    <3>7. left = buf.len - i * PageSize
      <4>1. buf.len - i * PageSize \in 0 .. Word - 1
        <5>1. i * PageSize >= 0
          BY <1>1, <1>2, RoundType
        <5> QED
          BY <1>3, <3>3, <3>4, <3>5, <3>6, <5>1
      <4> QED
        BY <1>2, <3>4, <4>1, SmallMod DEF InLoop
    <3>8. (nrPages - 1) - i - 1 <= left \div PageSize
      <4>1. ((nrPages - 1) - i - 1) * PageSize <= left /\ left \in Int
        BY <2>1, <3>3, <3>5, <3>7
      <4>2. (nrPages - 1) - i - 1 \in Int
        BY <1>3
      <4> QED
        BY <1>3, <4>1, <4>2, DivBounds
    <3> QED
      BY <1>3, <1>7, <2>1, <2>2, <3>8 DEF Message
  <2> QED
    BY <1>3, <2>3, <2>4
<1> QED
  BY <1>2, <1>5, <1>6, <1>7, SentIs

\* calc_nr_pages counts the pages from that of the first byte to that of the last.
LEMMA SegPagesNeeded == SegInv => PagesNeeded
<1> SUFFICES ASSUME SegInv, pc # "start", buf.len > 0
             PROVE  nrPages = Cardinality({(buf.start + k) \div PageSize : k \in 0 .. buf.len - 1})
  BY DEF PagesNeeded
<1> DEFINE Page(k) == (buf.start + k) \div PageSize
           first == Page(0)
           last == Page(buf.len - 1)
<1>1. /\ buf.start \in Nat /\ buf.len \in Nat \ {0} /\ PageSize \in Nat \ {0}
  BY BufType, SizesAssumption DEF SegInv, SegType
<1>2. \A k \in 0 .. buf.len - 1 :
          /\ Page(k) \in Int
          /\ Page(k) * PageSize <= buf.start + k /\ buf.start + k < (Page(k) + 1) * PageSize
  <2> SUFFICES ASSUME NEW k \in 0 .. buf.len - 1
               PROVE  /\ Page(k) \in Int
                      /\ Page(k) * PageSize <= buf.start + k
                      /\ buf.start + k < (Page(k) + 1) * PageSize
    OBVIOUS
  <2>1. buf.start + k \in Int
    BY <1>1
  <2>2. PICK q \in Int, r \in 0 .. PageSize - 1 :
            buf.start + k = PageSize * q + r /\ Page(k) = q
    BY <1>1, <2>1, Divide
  <2>3. q * PageSize = PageSize * q /\ (q + 1) * PageSize = q * PageSize + PageSize
        /\ q * PageSize \in Int
    BY <1>1, Distribute
  <2> HIDE DEF Page
  <2> QED
    BY <1>1, <2>1, <2>2, <2>3
<1>3. \A k \in 0 .. buf.len - 1 : Page(k) \in first .. last
  <2> SUFFICES ASSUME NEW k \in 0 .. buf.len - 1 PROVE first <= Page(k) /\ Page(k) <= last
    BY <1>1, <1>2
  <2>1. /\ 0 \in 0 .. buf.len - 1 /\ buf.len - 1 \in 0 .. buf.len - 1
        /\ buf.start + k \in Int /\ buf.start + (buf.len - 1) \in Int
    BY <1>1
  <2> HIDE DEF Page
  <2>2. first * PageSize <= buf.start + k /\ first \in Int /\ Page(k) \in Int
    BY <1>1, <1>2, <2>1
  <2>3. Page(k) * PageSize <= buf.start + (buf.len - 1)
    BY <1>1, <1>2, <2>1
  <2>4. first <= (buf.start + k) \div PageSize
    BY <1>1, <2>1, <2>2, DivBounds
  <2>5. Page(k) <= (buf.start + (buf.len - 1)) \div PageSize
    BY <1>1, <2>1, <2>2, <2>3, DivBounds
  <2> QED
    BY <2>4, <2>5 DEF Page
<1>4. \A j \in first .. last : \E k \in 0 .. buf.len - 1 : Page(k) = j
  <2> SUFFICES ASSUME NEW j \in first .. last PROVE \E k \in 0 .. buf.len - 1 : Page(k) = j
    OBVIOUS
  <2>1. 0 \in 0 .. buf.len - 1 /\ buf.len - 1 \in 0 .. buf.len - 1
    BY <1>1
  <2> HIDE DEF Page
  <2>2. first \in Int /\ last \in Int /\ j \in Int /\ (j - 1 >= first \/ j = first)
    BY <1>2, <2>1
  <2>3. CASE j = first
    BY <2>1, <2>3
  <2>4. CASE j - 1 >= first
    <3> DEFINE k == j * PageSize - buf.start
    <3>1. j * PageSize \in Int /\ (j + 1) * PageSize = j * PageSize + PageSize
      BY <1>1, <2>2, Distribute
    <3>2. k \in 0 .. buf.len - 1
      <4>1. buf.start + 0 < (first + 1) * PageSize
        BY <1>2, <2>1
      <4>2. (first + 1) * PageSize <= j * PageSize
        BY <1>1, <2>2, <2>4, Monotone
      <4>3. j * PageSize <= last * PageSize
        BY <1>1, <2>2, Monotone
      <4>4. last * PageSize <= buf.start + (buf.len - 1)
        BY <1>2, <2>1
      <4>5. (first + 1) * PageSize \in Int /\ last * PageSize \in Int
        BY <1>1, <2>2
      <4> QED
        BY <1>1, <3>1, <4>1, <4>2, <4>3, <4>4, <4>5
    <3>3. buf.start + k = j * PageSize /\ buf.start + k < (j + 1) * PageSize
      BY <1>1, <3>1
    <3>4. (buf.start + k) \div PageSize = j
      <4>1. (j * PageSize) \div PageSize \in Int
        BY <1>1, <3>1, DivMod
      <4>2. j <= (j * PageSize) \div PageSize /\ (j * PageSize) \div PageSize < j + 1
        <5>1. j * PageSize <= j * PageSize /\ j * PageSize < (j + 1) * PageSize /\ j + 1 \in Int
          BY <1>1, <2>2, <3>1
        <5> QED
          BY <1>1, <2>2, <3>1, <5>1, DivBounds
      <4> QED
        BY <2>2, <3>3, <4>1, <4>2
    <3> HIDE DEF k
    <3> QED
      BY <3>2, <3>4 DEF Page
  <2> QED
    BY <2>2, <2>3, <2>4
<1>5. {Page(k) : k \in 0 .. buf.len - 1} = first .. last
  BY <1>3, <1>4
<1>6. last = first + nrPages - 1 /\ first \in Int /\ nrPages \in Nat \ {0}
  <2>1. PICK n \in Nat : InLoop(n)
    BY DEF SegInv, Parts
  <2>2. /\ nrPages \in Nat \ {0} /\ nrPages \in Int /\ Offset(buf) \in 0 .. PageSize - 1
        /\ Offset(buf) + buf.len <= nrPages * PageSize
        /\ nrPages > 1 => (nrPages - 1) * PageSize < Offset(buf) + buf.len
    BY <2>1, LoopPages, RoundType DEF SegInv, SegType
  <2>3. (nrPages - 1) * PageSize < Offset(buf) + buf.len
    <3>1. nrPages = 1 => (nrPages - 1) * PageSize = 0
      BY <1>1
    <3> QED
      BY <1>1, <2>2, <3>1
  <2>4. PICK f \in Int : buf.start = f * PageSize + Offset(buf) /\ first = f
    <3>1. buf.start \in Int /\ buf.start + 0 = buf.start
      BY <1>1
    <3>2. PICK f \in Int, r \in 0 .. PageSize - 1 :
              buf.start = PageSize * f + r /\ buf.start \div PageSize = f /\ buf.start % PageSize = r
      BY <1>1, <3>1, Divide
    <3>3. PageSize * f = f * PageSize
      BY <1>1, Distribute
    <3> QED
      BY <3>1, <3>2, <3>3 DEF Offset
  <2>5. /\ f + nrPages \in Int /\ f + nrPages - 1 \in Int
        /\ (f + nrPages) * PageSize = f * PageSize + nrPages * PageSize
        /\ (f + nrPages - 1) * PageSize = f * PageSize + (nrPages - 1) * PageSize
        /\ f * PageSize \in Int /\ nrPages * PageSize \in Int /\ (nrPages - 1) * PageSize \in Int
    <3>1. f + nrPages - 1 = f + (nrPages - 1) /\ nrPages - 1 \in Int /\ PageSize \in Int
      BY <1>1, <2>2
    <3> QED
      BY <2>2, <3>1, Distribute
  <2>6. buf.start + (buf.len - 1) \in Int
    BY <1>1
  <2>7. /\ (f + nrPages - 1) * PageSize <= buf.start + (buf.len - 1)
        /\ buf.start + (buf.len - 1) < (f + nrPages) * PageSize
    BY <1>1, <2>2, <2>3, <2>4, <2>5
  <2>8. f + nrPages - 1 <= last /\ last < f + nrPages /\ last \in Int
    BY <1>1, <2>5, <2>6, <2>7, DivBounds, DivMod
  <2> HIDE DEF last, first
  <2> QED
    BY <2>2, <2>4, <2>8
<1> HIDE DEF first, last
<1>7. first + nrPages - 1 \in Int /\ ~(first > first + nrPages - 1)
  BY <1>6
<1>8. Cardinality(first .. last) = nrPages
  BY <1>6, <1>7, FS_Interval
<1> QED
  BY <1>5, <1>8

-----------------------------------------------------------------------------
(* How far a call has come *)

\* The bytes of the buffer that the messages of the call reach to.
Reached == IF sent = << >> THEN 0 ELSE EndOf(sent[Len(sent)]) - buf.start

\* At the head of the loop they are the pages sent, and something is left.
LEMMA ReachedInLoop ==
    ASSUME SegInv, Sound, pc = "loop", buf.len > 0
    PROVE  Reached = i * PageSize /\ Reached \in Nat /\ Reached < buf.len
<1>1. buf \in Buffers
  BY DEF SegInv, SegType
<1>2. PICK n \in Nat : InLoop(n) /\ SentBy(n)
  BY DEF SegInv, Parts
<1>3. i \in Nat /\ i = n * MaxPages /\ i < nrPages /\ nrPages \in Nat /\ i * PageSize \in Nat
  BY <1>1, <1>2, RoundType
<1>4. Reached = i * PageSize
  <2>1. sent \in Seq([addr : Int, pages : Int, off : Int, size : Int]) /\ Len(sent) = n
    BY <1>2 DEF SegInv, SegType, SentBy
  <2>2. CASE n = 0
    <3>1. sent = << >> /\ i = 0 /\ i * PageSize = 0
      BY <1>3, <2>1, <2>2, SizesAssumption
    <3> QED
      BY <3>1 DEF Reached
  <2>3. CASE n # 0
    <3>1. n \in 1 .. n /\ n \in Nat \ {0} /\ sent # << >>
      BY <2>1, <2>3
    <3>2. sent[Len(sent)] = Full(n)
      BY <1>2, <2>1, <3>1 DEF SentBy
    <3>3. EndOf(Full(n)) = buf.start + (n * MaxPages) * PageSize
      BY <1>1, <3>1, FullEnd
    <3>4. EndOf(sent[Len(sent)]) = buf.start + i * PageSize
      BY <1>3, <3>2, <3>3
    <3> QED
      BY <1>1, <1>3, <3>1, <3>4, BufType DEF Reached
  <2> QED
    BY <2>2, <2>3
<1>5. i * PageSize < buf.len
  <2>1. CASE i = 0
    <3>1. i * PageSize = 0
      BY <2>1, SizesAssumption
    <3> QED
      BY <3>1
  <2>2. CASE i # 0
    <3>1. Offset(buf) = 0 /\ i \in 1 .. nrPages - 1
      BY <1>1, <1>2, <1>3, <2>2, SoundRounds
    <3>2. i * PageSize < Offset(buf) + buf.len
      BY <1>1, <1>2, <3>1, BeforeLast
    <3> QED
      BY <1>1, <3>1, <3>2, BufType
  <2> QED
    BY <2>1, <2>2
<1> QED
  BY <1>3, <1>4, <1>5

\* They are the whole buffer exactly when the call is done.
LEMMA ReachedAlways ==
    SegInv /\ Sound /\ pc # "failed" /\ buf.len > 0 =>
        /\ Reached \in Nat /\ Reached <= buf.len
        /\ Reached = buf.len <=> pc = "done"
<1> SUFFICES ASSUME SegInv, Sound, pc # "failed", buf.len > 0
             PROVE  /\ Reached \in Nat /\ Reached <= buf.len
                    /\ Reached = buf.len <=> pc = "done"
  OBVIOUS
<1>1. buf.start \in Nat /\ buf.len \in Nat
  BY BufType DEF SegInv, SegType
<1>2. CASE pc = "start"
  BY <1>1, <1>2 DEF SegInv, Reached
<1>3. CASE pc = "loop"
  BY <1>1, <1>3, ReachedInLoop
<1>4. CASE pc = "done"
  <2>1. sent # << >>
    <3>1. PICK n \in Nat : SentBy(n)
      BY <1>4 DEF SegInv, Parts
    <3>2. Len(sent) = n + 1
      BY <1>4, <3>1 DEF SentBy
    <3> QED
      BY <3>2
  <2>2. EndOf(sent[Len(sent)]) = buf.start + buf.len
    BY <1>4, SegWholeBuffer DEF WholeBuffer
  <2> QED
    BY <1>1, <1>4, <2>1, <2>2 DEF Reached
<1> QED
  BY <1>2, <1>3, <1>4 DEF SegInv, SegType

\* A step of a call that goes well publishes what comes next in the buffer, or nothing
\* yet: a part of it that is not empty.
LEMMA PublishStep ==
    ASSUME SegInv, CallStep, Sound', pc' # "failed", buf.len > 0
    PROVE  /\ SegInv' /\ buf' = buf /\ pc' \in {"loop", "done"}
           /\ \/ sent' = << >> /\ sent = << >>
              \/ \E m \in [addr : Int, pages : Int, off : Int, size : Nat \ {0}] :
                    /\ sent' = Append(sent, m) /\ m.addr = buf.start + Reached
                    /\ Reached' = Reached + m.size
                    /\ sent \in Seq([addr : Int, pages : Int, off : Int, size : Int])
                    /\ Reached \in Nat
<1>1. SegInv' /\ buf' = buf /\ pc' \in {"loop", "done"}
  <2>1. SegInv'
    BY SegStep DEF Next
  <2>2. buf' = buf /\ pc' \in {"loop", "done"}
    BY DEF CallStep, Start, SendPart, SendLast, XmitFails
  <2> QED
    BY <2>1, <2>2
<1>2. CASE Start
  BY <1>1, <1>2 DEF Start, SegInv
<1>3. CASE SendPart \/ SendLast
  <2>1. /\ pc = "loop" /\ sent' = Append(sent, Message(NextSize)) /\ nrPages' = nrPages
    BY <1>3 DEF SendPart, SendLast, NextSize
  <2>2. Sound
    BY <1>1, <2>1 DEF Sound, Offset
  <2>3. Reached = i * PageSize /\ Reached \in Nat
    BY <2>1, <2>2, ReachedInLoop
  <2>4. buf \in Buffers /\ buf.start \in Nat
        /\ sent \in Seq([addr : Int, pages : Int, off : Int, size : Int])
    BY BufType DEF SegInv, SegType
  <2>5. PICK n \in Nat : InLoop(n) /\ SentBy(n)
    BY <2>1 DEF SegInv, Parts
  <2>6. NextSize \in Nat /\ NextSize \in Int
    BY <2>4, <2>5, NextSizeType
  <2>7. Message(NextSize) \in [addr : Int, pages : Int, off : Int, size : Int]
    BY <2>4, <2>5, <2>6, MessageType
  <2>8. /\ Message(NextSize).addr = buf.start + Reached /\ Message(NextSize).size = NextSize
    BY <2>3 DEF Message
  <2>9. Reached' = Reached + NextSize
    <3>1. PICK m \in [addr : Int, pages : Int, off : Int, size : Int] :
              m.addr = buf.start + Reached /\ m.size = NextSize /\ sent' = Append(sent, m)
      BY <2>1, <2>7, <2>8
    <3>2. sent' # << >> /\ sent'[Len(sent')] = m
      BY <2>4, <3>1
    <3>3. Reached' = EndOf(m) - buf.start
      BY <1>1, <3>2 DEF Reached
    <3>4. Reached' = (m.addr + m.size) - buf.start
      BY <3>3 DEF EndOf
    <3> QED
      BY <2>3, <2>4, <2>6, <3>1, <3>4
  <2>10. NextSize # 0
    <3>1. CASE pc' = "loop"
      <4>1. ~LastRound /\ PagesToSend \in Nat \ {0} /\ PageSize \in Nat \ {0}
        BY <1>3, <2>4, <2>5, <3>1, RoundType DEF SendPart, SendLast
      <4>2. NextSize = PagesToSend * PageSize
        BY <4>1 DEF NextSize
      <4>3. 1 * PageSize <= PagesToSend * PageSize
        BY <4>1, Monotone
      <4> QED
        BY <4>1, <4>2, <4>3
    <3>2. CASE pc' = "done"
      <4>1. (SegInv /\ Sound /\ pc # "failed" /\ buf.len > 0)' => (Reached = buf.len <=> pc = "done")'
        BY ReachedAlways, PTL
      <4>2. Reached' = buf.len
        BY <1>1, <3>2, <4>1
      <4> QED
        BY <2>1, <2>2, <2>3, <2>9, <4>2, ReachedInLoop
    <3> QED
      BY <1>1, <3>1, <3>2
  <2>11. Message(NextSize) \in [addr : Int, pages : Int, off : Int, size : Nat \ {0}]
    BY <2>6, <2>7, <2>8, <2>10
  <2> QED
    BY <1>1, <2>1, <2>3, <2>4, <2>8, <2>9, <2>11
<1>4. CASE XmitFails
  BY <1>4 DEF XmitFails
<1> QED
  BY <1>2, <1>3, <1>4 DEF CallStep

\* A call on a Sound buffer in which nothing has failed.
GoesWell == SegInv /\ Sound /\ pc # "failed"

LEMMA WellBegins ==
    GoesWell /\ pc = "start" => Reached = 0
  BY DEF GoesWell, SegInv, Reached

LEMMA WellInit == Init => GoesWell /\ pc = "start" /\ Reached = 0
<1> SUFFICES ASSUME Init PROVE GoesWell /\ pc = "start" /\ Reached = 0
  OBVIOUS
<1>1. SegInv /\ pc = "start" /\ sent = << >> /\ nrPages = 0
  BY InitSeg DEF Init
<1> QED
  BY <1>1, SizesAssumption DEF GoesWell, Reached, Sound

LEMMA WellStutter == GoesWell /\ UNCHANGED vars => GoesWell' /\ Reached' = Reached
<1> SUFFICES ASSUME GoesWell, UNCHANGED vars PROVE GoesWell' /\ Reached' = Reached
  OBVIOUS
<1>1. SegInv'
  BY SegStep DEF GoesWell
<1> QED
  BY <1>1 DEF GoesWell, vars, Sound, Offset, Reached, EndOf

LEMMA WellAgain ==
    ASSUME GoesWell, NEW b \in Buffers, CallAgain(b)
    PROVE  GoesWell' /\ pc' = "start" /\ buf' = b /\ Reached' = 0
<1>1. SegInv'
  BY CallAgainSeg DEF GoesWell
<1>2. pc' = "start" /\ nrPages' = 0 /\ sent' = << >> /\ buf' = b
  BY DEF CallAgain
<1> QED
  BY <1>1, <1>2, SizesAssumption DEF GoesWell, Sound, Reached

-----------------------------------------------------------------------------
(* Theorems *)

\* calc_nr_pages counts the pages that hold a byte of the buffer, wherever in a page
\* the buffer begins and however long it is.
THEOREM PagesAreNeeded == Spec => []PagesNeeded
  BY SegAlways, SegPagesNeeded, PTL

\* The page list of rdma_xmit has room for the pages of every message.
THEOREM ListHasRoom == Spec => []PageListFits
  BY SegAlways, SegPageListFits, PTL

\* The messages of a sendmsg continue one another from the start of the buffer on.
THEOREM NoGaps == Spec => []Contiguous
  BY SegAlways, SegContiguous, PTL

\* The bytes of a message lie in the pages that were mapped for it exactly when the
\* buffer begins on a page or fits one message.
THEOREM MappedExactly == Spec => []InsideMapping
  BY SegAlways, SegInsideMapping, PTL

\* A sendmsg that succeeds has sent the whole buffer and nothing behind it.
THEOREM AllIsSent == Spec => []WholeBuffer
  BY SegAlways, SegWholeBuffer, PTL
=============================================================================
