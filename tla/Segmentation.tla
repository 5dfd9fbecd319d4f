---------------------------- MODULE Segmentation ----------------------------
(***************************************************************************)
(* How ltcp_direct_copy of rdma/rdma_daemon.c cuts the buffer of one       *)
(* sendmsg into REGULAR messages: every message maps a run of whole pages  *)
(* of the buffer and tells the receiver where in them its bytes begin and  *)
(* how many they are.  The receiver pulls that many bytes from there.      *)
(***************************************************************************)
EXTENDS Integers, Sequences, FiniteSets

CONSTANTS
    PageSize,    \* PAGE_SIZE
    MaxPages,    \* MAX_PAGES_SEND
    Word,        \* the integers __u64 and size_t are taken modulo Word
    Buffers,     \* the buffers a program may write: their address and length
    XmitMayFail  \* rdma_xmit may return -1

ASSUME SizesAssumption ==
    /\ PageSize \in Nat \ {0}
    /\ MaxPages \in Nat \ {0}
    /\ Word \in Nat \ {0}
ASSUME BuffersAssumption == Buffers \subseteq [start : Nat, len : 0 .. Word - 1]
ASSUME FailAssumption == XmitMayFail \in BOOLEAN

VARIABLES
    buf,     \* the buffer of this call
    pc,      \* where the call is
    nrPages, \* nr_pages
    i,       \* pages sent so far
    left,    \* left_to_send
    sent     \* the messages published, in order

vars == <<buf, pc, nrPages, i, left, sent>>

Offset(b) == b.start % PageSize

\* The limit MAX_SEND on one message, a whole number of pages.
MaxSend == MaxPages * PageSize

\* Mutant of CalcNrPages: a last page also when nothing is left over.
CalcAlwaysLast(start, len) ==
    LET off == start % PageSize IN
    IF off + len > PageSize
    THEN 2 + (len - (PageSize - off)) \div PageSize
    ELSE 1

\* Mutant of CalcNrPages: the whole length is rounded up.
CalcRoundedUp(start, len) ==
    LET off == start % PageSize IN
    IF off + len > PageSize
    THEN 1 + (len + PageSize - 1) \div PageSize
           + (IF (start + len) % PageSize # 0 THEN 1 ELSE 0)
    ELSE 1

\* calc_nr_pages: one page, those the rest fills, and one for what is left over.
CalcNrPages(start, len) ==
    LET off == start % PageSize IN
    IF off + len > PageSize
    THEN 1 + (len - (PageSize - off)) \div PageSize
           + (IF (start + len) % PageSize # 0 THEN 1 ELSE 0)
    ELSE 1

Init ==
    /\ buf \in Buffers
    /\ pc = "start"
    /\ nrPages = 0 /\ i = 0 /\ left = 0
    /\ sent = << >>

\* The variables of the loop are set from the iovec of the message.
Start ==
    /\ pc = "start"
    /\ nrPages' = CalcNrPages(buf.start, buf.len)
    /\ left' = buf.len
    /\ pc' = "loop"
    /\ UNCHANGED <<buf, i, sent>>

\* Mutant of PagesToSend: no limit on a message.
PagesUnlimited == nrPages - i

PagesToSend == IF MaxPages < nrPages - i THEN MaxPages ELSE nrPages - i
LastRound == PagesToSend = nrPages - i

\* What rdma_xmit publishes: the pages from addr - off on, and the bytes in them.  It is
\* assumed to find a free slot; in a full ring it would drop the message and return 0.
Message(size) ==
    [addr |-> buf.start + i * PageSize, pages |-> PagesToSend,
     off |-> Offset(buf), size |-> size]

\* Mutant of SendPart: the loop advances by one page.
SendPartNextPage ==
    /\ pc = "loop" /\ ~LastRound
    /\ sent' = Append(sent, Message(PagesToSend * PageSize))
    /\ left' = (left - PagesToSend * PageSize) % Word
    /\ i' = i + 1
    /\ UNCHANGED <<buf, pc, nrPages>>

SendPart ==
    /\ pc = "loop" /\ ~LastRound
    /\ sent' = Append(sent, Message(PagesToSend * PageSize))
    /\ left' = (left - PagesToSend * PageSize) % Word
    /\ i' = i + MaxPages
    /\ UNCHANGED <<buf, pc, nrPages>>

\* Mutant of SendLast: the last message is not cut.
SendLastWholePages ==
    /\ pc = "loop" /\ LastRound
    /\ sent' = Append(sent, Message(PagesToSend * PageSize))
    /\ pc' = "done"
    /\ UNCHANGED <<buf, nrPages, i, left>>

\* nr_pages is at least one, so the loop always ends here.
SendLast ==
    /\ pc = "loop" /\ LastRound
    /\ sent' = Append(sent, Message(left))
    /\ pc' = "done"
    /\ UNCHANGED <<buf, nrPages, i, left>>

\* rdma_xmit returns an error, before or after it has published the message:
\* ltcp_direct_copy returns -1 and what was published stays published.
XmitFails ==
    /\ pc = "loop" /\ XmitMayFail
    /\ \/ UNCHANGED sent
       \/ sent' = Append(sent, Message(IF LastRound THEN left ELSE PagesToSend * PageSize))
    /\ pc' = "failed"
    /\ UNCHANGED <<buf, nrPages, i, left>>

\* The next call of sendmsg, on another buffer.
CallAgain(b) ==
    /\ pc \in {"done", "failed"}
    /\ buf' = b
    /\ pc' = "start" /\ nrPages' = 0 /\ i' = 0 /\ left' = 0 /\ sent' = << >>

CallStep == Start \/ SendPart \/ SendLast \/ XmitFails

Next == CallStep \/ \E b \in Buffers : CallAgain(b)

Spec == Init /\ [][Next]_vars

-----------------------------------------------------------------------------
(* Properties *)

\* calc_nr_pages agrees with its meaning: the pages that hold a byte of the buffer.
PagesNeeded ==
    pc # "start" /\ buf.len > 0 =>
        nrPages = Cardinality({(buf.start + k) \div PageSize : k \in 0 .. buf.len - 1})

\* The page list that rdma_xmit allocates from the size of the message has room
\* for the pages of the message that get_user_pages_locked stores in it.
PageListFits ==
    \A k \in 1 .. Len(sent) : sent[k].pages <= sent[k].size \div PageSize + 2

\* The buffer starts on a page, or all its pages go into one message.
Sound == Offset(buf) = 0 \/ nrPages <= MaxPages

\* The messages continue one another, in a buffer that is Sound or not: no byte is
\* left out between the parts two of them stand for and none is sent twice.
Contiguous ==
    /\ sent # << >> => sent[1].addr = buf.start
    /\ \A k \in 1 .. Len(sent) - 1 : sent[k + 1].addr = sent[k].addr + sent[k].size

\* The bytes of a message lie in the pages that were mapped for it if the buffer is
\* Sound, and only then: otherwise the first message already reaches beyond them.
InsideMapping ==
    /\ Sound => \A k \in 1 .. Len(sent) :
                   sent[k].off + sent[k].size <= sent[k].pages * PageSize
    /\ pc # "start" /\ ~Sound => \A k \in {1} \cap DOMAIN sent :
                   sent[k].off + sent[k].size > sent[k].pages * PageSize

EndOf(m) == m.addr + m.size

\* sendmsg returns success with the whole buffer sent and nothing behind it, and
\* failure with a part of it at the front.
WholeBuffer == Sound =>
    /\ \A k \in 1 .. Len(sent) : EndOf(sent[k]) <= buf.start + buf.len
    /\ pc = "done" => EndOf(sent[Len(sent)]) = buf.start + buf.len
=============================================================================
