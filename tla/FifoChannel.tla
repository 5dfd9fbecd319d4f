---------------------------- MODULE FifoChannel ----------------------------
(***************************************************************************)
(* What one direction of the link promises to local_tcp_protocol.c: a      *)
(* message handed to rdma_xmit is delivered to local_tcp_rcv at most once, *)
(* unchanged, and in the order in which the messages were written.  The    *)
(* channel is reliable: nothing sent is ever taken back.                   *)
(***************************************************************************)
EXTENDS Naturals, Sequences

CONSTANT Msg        \* the messages

VARIABLES sent,     \* the messages sent so far, in order
          rcvd      \* the messages delivered so far, in order

vars == <<sent, rcvd>>

Init ==
    /\ sent = << >>
    /\ rcvd = << >>

Send ==
    /\ \E m \in Msg : sent' = Append(sent, m)
    /\ UNCHANGED rcvd

Receive ==
    /\ Len(rcvd) < Len(sent)
    /\ rcvd' = Append(rcvd, sent[Len(rcvd) + 1])
    /\ UNCHANGED sent

Next == Send \/ Receive

Spec == Init /\ [][Next]_vars
=============================================================================
