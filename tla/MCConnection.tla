---------------------------- MODULE MCConnection ----------------------------
(***************************************************************************)
(* Connection with the clients on node a and the listening socket on node  *)
(* b, as the test programs are run.                                        *)
(***************************************************************************)
EXTENDS ConnectionOrder

CONSTANTS a, b  \* the two nodes

FromA == [c \in Clients |-> a]
AtB == [p \in Acceptors |-> b]

\* Clients are all on one node and so are acceptors: those of a node can be
\* exchanged, and no safety property names one.
Symmetry == Permutations(Clients) \cup Permutations(Acceptors)

\* Bound: one message for each socket once a connection is half-open.
FewAfterHalfOpen == HalfOpen => \A s \in Sockets : written[s] <= 1

\* Bound: while one socket has written more than one message, every other one has
\* written one at most.
OneWritesMuch ==
    \A s, t \in Sockets : s # t /\ written[s] > 1 => written[t] <= 1
=============================================================================
