----------------------------- MODULE MCMetaRing -----------------------------
(***************************************************************************)
(* MetaRing on small rings.  A configuration chooses the window: the widest *)
(* one the ring can bear, or one that lets the senders run it over.        *)
(***************************************************************************)
EXTENDS MetaRing

\* One slot is never used and one more must stay free when end wraps.
SafeWindow == Size - 2

\* Every call of a behaviour may be outstanding at once.
NoWindow == MaxSent

\* What local_tcp_rcv may do with a message, and the same without its -1.
AllOutcomes == {"queued", "handled", "error"}
NoError == {"queued", "handled"}
=============================================================================
