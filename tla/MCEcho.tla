------------------------------- MODULE MCEcho -------------------------------
(***************************************************************************)
(* The programs on pages of a few bytes, from every first length on.       *)
(***************************************************************************)
EXTENDS Echo

CONSTANT MaxFirst \* bound: the longest first round

AllFirsts == 1 .. MaxFirst
AllBuffers == [start : PageSize .. 2 * PageSize + SendSize, len : 1 .. SendSize]
=============================================================================
