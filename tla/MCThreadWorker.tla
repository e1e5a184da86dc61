--------------------------- MODULE MCThreadWorker ---------------------------
(***************************************************************************)
(* ThreadWorker for TLC, with the idle limit that stands for 0xffffff.     *)
(***************************************************************************)
EXTENDS ThreadWorker

\* Idle rounds are counted, interrupted while they are, and run out.
ShortIdle == 1

=============================================================================
