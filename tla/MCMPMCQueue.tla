---------------------------- MODULE MCMPMCQueue -----------------------------
(***************************************************************************)
(* MPMCQueue for TLC: two threads at each end, one of them at both.        *)
(***************************************************************************)
EXTENDS MPMCQueue

CONSTANTS t1, t2, t3

Pushing == {t1, t2}
Popping == {t1, t3}

=============================================================================
