------------------------------ MODULE MCThread ------------------------------
(***************************************************************************)
(* Thread for TLC: objects are alike, and so are ids.                      *)
(***************************************************************************)
EXTENDS Thread, TLC

Symmetry == Permutations(Objects) \union Permutations(Ids)

=============================================================================
