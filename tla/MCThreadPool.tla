---------------------------- MODULE MCThreadPool ----------------------------
(***************************************************************************)
(* Task graphs for checking ThreadPool with TLC.                           *)
(***************************************************************************)
EXTENDS ThreadPool

CONSTANTS t1, t2, t3, t4

\* A chain of tasks and one apart, or two that depend on the same one.
Chain == [t \in Tasks |-> CASE t = t2 -> {t1} [] t = t3 -> {t2} [] OTHER -> {}]
Fan == [t \in Tasks |-> IF t \in {t2, t3} THEN {t1} ELSE {}]

\* Workers chosen by the pool, or by the user; worker 2 does not exist.
AnyWorker == [t \in Tasks |-> -1]
FirstAndLast == [t \in Tasks |-> CASE t = t1 -> 0 [] t = t3 -> 1 [] OTHER -> -1]
BothOnLast == [t \in Tasks |-> IF t \in {t1, t3} THEN 1 ELSE -1]
LastOnNone == [t \in Tasks |-> CASE t = t3 -> 1 [] t = t4 -> 2 [] OTHER -> -1]

=============================================================================
