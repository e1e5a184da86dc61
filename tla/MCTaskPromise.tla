--------------------------- MODULE MCTaskPromise ----------------------------
(***************************************************************************)
(* The operations offered when TaskPromise is checked with TLC.            *)
(***************************************************************************)
EXTENDS TaskPromise

\* The operations a ThreadPool, its workers and its clients call.
PoolOperations == Operation

=============================================================================
