---------------------------- MODULE PromiseState ----------------------------
(***************************************************************************)
(* The states of a TaskPromise and what each of its operations does to     *)
(* them.  Every operation is one loop over a compare-and-swap of the       *)
(* atomic mState: it gives up when the state it sees is not one it may     *)
(* leave, and otherwise tries to install its target.  The module says, per *)
(* operation, which states it leaves, which one it installs, and whether   *)
(* it notifies the threads blocked in wait().                              *)
(*                                                                         *)
(* Here and in the other modules, a definition marked "Slip" is a mutated  *)
(* form of the definition that follows it, which shows that a property     *)
(* notices the mistake; no specification uses it.                          *)
(***************************************************************************)

\* enum class TaskState, and the pool's custom state TaskDependsUnfinish.
TaskState == {"Queuing", "Running", "Done", "Cancelled", "DependsUnfinish"}

\* "start" is the loop that ThreadWorker::run inlines; "depends" is
\* changeState(Running, TaskDependsUnfinish), its only use in the library.
Operation == {"cancel", "start", "done", "depends", "reset"}

\* The states the operation's loop does not give up on.
Leaves(o) ==
  CASE o = "cancel"  -> {"Queuing"}
    [] o = "start"   -> {"Queuing"}
    [] o = "done"    -> {"Running"}
    [] o = "depends" -> {"Running"}
    [] o = "reset"   -> TaskState \ {"Queuing", "Running"}

\* Slip: the custom state without its "+ 1".
InstallsBareCustom(o) ==
  CASE o = "cancel"  -> "Cancelled"
    [] o = "start"   -> "Running"
    [] o = "done"    -> "Done"
    [] o = "depends" -> "Custom"
    [] o = "reset"   -> "Queuing"

\* The state the operation installs.
Installs(o) ==
  CASE o = "cancel"  -> "Cancelled"
    [] o = "start"   -> "Running"
    [] o = "done"    -> "Done"
    [] o = "depends" -> "DependsUnfinish"
    [] o = "reset"   -> "Queuing"

\* Slip: changeState() does not notify.
NotifiesOnlyFinal(o) == o \in {"cancel", "done"}

\* The operations that call notifyAll() once they have succeeded.
Notifies(o) == o \in {"cancel", "done", "depends"}

\* The states TaskPromise::wait() blocks in.
Pending == {"Queuing", "Running"}

=============================================================================
