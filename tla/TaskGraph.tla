----------------------------- MODULE TaskGraph ------------------------------
(***************************************************************************)
(* What a ThreadPool promises about the tasks it is given, without its     *)
(* workers and queues: a task waits, is then run once, after all of its    *)
(* dependencies are done, or is cancelled and never run.                   *)
(***************************************************************************)
CONSTANTS
  Tasks,
  dependencies   \* per task: TaskDescription::dependencies, as a set

VARIABLE status  \* per task

Status == {"absent", "waiting", "running", "done", "cancelled"}

Init == status = [t \in Tasks |-> "absent"]

Become(t, from, to) ==
  /\ status[t] = from
  /\ status' = [status EXCEPT ![t] = to]

Add(t) ==
  /\ Become(t, "absent", "waiting")
  /\ \A d \in dependencies[t] : status[d] # "absent"

\* No worker took it: the caller got a null promise.
Refuse(t) == Become(t, "waiting", "absent")

Run(t) ==
  /\ Become(t, "waiting", "running")
  /\ \A d \in dependencies[t] : status[d] = "done"

Finish(t) == Become(t, "running", "done")

Cancel(t) == Become(t, "waiting", "cancelled")

Next ==
  \E t \in Tasks : Add(t) \/ Refuse(t) \/ Run(t) \/ Finish(t) \/ Cancel(t)

Spec == Init /\ [][Next]_status

=============================================================================
