---------------------------- MODULE TaskPromise -----------------------------
(***************************************************************************)
(* One TaskPromise used by several threads at once, at the grain of its    *)
(* atomic accesses (workflows/threadworker.cpp, C++20 build).  A caller    *)
(* runs one operation at a time: the four compare-and-swap loops and the   *)
(* one inlined in ThreadWorker::run, or wait().                            *)
(*                                                                         *)
(* A load and the test of the loaded value are one step (the value is      *)
(* local).  compare_exchange_weak may fail spuriously; it then reloads the *)
(* state it had and tries again, which is a stuttering step here.          *)
(***************************************************************************)
EXTENDS PromiseState

CONSTANTS
  Callers,   \* the threads that hold the promise
  Offered    \* the operations they call: a ThreadWorker on its own never
             \* calls changeState or resetState, a ThreadPool calls them all

ASSUME OfferedAssumption == Offered \subseteq Operation

VARIABLES
  mState,    \* std::atomic<TaskState> mState
  pc,        \* where each caller is
  op,        \* the operation it runs
  seen,      \* its local taskState
  ok         \* whether the operation succeeded (returned 0)

vars == <<mState, pc, op, seen, ok>>

Asleep == {"asleepQueuing", "asleepRunning"}
InWait == {"testRunning", "waitQueuing", "waitRunning", "testQueuing", "exit"}
            \union Asleep
Location == {"idle", "cas", "notify", "return"} \union InWait

Init ==
  /\ mState = "Queuing"
  /\ pc   = [c \in Callers |-> "idle"]
  /\ op   = [c \in Callers |-> "wait"]
  /\ seen = [c \in Callers |-> "Queuing"]
  /\ ok   = [c \in Callers |-> FALSE]

-----------------------------------------------------------------------------
(* The compare-and-swap loops: cancel, changeState, resetState, done and   *)
(* the loop of ThreadWorker::run.                                          *)

\* Take s for the state of the promise: give up, or go for the swap.
Weigh(c, o, s) ==
  /\ seen' = [seen EXCEPT ![c] = s]
  /\ pc' = [pc EXCEPT ![c] = IF s \in Leaves(o) THEN "cas" ELSE "return"]
  /\ ok' = [ok EXCEPT ![c] = FALSE]

Load(c, o) ==
  /\ pc[c] = "idle"
  /\ op' = [op EXCEPT ![c] = o]
  /\ Weigh(c, o, mState)
  /\ UNCHANGED mState

\* Slip: a plain store in place of the compare-and-swap.
StoreSucceeds(c) ==
  /\ pc[c] = "cas"
  /\ mState' = Installs(op[c])
  /\ pc' = [pc EXCEPT ![c] = IF Notifies(op[c]) THEN "notify" ELSE "return"]
  /\ ok' = [ok EXCEPT ![c] = TRUE]
  /\ UNCHANGED <<op, seen>>

CasSucceeds(c) ==
  /\ pc[c] = "cas"
  /\ mState = seen[c]
  /\ mState' = Installs(op[c])
  /\ pc' = [pc EXCEPT ![c] = IF Notifies(op[c]) THEN "notify" ELSE "return"]
  /\ ok' = [ok EXCEPT ![c] = TRUE]
  /\ UNCHANGED <<op, seen>>

CasFails(c) ==
  /\ pc[c] = "cas"
  /\ mState # seen[c]
  /\ Weigh(c, op[c], mState)
  /\ UNCHANGED <<mState, op>>

\* The threads blocked on mState look at it again.
WakeAll(p) ==
  [d \in Callers |-> CASE p[d] = "asleepQueuing" -> "waitQueuing"
                       [] p[d] = "asleepRunning" -> "waitRunning"
                       [] OTHER                  -> p[d]]

\* Slip: notify_one() in place of notify_all().
NotifyOneOnly(c) ==
  /\ pc[c] = "notify"
  /\ LET sleepers == {d \in Callers : pc[d] \in Asleep}
     IN  IF sleepers = {}
           THEN pc' = [pc EXCEPT ![c] = "return"]
           ELSE \E d \in sleepers :
                  pc' = [pc EXCEPT ![c] = "return", ![d] = WakeAll(pc)[d]]
  /\ UNCHANGED <<mState, op, seen, ok>>

NotifyAll(c) ==
  /\ pc[c] = "notify"
  /\ pc' = [WakeAll(pc) EXCEPT ![c] = "return"]
  /\ UNCHANGED <<mState, op, seen, ok>>

\* The locals of the call go out of scope.
Return(c) ==
  /\ pc[c] = "return"
  /\ pc' = [pc EXCEPT ![c] = "idle"]
  /\ op' = [op EXCEPT ![c] = "wait"]
  /\ seen' = [seen EXCEPT ![c] = "Queuing"]
  /\ ok' = [ok EXCEPT ![c] = FALSE]
  /\ UNCHANGED mState

-----------------------------------------------------------------------------
(* TaskPromise::wait().                                                    *)

Goto(c, l) ==
  /\ pc' = [pc EXCEPT ![c] = l]
  /\ UNCHANGED <<mState, op, seen, ok>>

CallWait(c) ==
  /\ pc[c] = "idle"
  /\ pc' = [pc EXCEPT ![c] = "testQueuing"]
  /\ op' = [op EXCEPT ![c] = "wait"]
  /\ UNCHANGED <<mState, seen, ok>>

\* The loop condition is two loads of mState.
TestQueuing(c) ==
  /\ pc[c] = "testQueuing"
  /\ Goto(c, IF mState = "Queuing" THEN "waitQueuing" ELSE "testRunning")

\* Slip: the second half of the condition is missing.
TestRunningSkipped(c) ==
  /\ pc[c] = "testRunning"
  /\ Goto(c, "exit")

TestRunning(c) ==
  /\ pc[c] = "testRunning"
  /\ Goto(c, IF mState = "Running" THEN "waitQueuing" ELSE "exit")

\* std::atomic::wait compares and blocks in one indivisible step.
WaitQueuing(c) ==
  /\ pc[c] = "waitQueuing"
  /\ Goto(c, IF mState = "Queuing" THEN "asleepQueuing" ELSE "waitRunning")

WaitRunning(c) ==
  /\ pc[c] = "waitRunning"
  /\ Goto(c, IF mState = "Running" THEN "asleepRunning" ELSE "testQueuing")

\* A blocked thread may look again without having been notified.
LookAgain(c) ==
  \/ pc[c] = "asleepQueuing" /\ Goto(c, "waitQueuing")
  \/ pc[c] = "asleepRunning" /\ Goto(c, "waitRunning")

\* The state wait() returns is loaded once more.
LeaveWait(c) ==
  /\ pc[c] = "exit"
  /\ seen' = [seen EXCEPT ![c] = mState]
  /\ pc' = [pc EXCEPT ![c] = "return"]
  /\ UNCHANGED <<mState, op, ok>>

-----------------------------------------------------------------------------
\* What a caller does without being asked: everything but starting a call
\* and waking up for no reason.
Step(c) ==
  \/ CasSucceeds(c) \/ CasFails(c) \/ NotifyAll(c) \/ Return(c)
  \/ TestQueuing(c) \/ TestRunning(c)
  \/ WaitQueuing(c) \/ WaitRunning(c) \/ LeaveWait(c)

Next ==
  \E c \in Callers :
    \/ \E o \in Offered : Load(c, o)
    \/ CallWait(c)
    \/ LookAgain(c)
    \/ Step(c)

Spec == Init /\ [][Next]_vars

\* Threads keep running inside the calls they have made.  Nothing obliges
\* a thread to make a call, and no spurious wake-up is promised.
FairSpec == Spec /\ \A c \in Callers : WF_vars(Step(c))

-----------------------------------------------------------------------------
(* Properties.                                                             *)

TypeOK ==
  /\ mState \in TaskState
  /\ pc \in [Callers -> Location]
  /\ op \in [Callers -> Offered \union {"wait"}]
  /\ seen \in [Callers -> TaskState]
  /\ ok \in [Callers -> BOOLEAN]

\* The five loops are linearizable: each call takes effect, or fails, at one
\* instant between its start and its return, whatever the other callers do.
\* Two racing calls (a cancel() and a worker that starts the task) can
\* therefore not both succeed.
OutcomeOf(c) ==
  IF op[c] # "wait" /\ pc[c] \in {"notify", "return"}
    THEN [op |-> op[c], ok |-> ok[c]]
    ELSE [op |-> "none", ok |-> FALSE]

Atomic == INSTANCE AtomicPromise WITH
            state <- mState, outcome <- [c \in Callers |-> OutcomeOf(c)]

ImplementsAtomicPromise == Atomic!Spec

\* No lost notification: whenever a thread sleeps in wait() although the
\* promise has left Queuing and Running, the thread that made it leave them
\* has its notifyAll() still ahead.
NoSleeperLeftBehind ==
  (\E c \in Callers : pc[c] \in Asleep) /\ mState \notin Pending
    => \E d \in Callers : pc[d] = "notify"

\* wait() reports a final state to its caller.  This is a property of a
\* promise that is never reset (a ThreadWorker used on its own).
WaitReturnsFinal ==
  \A c \in Callers :
    pc[c] = "return" /\ op[c] = "wait" => seen[c] \in {"Done", "Cancelled"}

\* A promise that leaves Queuing and Running for good is left by every
\* wait(): no caller sleeps, or goes round the loop, forever.
WaitReturns ==
  \A c \in Callers :
    <>[](mState \notin Pending) => []<>(pc[c] \notin InWait)

=============================================================================
