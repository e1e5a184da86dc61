---------------------------- MODULE ThreadWorker ----------------------------
(***************************************************************************)
(* One ThreadWorker (workflows/threadworker.cpp): its thread, the threads  *)
(* that post tasks to it and cancel them, and the owner that starts it and *)
(* tells it to exit.  The idle callback, which only a ThreadPool           *)
(* registers, is not part of this module.                                  *)
(*                                                                         *)
(* An operation on a promise is one step (TaskPromise implements           *)
(* AtomicPromise).  The queue is a BoundedFifo: acceptance and publication *)
(* of an item are two steps of the poster, taking it and vacating its      *)
(* place two steps of the worker (MPMCQueue implements BoundedFifo).       *)
(* size() is one step.  Its two loads can straddle pops only while the     *)
(* worker is awake, and then the worker reads the exit flags afterwards.   *)
(***************************************************************************)
EXTENDS Integers, Sequences, FiniteSets, PromiseState

CONSTANTS
  Tasks,      \* the tasks, each posted by a thread of its own
  NoTask,     \* an unset local
  WorkerId,   \* mWorkerId, valid since init()
  Capacity,   \* the size of the queue, 1024 in the code
  MaxIdle,    \* mMaxIdleLoopCount, 0xffffff in the code
  MaxStarts   \* bound of the model: how often the owner starts the worker

ASSUME NoTaskAssumption == NoTask \notin Tasks
ASSUME WorkerIdAssumption == WorkerId \in Nat
ASSUME CapacityAssumption == Capacity \in Nat \ {0}
ASSUME MaxIdleAssumption == MaxIdle \in Nat
ASSUME MaxStartsAssumption == MaxStarts \in Nat

VARIABLES
  queue,               \* mTasks
  mExit,
  mExitAfterAllTasks,
  mIdleLoopCount,
  thread,              \* "none": nothing to join; "running"; "finished"
  wpc,                 \* where the worker thread is
  taken,               \* its local task
  state,               \* per task: the state of its promise
  workerId,            \* per task: mWorkerId of its promise
  workerIds,           \* per task: mWorkerIds of its promise
  ppc,                 \* per task: where its poster is
  opc,                 \* where the owner is
  starts,              \* how often the worker was started
  runs,                \* history: how often each task's function was called
  due,                 \* history: the tasks whose post had returned when
                       \* exit was first called for this thread
  hardExit             \* history: exit(false) was called for this thread

queueVars == <<queue, taken>>
flagVars == <<mExit, mExitAfterAllTasks>>
promiseVars == <<state, workerId, workerIds>>
ownerVars == <<thread, opc, starts>>
historyVars == <<runs, due, hardExit>>
vars == <<queueVars, flagVars, mIdleLoopCount, wpc, promiseVars, ppc, ownerVars,
          historyVars>>

Final == {"Done", "Cancelled"}

Init ==
  /\ queue = <<>>
  /\ mExit = FALSE
  /\ mExitAfterAllTasks = FALSE
  /\ mIdleLoopCount = 0
  /\ thread = "none"
  /\ wpc = "off"
  /\ taken = NoTask
  /\ state = [t \in Tasks |-> "Queuing"]
  /\ workerId = [t \in Tasks |-> -1]
  /\ workerIds = [t \in Tasks |-> <<>>]
  /\ ppc = [t \in Tasks |-> "new"]
  /\ opc = "free"
  /\ starts = 0
  /\ runs = [t \in Tasks |-> 0]
  /\ due = {}
  /\ hardExit = FALSE

\* mTasks.size(), counting accepted items that are not published yet.
Size == Len(queue)

\* Slip: counts tickets only.
HasRoomBySize == Size < Capacity

\* The place of an item the worker is moving out is not free yet.
HasRoom == Size + (IF wpc \in {"vacate", "drainVacate"} THEN 1 ELSE 0) < Capacity

\* Operation o on the promise of t: what TaskPromise's loop amounts to.
Perform(o, t) ==
  state' = [state EXCEPT ![t] = IF @ \in Leaves(o) THEN Installs(o) ELSE @]

\* mConditionVar.notify_one(): lost unless the worker is asleep.
NotifyOne == wpc' = IF wpc = "asleep" THEN "predicate" ELSE wpc

-----------------------------------------------------------------------------
(* Posters and users: post(func), post(func, promise), cancel().           *)

PostAccepted(t) ==
  /\ ppc[t] \in {"new", "refused"}
  /\ HasRoom
  /\ queue' = Append(queue, [val |-> t, ready |-> FALSE])
  /\ workerIds' = [workerIds EXCEPT ![t] = Append(@, WorkerId)]
  /\ ppc' = [ppc EXCEPT ![t] = "accepted"]
  /\ UNCHANGED <<flagVars, mIdleLoopCount, wpc, taken, state, workerId, ownerVars,
                 historyVars>>

\* The queue is full: the worker id is pushed and popped again.
PostRefused(t) ==
  /\ ppc[t] \in {"new", "refused"}
  /\ ~HasRoom
  /\ ppc' = [ppc EXCEPT ![t] = "refused"]
  /\ UNCHANGED <<queueVars, flagVars, mIdleLoopCount, wpc, promiseVars, ownerVars,
                 historyVars>>

PostPublished(t) ==
  /\ ppc[t] = "accepted"
  /\ queue' = [n \in DOMAIN queue |->
                IF queue[n].val = t THEN [val |-> t, ready |-> TRUE] ELSE queue[n]]
  /\ ppc' = [ppc EXCEPT ![t] = "published"]
  /\ UNCHANGED <<flagVars, mIdleLoopCount, wpc, taken, promiseVars, ownerVars,
                 historyVars>>

\* The mutex is not taken around the push or the notification.
PostNotifies(t) ==
  /\ ppc[t] = "published"
  /\ NotifyOne
  /\ ppc' = [ppc EXCEPT ![t] = "posted"]
  /\ UNCHANGED <<queueVars, flagVars, mIdleLoopCount, promiseVars, ownerVars,
                 historyVars>>

\* A user may cancel as soon as the promise exists.
Cancel(t) ==
  /\ state[t] \in Leaves("cancel")
  /\ Perform("cancel", t)
  /\ UNCHANGED <<queueVars, flagVars, mIdleLoopCount, wpc, workerId, workerIds, ppc,
                 ownerVars, historyVars>>

-----------------------------------------------------------------------------
(* The owner: start(), exit(), waitForExit().                              *)

\* Refused, without effect, while there is a thread (isRunning()).
Start ==
  /\ opc = "free"
  /\ starts < MaxStarts
  /\ thread = "none"
  /\ mExit' = FALSE
  /\ mExitAfterAllTasks' = FALSE
  /\ thread' = "running"
  /\ wpc' = "loop"
  /\ starts' = starts + 1
  /\ due' = {}
  /\ hardExit' = FALSE
  /\ UNCHANGED <<queueVars, mIdleLoopCount, promiseVars, ppc, opc, runs>>

ExitCalled(afterTaskInQueue) ==
  /\ opc = "free"
  /\ IF afterTaskInQueue
       THEN mExitAfterAllTasks' = TRUE /\ UNCHANGED <<mExit, hardExit>>
       ELSE mExit' = TRUE /\ hardExit' = TRUE /\ UNCHANGED mExitAfterAllTasks
  /\ due' = IF mExit \/ mExitAfterAllTasks
              THEN due ELSE {t \in Tasks : ppc[t] = "posted"}
  /\ opc' = "exitSize"
  /\ UNCHANGED <<queueVars, mIdleLoopCount, wpc, promiseVars, ppc, thread, starts, runs>>

\* Only an empty queue makes exit() notify.
ExitTestsSize ==
  /\ opc = "exitSize"
  /\ opc' = IF Size = 0 THEN "exitNotify" ELSE "free"
  /\ UNCHANGED <<queueVars, flagVars, mIdleLoopCount, wpc, promiseVars, ppc, thread,
                 starts, historyVars>>

ExitNotifies ==
  /\ opc = "exitNotify"
  /\ NotifyOne
  /\ opc' = "free"
  /\ UNCHANGED <<queueVars, flagVars, mIdleLoopCount, promiseVars, ppc, thread, starts,
                 historyVars>>

\* Returns at once unless there is a thread and exit() has been called.
WaitForExit ==
  /\ opc = "free"
  /\ thread # "none"
  /\ mExit \/ mExitAfterAllTasks
  /\ opc' = "joining"
  /\ UNCHANGED <<queueVars, flagVars, mIdleLoopCount, wpc, promiseVars, ppc, thread,
                 starts, historyVars>>

Joined ==
  /\ opc = "joining"
  /\ thread = "finished"
  /\ thread' = "none"
  /\ wpc' = "off"
  /\ opc' = "free"
  /\ UNCHANGED <<queueVars, flagVars, mIdleLoopCount, promiseVars, ppc, starts,
                 historyVars>>

-----------------------------------------------------------------------------
(* The worker thread: run().                                               *)

\* A step of run() that only moves on.
Goto(l) ==
  /\ wpc' = l
  /\ UNCHANGED <<queueVars, flagVars, mIdleLoopCount, promiseVars, ppc, ownerVars,
                 historyVars>>

TestExit ==
  /\ wpc = "loop"
  /\ Goto(IF mExit THEN "drain" ELSE "pop")

Available == queue # <<>> /\ Head(queue).ready

\* mTasks.pop(task) takes the oldest item.
Take(from, to) ==
  /\ wpc = from
  /\ Available
  /\ taken' = Head(queue).val
  /\ queue' = Tail(queue)
  /\ wpc' = to
  /\ UNCHANGED <<flagVars, mIdleLoopCount, promiseVars, ppc, ownerVars, historyVars>>

PopTakes == Take("pop", "vacate")

PopFails ==
  /\ wpc = "pop"
  /\ ~Available
  /\ Goto("testSize")

Vacate == wpc = "vacate" /\ Goto("begin")

\* Slip: the state is tested but Running is not installed.
BeginWithoutCas ==
  /\ wpc = "begin"
  /\ mIdleLoopCount' = 0
  /\ IF state[taken] \in Leaves("start")
       THEN wpc' = "run" /\ UNCHANGED taken
       ELSE wpc' = "loop" /\ taken' = NoTask
  /\ UNCHANGED <<queue, flagVars, promiseVars, ppc, ownerVars, historyVars>>

\* Slip: Running is stored without a test.
BeginByStore ==
  /\ wpc = "begin"
  /\ mIdleLoopCount' = 0
  /\ state' = [state EXCEPT ![taken] = "Running"]
  /\ wpc' = "run"
  /\ UNCHANGED <<queueVars, flagVars, workerId, workerIds, ppc, ownerVars, historyVars>>

\* The inlined compare-and-swap loop: a task that is not Queuing is dropped.
Begin ==
  /\ wpc = "begin"
  /\ mIdleLoopCount' = 0
  /\ Perform("start", taken)
  /\ IF state[taken] \in Leaves("start")
       THEN wpc' = "run" /\ UNCHANGED taken
       ELSE wpc' = "loop" /\ taken' = NoTask
  /\ UNCHANGED <<queue, flagVars, workerId, workerIds, ppc, ownerVars, historyVars>>

RunFunction ==
  /\ wpc = "run"
  /\ workerId' = [workerId EXCEPT ![taken] = WorkerId]
  /\ runs' = [runs EXCEPT ![taken] = @ + 1]
  /\ wpc' = "done"
  /\ UNCHANGED <<queueVars, flagVars, mIdleLoopCount, state, workerIds, ppc, ownerVars,
                 due, hardExit>>

\* Slip: the local task outlives its iteration.
FinishKeepsTask ==
  /\ wpc = "done"
  /\ Perform("done", taken)
  /\ wpc' = "loop"
  /\ UNCHANGED <<queueVars, flagVars, mIdleLoopCount, workerId, workerIds, ppc, ownerVars,
                 historyVars>>

\* Slip: done() is not called.
FinishSilently ==
  /\ wpc = "done"
  /\ taken' = NoTask
  /\ wpc' = "loop"
  /\ UNCHANGED <<queue, flagVars, mIdleLoopCount, promiseVars, ppc, ownerVars, historyVars>>

Finish ==
  /\ wpc = "done"
  /\ Perform("done", taken)
  /\ taken' = NoTask
  /\ wpc' = "loop"
  /\ UNCHANGED <<queue, flagVars, mIdleLoopCount, workerId, workerIds, ppc, ownerVars,
                 historyVars>>

TestSize ==
  /\ wpc = "testSize"
  /\ Goto(IF Size = 0 THEN "idle" ELSE "loop")

CountIdle ==
  /\ wpc = "idle"
  /\ mIdleLoopCount' = mIdleLoopCount + 1
  /\ wpc' = "testExitAfter"
  /\ UNCHANGED <<queueVars, flagVars, promiseVars, ppc, ownerVars, historyVars>>

\* mExitAfterAllTasks && mTasks.size() == 0: two reads, the flag first.
TestExitAfter ==
  /\ wpc = "testExitAfter"
  /\ Goto(IF mExitAfterAllTasks THEN "testStillEmpty" ELSE "testIdle")

\* Slip: the size is not read again.
TestNothing ==
  /\ wpc = "testStillEmpty"
  /\ wpc' = "drain"
  /\ mExit' = TRUE
  /\ UNCHANGED <<queueVars, mExitAfterAllTasks, mIdleLoopCount, promiseVars, ppc,
                 ownerVars, historyVars>>

TestStillEmpty ==
  /\ wpc = "testStillEmpty"
  /\ wpc' = IF Size = 0 THEN "drain" ELSE "testIdle"
  /\ mExit' = (mExit \/ Size = 0)
  /\ UNCHANGED <<queueVars, mExitAfterAllTasks, mIdleLoopCount, promiseVars, ppc,
                 ownerVars, historyVars>>

TestIdle ==
  /\ wpc = "testIdle"
  /\ Goto(IF mIdleLoopCount > MaxIdle THEN "predicate" ELSE "loop")

\* Under the mutex: the condition of the while loop and the predicate of
\* mConditionVar.wait, which agree.
EvaluatePredicate ==
  /\ wpc = "predicate"
  /\ IF Size = 0 /\ ~mExit /\ ~mExitAfterAllTasks
       THEN wpc' = "block" /\ UNCHANGED mIdleLoopCount
       ELSE wpc' = "loop" /\ mIdleLoopCount' = 0
  /\ UNCHANGED <<queueVars, flagVars, promiseVars, ppc, ownerVars, historyVars>>

Block == wpc = "block" /\ Goto("asleep")

\* A condition variable may wake without a notification.
WakeSpuriously == wpc = "asleep" /\ Goto("predicate")

\* The loop after run's main loop: what is still queued is cancelled.
TestDrained ==
  /\ wpc = "drain"
  /\ Size > 0
  /\ Goto("drainPop")

\* Slip: the thread ends without draining.
EndsAtOnce ==
  /\ wpc = "drain"
  /\ wpc' = "off"
  /\ thread' = "finished"
  /\ UNCHANGED <<queueVars, flagVars, mIdleLoopCount, promiseVars, ppc, opc, starts,
                 historyVars>>

Ends ==
  /\ wpc = "drain"
  /\ Size = 0
  /\ wpc' = "off"
  /\ thread' = "finished"
  /\ UNCHANGED <<queueVars, flagVars, mIdleLoopCount, promiseVars, ppc, opc, starts,
                 historyVars>>

DrainTakes == Take("drainPop", "drainVacate")

DrainPopFails ==
  /\ wpc = "drainPop"
  /\ ~Available
  /\ Goto("drain")

DrainVacate == wpc = "drainVacate" /\ Goto("drainCancel")

DrainCancel ==
  /\ wpc = "drainCancel"
  /\ workerId' = [workerId EXCEPT ![taken] = WorkerId]
  /\ Perform("cancel", taken)
  /\ taken' = NoTask
  /\ wpc' = "drain"
  /\ UNCHANGED <<queue, flagVars, mIdleLoopCount, workerIds, ppc, ownerVars, historyVars>>

-----------------------------------------------------------------------------
WorkerStep ==
  \/ TestExit \/ PopTakes \/ PopFails \/ Vacate \/ Begin \/ RunFunction \/ Finish
  \/ TestSize \/ CountIdle \/ TestExitAfter \/ TestStillEmpty
  \/ TestIdle \/ EvaluatePredicate \/ Block
  \/ TestDrained \/ Ends \/ DrainTakes \/ DrainPopFails \/ DrainVacate \/ DrainCancel

PosterStep(t) == PostPublished(t) \/ PostNotifies(t)

OwnerStep == ExitTestsSize \/ ExitNotifies \/ Joined

Next ==
  \/ WorkerStep
  \/ WakeSpuriously
  \/ \E t \in Tasks : PosterStep(t) \/ PostAccepted(t) \/ PostRefused(t) \/ Cancel(t)
  \/ OwnerStep \/ Start \/ WaitForExit \/ (\E after \in BOOLEAN : ExitCalled(after))

Spec == Init /\ [][Next]_vars

\* Threads keep running inside the calls they have made, tasks return.
\* Nobody has to make a call, and no spurious wake-up is promised.
FairSpec ==
  /\ Spec
  /\ WF_vars(WorkerStep)
  /\ WF_vars(OwnerStep)
  /\ \A t \in Tasks : WF_vars(PosterStep(t))

-----------------------------------------------------------------------------
(* Properties.                                                             *)

WorkerLocation ==
  {"off", "loop", "pop", "vacate", "begin", "run", "done", "testSize", "idle",
   "testExitAfter", "testStillEmpty", "testIdle", "predicate", "block", "asleep",
   "drain", "drainPop", "drainVacate", "drainCancel"}

TypeOK ==
  /\ queue \in Seq([val : Tasks, ready : BOOLEAN])
  /\ mExit \in BOOLEAN
  /\ mExitAfterAllTasks \in BOOLEAN
  /\ mIdleLoopCount \in Nat
  /\ thread \in {"none", "running", "finished"}
  /\ wpc \in WorkerLocation
  /\ taken \in Tasks \union {NoTask}
  /\ taken # NoTask <=> wpc \in {"vacate", "begin", "run", "done", "drainVacate",
                                 "drainCancel"}
  /\ state \in [Tasks -> TaskState]
  /\ workerId \in [Tasks -> {-1, WorkerId}]
  /\ workerIds \in [Tasks -> Seq({WorkerId})]
  /\ ppc \in [Tasks -> {"new", "refused", "accepted", "published", "posted"}]
  /\ opc \in {"free", "exitSize", "exitNotify", "joining"}
  /\ starts \in 0 .. MaxStarts
  /\ runs \in [Tasks -> Nat]
  /\ due \subseteq Tasks
  /\ hardExit \in BOOLEAN

\* The state a promise reports is what happened to its task: a task that was
\* cancelled, by its user or by the draining worker, was never run; a Done one
\* was run exactly once, on this worker.
ReportsWhatRan ==
  \A t \in Tasks :
    /\ state[t] \in {"Queuing", "Cancelled"} => runs[t] = 0
    /\ state[t] = "Done" => runs[t] = 1 /\ workerId[t] = WorkerId

\* A cancel() that succeeded cannot be overtaken: wherever the worker was, it
\* neither runs the task from then on nor changes what the promise reports.
CancelIsFinal ==
  [][\A t \in Tasks : state[t] = "Cancelled" => UNCHANGED <<state[t], runs[t]>>]_vars

\* When the worker's thread has ended, no task whose post returned before the
\* first exit() is still pending: each one has been run or cancelled.
NothingLeftBehind ==
  thread = "finished" => \A t \in due : state[t] \in Final

\* exit(true) lets the tasks posted before it run: the draining loop finds
\* none of them still waiting, unless exit(false) was called as well.
ExitAfterRunsAll ==
  ~hardExit /\ wpc = "drainCancel" => ~(taken \in due /\ state[taken] = "Queuing")

\* The worker and its posters use the queue as a bounded FIFO.
Queue ==
  INSTANCE BoundedFifo WITH
    Threads <- {"worker"}, Values <- Tasks, NoValue <- NoTask, fifo <- queue,
    holding <- [w \in {"worker"} |->
                 IF wpc \in {"vacate", "drainVacate"} THEN taken ELSE NoTask]

UsesBoundedFifo == Queue!Spec

\* A task posted to a running worker is eventually run or cancelled, or the
\* worker's thread ends, or the worker sleeps from some point on: a missed
\* wake-up is the only way in which a posted task waits forever.
OnlySleepDelays ==
  \A t \in Tasks :
    thread = "running" /\ ppc[t] = "posted"
      ~> state[t] \in Final \/ thread # "running" \/ [](wpc = "asleep")

\* What the unit tests expect of a worker that is told to exit:
\* waitForExit() returns.
WaitForExitReturns == opc = "joining" ~> opc = "free"

=============================================================================
