------------------------ MODULE ThreadPoolGraphProofs ------------------------
(***************************************************************************)
(* The order in which ThreadPool runs its tasks, proved for any tasks,     *)
(* dependencies, workers, capacity and retry limit: that it implements     *)
(* TaskGraph, what wait() and addTask return, what stopping does to the    *)
(* tasks in the queues, and what becomes of them with the destructor.      *)
(***************************************************************************)
EXTENDS ThreadPoolTaskProofs
-----------------------------------------------------------------------------
(* How the state of a promise changes.                                     *)

LEMMA WorkMoves ==
  ASSUME Control, TasksSound, NEW w \in Workers, Works(w), NEW t \in Tasks
  PROVE  \/ state'[t] = state[t]
         \/ state[t] = "Queuing" /\ state'[t] \in {"Cancelled", "Running"}
         \/ state[t] = "Running" /\ state'[t] = "Done" /\ Finish(w) /\ taken[w] = t
         \/ /\ state[t] = "Running" /\ state'[t] = "DependsUnfinish"
            /\ DependsUnfinish(w) /\ taken[w] = t
<1>1. state \in [Tasks -> TaskState]
  BY DEF Control, TaskOK
<1>2. taken[w] \in Tasks
  <2>1. wpc[w] \in {"begin", "depends", "finish", "drainCancel"}
    BY WorksEffect
  <2> QED
    BY <2>1, CarriesTask DEF Control, Carrying
<1>3. CASE taken[w] # t
  <2>1. PICK o \in Operation : Perform(o, taken[w])
    BY WorksEffect DEF Operation
  <2> QED
    BY <1>1, <1>2, <1>3, <2>1, PerformEffect
<1>4. CASE taken[w] = t
  <2> USE DEF Leaves, Installs, Operation
  <2>1. CASE Begin(w)
    BY <1>1, <1>4, <2>1, PerformEffect DEF Begin
  <2>2. CASE DrainCancel(w)
    BY <1>1, <1>4, <2>2, PerformEffect DEF DrainCancel
  <2>3. CASE Finish(w)
    <3>1. Perform("done", t)
      BY <1>4, <2>3 DEF Finish
    <3> QED
      BY <1>1, <1>4, <2>3, <3>1, PerformEffect
  <2>4. CASE DependsUnfinish(w)
    <3>1. Perform("depends", t)
      BY <1>4, <2>4 DEF DependsUnfinish
    <3> QED
      BY <1>1, <1>4, <2>4, <3>1, PerformEffect
  <2> QED
    BY <2>1, <2>2, <2>3, <2>4 DEF Works
<1> QED
  BY <1>3, <1>4

LEMMA CancelMoves ==
  ASSUME state \in [Tasks -> TaskState], NEW x \in Tasks, Perform("cancel", x), NEW t \in Tasks
  PROVE  state'[t] = state[t] \/ (state[t] = "Queuing" /\ state'[t] = "Cancelled")
<1>1. PICK o \in Operation : o = "cancel" /\ Perform(o, x)
  BY DEF Operation
<1>2. /\ \A u \in Tasks \ {x} : state'[u] = state[u]
      /\ state'[x] = IF state[x] \in Leaves(o) THEN Installs(o) ELSE state[x]
  BY <1>1, PerformEffect
<1>3. Leaves(o) = {"Queuing"} /\ Installs(o) = "Cancelled"
  BY <1>1 DEF Leaves, Installs
<1>4. CASE t # x
  BY <1>2, <1>4
<1>5. CASE t = x
  BY <1>2, <1>3, <1>5
<1> QED
  BY <1>4, <1>5

LEMMA StateMoves ==
  ASSUME Control, TasksSound, [Next]_vars, NEW t \in Tasks
  PROVE  \/ state'[t] = state[t]
         \/ state[t] = "Queuing" /\ state'[t] \in {"Cancelled", "Running"}
         \/ /\ state[t] = "Running" /\ state'[t] = "Done"
            /\ \E w \in Workers : Finish(w) /\ taken[w] = t
         \/ /\ state[t] = "Running" /\ state'[t] = "DependsUnfinish"
            /\ \E w \in Workers : DependsUnfinish(w) /\ taken[w] = t
         \/ state[t] = "DependsUnfinish" /\ state'[t] = "Queuing"
<1>1. state \in [Tasks -> TaskState]
  BY DEF Control, TaskOK
<1>2. ASSUME NEW a \in Actors, Reset(a)
      PROVE  \/ state'[t] = state[t]
             \/ state[t] = "DependsUnfinish" /\ state'[t] = "Queuing"
  <2>1. call[a].task \in Tasks /\ call[a].at = "reset" /\ Perform("reset", call[a].task)
    BY <1>2, ResetEffect
  <2>2. state[call[a].task] \in {"Queuing", "DependsUnfinish"}
    BY <2>1 DEF TasksSound, TaskSound, StateAllows, Actors
  <2> QED
    BY <1>1, <2>1, <2>2, PerformEffect DEF Leaves, Installs, Operation, TaskState
<1>3. ASSUME NEW a \in Actors, Scan(a)
      PROVE  state'[t] = state[t] \/ (state[t] = "Queuing" /\ state'[t] = "Cancelled")
  <2>1. call[a].task \in Tasks /\ (state' = state \/ Perform("cancel", call[a].task))
    BY <1>3, ScanEffect DEF ScanCancels, ScanPasses
  <2>2. CASE Perform("cancel", call[a].task)
    BY <1>1, <2>1, <2>2, CancelMoves
  <2>3. CASE state' = state
    BY <2>3
  <2> QED
    BY <2>1, <2>2, <2>3
<1>4. ASSUME NEW x \in Unwanted, Cancel(x)
      PROVE  state'[t] = state[t] \/ (state[t] = "Queuing" /\ state'[t] = "Cancelled")
  BY <1>1, <1>4, CancelMoves, UnwantedAssumption DEF Cancel
<1> QED
  BY <1>2, <1>3, <1>4, WorkMoves, StateFrame

\* What has begun to run was Queuing, what is over stays over.
LEMMA FinalStays ==
  ASSUME Control, TasksSound, [Next]_vars, NEW t \in Tasks, state[t] \in Final
  PROVE  state'[t] = state[t]
BY StateMoves DEF Final

\* A step of one worker's thread leaves those of the others where they are.
LEMMA OnlyMoves ==
  ASSUME Control, NEW v \in Workers, ThreadStep(v), NEW w \in Workers \ {v}
  PROVE  wpc'[w] = wpc[w] /\ taken'[w] = taken[w]
<1>0. /\ wpc \in [Workers -> WorkerLocation]
      /\ taken \in [Workers -> Tasks \union {NoTask}]
  BY DEF Control, RunOK
<1>1. CASE EndRetry(v)
  BY <1>1, EndRetryEffect
<1>2. CASE Passes(v)
  BY <1>0, <1>2 DEF Passes, TestExit, PopFails, NoSteal, GoOn, Sleep, WakeUp, Goto
<1>3. CASE Runs(v)
  BY <1>0, <1>3 DEF Runs, TestDependencies, RunFunction, Goto
<1>4. CASE Works(v)
  BY <1>0, <1>4 DEF Works, Begin, DependsUnfinish, Finish, DrainCancel
<1>5. CASE Takes(v)
  BY <1>0, <1>5 DEF Takes, PopTakes, DrainTakes, TakeHead
<1>6. CASE Releases(v)
  BY <1>6, ReleasesEffect
<1>7. CASE ChooseVictim(v) \/ TestExitAfter(v) \/ Ends(v)
  BY <1>0, <1>7 DEF ChooseVictim, TestExitAfter, Ends
<1>8. CASE Steal(v)
  BY <1>8, StealEffect DEF StolenNothing, StolenOne
<1>9. CASE Keep(v) \/ GiveBack(v)
  BY <1>0, <1>9 DEF Keep, GiveBack, StealPush
<1> QED
  BY <1>1, <1>2, <1>3, <1>4, <1>5, <1>6, <1>7, <1>8, <1>9 DEF ThreadStep, Steals

-----------------------------------------------------------------------------
(* Only tasks that depend on others are put off, and then retried.         *)

Dependent ==
  /\ \A t \in Tasks : state[t] = "DependsUnfinish" \/ retryCount[t] > 0 => dependencies[t] # {}
  /\ \A w \in Workers :
       /\ wpc[w] = "depends" => dependencies[taken[w]] # {}
       /\ wpc[w] \in {"function", "finish"} => \A d \in dependencies[taken[w]] : state[d] = "Done"
       /\ call[w].at # "none" => retryCount[call[w].task] > 0

LEMMA DependentInit == Init => Dependent
BY DEF Init, Dependent, NoCall, Actors

\* The thread is not where it needs its dependencies, or it was there already.
LEMMA RunningFrame ==
  ASSUME Control, [Next]_vars, NEW w \in Workers
  PROVE  \/ wpc'[w] \notin {"depends", "function", "finish"}
         \/ wpc'[w] = wpc[w] /\ taken'[w] = taken[w]
         \/ Runs(w)
<1>0. /\ wpc \in [Workers -> WorkerLocation]
      /\ taken \in [Workers -> Tasks \union {NoTask}]
  BY DEF Control, RunOK
<1> DEFINE Same(u) == wpc'[u] = wpc[u] /\ taken'[u] = taken[u]
           Out(u) == wpc'[u] \notin {"depends", "function", "finish"}
<1>1. ASSUME NEW v \in Workers, ThreadStep(v) PROVE Out(w) \/ Same(w) \/ Runs(w)
  <2>1. CASE EndRetry(v)
    BY <2>1, EndRetryEffect
  <2>2. CASE Passes(v)
    <3>1. PICK l \in {"loop", "pop", "idle", "testExitAfter", "asleep", "drain"} :
             Goto(v, l) /\ l \in WorkerLocation
      BY <2>2, PassesEffect
    <3> QED
      BY <3>1, GotoEffect
  <2>3. CASE Runs(v)
    <3>1. PICK l \in WorkerLocation : Goto(v, l)
      BY <2>3, RunsEffect
    <3> QED
      BY <2>3, <3>1, GotoEffect
  <2>4. CASE Works(v)
    <3>1. PICK l \in {"closure", "destroy"} : wpc' = [wpc EXCEPT ![v] = l] /\ taken' = taken
      BY <2>4, WorksEffect
    <3> QED
      BY <1>0, <3>1
  <2>5. CASE Takes(v)
    <3>1. PICK l \in {"begin", "drainCancel"} : TakeHead(v, l) /\ queue[v] # <<>>
      BY <2>5 DEF Takes, PopTakes, DrainTakes
    <3>2. l \in WorkerLocation
      BY DEF WorkerLocation
    <3> QED
      BY <3>1, <3>2, TakeHeadEffect
  <2>6. CASE Releases(v)
    BY <2>6, ReleasesEffect DEF Retried, NotRetried
  <2>7. CASE ChooseVictim(v) \/ TestExitAfter(v) \/ Ends(v)
    BY <1>0, <2>7 DEF ChooseVictim, TestExitAfter, Ends
  <2>8. CASE Steal(v)
    BY <2>8, StealEffect DEF StolenNothing, StolenOne
  <2>9. CASE Keep(v) \/ GiveBack(v)
    <3>1. PICK l \in {"stealPush", "giveBack"}, u \in Workers, m \in {"stealPush", "giveBack"} :
             StealPush(v, l, u, m)
      BY <2>9, KeepEffect, GiveBackEffect
    <3>2. l \in Carrying /\ m \in WorkerLocation
      BY DEF WorkerLocation, Carrying
    <3> QED
      BY <3>1, <3>2, StealPushEffect
  <2> QED
    BY <1>1, <2>1, <2>2, <2>3, <2>4, <2>5, <2>6, <2>7, <2>8, <2>9 DEF ThreadStep, Steals
<1>2. ASSUME NEW v \in Workers, StartWorker(v) PROVE Out(w) \/ Same(w)
  BY <1>0, <1>2 DEF StartWorker
<1>3. ASSUME NEW v \in Workers, JoinWorker(v) PROVE Same(w)
  BY <1>3 DEF JoinWorker, runVars
<1>4. CASE UNCHANGED <<runVars, thread>>
  BY <1>4 DEF runVars
<1> QED
  BY <1>1, <1>2, <1>3, <1>4, RunFrame

\* How often a task has been retried only grows.
LEMMA RetriesGrow ==
  ASSUME Control, TasksSound, [Next]_vars, NEW t \in Tasks
  PROVE  \/ retryCount'[t] = retryCount[t]
         \/ retryCount'[t] > 0 /\ state[t] = "DependsUnfinish" /\ state'[t] = state[t]
<1>1. retryCount' = retryCount \/ \E w \in Workers : Releases(w)
  <2> USE DEF userVars, taskVars, runVars, vars
  <2>1. ASSUME NEW a \in Actors, CallStep(a) PROVE retryCount' = retryCount
    BY <2>1 DEF CallStep, Pick, PickFails, Reset, Scan, Post, PostRefused
  <2>2. ASSUME NEW w \in Workers, ThreadStep(w) PROVE retryCount' = retryCount \/ Releases(w)
    BY <2>2, ThreadCalls DEF EndRetry
  <2>3. ASSUME NEW x \in Tasks, AddTask(x) \/ Cancel(x) PROVE retryCount' = retryCount
    BY <2>3 DEF AddTask, Cancel
  <2>4. CASE AddReturns \/ AddRefused \/ OwnerGoesOn \/ WaiterMoves
    BY <2>4, OwnerGoesOnEffect
       DEF AddReturns, AddRefused, WaiterMoves, CallWait, WaiterStep,
           TestDepends, TestQueuing, TestRunning, InnerWait, LeaveWait, WaitGoto
  <2> QED
    BY <2>1, <2>2, <2>3, <2>4, DestroyWorkersEffect, StepCases, UnwantedAssumption
<1>2. ASSUME NEW w \in Workers, Releases(w)
      PROVE  \/ retryCount'[t] = retryCount[t]
             \/ retryCount'[t] > 0 /\ state[t] = "DependsUnfinish" /\ state'[t] = state[t]
  BY <1>2, ReleasesEffect DEF Retried, NotRetried
<1> QED
  BY <1>1, <1>2

\* A call of one actor goes on with its task; those of the others stay.
LEMMA CallStepEffect ==
  ASSUME Control, NEW a \in Actors, CallStep(a)
  PROVE  /\ call[a].at \notin {"none", "return"} /\ call'[a].task = call[a].task
         /\ \A b \in Actors \ {a} : call'[b] = call[b]
<1>1. CASE Pick(a)
  BY <1>1, PickEffect DEF Control, Pick, InCall
<1>2. CASE PickFails(a) \/ PostRefused(a)
  BY <1>2, RefusedEffect
<1>3. CASE Reset(a)
  BY <1>3, ResetEffect
<1>4. CASE Scan(a)
  BY <1>4, ScanEffect
<1>5. CASE Post(a)
  BY <1>5, PostEffect
<1> QED
  BY <1>1, <1>2, <1>3, <1>4, <1>5 DEF CallStep

\* A call of a worker is new, or was there before.
LEMMA WorkerCalls ==
  ASSUME Control, [Next]_vars, NEW w \in Workers, call'[w].at # "none"
  PROVE  \/ call[w].at # "none" /\ call'[w].task = call[w].task
         \/ call'[w].task \in Tasks /\ retryCount'[call'[w].task] > 0
<1>0. w \in Actors /\ w # Owner
  BY OwnerAssumption DEF Actors
<1> DEFINE Same == call[w].at # "none" /\ call'[w].task = call[w].task
           New == call'[w].task \in Tasks /\ retryCount'[call'[w].task] > 0
<1>1. ASSUME NEW a \in Actors, CallStep(a) PROVE Same
  BY <1>0, <1>1, CallStepEffect
<1>2. ASSUME NEW v \in Workers, ThreadStep(v) PROVE Same \/ New
  <2>0. v \in Actors
    BY DEF Actors
  <2>1. CASE EndRetry(v)
    BY <1>0, <2>0, <2>1, EndRetryEffect
  <2>2. CASE Releases(v)
    BY <1>0, <2>0, <2>2, ReleasesEffect DEF Retried, NotRetried
  <2> QED
    BY <1>2, <2>1, <2>2, ThreadCalls
<1>3. ASSUME NEW t \in Tasks, AddTask(t) PROVE Same
  BY <1>0, <1>3, AddTaskEffect
<1>4. CASE AddReturns \/ AddRefused
  BY <1>0, <1>4, AddOverEffect
<1>5. ASSUME NEW t \in Tasks, Cancel(t) PROVE Same
  BY <1>5 DEF Cancel
<1>6. CASE OwnerGoesOn \/ WaiterMoves \/ UNCHANGED vars
  BY <1>6, OwnerGoesOnEffect
     DEF WaiterMoves, CallWait, WaiterStep, TestDepends, TestQueuing, TestRunning, InnerWait,
         LeaveWait, WaitGoto, vars
<1> QED
  BY <1>1, <1>2, <1>3, <1>4, <1>5, <1>6, DestroyWorkersEffect, StepCases, UnwantedAssumption

LEMMA DependentStep == Control /\ TasksSound /\ Dependent /\ [Next]_vars => Dependent'
<1> SUFFICES ASSUME Control, TasksSound, Dependent, [Next]_vars PROVE Dependent'
  OBVIOUS
<1>1. ASSUME NEW t \in Tasks, state'[t] = "DependsUnfinish" \/ retryCount'[t] > 0
      PROVE  dependencies[t] # {}
  <2>1. CASE state'[t] = "DependsUnfinish" /\ state[t] # "DependsUnfinish"
    <3>1. PICK w \in Workers : DependsUnfinish(w) /\ taken[w] = t
      BY <2>1, StateMoves
    <3>2. wpc[w] = "depends"
      BY <3>1 DEF DependsUnfinish, At
    <3> QED
      BY <3>1, <3>2 DEF Dependent
  <2>2. CASE state[t] = "DependsUnfinish" \/ retryCount[t] > 0
    BY <2>2 DEF Dependent
  <2> QED
    BY <1>1, <2>1, <2>2, RetriesGrow
<1>2. ASSUME NEW w \in Workers
      PROVE  /\ wpc'[w] = "depends" => dependencies[taken'[w]] # {}
             /\ wpc'[w] \in {"function", "finish"}
                  => \A d \in dependencies[taken'[w]] : state'[d] = "Done"
  <2>1. wpc'[w] \in {"depends", "function", "finish"} => taken'[w] \in Tasks
    <3>1. RunOK'
      BY RunStepOK
    <3> QED
      BY <3>1, NoTaskAssumption DEF RunOK, RunAt, Carrying
  <2>2. ASSUME NEW d \in Tasks, state[d] = "Done" PROVE state'[d] = "Done"
    BY <2>2, FinalStays DEF Final
  <2>3. CASE wpc'[w] = wpc[w] /\ taken'[w] = taken[w]
    BY <2>1, <2>2, <2>3, DependenciesAssumption DEF Dependent
  <2>4. CASE TestDependencies(w)
    <3>1. /\ taken'[w] = taken[w]
          /\ wpc' = [wpc EXCEPT ![w] = IF \A d \in dependencies[taken[w]] : state[d] = "Done"
                                         THEN "function" ELSE "depends"]
          /\ state' = state /\ wpc \in [Workers -> WorkerLocation]
      BY <2>4 DEF TestDependencies, Goto, taskVars, Control, RunOK
    <3> QED
      BY <3>1
  <2>5. CASE RunFunction(w)
    <3>1. /\ taken'[w] = taken[w] /\ wpc[w] = "function" /\ wpc'[w] = "finish" /\ state' = state
      BY <2>5 DEF RunFunction, Goto, At, taskVars, Control, RunOK
    <3> QED
      BY <3>1 DEF Dependent
  <2> QED
    BY <2>3, <2>4, <2>5, RunningFrame DEF Runs
<1>3. ASSUME NEW w \in Workers, call'[w].at # "none" PROVE retryCount'[call'[w].task] > 0
  <2>1. CASE call[w].at # "none" /\ call'[w].task = call[w].task
    <3>1. call[w].task \in Tasks /\ retryCount[call[w].task] > 0
      BY <2>1, CallHasTask DEF Dependent, Control, Actors
    <3> QED
      BY <2>1, <3>1, RetriesGrow
  <2> QED
    BY <1>3, <2>1, WorkerCalls
<1> QED
  BY <1>1, <1>2, <1>3 DEF Dependent

LEMMA DependentInvariant == Spec => [](Control /\ TasksSound /\ Dependent)
BY ControlInit, ControlStep, TasksSoundInit, TasksSoundStep, DependentInit, DependentStep, PTL
   DEF Spec

-----------------------------------------------------------------------------
(* wait().                                                                 *)

\* The waiter has seen that its task is not Queuing any more, and then that it
\* is not Running: a task that is never put off goes on from there only.
Waiting ==
  waiter.at # "none" /\ dependencies[waiter.task] = {} =>
    /\ waiter.at = "testRunning" => state[waiter.task] \in {"Running", "Done", "Cancelled"}
    /\ waiter.at = "returned" => state[waiter.task] \in Final

LEMMA WaitingInit == Init => Waiting
BY DEF Init, Waiting

LEMMA WaitingStep == Control /\ TasksSound /\ Dependent /\ Waiting /\ [Next]_vars => Waiting'
<1> SUFFICES ASSUME Control, TasksSound, Dependent, Waiting, [Next]_vars PROVE Waiting'
  OBVIOUS
<1>1. waiter.at # "none" => waiter.task \in Tasks
  BY NoTaskAssumption DEF Control, WaiterOK
<1>2. CASE waiter' = waiter
  <2> SUFFICES ASSUME waiter.at # "none", dependencies[waiter.task] = {}
               PROVE  /\ waiter.at = "testRunning"
                           => state'[waiter.task] \in {"Running", "Done", "Cancelled"}
                      /\ waiter.at = "returned" => state'[waiter.task] \in Final
    BY <1>2 DEF Waiting
  <2> PICK t \in Tasks : t = waiter.task
    BY <1>1
  <2>1. ASSUME NEW w \in Workers, DependsUnfinish(w), taken[w] = t PROVE FALSE
    BY <2>1 DEF DependsUnfinish, At, Dependent
  <2>2. state[t] \in {"Running", "Done", "Cancelled"}
          => state'[t] = state[t] \/ (state[t] = "Running" /\ state'[t] = "Done")
    BY <2>1, StateMoves
  <2>3. /\ waiter.at = "testRunning" => state[t] \in {"Running", "Done", "Cancelled"}
        /\ waiter.at = "returned" => state[t] \in Final
    BY DEF Waiting
  <2> QED
    BY <2>2, <2>3 DEF Final
<1>3. CASE WaiterMoves
  <2>1. state' = state
    BY <1>3 DEF WaiterMoves, CallWait, WaiterStep, TestDepends, TestQueuing, TestRunning,
                InnerWait, LeaveWait, WaitGoto, taskVars
  <2>2. waiter.at = "testQueuing" /\ dependencies[waiter.task] = {}
          => state[waiter.task] # "DependsUnfinish"
    BY <1>1 DEF Dependent
  <2>3. waiter.at # "none" => state[waiter.task] \in TaskState
    BY <1>1 DEF Control, TaskOK
  <2>4. waiter \in [at : {"none", "testDepends", "testQueuing", "testRunning", "wait",
                          "returned"},
                    task : Tasks \union {NoTask}]
    BY DEF Control, WaiterOK
  <2> USE <2>1, <2>2, <2>3, <2>4 DEF WaitGoto, Waiting, TaskState, Final
  <2>5. CASE TestDepends \/ InnerWait
    BY <2>5 DEF TestDepends, InnerWait
  <2>6. CASE TestQueuing
    BY <2>6 DEF TestQueuing
  <2>7. CASE TestRunning
    BY <2>7 DEF TestRunning
  <2>8. CASE LeaveWait \/ \E t \in Waited : CallWait(t)
    BY <2>8 DEF LeaveWait, CallWait
  <2> QED
    BY <1>3, <2>5, <2>6, <2>7, <2>8 DEF WaiterMoves, WaiterStep
<1> QED
  BY <1>2, <1>3, WaiterFrame

\* wait() does not return while a task that depends on no other is waiting or
\* running, although its condition is three loads of the state.
THEOREM WaitReturnsInTime == Spec => []WaitReturnsFinalIndependent
<1>1. Waiting => WaitReturnsFinalIndependent
  BY DEF Waiting, WaitReturnsFinalIndependent
<1> QED
  BY <1>1, ControlInit, ControlStep, TasksSoundInit, TasksSoundStep, DependentInit, DependentStep,
     WaitingInit, WaitingStep, PTL
     DEF Spec

-----------------------------------------------------------------------------
(* What addTask returns.                                                   *)

TooLate(t) == state[t] \in Final \/ retryCount[t] > 0

\* The description the owner has yet to read is deleted, or was, only once the
\* task was over or had been retried.
Garbage ==
  /\ dangling => InCall(Owner, "return") /\ TooLate(call[Owner].task)
  /\ \A t \in Tasks : added[t] = "garbage" => TooLate(t)

LEMMA GarbageInit == Init => Garbage
BY DEF Init, Garbage

LEMMA TooLateStays ==
  ASSUME Control, TasksSound, [Next]_vars, NEW t \in Tasks, TooLate(t)
  PROVE  TooLate(t)'
BY FinalStays, RetriesGrow DEF TooLate

\* The last copy of a closure that is not retried is that of a final task, at
\* least while the owner is adding a task.
LEMMA LastCopyIsFinal ==
  ASSUME Control, TasksSound, NEW w \in Workers, Releases(w), LastCopy(w),
         state[taken[w]] # "DependsUnfinish", call[Owner].at = "return"
  PROVE  state[taken[w]] \in Final
<1>0. taken[w] \in Tasks /\ wpc[w] \in {"destroy", "release"}
  BY ReleasesEffect
<1> PICK t \in Tasks : t = taken[w]
  BY <1>0
<1>1. StateAllows(t) /\ state[t] \in TaskState
  BY DEF TasksSound, TaskSound, Control, TaskOK
<1>2. CASE wpc[w] = "destroy"
  BY <1>1, <1>2 DEF StateAllows, Final
<1>3. CASE wpc[w] = "release"
  <2>1. \A u \in Workers : ~Keeps(t, u) /\ ~InQueue(queue, t, u)
    <3>1. \A u \in Workers : DOMAIN queue[u] = 1 .. Len(queue[u])
      BY LenProperties DEF Control, QueueOK
    <3> QED
      BY <1>3, <3>1 DEF LastCopy, InQueue, Keeps
  <2>2. state[t] \notin Pending
    BY <1>1, <1>3, <2>1 DEF StateAllows, Gone, Control, CallOK
  <2> QED
    BY <1>1, <2>2 DEF TaskState, Pending, Final
<1> QED
  BY <1>0, <1>2, <1>3

\* A description is deleted when it is too late.
LEMMA DeletedTooLate ==
  ASSUME Control, TasksSound, Dependent, [Next]_vars, dangling', ~dangling
  PROVE  /\ call[Owner].at = "return" /\ call[Owner].task \in Tasks /\ TooLate(call[Owner].task)
         /\ call'[Owner] = call[Owner]
<1>0. Owner \in Actors /\ Owner \notin Workers /\ Workers \subseteq Actors
  BY OwnerAssumption DEF Actors
<1>1. ASSUME NEW w \in Workers, EndRetry(w)
      PROVE  /\ call[Owner].at = "return" /\ call[Owner].task \in Tasks
             /\ TooLate(call[Owner].task) /\ call'[Owner] = call[Owner]
  <2>1. /\ call[w].at # "none" /\ call[w].task \in Tasks
        /\ Deleted(call[w].task, call[w].first) /\ call'[Owner] = call[Owner]
    BY <1>0, <1>1, EndRetryEffect
  <2> QED
    BY <2>1 DEF Deleted, InCall, Dependent, TooLate
<1>2. ASSUME NEW w \in Workers, Releases(w)
      PROVE  /\ call[Owner].at = "return" /\ call[Owner].task \in Tasks
             /\ TooLate(call[Owner].task) /\ call'[Owner] = call[Owner]
  <2>1. taken[w] \in Tasks /\ \E next \in {"loop", "testExitAfter"} : NotRetried(w, next)
    BY <1>2, ReleasesEffect DEF Retried
  <2>2. /\ ~(LastCopy(w) /\ state[taken[w]] = "DependsUnfinish") /\ call' = call
        /\ Deleted(taken[w], LastCopy(w) /\ retryCount[taken[w]] = 0)
    BY <2>1 DEF NotRetried
  <2>3. LastCopy(w) /\ call[Owner].at = "return" /\ call[Owner].task = taken[w]
    BY <2>2 DEF Deleted, InCall
  <2>4. state[taken[w]] \in Final
    BY <1>2, <2>2, <2>3, LastCopyIsFinal
  <2> QED
    BY <2>1, <2>2, <2>3, <2>4 DEF TooLate
<1>3. ASSUME NEW w \in Workers, GiveBack(w) PROVE FALSE
  BY <1>3 DEF GiveBack, StealPush, addVars
<1>4. ASSUME NEW t \in Tasks, AddTask(t) PROVE FALSE
  BY <1>4 DEF AddTask
<1>5. CASE AddReturns \/ AddRefused
  BY <1>5 DEF AddReturns, AddRefused
<1>6. CASE OwnerGoesOn
  BY <1>6, OwnerGoesOnEffect DEF addVars
<1> QED
  BY <1>1, <1>2, <1>3, <1>4, <1>5, <1>6, UserFrame, DestroyWorkersEffect

\* The owner's call stays where it is over until addTask is back.
LEMMA OwnerReturns ==
  ASSUME Control, [Next]_vars, call[Owner].at = "return"
  PROVE  call'[Owner] = call[Owner] \/ AddReturns
<1>0. Owner \in Actors /\ Owner \notin Workers /\ Workers \subseteq Actors /\ owner.op = "add"
  BY OwnerAssumption DEF Actors, Control, CallOK
<1>1. ASSUME NEW a \in Actors, CallStep(a) PROVE call'[Owner] = call[Owner]
  BY <1>0, <1>1, CallStepEffect
<1>2. ASSUME NEW w \in Workers, ThreadStep(w) PROVE call'[Owner] = call[Owner]
  <2>1. CASE EndRetry(w)
    BY <1>0, <2>1, EndRetryEffect
  <2>2. CASE Releases(w)
    BY <1>0, <2>2, ReleasesEffect DEF Retried, NotRetried
  <2> QED
    BY <1>2, <2>1, <2>2, ThreadCalls
<1>3. ASSUME NEW t \in Tasks, AddTask(t) PROVE FALSE
  BY <1>0, <1>3 DEF AddTask
<1>4. CASE AddRefused
  BY <1>4 DEF AddRefused, InCall
<1>5. ASSUME NEW t \in Tasks, Cancel(t) PROVE call' = call
  BY <1>5 DEF Cancel
<1>6. CASE OwnerGoesOn \/ WaiterMoves \/ UNCHANGED vars
  BY <1>6, OwnerGoesOnEffect
     DEF WaiterMoves, CallWait, WaiterStep, TestDepends, TestQueuing, TestRunning, InnerWait,
         LeaveWait, WaitGoto, vars
<1> QED
  BY <1>1, <1>2, <1>3, <1>4, <1>5, <1>6, DestroyWorkersEffect, StepCases, UnwantedAssumption

LEMMA GarbageStep == Control /\ TasksSound /\ Dependent /\ Garbage /\ [Next]_vars => Garbage'
<1> SUFFICES ASSUME Control, TasksSound, Dependent, Garbage, [Next]_vars PROVE Garbage'
  OBVIOUS
<1>1. dangling' => /\ call[Owner].at = "return" /\ call'[Owner] = call[Owner]
                   /\ call[Owner].task \in Tasks /\ TooLate(call[Owner].task)
  <2> SUFFICES ASSUME dangling', dangling
               PROVE  /\ call[Owner].at = "return" /\ call'[Owner] = call[Owner]
                      /\ call[Owner].task \in Tasks /\ TooLate(call[Owner].task)
    BY DeletedTooLate
  <2>1. call[Owner].at = "return" /\ TooLate(call[Owner].task)
    BY DEF Garbage, InCall
  <2>2. call[Owner].task \in Tasks
    BY <2>1, CallHasTask DEF Control, Actors
  <2>3. call'[Owner] = call[Owner]
    BY <2>1, OwnerReturns DEF AddReturns
  <2> QED
    BY <2>1, <2>2, <2>3
<1>2. dangling' => InCall(Owner, "return")' /\ TooLate(call[Owner].task)'
  <2> SUFFICES ASSUME dangling' PROVE InCall(Owner, "return")' /\ TooLate(call[Owner].task)'
    OBVIOUS
  <2> PICK t \in Tasks : t = call[Owner].task
    BY <1>1
  <2>1. TooLate(t)'
    BY <1>1, TooLateStays
  <2> QED
    BY <1>1, <2>1 DEF InCall, TooLate
<1>3. ASSUME NEW t \in Tasks, added'[t] = "garbage", added[t] # "garbage" PROVE TooLate(t)
  <2>1. ASSUME AddReturns \/ AddRefused PROVE TooLate(t)
    <3>1. PICK r \in {"yes", "garbage", "null"} :
            /\ r = "garbage" => dangling
            /\ added'[call[Owner].task] = r
            /\ \A u \in Tasks \ {call[Owner].task} : added'[u] = added[u]
      BY <2>1, AddOverEffect
    <3> QED
      BY <1>3, <3>1 DEF Garbage
  <2>2. ASSUME NEW x \in Tasks, AddTask(x) PROVE FALSE
    BY <1>3, <2>2, AddTaskEffect
  <2>3. ASSUME NEW w \in Workers, EndRetry(w) \/ Releases(w) \/ GiveBack(w) PROVE added' = added
    <3>1. CASE Releases(w)
      BY <3>1, ReleasesEffect
    <3> QED
      BY <2>3, <3>1 DEF EndRetry, GiveBack, StealPush, addVars
  <2>4. CASE OwnerGoesOn
    BY <1>3, <2>4, OwnerGoesOnEffect DEF addVars
  <2> QED
    BY <1>3, <2>1, <2>2, <2>3, <2>4, UserFrame, DestroyWorkersEffect
<1>4. ASSUME NEW t \in Tasks, added'[t] = "garbage" PROVE TooLate(t)'
  <2>1. TooLate(t)
    BY <1>3, <1>4 DEF Garbage
  <2> QED
    BY <2>1, TooLateStays
<1> QED
  BY <1>2, <1>4 DEF Garbage, TooLate

\* What addTask returns is the promise, although it is read from a description
\* that a worker may have deleted: it only has if it was so quick that the task
\* was over, or had been retried.
THEOREM AddReturnsThePromise == Spec => []AddReturnsUnlessTooLate
<1>1. Garbage => AddReturnsUnlessTooLate
  BY DEF Garbage, TooLate, AddReturnsUnlessTooLate
<1> QED
  BY <1>1, ControlInit, ControlStep, TasksSoundInit, TasksSoundStep, DependentInit, DependentStep,
     GarbageInit, GarbageStep, PTL
     DEF Spec

-----------------------------------------------------------------------------
(* The task graph.                                                         *)

Absent(t) == added[t] \in {"no", "null"}

\* Its function is running.
Executing(t) == \E w \in Workers : wpc[w] = "finish" /\ taken[w] = t

LEMMA StatusCases ==
  ASSUME NEW t \in Tasks
  PROVE  /\ Absent(t) => StatusOf(t) = "absent"
         /\ ~Absent(t) /\ Executing(t) => StatusOf(t) = "running"
         /\ ~Absent(t) /\ ~Executing(t) =>
              /\ state[t] = "Done" => StatusOf(t) = "done"
              /\ state[t] = "Cancelled" => StatusOf(t) = "cancelled"
              /\ state[t] \notin Final => StatusOf(t) = "waiting"
BY DEF StatusOf, Absent, Executing, At, Final

LEMMA StatusCasesNext ==
  ASSUME NEW t \in Tasks
  PROVE  /\ Absent(t)' => StatusOf(t)' = "absent"
         /\ ~Absent(t)' /\ Executing(t)' => StatusOf(t)' = "running"
         /\ ~Absent(t)' /\ ~Executing(t)' =>
              /\ state'[t] = "Done" => StatusOf(t)' = "done"
              /\ state'[t] = "Cancelled" => StatusOf(t)' = "cancelled"
              /\ state'[t] \notin Final => StatusOf(t)' = "waiting"
BY DEF StatusOf, Absent, Executing, At, Final

\* What a task that is absent, or executing, cannot be.
LEMMA StatusSound ==
  ASSUME TasksSound, NEW t \in Tasks
  PROVE  /\ Absent(t) => state[t] = "Queuing" /\ ~Executing(t)
         /\ Executing(t) => state[t] = "Running"
BY DEF TasksSound, TaskSound, Known, StateAllows, Absent, Executing

LEMMA UntouchedStatus ==
  ASSUME NEW t \in Tasks, Untouched(t)
  PROVE  StatusOf(t)' = StatusOf(t)
<1>1. (Absent(t)' <=> Absent(t)) /\ state'[t] = state[t]
  BY DEF Untouched, Absent
<1>2. Executing(t)' <=> Executing(t)
  BY DEF Untouched, Executing
<1>3. CASE Absent(t)
  BY <1>1, <1>3, StatusCases, StatusCasesNext
<1>4. CASE ~Absent(t) /\ Executing(t)
  BY <1>1, <1>2, <1>4, StatusCases, StatusCasesNext
<1>5. CASE ~Absent(t) /\ ~Executing(t)
  BY <1>1, <1>2, <1>5, StatusCases, StatusCasesNext DEF Final
<1> QED
  BY <1>3, <1>4, <1>5

\* A thread leaves the function only by finishing it.
LEMMA FinishFrame ==
  ASSUME Control, [Next]_vars, NEW w \in Workers, wpc[w] = "finish"
  PROVE  (wpc'[w] = "finish" /\ taken'[w] = taken[w]) \/ Finish(w)
<1>0. wpc \in [Workers -> WorkerLocation] /\ thread[w] = "running"
  BY DEF Control, RunOK, RunAt
<1> DEFINE Same == wpc'[w] = "finish" /\ taken'[w] = taken[w]
<1>1. ASSUME NEW v \in Workers, ThreadStep(v) PROVE Same \/ Finish(w)
  <2>1. CASE v = w
    BY <1>1, <2>1
       DEF ThreadStep, EndRetry, Passes, TestExit, PopFails, NoSteal, GoOn, Sleep, WakeUp, Runs,
           TestDependencies, RunFunction, Works, Begin, DependsUnfinish, DrainCancel, Takes, PopTakes,
           DrainTakes, Releases, EndIteration, LeaveIdle, Release, Steals, ChooseVictim, Steal, Keep,
           GiveBack, StealPush, TestExitAfter, Ends, At
  <2>2. CASE v # w
    BY <1>1, <2>2, OnlyMoves
  <2> QED
    BY <2>1, <2>2
<1>2. ASSUME NEW v \in Workers, StartWorker(v) PROVE Same
  BY <1>0, <1>2 DEF StartWorker
<1>3. ASSUME NEW v \in Workers, JoinWorker(v) PROVE Same
  BY <1>3 DEF JoinWorker, runVars
<1>4. CASE UNCHANGED <<runVars, thread>>
  BY <1>4 DEF runVars
<1> QED
  BY <1>1, <1>2, <1>3, <1>4, RunFrame

\* A task begins or stops executing by these steps only.
LEMMA ExecutingMoves ==
  ASSUME Control, TasksSound, [Next]_vars, NEW t \in Tasks
  PROVE  \/ Executing(t)' <=> Executing(t)
         \/ \E w \in Workers : RunFunction(w) /\ taken[w] = t /\ Executing(t)'
         \/ \E w \in Workers : Finish(w) /\ taken[w] = t /\ Executing(t)
<1>1. ASSUME Executing(t)', ~Executing(t) PROVE \E w \in Workers : RunFunction(w) /\ taken[w] = t
  <2>1. PICK w \in Workers : wpc'[w] = "finish" /\ taken'[w] = t
    BY <1>1 DEF Executing
  <2>2. Runs(w)
    BY <1>1, <2>1, RunningFrame DEF Executing
  <2>3. ~TestDependencies(w)
    BY <2>1 DEF TestDependencies, Goto, Control, RunOK
  <2>4. RunFunction(w) /\ taken[w] = t
    BY <2>1, <2>2, <2>3 DEF Runs, RunFunction, Goto
  <2> QED
    BY <2>4
<1>2. ASSUME Executing(t), ~Executing(t)' PROVE \E w \in Workers : Finish(w) /\ taken[w] = t
  <2>1. PICK w \in Workers : wpc[w] = "finish" /\ taken[w] = t
    BY <1>2 DEF Executing
  <2>2. Finish(w)
    BY <1>2, <2>1, FinishFrame DEF Executing
  <2> QED
    BY <2>1, <2>2
<1> QED
  BY <1>1, <1>2

\* The pool knows a new task by the owner's calls only.
LEMMA AddedMoves ==
  ASSUME Control, [Next]_vars
  PROVE  added' = added \/ AddReturns \/ AddRefused \/ \E t \in Tasks : AddTask(t)
<1>1. ASSUME NEW w \in Workers, EndRetry(w) \/ Releases(w) \/ GiveBack(w) PROVE added' = added
  <2>1. CASE Releases(w)
    BY <2>1, ReleasesEffect
  <2> QED
    BY <1>1, <2>1 DEF EndRetry, GiveBack, StealPush, addVars
<1>2. CASE OwnerGoesOn
  BY <1>2, OwnerGoesOnEffect DEF addVars
<1> QED
  BY <1>1, <1>2, UserFrame, DestroyWorkersEffect

Depends(t) == \A d \in dependencies[t] : StatusOf(d) = "done"
Present(t) == \A d \in dependencies[t] : StatusOf(d) # "absent"

\* A step of the pool is a step of the task graph for each of its tasks.
Moves(t, from, to) == StatusOf(t) = from /\ StatusOf(t)' = to

StatusMoves(t) ==
  \/ StatusOf(t)' = StatusOf(t)
  \/ Moves(t, "absent", "waiting") /\ Present(t)
  \/ Moves(t, "waiting", "absent")
  \/ Moves(t, "waiting", "running") /\ Depends(t)
  \/ Moves(t, "running", "done")
  \/ Moves(t, "waiting", "cancelled")

LEMMA AddTaskStatus ==
  ASSUME Control, TasksSound, NEW t \in Tasks, AddTask(t)
  PROVE  StatusMoves(t)
<1>1. /\ Absent(t) /\ ~Absent(t)' /\ state' = state
      /\ \A d \in dependencies[t] : added[d] = "yes"
      /\ Executing(t)' <=> Executing(t)
  BY AddTaskEffect DEF Absent, Executing, taskVars, runVars
<1>2. state[t] = "Queuing" /\ ~Executing(t)
  BY <1>1, StatusSound
<1>3. Moves(t, "absent", "waiting")
  BY <1>1, <1>2, StatusCases, StatusCasesNext DEF Moves, Final
<1>4. ASSUME NEW d \in dependencies[t] PROVE StatusOf(d) # "absent"
  <2>1. d \in Tasks /\ ~Absent(d)
    BY <1>1, DependenciesAssumption DEF Absent
  <2> QED
    BY <2>1, StatusCases DEF Final
<1> QED
  BY <1>3, <1>4 DEF StatusMoves, Present

LEMMA AddOverStatus ==
  ASSUME Control, TasksSound, AddReturns \/ AddRefused, NEW t \in Tasks, t = call[Owner].task
  PROVE  StatusMoves(t)
<1>1. PICK r \in {"yes", "garbage", "null"} :
        /\ r = "null" <=> call[Owner].at = "refused"
        /\ added'[t] = r
        /\ UNCHANGED <<wpc, taken, state>>
  BY AddOverEffect DEF runVars, taskVars
<1>2. ~Absent(t) /\ (r # "null" => ~Absent(t)')
  BY <1>1 DEF TasksSound, TaskSound, Known, Absent
<1>3. Executing(t)' <=> Executing(t)
  BY <1>1 DEF Executing
<1>4. CASE r # "null"
  BY <1>1, <1>2, <1>3, <1>4, StatusCases, StatusCasesNext DEF StatusMoves, Final
<1>5. CASE r = "null"
  <2>1. state[t] = "Queuing" /\ ~Executing(t)
    BY <1>1, <1>5, StatusSound DEF TasksSound, TaskSound, StateAllows
  <2>2. Absent(t)'
    BY <1>1, <1>5 DEF Absent
  <2> QED
    BY <1>1, <1>2, <2>1, <2>2, StatusCases, StatusCasesNext DEF StatusMoves, Moves, Final
<1> QED
  BY <1>4, <1>5

\* The function runs when the dependencies are done.
LEMMA RunStatus ==
  ASSUME Control, TasksSound, Dependent, NEW w \in Workers, RunFunction(w), NEW t \in Tasks,
         taken[w] = t
  PROVE  StatusMoves(t)
<1>1. /\ wpc[w] = "function" /\ wpc'[w] = "finish"
      /\ UNCHANGED <<taken, state, added>>
  BY DEF RunFunction, Goto, At, Control, RunOK, taskVars, userVars, addVars
<1>2. state[t] = "Running" /\ ~Absent(t) /\ ~Executing(t)
  <2>1. AtMostOne(t) /\ Known(t) /\ StateAllows(t)
    BY DEF TasksSound, TaskSound
  <2>2. state[t] = "Running" /\ ~Absent(t)
    BY <1>1, <2>1 DEF StateAllows, Known, Absent
  <2>3. ASSUME NEW u \in Workers, wpc[u] = "finish", taken[u] = t PROVE FALSE
    BY <1>1, <2>1, <2>3 DEF AtMostOne, Keeps
  <2> QED
    BY <2>2, <2>3 DEF Executing
<1>3. Executing(t)' /\ ~Absent(t)'
  BY <1>1, <1>2 DEF Executing, Absent
<1>4. Moves(t, "waiting", "running")
  BY <1>2, <1>3, StatusCases, StatusCasesNext DEF Moves, Final
<1>5. ASSUME NEW d \in dependencies[t] PROVE StatusOf(d) = "done"
  <2>1. d \in Tasks /\ state[d] = "Done"
    BY <1>1, DependenciesAssumption DEF Dependent
  <2> QED
    BY <2>1, StatusSound, StatusCases
<1> QED
  BY <1>4, <1>5 DEF StatusMoves, Depends

LEMMA FinishStatus ==
  ASSUME Control, TasksSound, NEW w \in Workers, Finish(w), NEW t \in Tasks, taken[w] = t
  PROVE  StatusMoves(t)
<1>1. /\ wpc[w] = "finish" /\ wpc'[w] = "destroy" /\ \A u \in Workers \ {w} : wpc'[u] = wpc[u]
      /\ UNCHANGED <<taken, added>> /\ Perform("done", t)
  BY DEF Finish, At, Control, RunOK, userVars, addVars
<1>2. AtMostOne(t) /\ Known(t) /\ Executing(t) /\ state[t] = "Running"
  BY <1>1, StatusSound DEF TasksSound, TaskSound, Executing
<1>3. state'[t] = "Done"
  BY <1>1, <1>2, PerformEffect DEF Control, TaskOK, Operation, Leaves, Installs
<1>4. ~Executing(t)'
  BY <1>1, <1>2 DEF AtMostOne, Keeps, Executing
<1>5. ~Absent(t) /\ ~Absent(t)'
  BY <1>1, <1>2 DEF Known, Absent
<1> QED
  BY <1>2, <1>3, <1>4, <1>5, StatusCases, StatusCasesNext DEF StatusMoves, Moves

LEMMA StatusStep ==
  ASSUME Control, TasksSound, Dependent, [Next]_vars, NEW t \in Tasks
  PROVE  StatusMoves(t)
<1>1. CASE Untouched(t)
  BY <1>1, UntouchedStatus DEF StatusMoves
<1>2. ASSUME NEW w \in Workers, RunFunction(w) \/ Finish(w), taken[w] = t PROVE StatusMoves(t)
  BY <1>2, RunStatus, FinishStatus
<1>3. CASE added' = added /\ (Executing(t)' <=> Executing(t))
  <2>1. Absent(t)' <=> Absent(t)
    BY <1>3 DEF Absent
  <2>2. CASE Absent(t)
    BY <2>1, <2>2, StatusCases, StatusCasesNext DEF StatusMoves
  <2>3. CASE ~Absent(t) /\ Executing(t)
    BY <1>3, <2>1, <2>3, StatusCases, StatusCasesNext DEF StatusMoves
  <2>4. CASE ~Absent(t) /\ ~Executing(t)
    <3>1. ASSUME NEW w \in Workers, Finish(w) PROVE StatusMoves(t) \/ taken[w] # t
      BY <3>1, FinishStatus
    <3>2. CASE state'[t] = state[t]
      BY <1>3, <2>1, <2>4, <3>2, StatusCases, StatusCasesNext DEF StatusMoves, Final
    <3>3. CASE state[t] = "Queuing" /\ state'[t] = "Cancelled"
      BY <1>3, <2>1, <2>4, <3>3, StatusCases, StatusCasesNext DEF StatusMoves, Moves, Final
    <3>4. CASE state[t] \notin Final /\ state'[t] \notin Final
      BY <1>3, <2>1, <2>4, <3>4, StatusCases, StatusCasesNext DEF StatusMoves
    <3> QED
      BY <3>1, <3>2, <3>3, <3>4, StateMoves DEF Final
  <2> QED
    BY <2>2, <2>3, <2>4
<1>4. ASSUME NEW x \in Tasks, AddTask(x) PROVE StatusMoves(t)
  <2>1. CASE x = t
    BY <1>4, <2>1, AddTaskStatus
  <2>2. CASE x # t
    <3>1. /\ added'[t] = added[t] /\ UNCHANGED <<state, wpc, taken>>
      BY <1>4, <2>2, AddTaskEffect DEF taskVars, runVars
    <3>2. /\ Absent(t)' <=> Absent(t)
          /\ Executing(t)' <=> Executing(t)
      BY <3>1 DEF Absent, Executing
    <3> QED
      BY <3>1, <3>2, StatusCases, StatusCasesNext DEF StatusMoves, Final
  <2> QED
    BY <2>1, <2>2
<1>5. CASE AddReturns \/ AddRefused
  <2>1. CASE call[Owner].task = t
    BY <1>5, <2>1, AddOverStatus
  <2>2. CASE call[Owner].task # t
    <3>1. /\ added'[t] = added[t] /\ UNCHANGED <<state, wpc, taken>>
      BY <1>5, <2>2, AddOverEffect DEF taskVars, runVars
    <3>2. /\ Absent(t)' <=> Absent(t)
          /\ Executing(t)' <=> Executing(t)
      BY <3>1 DEF Absent, Executing
    <3> QED
      BY <3>1, <3>2, StatusCases, StatusCasesNext DEF StatusMoves, Final
  <2> QED
    BY <2>1, <2>2
<1> QED
  BY <1>2, <1>3, <1>4, <1>5, AddedMoves, ExecutingMoves

LEMMA GraphInit == Init => Graph!Init
<1> SUFFICES ASSUME Init PROVE Graph!Init
  OBVIOUS
<1>1. \A t \in Tasks : StatusOf(t) = "absent"
  BY StatusCases DEF Init, Absent
<1> QED
  BY <1>1 DEF Graph!Init

\* What the destructor destroys keeps its state.
LEMMA DestroyedStatus ==
  ASSUME DestroyWorkers, NEW t \in Tasks
  PROVE  StatusOf(t)' = StatusOf(t)
<1>1. UNCHANGED <<added, state, wpc, taken>>
  BY DestroyWorkersEffect
<1> QED
  BY <1>1 DEF StatusOf, At

\* One task moves, the others stay.
LEMMA GraphStep ==
  Control /\ TasksSound /\ Dependent /\ [Next]_vars
    => [Graph!Next]_([t \in Tasks |-> StatusOf(t)])
<1> SUFFICES ASSUME Control, TasksSound, Dependent, [Next]_vars
             PROVE  [Graph!Next]_([t \in Tasks |-> StatusOf(t)])
  OBVIOUS
<1>1. CASE \A t \in Tasks : StatusOf(t)' = StatusOf(t)
  BY <1>1
<1>2. ASSUME NEW t \in Tasks, StatusOf(t)' # StatusOf(t) PROVE Graph!Next
  <2> DEFINE s == [x \in Tasks |-> StatusOf(x)]
  <2>1. \A x \in Tasks \ {t} : StatusOf(x)' = StatusOf(x)
    BY <1>2, TasksSoundStep, UntouchedStatus, DestroyedStatus DEF OneTouched
  <2>2. ASSUME NEW from, NEW to, Moves(t, from, to) PROVE Graph!Become(t, from, to)
    BY <2>1, <2>2 DEF Moves, Graph!Become
  <2>3. /\ Present(t) => \A d \in dependencies[t] : s[d] # "absent"
        /\ Depends(t) => \A d \in dependencies[t] : s[d] = "done"
    BY DependenciesAssumption DEF Present, Depends
  <2>4. StatusMoves(t)
    BY StatusStep
  <2> QED
    BY <1>2, <2>2, <2>3, <2>4
       DEF StatusMoves, Graph!Next, Graph!Add, Graph!Refuse, Graph!Run, Graph!Finish, Graph!Cancel
<1> QED
  BY <1>1, <1>2

\* The pool implements the task graph: however often a task is retried and
\* stolen, it runs once, after its dependencies are done, or never, once it has
\* been cancelled.
THEOREM RunsInOrder == Spec => ImplementsTaskGraph
BY ControlInit, ControlStep, TasksSoundInit, TasksSoundStep, DependentInit, DependentStep,
   GraphInit, GraphStep, PTL
   DEF Spec, ImplementsTaskGraph, Graph!Spec

-----------------------------------------------------------------------------
(* Stopping.                                                               *)

\* The worker has been told to exit, and the owner has not yet waited for it.
Leaving(w) ==
  \/ owner.op = "exit" /\ w < owner.next
  \/ owner.op = "join" /\ w >= owner.next
  \/ owner.op \in {"joinAll", "destroyJoin"} /\ w = owner.next

\* A worker that has a thread is told to exit by the call that waits for it,
\* and only one that was told to drains its queue.  The destructor leaves no
\* worker with a thread behind it.
StoppedAt(w) ==
  /\ mExit[w] /\ thread[w] # "none" => Leaving(w)
  /\ mExitAfterAllTasks[w] /\ thread[w] # "none" => owner.op = "joinAll" /\ w = owner.next
  /\ wpc[w] \in {"drain", "drainCancel"} => mExit[w]
  /\ thread[w] = "finished" => mExit[w]
  /\ owner.op \in {"destroy", "destroyJoin"} /\ w < owner.next => thread[w] = "none"
  /\ owner.op \in {"dying", "gone"} => thread[w] = "none"

Stopped == \A w \in Workers : StoppedAt(w)

LEMMA StoppedInit == Init => Stopped
BY DEF Init, Stopped, StoppedAt

LEMMA WorkersAreNatural == Workers \subseteq Nat
BY NumWorkersAssumption DEF Workers

LEMMA NextWorkerEffect ==
  ASSUME NEW w \in Workers, NEW op, NEW after, NextWorker(w, op, after)
  PROVE  \/ owner'.op = op /\ owner'.next = w + 1
         \/ owner'.op = after /\ owner'.next = 0 /\ \A u \in Workers : u <= w
BY NumWorkersAssumption DEF NextWorker, Workers

\* The flags and the thread of a worker change by these steps of it only.
LEMMA FlagMoves ==
  ASSUME NEW w \in Workers, ThreadStep(w)
  PROVE  \/ mExit' = mExit /\ thread' = thread
         \/ TestExitAfter(w) \/ Ends(w)
<1> USE DEF workerVars
<1>1. CASE EndRetry(w) \/ Passes(w) \/ Runs(w) \/ Works(w) \/ Takes(w)
  BY <1>1 DEF EndRetry, Passes, TestExit, PopFails, Runs, TestDependencies, RunFunction, NoSteal,
              GoOn, Sleep, WakeUp, Goto, Works, Begin, DependsUnfinish, Finish, DrainCancel,
              Takes, PopTakes, DrainTakes, TakeHead
<1>2. CASE Releases(w) \/ Steals(w)
  BY <1>2 DEF Releases, EndIteration, LeaveIdle, Release, Steals, ChooseVictim, Steal, Keep,
              GiveBack, StealPush
<1> QED
  BY <1>1, <1>2 DEF ThreadStep

\* How a thread gets to where it drains its queue.
LEMMA DrainMoves ==
  ASSUME Control, NEW w \in Workers, ThreadStep(w), wpc'[w] \in {"drain", "drainCancel"}
  PROVE  \/ TestExitAfter(w)
         \/ TestExit(w) /\ mExit[w]
         \/ DrainTakes(w)
<1>0. wpc \in [Workers -> WorkerLocation]
  BY DEF Control, RunOK
<1>1. CASE EndRetry(w)
  BY <1>1, EndRetryEffect
<1>2. CASE Passes(w)
  BY <1>0, <1>2 DEF Passes, TestExit, PopFails, NoSteal, GoOn, Sleep, WakeUp, Goto
<1>3. CASE Runs(w)
  BY <1>0, <1>3 DEF Runs, TestDependencies, RunFunction, Goto
<1>4. CASE Works(w)
  BY <1>0, <1>4 DEF Works, Begin, DependsUnfinish, Finish, DrainCancel
<1>5. CASE Takes(w)
  BY <1>0, <1>5 DEF Takes, PopTakes, DrainTakes, TakeHead
<1>6. CASE Releases(w)
  BY <1>6, ReleasesEffect DEF Retried, NotRetried
<1>7. CASE ChooseVictim(w) \/ Ends(w)
  BY <1>0, <1>7 DEF ChooseVictim, Ends
<1>8. CASE Steal(w)
  BY <1>8, StealEffect DEF StolenNothing, StolenOne
<1>9. CASE Keep(w) \/ GiveBack(w)
  BY <1>0, <1>9 DEF Keep, GiveBack, StealPush
<1> QED
  BY <1>1, <1>2, <1>3, <1>4, <1>5, <1>6, <1>7, <1>8, <1>9 DEF ThreadStep, Steals

LEMMA StoppedThread ==
  ASSUME Control, Stopped, NEW w \in Workers, ThreadStep(w)
  PROVE  Stopped'
<1>0. /\ mExit \in [Workers -> BOOLEAN] /\ wpc \in [Workers -> WorkerLocation]
      /\ thread \in [Workers -> {"none", "running", "finished"}]
      /\ UNCHANGED <<owner, mExitAfterAllTasks>>
      /\ wpc[w] = "off" <=> thread[w] # "running"
  BY ThreadFrame DEF Control, FlagOK, RunOK, RunAt
<1>1. /\ \A u \in Workers \ {w} : mExit'[u] = mExit[u] /\ thread'[u] = thread[u] /\ wpc'[u] = wpc[u]
      /\ \/ mExit'[w] = mExit[w] /\ thread'[w] = thread[w]
         \/ /\ mExit'[w] /\ thread'[w] = thread[w] /\ mExitAfterAllTasks[w]
            /\ wpc[w] = "testExitAfter"
         \/ mExit'[w] = mExit[w] /\ thread'[w] = "finished" /\ wpc[w] = "drain" /\ wpc'[w] = "off"
  <2>1. CASE mExit' = mExit /\ thread' = thread
    BY <2>1, OnlyMoves
  <2>2. CASE TestExitAfter(w)
    BY <1>0, <2>2, OnlyMoves DEF TestExitAfter, At
  <2>3. CASE Ends(w)
    BY <1>0, <2>3, OnlyMoves DEF Ends, At
  <2> QED
    BY <2>1, <2>2, <2>3, FlagMoves
<1>2. wpc'[w] \in {"drain", "drainCancel"} => mExit'[w]
  <2>1. CASE TestExitAfter(w)
    BY <1>0, <2>1 DEF TestExitAfter
  <2>2. CASE TestExit(w) /\ mExit[w]
    BY <2>2 DEF TestExit, Goto, workerVars
  <2>3. CASE DrainTakes(w)
    BY <2>3 DEF DrainTakes, TakeHead, At, workerVars, Stopped, StoppedAt
  <2> QED
    BY <2>1, <2>2, <2>3, DrainMoves
<1>3. ASSUME NEW u \in Workers \ {w} PROVE StoppedAt(u)'
  BY <1>0, <1>1 DEF Stopped, StoppedAt, Leaving
<1>4. StoppedAt(w)'
  BY <1>0, <1>1, <1>2 DEF Stopped, StoppedAt, Leaving
<1> QED
  BY <1>3, <1>4 DEF Stopped

LEMMA StoppedOwner == Control /\ Stopped /\ OwnerGoesOn => Stopped'
<1> SUFFICES ASSUME Control, Stopped, OwnerGoesOn PROVE Stopped'
  OBVIOUS
<1>0. /\ mExit \in [Workers -> BOOLEAN] /\ mExitAfterAllTasks \in [Workers -> BOOLEAN]
      /\ thread \in [Workers -> {"none", "running", "finished"}]
      /\ wpc \in [Workers -> WorkerLocation]
      /\ \A w \in Workers : wpc[w] = "off" <=> thread[w] # "running"
      /\ owner \in [op : {"free", "add", "start", "exit", "join", "exitAll", "joinAll", "destroy",
                          "destroyJoin", "dying", "gone"},
                    next : Workers]
  BY DEF Control, FlagOK, RunOK, RunAt, OwnerOK
<1> USE <1>0, WorkersAreNatural DEF Stopped, StoppedAt, Leaving
<1>1. ASSUME NEW op \in OwnerCalls, CallOwner(op) PROVE Stopped'
  <2>1. /\ owner.op = "free" /\ owner'.op = op /\ owner'.next = 0
        /\ op \in {"start", "exit", "exitAll", "destroy"}
        /\ UNCHANGED <<mExit, mExitAfterAllTasks, thread, wpc>>
    BY <1>1, OwnerCallsAssumption DEF CallOwner, workerVars, runVars
  <2> QED
    BY <2>1
<1>2. ASSUME NEW w \in Workers, StartWorker(w) PROVE Stopped'
  <2>1. /\ owner.op = "start" /\ owner'.op \in {"start", "free"}
    BY <1>2, NextWorkerEffect DEF StartWorker
  <2>2. CASE thread[w] = "none"
    <3>1. /\ \A u \in Workers \ {w} : /\ mExit'[u] = mExit[u] /\ thread'[u] = thread[u]
                                      /\ mExitAfterAllTasks'[u] = mExitAfterAllTasks[u]
                                      /\ wpc'[u] = wpc[u]
          /\ ~mExit'[w] /\ ~mExitAfterAllTasks'[w] /\ thread'[w] = "running" /\ wpc'[w] = "loop"
      BY <1>2, <2>2 DEF StartWorker
    <3> QED
      BY <2>1, <3>1
  <2>3. CASE thread[w] # "none"
    <3>1. UNCHANGED <<mExit, mExitAfterAllTasks, thread, wpc>>
      BY <1>2, <2>3 DEF StartWorker, workerVars
    <3> QED
      BY <2>1, <3>1
  <2> QED
    BY <2>2, <2>3
<1>3. ASSUME NEW w \in Workers, ExitWorker(w) PROVE Stopped'
  <2>1. /\ owner.op = "exit" /\ owner.next = w
        /\ mExit' = [mExit EXCEPT ![w] = TRUE]
        /\ NextWorker(w, "exit", "join")
        /\ UNCHANGED <<mExitAfterAllTasks, thread, wpc>>
    BY <1>3 DEF ExitWorker, runVars
  <2>2. \/ owner'.op = "exit" /\ owner'.next = w + 1
        \/ owner'.op = "join" /\ owner'.next = 0
    BY <2>1, NextWorkerEffect
  <2> QED
    BY <2>1, <2>2
<1>4. ASSUME NEW w \in Workers, ExitAllWorker(w) PROVE Stopped'
  <2>1. /\ owner.op = "exitAll" /\ owner.next = w /\ owner'.op = "joinAll" /\ owner'.next = w
        /\ mExitAfterAllTasks' = [mExitAfterAllTasks EXCEPT ![w] = TRUE]
        /\ UNCHANGED <<mExit, thread, wpc>>
    BY <1>4 DEF ExitAllWorker, runVars
  <2> QED
    BY <2>1
<1>5. ASSUME NEW w \in Workers, DestroyWorker(w) PROVE Stopped'
  <2>1. /\ owner.op = "destroy" /\ owner.next = w
        /\ UNCHANGED <<mExitAfterAllTasks, thread, wpc>>
    BY <1>5 DEF DestroyWorker, runVars
  <2>2. CASE thread[w] = "none"
    <3>1. /\ mExit' = mExit
          /\ \/ owner'.op = "destroy" /\ owner'.next = w + 1
             \/ owner'.op = "dying" /\ \A u \in Workers : u <= w
      BY <1>5, <2>2, NextWorkerEffect DEF DestroyWorker
    <3>2. \A u \in Workers : u <= w => thread[u] = "none"
      BY <2>1, <2>2
    <3> QED
      BY <2>1, <3>1, <3>2
  <2>3. CASE thread[w] # "none"
    <3>1. mExit' = [mExit EXCEPT ![w] = TRUE] /\ owner'.op = "destroyJoin" /\ owner'.next = w
      BY <1>5, <2>3 DEF DestroyWorker
    <3> QED
      BY <2>1, <3>1
  <2> QED
    BY <2>2, <2>3
<1>6. ASSUME NEW w \in Workers, JoinWorker(w) PROVE Stopped'
  <2>1. /\ owner.next = w
        /\ \A u \in Workers \ {w} : thread'[u] = thread[u]
        /\ thread'[w] = "none" /\ thread[w] # "running"
        /\ UNCHANGED <<mExit, mExitAfterAllTasks, wpc>>
    BY <1>6 DEF JoinWorker, runVars
  <2>2. CASE owner.op = "join"
    <3>1. \/ owner'.op = "join" /\ owner'.next = w + 1
          \/ owner'.op = "free" /\ \A u \in Workers : u <= w
      BY <1>6, <2>2, NextWorkerEffect DEF JoinWorker
    <3> QED
      BY <2>1, <2>2, <3>1
  <2>3. CASE owner.op = "joinAll"
    <3>1. owner'.op \in {"exitAll", "free"}
      BY <1>6, <2>3, NextWorkerEffect DEF JoinWorker
    <3> QED
      BY <2>1, <2>3, <3>1
  <2>4. CASE owner.op = "destroyJoin"
    <3>1. \/ owner'.op = "destroy" /\ owner'.next = w + 1
          \/ owner'.op = "dying" /\ \A u \in Workers : u <= w
      BY <1>6, <2>4, NextWorkerEffect DEF JoinWorker
    <3> QED
      BY <2>1, <2>4, <3>1
  <2> QED
    BY <1>6, <2>2, <2>3, <2>4 DEF JoinWorker
<1> QED
  BY <1>1, <1>2, <1>3, <1>4, <1>5, <1>6 DEF OwnerGoesOn

\* The other steps leave the workers' threads alone; addTask is no call that stops.
LEMMA OthersFrame ==
  ASSUME Control, [Next]_vars
  PROVE  \/ \E w \in Workers : ThreadStep(w)
         \/ OwnerGoesOn
         \/ /\ UNCHANGED <<mExit, mExitAfterAllTasks, thread, wpc, taken>>
            /\ \/ owner' = owner
               \/ {owner.op, owner'.op} \subseteq {"free", "add"}
               \/ {owner.op, owner'.op} \subseteq {"dying", "gone"}
<1> DEFINE Quiet == /\ UNCHANGED <<mExit, mExitAfterAllTasks, thread, wpc, taken>>
                    /\ \/ owner' = owner
                       \/ {owner.op, owner'.op} \subseteq {"free", "add"}
                       \/ {owner.op, owner'.op} \subseteq {"dying", "gone"}
<1> USE DEF workerVars, runVars, userVars
<1>1. ASSUME NEW a \in Actors, CallStep(a) PROVE Quiet
  BY <1>1 DEF CallStep, Pick, PickFails, Reset, Scan, Post, PostRefused
<1>2. ASSUME NEW t \in Tasks, AddTask(t) PROVE Quiet
  BY <1>2, AddTaskEffect
<1>3. CASE AddReturns \/ AddRefused
  <2>1. call[Owner].at # "none"
    BY <1>3 DEF AddReturns, AddRefused, InCall
  <2>2. owner.op = "add"
    BY <2>1 DEF Control, CallOK
  <2> QED
    BY <1>3, <2>2, AddOverEffect
<1>4. ASSUME NEW t \in Tasks, Cancel(t) PROVE Quiet
  BY <1>4 DEF Cancel
<1>5. CASE WaiterMoves
  BY <1>5 DEF WaiterMoves, CallWait, WaiterStep, TestDepends, TestQueuing, TestRunning, InnerWait,
              LeaveWait, WaitGoto
<1>6. CASE UNCHANGED vars
  BY <1>6 DEF vars
<1>7. CASE DestroyWorkers
  BY <1>7, DestroyWorkersEffect DEF Control, OwnerOK
<1> QED
  BY <1>1, <1>2, <1>3, <1>4, <1>5, <1>6, <1>7, StepCases, UnwantedAssumption

LEMMA StoppedStep == Control /\ Stopped /\ [Next]_vars => Stopped'
<1> SUFFICES ASSUME Control, Stopped, [Next]_vars PROVE Stopped'
  OBVIOUS
<1>1. CASE /\ UNCHANGED <<mExit, mExitAfterAllTasks, thread, wpc, taken>>
           /\ \/ owner' = owner
              \/ {owner.op, owner'.op} \subseteq {"free", "add"}
              \/ {owner.op, owner'.op} \subseteq {"dying", "gone"}
  BY <1>1 DEF Stopped, StoppedAt, Leaving
<1> QED
  BY <1>1, StoppedThread, StoppedOwner, OthersFrame

\* stopAndwaitAll is waiting for the worker, which has found its queue empty.
Emptied(w) == owner.op = "joinAll" /\ owner.next = w /\ thread[w] # "none" /\ mExit[w]

OnlyMoved(w) == \A t \in Tasks : InQueue(queue, t, w) => Moved(t) \/ t \in unserved[w]

\* Where the thread of such a worker can be.
Draining == {"drain", "drainCancel", "destroy", "retry", "loop", "off"}

MovedSince ==
  \A w \in Workers :
    /\ thread[w] # "running" \/ Emptied(w) => OnlyMoved(w)
    /\ Emptied(w) => wpc[w] \in Draining /\ (wpc[w] = "drainCancel" => Moved(taken[w]))
    /\ thread[w] # "none" => unserved[w] = {}

LEMMA MovedInit == Init => MovedSince
<1>1. ASSUME Init, NEW w \in Workers PROVE OnlyMoved(w)
  BY <1>1, EmptySeq DEF Init, OnlyMoved, InQueue
<1> QED
  BY <1>1 DEF Init, MovedSince, Emptied

LEMMA MovedStays ==
  ASSUME Control, TasksSound, [Next]_vars, NEW t \in Tasks, Moved(t)
  PROVE  Moved(t)'
<1>1. returned \subseteq returned'
  <2>1. ASSUME NEW w \in Workers, EndRetry(w) \/ Releases(w) \/ GiveBack(w)
        PROVE  returned \subseteq returned'
    BY <2>1, EndRetryEffect, ReleasesEffect, GiveBackEffect DEF history
  <2>2. ASSUME NEW x \in Tasks, AddTask(x) PROVE returned' = returned
    BY <2>2 DEF AddTask, history
  <2>3. CASE AddReturns \/ AddRefused \/ OwnerGoesOn
    BY <2>3, OwnerGoesOnEffect DEF AddReturns, AddRefused, history
  <2> QED
    BY <2>1, <2>2, <2>3, UserFrame, DestroyWorkersEffect
<1> QED
  BY <1>1, RetriesGrow DEF Moved

\* A worker's entries in unserved stay until it is started.
LEMMA UnservedStays ==
  ASSUME Control, [Next]_vars, NEW w \in Workers, thread'[w] # "running"
  PROVE  unserved[w] \subseteq unserved'[w]
<1>0. unserved \in [Workers -> SUBSET Tasks] /\ thread \in [Workers -> {"none", "running", "finished"}]
  BY DEF Control, UnservedOK, RunOK
<1>1. ASSUME NEW a \in Actors, Post(a) PROVE unserved[w] \subseteq unserved'[w]
  BY <1>0, <1>1 DEF Post
<1>2. ASSUME NEW v \in Workers, StartWorker(v) PROVE unserved[w] \subseteq unserved'[w]
  BY <1>0, <1>2 DEF StartWorker
<1> QED
  BY <1>1, <1>2, UnservedFrame

\* Nothing is added behind the back of a thread: those that have ended have
\* been told to, and addTask is not called meanwhile.
LEMMA ServedStep ==
  ASSUME Control, Stopped, MovedSince, [Next]_vars, NEW w \in Workers, thread'[w] # "none"
  PROVE  unserved'[w] = {}
<1>0. /\ unserved \in [Workers -> SUBSET Tasks]
      /\ thread \in [Workers -> {"none", "running", "finished"}]
      /\ thread[w] # "none" => unserved[w] = {}
  BY DEF Control, UnservedOK, RunOK, MovedSince
<1>1. ASSUME NEW a \in Actors, Post(a) PROVE unserved'[w] = {}
  <2>1. thread' = thread /\ call[a].at = "post"
    BY <1>1 DEF Post, workerVars, InCall
  <2>2. a = Owner => thread[w] # "finished"
    BY <2>1 DEF Control, CallOK, Stopped, StoppedAt, Leaving
  <2> QED
    BY <1>0, <1>1, <2>1, <2>2 DEF Post
<1>2. ASSUME NEW v \in Workers, StartWorker(v) PROVE unserved'[w] = {}
  BY <1>0, <1>2 DEF StartWorker, workerVars
<1>3. CASE unserved' = unserved /\ ~ \E v \in Workers : StartWorker(v)
  <2>1. ASSUME NEW v \in Workers, ThreadStep(v) PROVE thread[w] # "none"
    <3>1. CASE Ends(v)
      <4>1. thread[v] = "running" /\ thread' = [thread EXCEPT ![v] = "finished"]
        BY <3>1 DEF Ends, At, Control, RunOK, RunAt
      <4> QED
        BY <1>0, <4>1
    <3> QED
      BY <2>1, <3>1, FlagMoves DEF TestExitAfter
  <2>2. ASSUME NEW v \in Workers, JoinWorker(v) PROVE thread[w] # "none"
    BY <1>0, <2>2 DEF JoinWorker
  <2> QED
    BY <1>0, <1>3, <2>1, <2>2, RunFrame
<1> QED
  BY <1>1, <1>2, <1>3, UnservedFrame

LEMMA PopShrinks ==
  ASSUME Control, NEW v \in Workers, queue[v] # <<>>, Pop(v),
         NEW t \in Tasks, NEW w \in Workers, InQueue(queue', t, w)
  PROVE  InQueue(queue, t, w)
BY PopMoves DEF Control, QueueOK

\* Only a retry, a thief and, without a thread, addTask bring a task to a worker
\* that is leaving.
LEMMA EntersMoved ==
  ASSUME Control, TasksSound, Dependent, Stopped, MovedSince, [Next]_vars,
         NEW w \in Workers, thread[w] # "running" \/ Emptied(w),
         NEW t \in Tasks, InQueue(queue', t, w), ~InQueue(queue, t, w)
  PROVE  Moved(t)' \/ t \in unserved'[w]
<1>0. /\ queue \in [Workers -> Seq(Tasks)]
      /\ Emptied(w) => owner.op # "add"
      /\ wpc[w] # "stealPush"
  BY DEF Control, QueueOK, RunOK, RunAt, Emptied, MovedSince, Draining
<1>1. ASSUME NEW a \in Actors, Post(a) PROVE Moved(t)' \/ t \in unserved'[w]
  <2>1. /\ call[a].at = "post" /\ call[a].task \in Tasks /\ call[a].target \in Workers
        /\ Push(call[a].target, call[a].task)
    BY <1>1, PostEffect
  <2>2. t = call[a].task /\ w = call[a].target
    BY <1>0, <2>1, PushMoves
  <2>3. CASE a = Owner
    <3>1. thread[w] # "running"
      BY <1>0, <2>1, <2>3 DEF Control, CallOK
    <3> QED
      BY <1>1, <2>2, <2>3, <3>1 DEF Post, Control, UnservedOK
  <2>4. CASE a # Owner
    BY <2>1, <2>2, <2>4, MovedStays DEF Dependent, Moved, Actors
  <2> QED
    BY <2>3, <2>4
<1>2. ASSUME NEW v \in Workers, Takes(v) PROVE FALSE
  <2>1. queue[v] # <<>> /\ Pop(v)
    BY <1>2 DEF Takes, PopTakes, DrainTakes, TakeHead
  <2> QED
    BY <2>1, PopShrinks
<1>3. ASSUME NEW v \in Workers, Steal(v) PROVE FALSE
  <2>1. CASE StolenNothing(v)
    BY <2>1 DEF StolenNothing
  <2>2. CASE StolenOne(v)
    <3>1. victim[v] \in Workers /\ queue[victim[v]] # <<>> /\ Pop(victim[v])
      BY <1>3, <2>2, StealEffect DEF StolenOne
    <3> QED
      BY <3>1, PopShrinks
  <2> QED
    BY <1>3, <2>1, <2>2, StealEffect
<1>4. ASSUME NEW v \in Workers, Keep(v) PROVE FALSE
  <2>1. wpc[v] = "stealPush" /\ taken[v] \in Tasks
    BY <1>4, CarriesTask DEF Keep, StealPush, At, Control, Carrying
  <2>2. queue' = queue \/ Push(v, taken[v])
    BY <1>4 DEF Keep, StealPush
  <2>3. w = v
    BY <1>0, <2>1, <2>2, PushMoves
  <2> QED
    BY <1>0, <2>1, <2>3
<1>5. ASSUME NEW v \in Workers, GiveBack(v) PROVE Moved(t)'
  <2>1. victim[v] \in Workers /\ taken[v] \in Tasks
    BY <1>5, GiveBackEffect, CarriesTask DEF GiveBack, StealPush, At, Control, Carrying
  <2>2. \/ queue' = queue
        \/ Push(victim[v], taken[v]) /\ taken[v] \in returned'
    BY <1>5 DEF GiveBack, StealPush
  <2>3. taken[v] = t /\ t \in returned'
    BY <1>0, <2>1, <2>2, PushMoves
  <2> QED
    BY <2>3 DEF Moved
<1>6. CASE DestroyWorkers
  BY <1>6, DestroyWorkersEffect, EmptySeq DEF InQueue
<1> QED
  BY <1>1, <1>2, <1>3, <1>4, <1>5, <1>6, QueueFrame

\* A worker gets there with an empty queue.
LEMMA StopMoves ==
  ASSUME Control, Stopped, [Next]_vars, NEW w \in Workers
  PROVE  /\ thread'[w] # "running" => thread[w] # "running" \/ Ends(w)
         /\ Emptied(w)' => Emptied(w) \/ TestExitAfter(w)
<1>1. ASSUME NEW v \in Workers, ThreadStep(v)
      PROVE  /\ thread'[w] # "running" => thread[w] # "running" \/ Ends(w)
             /\ Emptied(w)' => Emptied(w) \/ TestExitAfter(w)
  <2>0. /\ owner' = owner /\ mExit \in [Workers -> BOOLEAN]
        /\ thread \in [Workers -> {"none", "running", "finished"}]
        /\ wpc[v] = "off" <=> thread[v] # "running"
    BY <1>1, ThreadFrame DEF Control, FlagOK, RunOK, RunAt
  <2>1. CASE mExit' = mExit /\ thread' = thread
    BY <2>0, <2>1 DEF Emptied
  <2>2. CASE TestExitAfter(v)
    <3>1. mExit' = [mExit EXCEPT ![v] = TRUE] /\ thread' = thread
      BY <2>2 DEF TestExitAfter
    <3>2. v # w => mExit'[w] = mExit[w]
      BY <2>0, <3>1
    <3> QED
      BY <2>0, <2>2, <3>1, <3>2 DEF Emptied
  <2>3. CASE Ends(v)
    <3>1. thread' = [thread EXCEPT ![v] = "finished"] /\ mExit' = mExit /\ wpc[v] = "drain"
      BY <2>3 DEF Ends, At
    <3>2. (v # w => thread'[w] = thread[w]) /\ thread[v] # "none"
      BY <2>0, <3>1
    <3> QED
      BY <2>0, <2>3, <3>1, <3>2 DEF Emptied
  <2> QED
    BY <1>1, <2>1, <2>2, <2>3, FlagMoves
<1>2. CASE OwnerGoesOn
  <2>1. thread'[w] # "running" => thread[w] # "running"
    BY <1>2 DEF OwnerGoesOn, CallOwner, StartWorker, ExitWorker, ExitAllWorker, DestroyWorker,
                JoinWorker, Control, RunOK, workerVars
  <2>2. ~Emptied(w)'
    <3> SUFFICES ASSUME Emptied(w)' PROVE FALSE
      OBVIOUS
    <3>1. PICK v \in Workers : ExitAllWorker(v)
      <4>1. ~ \E op \in OwnerCalls : CallOwner(op)
        BY OwnerCallsAssumption DEF CallOwner, Emptied
      <4>2. ASSUME NEW v \in Workers, StartWorker(v) \/ ExitWorker(v) PROVE FALSE
        BY <4>2, NextWorkerEffect DEF StartWorker, ExitWorker, Emptied
      <4>3. ASSUME NEW v \in Workers, DestroyWorker(v) PROVE FALSE
        <5>1. CASE thread[v] = "none"
          BY <4>3, <5>1, NextWorkerEffect DEF DestroyWorker, Emptied
        <5>2. CASE thread[v] # "none"
          <6>1. owner'.op = "destroyJoin"
            BY <4>3, <5>2 DEF DestroyWorker, Control, OwnerOK
          <6> QED
            BY <6>1 DEF Emptied
        <5> QED
          BY <5>1, <5>2
      <4>4. ASSUME NEW v \in Workers, JoinWorker(v) PROVE FALSE
        <5>1. \/ NextWorker(v, "join", "free")
              \/ NextWorker(v, "exitAll", "free")
              \/ NextWorker(v, "destroy", "dying")
          BY <4>4 DEF JoinWorker
        <5>2. owner'.op \in {"join", "free", "exitAll", "destroy", "dying"}
          BY <5>1, NextWorkerEffect
        <5> QED
          BY <5>2 DEF Emptied
      <4> QED
        BY <1>2, <4>1, <4>2, <4>3, <4>4 DEF OwnerGoesOn
    <3>2. owner.op = "exitAll" /\ mExit' = mExit /\ thread' = thread
      BY <3>1 DEF ExitAllWorker
    <3> QED
      BY <3>2 DEF Emptied, Stopped, StoppedAt, Leaving
  <2> QED
    BY <2>1, <2>2
<1>3. CASE /\ UNCHANGED <<mExit, mExitAfterAllTasks, thread, wpc, taken>>
           /\ \/ owner' = owner
              \/ {owner.op, owner'.op} \subseteq {"free", "add"}
              \/ {owner.op, owner'.op} \subseteq {"dying", "gone"}
  BY <1>3 DEF Emptied
<1> QED
  BY <1>1, <1>2, <1>3, OthersFrame

\* A thread that drains its queue goes on with that.
LEMMA DrainingMoves ==
  ASSUME Control, NEW w \in Workers, ThreadStep(w), wpc[w] \in Draining, mExit[w]
  PROVE  wpc'[w] \in Draining
<1>0. wpc \in [Workers -> WorkerLocation]
  BY DEF Control, RunOK
<1> USE <1>0 DEF Draining
<1>1. CASE EndRetry(w)
  BY <1>1, EndRetryEffect
<1>2. CASE Passes(w)
  BY <1>2 DEF Passes, TestExit, PopFails, NoSteal, GoOn, Sleep, WakeUp, Goto, At
<1>3. CASE Runs(w)
  BY <1>3 DEF Runs, TestDependencies, RunFunction, At
<1>4. CASE Works(w)
  BY <1>4 DEF Works, Begin, DependsUnfinish, Finish, DrainCancel, At
<1>5. CASE Takes(w)
  BY <1>5 DEF Takes, PopTakes, DrainTakes, TakeHead, At
<1>6. CASE Releases(w)
  BY <1>6 DEF Releases, EndIteration, LeaveIdle, Release, At
<1>7. CASE ChooseVictim(w) \/ TestExitAfter(w) \/ Ends(w)
  BY <1>7 DEF ChooseVictim, TestExitAfter, Ends, At
<1>8. CASE Steal(w) \/ Keep(w) \/ GiveBack(w)
  BY <1>8 DEF Steal, Keep, GiveBack, StealPush, At
<1> QED
  BY <1>1, <1>2, <1>3, <1>4, <1>5, <1>6, <1>7, <1>8 DEF ThreadStep, Steals

\* The owner leaves the threads where they are, but for those it starts.
LEMMA OwnerLeaves ==
  ASSUME Control, OwnerGoesOn, NEW w \in Workers
  PROVE  wpc'[w] \in {wpc[w], "loop"} /\ taken'[w] = taken[w]
<1>1. taken' = taken
  BY OwnerGoesOnEffect
<1>2. wpc'[w] \in {wpc[w], "loop"}
  BY DEF OwnerGoesOn, CallOwner, StartWorker, ExitWorker, ExitAllWorker, DestroyWorker, JoinWorker,
         Control, RunOK, runVars
<1> QED
  BY <1>1, <1>2

LEMMA MovedStep ==
  Control /\ TasksSound /\ Dependent /\ Stopped /\ MovedSince /\ [Next]_vars => MovedSince'
<1> SUFFICES ASSUME Control, TasksSound, Dependent, Stopped, MovedSince, [Next]_vars,
                    NEW w \in Workers
             PROVE  /\ thread'[w] # "running" \/ Emptied(w)' => OnlyMoved(w)'
                    /\ Emptied(w)' => /\ wpc'[w] \in Draining
                                      /\ wpc'[w] = "drainCancel" => Moved(taken[w])'
                    /\ thread'[w] # "none" => unserved'[w] = {}
  BY DEF MovedSince, Emptied, OnlyMoved, Moved
<1>1. ASSUME TestExitAfter(w) \/ Ends(w), NEW t \in Tasks PROVE ~InQueue(queue', t, w)
  <2>1. queue' = queue /\ queue[w] = <<>>
    BY <1>1 DEF TestExitAfter, Ends
  <2> QED
    BY <2>1, EmptySeq DEF InQueue
<1>2. ASSUME thread[w] # "running" \/ Emptied(w), thread'[w] # "running" \/ Emptied(w)',
             NEW t \in Tasks, InQueue(queue', t, w)
      PROVE  Moved(t)' \/ t \in unserved'[w]
  <2>1. CASE ~InQueue(queue, t, w)
    BY <1>2, <2>1, EntersMoved
  <2>2. CASE InQueue(queue, t, w) /\ Moved(t)
    BY <2>2, MovedStays
  <2>3. CASE t \in unserved[w]
    <3>1. thread[w] = "none"
      BY <2>3 DEF MovedSince
    <3>2. thread'[w] # "running"
      BY <1>2, <3>1, StopMoves DEF Emptied, TestExitAfter, At, Control, RunOK, RunAt
    <3> QED
      BY <2>3, <3>2, UnservedStays
  <2> QED
    BY <1>2, <2>1, <2>2, <2>3 DEF MovedSince, OnlyMoved
<1>3. thread'[w] # "running" \/ Emptied(w)' => OnlyMoved(w)'
  BY <1>1, <1>2, StopMoves DEF OnlyMoved
<1>4. ASSUME Emptied(w)'
      PROVE  wpc'[w] \in Draining /\ (wpc'[w] = "drainCancel" => Moved(taken[w])')
  <2>1. CASE TestExitAfter(w)
    BY <2>1 DEF TestExitAfter, Control, RunOK, Draining
  <2>2. CASE Emptied(w)
    <3>1. wpc[w] \in Draining /\ (wpc[w] = "drainCancel" => Moved(taken[w])) /\ mExit[w]
      BY <2>2 DEF MovedSince, Emptied
    <3>2. CASE /\ wpc'[w] \in {wpc[w], "loop"} /\ taken'[w] = taken[w]
      <4>1. wpc[w] = "drainCancel" => taken[w] \in Tasks
        BY CarriesTask DEF Control, Carrying
      <4> QED
        BY <3>1, <3>2, <4>1, MovedStays DEF Draining, Moved
    <3>3. CASE ThreadStep(w)
      <4>1. wpc'[w] \in Draining
        BY <3>1, <3>3, DrainingMoves
      <4>2. ASSUME wpc'[w] = "drainCancel" PROVE Moved(taken[w])'
        <5>1. DrainTakes(w)
          BY <3>3, <4>2, DrainMoves DEF TestExitAfter, TestExit, Goto, Control, RunOK
        <5>2. queue[w] # <<>> /\ Pop(w) /\ queue[w][1] \in Tasks /\ taken'[w] = queue[w][1]
          BY <5>1, TakeHeadEffect DEF DrainTakes, WorkerLocation
        <5>3. InQueue(queue, queue[w][1], w)
          BY <5>2, PopMoves DEF Control, QueueOK
        <5>4. Moved(queue[w][1])
          BY <2>2, <5>2, <5>3 DEF MovedSince, OnlyMoved, Emptied
        <5> PICK t \in Tasks : t = queue[w][1]
          BY <5>2
        <5>5. Moved(t)'
          BY <5>4, MovedStays
        <5> QED
          BY <5>2, <5>5 DEF Moved
      <4> QED
        BY <4>1, <4>2
    <3> QED
      BY <3>2, <3>3, OthersFrame, OnlyMoves, OwnerLeaves
  <2> QED
    BY <1>4, <2>1, <2>2, StopMoves
<1> QED
  BY <1>3, <1>4, ServedStep

LEMMA StoppingInvariant == Spec => [](Control /\ TasksSound /\ Dependent /\ Stopped /\ MovedSince)
BY ControlInit, ControlStep, TasksSoundInit, TasksSoundStep, DependentInit, DependentStep,
   StoppedInit, StoppedStep, MovedInit, MovedStep, PTL
   DEF Spec

\* What is in the queue of a worker without a thread was moved there, by the retry
\* of a dependent task or by a thief, or added since the thread was joined; the
\* worker has cancelled all others.
THEOREM OnlyMovedAreStranded == Spec => []StrandedWereMoved
<1>1. Control /\ MovedSince => StrandedWereMoved
  <2> SUFFICES ASSUME Control, MovedSince, NEW w \in Workers, thread[w] # "running",
                      NEW n \in DOMAIN queue[w]
               PROVE  Moved(queue[w][n]) \/ queue[w][n] \in unserved[w]
    BY DEF StrandedWereMoved
  <2>1. queue[w] \in Seq(Tasks)
    BY DEF Control, QueueOK
  <2>2. n \in 1 .. Len(queue[w]) /\ queue[w][n] \in Tasks
    BY <2>1, LenProperties, ElementOfSeq
  <2>3. InQueue(queue, queue[w][n], w)
    BY <2>2 DEF InQueue
  <2> QED
    BY <2>2, <2>3 DEF MovedSince, OnlyMoved
<1> QED
  BY <1>1, StoppingInvariant, PTL

\* stopAndwaitAll cancels no task that does not depend on others, unless a
\* thief gave it back to a worker that was already cancelling its queue.
THEOREM StopAndWaitAllRuns == Spec => []StopAndWaitAllRunsIndependent
<1>1. Control /\ Dependent /\ Stopped /\ MovedSince => StopAndWaitAllRunsIndependent
  <2> SUFFICES ASSUME Control, Dependent, Stopped, MovedSince, NEW w \in Workers,
                      owner.op \in {"exitAll", "joinAll"}, wpc[w] = "drainCancel"
               PROVE  dependencies[taken[w]] # {} \/ taken[w] \in returned
    BY DEF StopAndWaitAllRunsIndependent, At
  <2>1. taken[w] \in Tasks /\ thread[w] = "running"
    BY CarriesTask DEF Control, RunOK, RunAt, Carrying
  <2>2. Emptied(w)
    BY <2>1 DEF Stopped, StoppedAt, Leaving, Emptied
  <2>3. Moved(taken[w])
    BY <2>2 DEF MovedSince
  <2> QED
    BY <2>1, <2>3 DEF Moved, Dependent
<1> QED
  BY <1>1, StoppingInvariant, PTL

-----------------------------------------------------------------------------
(* What the destructor leaves behind.                                      *)

Unserved(t) == \E w \in Workers : t \in unserved[w]

\* A task that was not settled when its pool was destroyed was moved, or added
\* to a worker without a thread, unless it was dropped before.
LostWereMoved ==
  Gone => \A t \in Tasks \ dropped :
            added[t] \in {"adding", "yes", "garbage"} /\ state[t] \notin Final
              => Moved(t) \/ Unserved(t)

LEMMA LostInit == Init => LostWereMoved
BY DEF Init, LostWereMoved, Gone

\* With the last thread the pool comes to rest.
LEMMA Rest ==
  ASSUME Control, Stopped, owner.op \in {"dying", "gone"}
  PROVE  /\ \A w \in Workers : thread[w] = "none" /\ wpc[w] = "off" /\ taken[w] = NoTask
         /\ \A a \in Actors : call[a].at = "none" /\ call[a].task = NoTask
<1>1. ASSUME NEW w \in Workers
      PROVE  thread[w] = "none" /\ wpc[w] = "off" /\ taken[w] = NoTask
  <2>1. thread[w] = "none"
    BY DEF Stopped, StoppedAt
  <2> QED
    BY <2>1 DEF Control, RunOK, RunAt, Carrying
<1>2. ASSUME NEW a \in Actors PROVE call[a].at = "none" /\ call[a].task = NoTask
  BY <1>1 DEF Control, CallOK, CallIs, Actors
<1> QED
  BY <1>1, <1>2

\* A destroyed pool does not move; its promises can still be cancelled.
LEMMA GoneFrame ==
  ASSUME Control, Stopped, Gone, [Next]_vars
  PROVE  UNCHANGED <<added, dropped, retryCount, returned, unserved>>
<1> USE DEF userVars, addVars, history, taskVars
<1>0. /\ \A a \in Actors : call[a].at = "none"
      /\ \A w \in Workers : wpc[w] = "off"
      /\ owner.op = "gone" /\ Owner \in Actors
  BY Rest DEF Gone, Actors
<1>1. ASSUME NEW a \in Actors, CallStep(a) PROVE FALSE
  BY <1>0, <1>1 DEF CallStep, Pick, PickFails, Reset, Scan, Post, PostRefused, InCall
<1>2. ASSUME NEW w \in Workers, ThreadStep(w) PROVE FALSE
  BY <1>0, <1>2
     DEF ThreadStep, EndRetry, Passes, TestExit, PopFails, NoSteal, GoOn, Sleep, WakeUp, Runs,
         TestDependencies, RunFunction, Works, Begin, DependsUnfinish, Finish, DrainCancel, Takes,
         PopTakes, DrainTakes, Releases, EndIteration, LeaveIdle, Release, Steals, ChooseVictim,
         Steal, Keep, GiveBack, StealPush, TestExitAfter, Ends, At
<1>3. ASSUME NEW t \in Tasks, AddTask(t) PROVE FALSE
  BY <1>0, <1>3 DEF AddTask
<1>4. CASE AddReturns \/ AddRefused
  BY <1>0, <1>4 DEF AddReturns, AddRefused, InCall
<1>5. CASE OwnerGoesOn \/ DestroyWorkers
  BY <1>0, <1>5 DEF OwnerGoesOn, CallOwner, StartWorker, ExitWorker, ExitAllWorker, DestroyWorker,
                    JoinWorker, DestroyWorkers
<1>6. ASSUME NEW t \in Tasks, Cancel(t) PROVE UNCHANGED <<added, dropped, retryCount, returned, unserved>>
  BY <1>6 DEF Cancel
<1>7. CASE WaiterMoves \/ UNCHANGED vars
  BY <1>7 DEF WaiterMoves, CallWait, WaiterStep, TestDepends, TestQueuing, TestRunning, InnerWait,
              LeaveWait, WaitGoto, vars
<1> QED
  BY <1>1, <1>2, <1>3, <1>4, <1>5, <1>6, <1>7, StepCases, UnwantedAssumption

\* The destructor ends with every task in a queue of a worker without a thread.
LEMMA EndMovesOn ==
  ASSUME Control, TasksSound, Stopped, MovedSince, DestroyWorkers
  PROVE  LostWereMoved'
<1>1. /\ owner.op = "dying"
      /\ UNCHANGED <<added, state, dropped, retryCount, returned, unserved>>
  BY DestroyWorkersEffect
<1>2. ASSUME NEW t \in Tasks \ dropped, added[t] \in {"adding", "yes", "garbage"},
             state[t] \notin Final
      PROVE  Moved(t) \/ Unserved(t)
  <2>1. PICK w \in Workers : InQueue(queue, t, w)
    BY <1>1, <1>2, Rest, NoTaskAssumption
       DEF TasksSound, TaskSound, NotLost, Gone, Distributes
  <2> QED
    BY <1>1, <2>1, Rest DEF MovedSince, OnlyMoved, Unserved
<1> QED
  BY <1>1, <1>2 DEF LostWereMoved, Moved, Unserved

LEMMA LostStep ==
  Control /\ TasksSound /\ Stopped /\ MovedSince /\ LostWereMoved /\ [Next]_vars
    => LostWereMoved'
<1> SUFFICES ASSUME Control, TasksSound, Stopped, MovedSince, LostWereMoved, [Next]_vars
             PROVE  LostWereMoved'
  OBVIOUS
<1>1. CASE Gone
  <2>1. UNCHANGED <<added, dropped, retryCount, returned, unserved>>
    BY <1>1, GoneFrame
  <2>2. \A t \in Tasks : state[t] \in Final => state'[t] \in Final
    BY FinalStays
  <2> QED
    BY <1>1, <2>1, <2>2 DEF LostWereMoved, Moved, Unserved
<1>2. CASE DestroyWorkers
  BY <1>2, EndMovesOn
<1>3. CASE ~Gone /\ ~DestroyWorkers
  <2> USE DEF Gone
  <2>1. ASSUME NEW w \in Workers, EndRetry(w) \/ Releases(w) \/ GiveBack(w) PROVE ~Gone'
    BY <1>3, <2>1, ThreadFrame DEF ThreadStep, Steals
  <2>2. ASSUME NEW t \in Tasks, AddTask(t) PROVE ~Gone'
    BY <2>2 DEF AddTask, Control, OwnerOK
  <2>3. ASSUME AddReturns \/ AddRefused PROVE ~Gone'
    <3>1. owner' = [owner EXCEPT !.op = "free"]
      BY <2>3 DEF AddReturns, AddRefused
    <3> QED
      BY <3>1 DEF Control, OwnerOK
  <2>4. ASSUME OwnerGoesOn PROVE ~Gone'
    <3>1. ASSUME NEW op \in OwnerCalls, CallOwner(op) PROVE ~Gone'
      BY <3>1, OwnerCallsAssumption DEF CallOwner
    <3>2. ASSUME NEW w \in Workers, StartWorker(w) \/ ExitWorker(w) PROVE ~Gone'
      BY <3>2, NextWorkerEffect DEF StartWorker, ExitWorker
    <3>3. ASSUME NEW w \in Workers, ExitAllWorker(w) PROVE ~Gone'
      BY <3>3 DEF ExitAllWorker, Control, OwnerOK
    <3>4. ASSUME NEW w \in Workers, DestroyWorker(w) PROVE ~Gone'
      BY <3>4, NextWorkerEffect DEF DestroyWorker, Control, OwnerOK
    <3>5. ASSUME NEW w \in Workers, JoinWorker(w) PROVE ~Gone'
      <4>1. \/ NextWorker(w, "join", "free")
            \/ NextWorker(w, "exitAll", "free")
            \/ NextWorker(w, "destroy", "dying")
        BY <3>5 DEF JoinWorker
      <4> QED
        BY <4>1, NextWorkerEffect
    <3> QED
      BY <2>4, <3>1, <3>2, <3>3, <3>4, <3>5 DEF OwnerGoesOn
  <2>5. ~Gone'
    BY <1>3, <2>1, <2>2, <2>3, <2>4, UserFrame, DestroyWorkersEffect
  <2> QED
    BY <2>5 DEF LostWereMoved
<1> QED
  BY <1>1, <1>2, <1>3

\* A task that was added is in a queue, or in the hands of a thread, until it
\* is final, unless its deleter met a full queue; what the end of the destructor
\* destroys was moved, or added to a worker without a thread.
THEOREM NothingIsLost == Spec => []NothingLost
<1>1. Control /\ TasksSound /\ LostWereMoved => NothingLost
  <2> SUFFICES ASSUME Control, TasksSound, LostWereMoved, NEW t \in Tasks \ dropped,
                      added[t] \in {"adding", "yes", "garbage"}, state[t] \notin Final,
                      ~ \E w \in Workers : taken[w] = t,
                      ~ (owner.op = "gone" /\ (Moved(t) \/ \E w \in Workers : t \in unserved[w]))
               PROVE  Holders(t) # {}
    BY DEF NothingLost
  <2>1. \/ \E w \in Workers : InQueue(queue, t, w)
        \/ \E a \in Actors : Distributes(t, a)
    BY DEF TasksSound, TaskSound, NotLost, LostWereMoved, Gone, Unserved
  <2>2. ASSUME NEW w \in Workers, InQueue(queue, t, w) PROVE Holders(t) # {}
    <3>1. DOMAIN queue[w] = 1 .. Len(queue[w])
      BY LenProperties DEF Control, QueueOK
    <3>2. PICK n \in DOMAIN queue[w] : queue[w][n] = t
      BY <2>2, <3>1 DEF InQueue
    <3>3. <<"queued", w, n>> \in QueuedAt(t, w)
      BY <3>2 DEF QueuedAt
    <3> QED
      BY <3>3, HoldersAre
  <2>3. ASSUME NEW a \in Actors, Distributes(t, a) PROVE Holders(t) # {}
    <3>1. <<"distributed", a>> \in Distributed(t)
      BY <2>3 DEF Distributed, Distributes
    <3> QED
      BY <3>1, HoldersAre
  <2> QED
    BY <2>1, <2>2, <2>3
<1> QED
  BY <1>1, ControlInit, ControlStep, TasksSoundInit, TasksSoundStep, DependentInit, DependentStep,
     StoppedInit, StoppedStep, MovedInit, MovedStep, LostInit, LostStep, PTL
     DEF Spec

=============================================================================
