----------------------------- MODULE ThreadPool -----------------------------
(***************************************************************************)
(* A ThreadPool (workflows/threadpools.cpp) with the workers that run its  *)
(* tasks: adding a task, the closure that tests its dependencies, the      *)
(* deleter of the closure's description that distributes the task again,   *)
(* work stealing, the two ways to stop, the destructor, and wait().        *)
(*                                                                         *)
(* A promise operation is one step (AtomicPromise), and so is a push, a    *)
(* pop and size().  Which worker a task without specifyWorkerId is given   *)
(* to, and when and from whom an idle worker steals, depends on sizes and  *)
(* idle counts read one after the other; here it may be any worker.  A     *)
(* sleeping worker wakes up when it has a reason to, or never: ThreadWorker*)
(* shows how wake-ups are lost.                                            *)
(***************************************************************************)
EXTENDS Integers, Sequences, FiniteSets, PromiseState

CONSTANTS
  Tasks,
  NoTask,            \* an empty local
  Owner,             \* the thread that adds tasks, starts and stops the pool
  NumWorkers,        \* numThreads
  Capacity,          \* the size of each worker's queue, 1024 in the code
  RetryLimit,        \* 10 in the code
  WorkStealing,      \* start's enableWorkStealing
  dependencies,      \* per task, TaskDescription::dependencies as a set
  specifyWorkerId,   \* per task, -1 unless the user chose a worker
  Waited,            \* bound of the model: the tasks somebody waits for
  Unwanted,          \* bound of the model: the tasks somebody may cancel
  OwnerCalls         \* bound of the model: what the owner calls besides addTask

Workers == 0 .. (NumWorkers - 1)
Actors == Workers \union {Owner}

ASSUME NoTaskAssumption == NoTask \notin Tasks
ASSUME OwnerAssumption == Owner \notin Workers
ASSUME NumWorkersAssumption == NumWorkers \in Nat \ {0}
ASSUME CapacityAssumption == Capacity \in Nat \ {0}
ASSUME RetryLimitAssumption == RetryLimit \in Nat
ASSUME WorkStealingAssumption == WorkStealing \in BOOLEAN
ASSUME DependenciesAssumption == dependencies \in [Tasks -> SUBSET Tasks]
ASSUME SpecifyAssumption == specifyWorkerId \in [Tasks -> Int]
ASSUME WaitedAssumption == Waited \subseteq Tasks
ASSUME UnwantedAssumption == Unwanted \subseteq Tasks
ASSUME OwnerCallsAssumption == OwnerCalls \subseteq {"start", "exit", "exitAll", "destroy"}

VARIABLES
  queue,               \* per worker: mTasks
  mExit,               \* per worker
  mExitAfterAllTasks,  \* per worker
  thread,              \* per worker: "none", "running" or "finished"
  wpc,                 \* per worker: where its thread is
  taken,               \* per worker: its local task, in run or onWorkerIdle
  victim,              \* per worker: idx of onWorkerIdle
  call,                \* per actor: its call of distributeTask
  state,               \* per task: the state of its promise
  retryCount,          \* per task: retryCount, up to RetryLimit + 1
  lastWorker,          \* per task: workerIds().back(), or -1
  added,               \* per task: what addTask has returned
  dangling,            \* the description the owner will read is deleted
  owner,               \* what the owner is doing, and with which worker
  waiter,              \* a thread in ThreadPool::wait, and its task
  dropped,             \* history: the tasks whose retry was refused
  returned,            \* history: the tasks a thief has given back
  unserved             \* history: per worker, the tasks addTask gave it while
                       \* it had no thread

workerVars == <<mExit, mExitAfterAllTasks, thread>>
runVars == <<wpc, taken, victim>>
taskVars == <<state, retryCount, lastWorker>>
addVars == <<added, dangling>>
history == <<dropped, returned, unserved>>
userVars == <<addVars, owner, waiter, history>>
vars == <<queue, workerVars, runVars, call, taskVars, userVars>>

Final == {"Done", "Cancelled"}
NoCall == [at |-> "none", task |-> NoTask, target |-> -1, first |-> FALSE]

Init ==
  /\ queue = [w \in Workers |-> <<>>]
  /\ mExit = [w \in Workers |-> FALSE]
  /\ mExitAfterAllTasks = [w \in Workers |-> FALSE]
  /\ thread = [w \in Workers |-> "none"]
  /\ wpc = [w \in Workers |-> "off"]
  /\ taken = [w \in Workers |-> NoTask]
  /\ victim = [w \in Workers |-> -1]
  /\ call = [a \in Actors |-> NoCall]
  /\ state = [t \in Tasks |-> "Queuing"]
  /\ retryCount = [t \in Tasks |-> 0]
  /\ lastWorker = [t \in Tasks |-> -1]
  /\ added = [t \in Tasks |-> "no"]
  /\ dangling = FALSE
  /\ owner = [op |-> "free", next |-> 0]
  /\ waiter = [at |-> "none", task |-> NoTask]
  /\ dropped = {}
  /\ returned = {}
  /\ unserved = [w \in Workers |-> {}]

\* Operation o on the promise of t: what TaskPromise's loop amounts to.
Perform(o, t) ==
  state' = [state EXCEPT ![t] = IF @ \in Leaves(o) THEN Installs(o) ELSE @]

HasRoom(w) == Len(queue[w]) < Capacity
Push(w, t) == queue' = [queue EXCEPT ![w] = Append(@, t)]
\* Slip: the item stays in its slot.
PopPeeks(w) == queue[w] # <<>> /\ UNCHANGED queue

Pop(w) == queue' = [queue EXCEPT ![w] = Tail(@)]

-----------------------------------------------------------------------------
(* distributeTask with packTask and addTaskImp, called by addTask (Owner)  *)
(* and by the deleter of a description (a worker).                         *)

Calling(a, t, isFirst) ==
  [call EXCEPT ![a] = [at |-> "pick", task |-> t, target |-> -1, first |-> isFirst]]

Advance(a, l) == call' = [call EXCEPT ![a].at = l]

InCall(a, l) == call[a].at = l

\* The dependencies that a task retried too often is queued behind.
Awaited(t) == {d \in dependencies[t] : lastWorker[d] # -1 /\ state[d] # "Done"}

Targets(t) ==
  IF specifyWorkerId[t] # -1
    THEN {specifyWorkerId[t]} \intersect Workers
    ELSE IF retryCount[t] > RetryLimit /\ Awaited(t) # {}
           THEN {lastWorker[d] : d \in Awaited(t)}
           ELSE Workers

Pick(a) ==
  /\ InCall(a, "pick")
  /\ \E w \in Targets(call[a].task) :
       call' = [call EXCEPT ![a].at = "reset", ![a].target = w]
  /\ UNCHANGED <<queue, workerVars, runVars, taskVars, userVars>>

\* Invalid worker id.
PickFails(a) ==
  /\ InCall(a, "pick")
  /\ Targets(call[a].task) = {}
  /\ Advance(a, "refused")
  /\ UNCHANGED <<queue, workerVars, runVars, taskVars, userVars>>

Reset(a) ==
  /\ InCall(a, "reset")
  /\ Perform("reset", call[a].task)
  /\ Advance(a, "scan")
  /\ UNCHANGED <<queue, workerVars, runVars, retryCount, lastWorker, userVars>>

\* A cancelled dependency cancels the task.  Cancelled is not left again,
\* so that the reads of the dependencies amount to one.
Scan(a) ==
  LET t == call[a].task
  IN  /\ InCall(a, "scan")
      /\ IF \E d \in dependencies[t] : state[d] = "Cancelled"
           THEN Perform("cancel", t) /\ Advance(a, "return")
           ELSE Advance(a, "post") /\ UNCHANGED state
      /\ UNCHANGED <<queue, workerVars, runVars, retryCount, lastWorker, userVars>>

Post(a) ==
  LET t == call[a].task
      w == call[a].target
  IN  /\ InCall(a, "post")
      /\ HasRoom(w)
      /\ Push(w, t)
      /\ lastWorker' = [lastWorker EXCEPT ![t] = w]
      /\ Advance(a, "return")
      /\ unserved' = [unserved EXCEPT
                        ![w] = @ \union IF a = Owner /\ thread[w] # "running" THEN {t} ELSE {}]
      /\ UNCHANGED <<workerVars, runVars, state, retryCount, addVars, owner, waiter, dropped, returned>>

\* The closure is destroyed with its promise still Queuing.
PostRefused(a) ==
  /\ InCall(a, "post")
  /\ ~HasRoom(call[a].target)
  /\ Advance(a, "refused")
  /\ UNCHANGED <<queue, workerVars, runVars, taskVars, userVars>>

-----------------------------------------------------------------------------
(* The users: addTask, cancel, wait.                                       *)

AddTask(t) ==
  /\ owner.op = "free"
  /\ added[t] \in {"no", "null"}
  /\ \A d \in dependencies[t] : added[d] = "yes"
  /\ added' = [added EXCEPT ![t] = "adding"]
  /\ call' = Calling(Owner, t, FALSE)
  /\ owner' = [owner EXCEPT !.op = "add"]
  /\ UNCHANGED <<queue, workerVars, runVars, taskVars, dangling, waiter, history>>

\* addTaskImp reads desc.promise after the post.  If a worker has deleted
\* the description by then, what is read is undefined.
AddReturns ==
  LET t == call[Owner].task
  IN  /\ InCall(Owner, "return")
      /\ \E r \in {"yes"} \union (IF dangling THEN {"garbage"} ELSE {}) :
           added' = [added EXCEPT ![t] = r]
      /\ dangling' = FALSE
      /\ call' = [call EXCEPT ![Owner] = NoCall]
      /\ owner' = [owner EXCEPT !.op = "free"]
      /\ UNCHANGED <<queue, workerVars, runVars, taskVars, waiter, history>>

AddRefused ==
  /\ InCall(Owner, "refused")
  /\ added' = [added EXCEPT ![call[Owner].task] = "null"]
  /\ call' = [call EXCEPT ![Owner] = NoCall]
  /\ owner' = [owner EXCEPT !.op = "free"]
  /\ UNCHANGED <<queue, workerVars, runVars, taskVars, dangling, waiter, history>>

\* Slip: a running task is cancelled as well.
CancelRunning(t) ==
  /\ added[t] = "yes"
  /\ state[t] \in Pending
  /\ state' = [state EXCEPT ![t] = "Cancelled"]
  /\ UNCHANGED <<queue, workerVars, runVars, call, retryCount, lastWorker, userVars>>

Cancel(t) ==
  /\ added[t] = "yes"
  /\ state[t] \in Leaves("cancel")
  /\ Perform("cancel", t)
  /\ UNCHANGED <<queue, workerVars, runVars, call, retryCount, lastWorker, userVars>>

WaitGoto(l) ==
  /\ waiter' = [waiter EXCEPT !.at = l]
  /\ UNCHANGED <<queue, workerVars, runVars, call, taskVars, addVars, owner, history>>

CallWait(t) ==
  /\ waiter.at = "none" /\ owner.op \notin {"dying", "gone"}
  /\ added[t] = "yes"
  /\ waiter' = [at |-> "testDepends", task |-> t]
  /\ UNCHANGED <<queue, workerVars, runVars, call, taskVars, addVars, owner, history>>

\* The loop condition is three loads of the state.
TestDepends ==
  /\ waiter.at = "testDepends"
  /\ WaitGoto(IF state[waiter.task] = "DependsUnfinish" THEN "wait" ELSE "testQueuing")

TestQueuing ==
  /\ waiter.at = "testQueuing"
  /\ WaitGoto(IF state[waiter.task] = "Queuing" THEN "wait" ELSE "testRunning")

\* Slip: the last part of the condition is missing.
TestRunningSkipped == waiter.at = "testRunning" /\ WaitGoto("returned")

TestRunning ==
  /\ waiter.at = "testRunning"
  /\ WaitGoto(IF state[waiter.task] = "Running" THEN "wait" ELSE "returned")

\* TaskPromise::wait, which may straddle a reset and return at any time.
InnerWait == waiter.at = "wait" /\ WaitGoto("testDepends")

LeaveWait ==
  /\ waiter.at = "returned"
  /\ waiter' = [at |-> "none", task |-> NoTask]
  /\ UNCHANGED <<queue, workerVars, runVars, call, taskVars, addVars, owner, history>>

-----------------------------------------------------------------------------
(* The owner: start, stop, stopAndwaitAll and ~ThreadPool go through the   *)
(* workers.                                                                *)

CallOwner(op) ==
  /\ owner.op = "free"
  /\ owner' = [op |-> op, next |-> 0]
  /\ UNCHANGED <<queue, workerVars, runVars, call, taskVars, addVars, waiter, history>>

\* On to the next worker, or to what follows the last one.
NextWorker(w, op, after) ==
  owner' = IF w + 1 \in Workers THEN [op |-> op, next |-> w + 1]
                                ELSE [op |-> after, next |-> 0]

\* Nothing is changed for a worker that is still running.
StartWorker(w) ==
  /\ owner.op = "start" /\ owner.next = w
  /\ IF thread[w] = "none"
       THEN /\ mExit' = [mExit EXCEPT ![w] = FALSE]
            /\ mExitAfterAllTasks' = [mExitAfterAllTasks EXCEPT ![w] = FALSE]
            /\ thread' = [thread EXCEPT ![w] = "running"]
            /\ wpc' = [wpc EXCEPT ![w] = "loop"]
            /\ unserved' = [unserved EXCEPT ![w] = {}]
       ELSE UNCHANGED <<workerVars, wpc, unserved>>
  /\ NextWorker(w, "start", "free")
  /\ UNCHANGED <<queue, taken, victim, call, taskVars, addVars, waiter, dropped, returned>>

\* stop tells every worker to exit before it waits for the first one.
ExitWorker(w) ==
  /\ owner.op = "exit" /\ owner.next = w
  /\ mExit' = [mExit EXCEPT ![w] = TRUE]
  /\ NextWorker(w, "exit", "join")
  /\ UNCHANGED <<queue, mExitAfterAllTasks, thread, runVars, call, taskVars, addVars, waiter, history>>

\* stopAndwaitAll tells the next worker only when the one before has ended.
ExitAllWorker(w) ==
  /\ owner.op = "exitAll" /\ owner.next = w
  /\ mExitAfterAllTasks' = [mExitAfterAllTasks EXCEPT ![w] = TRUE]
  /\ owner' = [owner EXCEPT !.op = "joinAll"]
  /\ UNCHANGED <<queue, mExit, thread, runVars, call, taskVars, addVars, waiter, history>>

\* ~ThreadPool stops one worker after the other; those without a thread it
\* leaves alone.
DestroyWorker(w) ==
  /\ owner.op = "destroy" /\ owner.next = w
  /\ IF thread[w] = "none"
       THEN NextWorker(w, "destroy", "dying") /\ UNCHANGED mExit
       ELSE /\ mExit' = [mExit EXCEPT ![w] = TRUE]
            /\ owner' = [owner EXCEPT !.op = "destroyJoin"]
  /\ UNCHANGED <<queue, mExitAfterAllTasks, thread, runVars, call, taskVars, addVars, waiter, history>>

\* waitForExit: without a thread there is nothing to wait for.
JoinWorker(w) ==
  /\ owner.op \in {"join", "joinAll", "destroyJoin"} /\ owner.next = w
  /\ thread[w] # "running"
  /\ thread' = [thread EXCEPT ![w] = "none"]
  /\ CASE owner.op = "join"        -> NextWorker(w, "join", "free")
       [] owner.op = "joinAll"     -> NextWorker(w, "exitAll", "free")
       [] owner.op = "destroyJoin" -> NextWorker(w, "destroy", "dying")
  /\ UNCHANGED <<queue, mExit, mExitAfterAllTasks, runVars, call, taskVars, addVars, waiter, history>>

\* mWorkers goes, and with it the queues and the closures in them.  None of
\* these is distributed again, and only its user can still cancel such a task.
DestroyWorkers ==
  /\ owner.op = "dying"
  /\ queue' = [w \in Workers |-> <<>>]
  /\ owner' = [owner EXCEPT !.op = "gone"]
  /\ UNCHANGED <<workerVars, runVars, call, taskVars, addVars, waiter, history>>

-----------------------------------------------------------------------------
(* A worker's thread: run() with a packed task, and onWorkerIdle.          *)

At(w, l) == wpc[w] = l

Goto(w, l) ==
  /\ wpc' = [wpc EXCEPT ![w] = l]
  /\ UNCHANGED <<queue, workerVars, taken, victim, call, taskVars, userVars>>

\* Slip: the flag is not read again.
TestExitNever(w) == At(w, "loop") /\ Goto(w, "pop")

TestExit(w) == At(w, "loop") /\ Goto(w, IF mExit[w] THEN "drain" ELSE "pop")

TakeHead(w, l) ==
  /\ taken' = [taken EXCEPT ![w] = Head(queue[w])]
  /\ Pop(w)
  /\ wpc' = [wpc EXCEPT ![w] = l]
  /\ UNCHANGED <<workerVars, victim, call, taskVars, userVars>>

PopTakes(w) == At(w, "pop") /\ queue[w] # <<>> /\ TakeHead(w, "begin")

PopFails(w) == At(w, "pop") /\ queue[w] = <<>> /\ Goto(w, "idle")

\* A task that is not Queuing is dropped.
Begin(w) ==
  /\ At(w, "begin")
  /\ Perform("start", taken[w])
  /\ wpc' = [wpc EXCEPT ![w] =
               IF state[taken[w]] \in Leaves("start") THEN "closure" ELSE "destroy"]
  /\ UNCHANGED <<queue, workerVars, taken, victim, call, retryCount, lastWorker, userVars>>

\* Slip: a dependency that is not pending counts as done.
TestPending(w) ==
  /\ At(w, "closure")
  /\ Goto(w, IF \A d \in dependencies[taken[w]] : state[d] \notin Pending
               THEN "function" ELSE "depends")

\* The closure of packTask.  Done is not left again, so that the reads of
\* the dependencies amount to one.
TestDependencies(w) ==
  /\ At(w, "closure")
  /\ Goto(w, IF \A d \in dependencies[taken[w]] : state[d] = "Done"
               THEN "function" ELSE "depends")

\* done() then gives up, as the promise is not Running any more.
DependsUnfinish(w) ==
  /\ At(w, "depends")
  /\ Perform("depends", taken[w])
  /\ wpc' = [wpc EXCEPT ![w] = "destroy"]
  /\ UNCHANGED <<queue, workerVars, taken, victim, call, retryCount, lastWorker, userVars>>

RunFunction(w) == At(w, "function") /\ Goto(w, "finish")

Finish(w) ==
  /\ At(w, "finish")
  /\ Perform("done", taken[w])
  /\ wpc' = [wpc EXCEPT ![w] = "destroy"]
  /\ UNCHANGED <<queue, workerVars, taken, victim, call, retryCount, lastWorker, userVars>>

\* Slip: every copy of the closure has a description of its own.
AnyCopy(w) == taken[w] \in Tasks

\* The closure, and with it the description, goes with its last copy.
LastCopy(w) ==
  /\ \A u \in Workers \ {w} : taken[u] # taken[w]
  /\ \A u \in Workers : \A n \in DOMAIN queue[u] : queue[u][n] # taken[w]

\* Slip: a thief's copy deletes it as well.
DeletedByCopy(t, isFirst) ==
  dangling' = (dangling \/ (InCall(Owner, "return") /\ call[Owner].task = t))

\* The first description of t is deleted; does the owner still want it?
Deleted(t, isFirst) ==
  dangling' = (dangling \/ (isFirst /\ InCall(Owner, "return") /\ call[Owner].task = t))

\* The local task goes out of scope at l, and the thread goes on to next
\* or, if the deleter distributes the task again, to retrying.
Release(w, l, next, retrying) ==
  LET t == taken[w]
      isFirst == retryCount[t] = 0
      retry == LastCopy(w) /\ state[t] = "DependsUnfinish"
  IN  /\ At(w, l)
      /\ taken' = [taken EXCEPT ![w] = NoTask]
      /\ IF retry
           THEN /\ retryCount' = [retryCount EXCEPT
                                    ![t] = IF @ > RetryLimit THEN @ ELSE @ + 1]
                /\ call' = Calling(w, t, isFirst)
                /\ wpc' = [wpc EXCEPT ![w] = retrying]
                /\ UNCHANGED dangling
           ELSE /\ wpc' = [wpc EXCEPT ![w] = next]
                /\ Deleted(t, LastCopy(w) /\ isFirst)
                /\ UNCHANGED <<retryCount, call>>
      /\ UNCHANGED <<queue, workerVars, victim, state, lastWorker, added, owner, waiter, history>>

\* Slip: the deleter only deletes.
EndWithoutRetry(w) ==
  /\ At(w, "destroy")
  /\ taken' = [taken EXCEPT ![w] = NoTask]
  /\ wpc' = [wpc EXCEPT ![w] = "loop"]
  /\ UNCHANGED <<queue, workerVars, victim, call, taskVars, userVars>>

EndIteration(w) == Release(w, "destroy", "loop", "retry")

\* distributeTask is back; the deleter ignores what it returned.
EndRetry(w) ==
  /\ wpc[w] \in {"retry", "stealRetry"}
  /\ call[w].at \in {"return", "refused"}
  /\ dropped' = dropped \union (IF InCall(w, "refused") THEN {call[w].task} ELSE {})
  /\ Deleted(call[w].task, call[w].first)
  /\ call' = [call EXCEPT ![w] = NoCall]
  /\ wpc' = [wpc EXCEPT ![w] = IF @ = "retry" THEN "loop" ELSE "testExitAfter"]
  /\ UNCHANGED <<queue, workerVars, taken, victim, taskVars, added, owner, waiter, returned, unserved>>

-----------------------------------------------------------------------------
\* The queue of the chosen worker must look longer than one.
ChooseVictim(w) ==
  /\ At(w, "idle")
  /\ WorkStealing /\ NumWorkers > 1
  /\ \E u \in Workers :
       /\ Len(queue[u]) > 1
       /\ victim' = [victim EXCEPT ![w] = u]
  /\ wpc' = [wpc EXCEPT ![w] = "steal"]
  /\ UNCHANGED <<queue, workerVars, taken, call, taskVars, userVars>>

\* It may be shorter by now.
Steal(w) ==
  LET u == victim[w]
  IN  /\ At(w, "steal")
      /\ IF queue[u] = <<>>
           THEN /\ wpc' = [wpc EXCEPT ![w] = "testExitAfter"]
                /\ victim' = [victim EXCEPT ![w] = -1]
                /\ UNCHANGED <<queue, taken>>
           ELSE /\ taken' = [taken EXCEPT ![w] = Head(queue[u])]
                /\ Pop(u)
                /\ wpc' = [wpc EXCEPT ![w] = "stealPush"]
                /\ UNCHANGED victim
      /\ UNCHANGED <<workerVars, call, taskVars, userVars>>

NoSteal(w) == At(w, "idle") /\ Goto(w, "testExitAfter")

\* A copy of the task is pushed, to the worker's own queue or, if that is
\* full, back to where it came from, in turns until one has room.
StealPush(w, l, u, otherwise) ==
  /\ At(w, l)
  /\ IF HasRoom(u) THEN Push(u, taken[w]) ELSE UNCHANGED queue
  /\ wpc' = [wpc EXCEPT ![w] = IF HasRoom(u) THEN "release" ELSE otherwise]
  /\ victim' = [victim EXCEPT ![w] = IF HasRoom(u) THEN -1 ELSE @]
  /\ UNCHANGED <<workerVars, taken, call, taskVars, addVars, owner, waiter, dropped, unserved>>

\* Slip: a full queue is not noticed.
KeepOrDrop(w) == StealPush(w, "stealPush", w, "release") /\ UNCHANGED returned

\* Slip: the two queues are confused.
KeepAtVictim(w) == StealPush(w, "stealPush", victim[w], "giveBack") /\ UNCHANGED returned

Keep(w) == StealPush(w, "stealPush", w, "giveBack") /\ UNCHANGED returned

GiveBack(w) ==
  /\ StealPush(w, "giveBack", victim[w], "stealPush")
  /\ returned' = IF HasRoom(victim[w]) THEN returned \union {taken[w]} ELSE returned

LeaveIdle(w) == Release(w, "release", "testExitAfter", "stealRetry")

\* Slip: the queue is not looked at.
ExitAtOnce(w) ==
  /\ At(w, "testExitAfter")
  /\ mExitAfterAllTasks[w]
  /\ mExit' = [mExit EXCEPT ![w] = TRUE]
  /\ wpc' = [wpc EXCEPT ![w] = "drain"]
  /\ UNCHANGED <<queue, mExitAfterAllTasks, thread, taken, victim, call, taskVars, userVars>>

\* mExitAfterAllTasks && mTasks.size() == 0; the flag is not reset while
\* the thread runs, so that the two reads amount to the second.
TestExitAfter(w) ==
  /\ At(w, "testExitAfter")
  /\ mExitAfterAllTasks[w] /\ queue[w] = <<>>
  /\ mExit' = [mExit EXCEPT ![w] = TRUE]
  /\ wpc' = [wpc EXCEPT ![w] = "drain"]
  /\ UNCHANGED <<queue, mExitAfterAllTasks, thread, taken, victim, call, taskVars, userVars>>

GoOn(w) ==
  /\ At(w, "testExitAfter")
  /\ ~(mExitAfterAllTasks[w] /\ queue[w] = <<>>)
  /\ Goto(w, "loop")

\* Idle for long enough, and the predicate finds nothing to do.
Awake(w) == queue[w] # <<>> \/ mExit[w] \/ mExitAfterAllTasks[w]

Sleep(w) == At(w, "testExitAfter") /\ ~Awake(w) /\ Goto(w, "asleep")

WakeUp(w) == At(w, "asleep") /\ Awake(w) /\ Goto(w, "loop")

DrainTakes(w) == At(w, "drain") /\ queue[w] # <<>> /\ TakeHead(w, "drainCancel")

\* Slip: the task is not let go of.
DrainCancelKeeps(w) ==
  /\ At(w, "drainCancel")
  /\ Perform("cancel", taken[w])
  /\ wpc' = [wpc EXCEPT ![w] = "drain"]
  /\ UNCHANGED <<queue, workerVars, taken, victim, call, retryCount, lastWorker, userVars>>

\* The closure is then destroyed as after a run; mExit leads back to drain.
DrainCancel(w) ==
  /\ At(w, "drainCancel")
  /\ Perform("cancel", taken[w])
  /\ wpc' = [wpc EXCEPT ![w] = "destroy"]
  /\ UNCHANGED <<queue, workerVars, taken, victim, call, retryCount, lastWorker, userVars>>

\* Slip: the thread ends without draining.
EndsAtOnce(w) ==
  /\ At(w, "drain")
  /\ thread' = [thread EXCEPT ![w] = "finished"]
  /\ wpc' = [wpc EXCEPT ![w] = "off"]
  /\ UNCHANGED <<queue, mExit, mExitAfterAllTasks, taken, victim, call, taskVars, userVars>>

Ends(w) ==
  /\ At(w, "drain")
  /\ queue[w] = <<>>
  /\ thread' = [thread EXCEPT ![w] = "finished"]
  /\ wpc' = [wpc EXCEPT ![w] = "off"]
  /\ UNCHANGED <<queue, mExit, mExitAfterAllTasks, taken, victim, call, taskVars, userVars>>

-----------------------------------------------------------------------------
CallStep(a) == Pick(a) \/ PickFails(a) \/ Reset(a) \/ Scan(a) \/ Post(a) \/ PostRefused(a)

WorkerStep(w) ==
  \/ CallStep(w) \/ EndRetry(w)
  \/ TestExit(w) \/ PopTakes(w) \/ PopFails(w) \/ Begin(w) \/ TestDependencies(w)
  \/ DependsUnfinish(w) \/ RunFunction(w) \/ Finish(w) \/ EndIteration(w)
  \/ ChooseVictim(w) \/ Steal(w) \/ NoSteal(w) \/ Keep(w) \/ GiveBack(w) \/ LeaveIdle(w)
  \/ TestExitAfter(w) \/ GoOn(w) \/ Sleep(w)
  \/ DrainTakes(w) \/ DrainCancel(w) \/ Ends(w)

OwnerStep ==
  \/ CallStep(Owner) \/ AddReturns \/ AddRefused \/ DestroyWorkers
  \/ \E w \in Workers : \/ StartWorker(w) \/ ExitWorker(w) \/ ExitAllWorker(w)
                        \/ DestroyWorker(w) \/ JoinWorker(w)

WaiterStep == TestDepends \/ TestQueuing \/ TestRunning \/ InnerWait \/ LeaveWait

Next ==
  \/ \E w \in Workers : WorkerStep(w) \/ WakeUp(w)
  \/ OwnerStep
  \/ \E op \in OwnerCalls : CallOwner(op)
  \/ WaiterStep
  \/ \E t \in Tasks : AddTask(t)
  \/ \E t \in Unwanted : Cancel(t)
  \/ \E t \in Waited : CallWait(t)

Spec == Init /\ [][Next]_vars

\* Threads keep running inside the calls they have made, functions return.
\* Nobody has to make a call, and a worker may sleep through its wake-up.
FairSpec ==
  /\ Spec
  /\ \A w \in Workers : WF_vars(WorkerStep(w))
  /\ WF_vars(OwnerStep)

-----------------------------------------------------------------------------
(* Properties.                                                             *)

WorkerLocation ==
  {"off", "loop", "pop", "begin", "closure", "depends", "function", "finish", "destroy",
   "retry", "idle", "steal", "stealPush", "giveBack", "release", "stealRetry", "testExitAfter",
   "asleep", "drain", "drainCancel"}

Carrying == {"begin", "closure", "depends", "function", "finish", "destroy", "stealPush",
             "giveBack", "release", "drainCancel"}

TypeOK ==
  /\ queue \in [Workers -> Seq(Tasks)]
  /\ mExit \in [Workers -> BOOLEAN]
  /\ mExitAfterAllTasks \in [Workers -> BOOLEAN]
  /\ thread \in [Workers -> {"none", "running", "finished"}]
  /\ wpc \in [Workers -> WorkerLocation]
  /\ taken \in [Workers -> Tasks \union {NoTask}]
  /\ \A w \in Workers : taken[w] # NoTask <=> wpc[w] \in Carrying
  /\ victim \in [Workers -> Workers \union {-1}]
  /\ call \in [Actors -> [at : {"none", "pick", "reset", "scan", "post", "return", "refused"},
                          task : Tasks \union {NoTask},
                          target : Workers \union {-1},
                          first : BOOLEAN]]
  /\ state \in [Tasks -> TaskState]
  /\ retryCount \in [Tasks -> 0 .. RetryLimit + 1]
  /\ lastWorker \in [Tasks -> Workers \union {-1}]
  /\ added \in [Tasks -> {"no", "adding", "yes", "null", "garbage"}]
  /\ dangling \in BOOLEAN
  /\ owner \in [op : {"free", "add", "start", "exit", "join", "exitAll", "joinAll", "destroy",
                       "destroyJoin", "dying", "gone"},
                next : Workers]
  /\ waiter \in [at : {"none", "testDepends", "testQueuing", "testRunning", "wait",
                       "returned"},
                 task : Tasks \union {NoTask}]
  /\ dropped \subseteq Tasks
  /\ returned \subseteq Tasks
  /\ unserved \in [Workers -> SUBSET Tasks]

\* The pool implements the abstract task graph: however often a task is
\* retried and stolen, and whatever races with it, it runs once, after its
\* dependencies are done, or never, once it has been cancelled.
StatusOf(t) ==
  CASE added[t] \in {"no", "null"} -> "absent"
    [] added[t] \notin {"no", "null"} /\ \E w \in Workers : At(w, "finish") /\ taken[w] = t
         -> "running"
    [] OTHER -> CASE state[t] = "Done"      -> "done"
                  [] state[t] = "Cancelled" -> "cancelled"
                  [] OTHER                  -> "waiting"

Graph == INSTANCE TaskGraph WITH status <- [t \in Tasks |-> StatusOf(t)]

ImplementsTaskGraph == Graph!Spec

\* Where the closure of t is about to be run or distributed from.
QueuedAt(t, w) == {<<"queued", w, n>> : n \in {m \in DOMAIN queue[w] : queue[w][m] = t}}
Queued(t) == UNION {QueuedAt(t, w) : w \in Workers}
Taken(t) == {<<"taken", w>> : w \in {u \in Workers : taken[u] = t /\ wpc[u] # "release"}}
Distributed(t) ==
  {<<"distributed", a>> : a \in {b \in Actors : call[b].task = t /\ call[b].at # "return"}}

Holders(t) == Queued(t) \union Taken(t) \union Distributed(t)

\* No two threads ever hold a task's closure: a stolen task leaves a copy
\* behind with the thief, a retried one a description in its deleter.
HeldOnce == \A t \in Tasks : Cardinality(Holders(t)) <= 1

\* A task that was added and is not final yet is in a queue, or in the hands
\* of a thread that will run, queue or cancel it, with two exceptions.  The
\* deleter of its description may have met a full queue; and the end of the
\* destructor destroys what no worker has cancelled, which can only be a task
\* that was moved between queues, by a retry or by a thief that gave it back,
\* or that was added to a worker without a thread.  A task lost in one of these
\* ways is never run, and only its user can still cancel it.
Moved(t) == retryCount[t] > 0 \/ t \in returned

NothingLost ==
  \A t \in Tasks \ dropped :
    added[t] \in {"adding", "yes", "garbage"} /\ state[t] \notin Final
      => \/ Holders(t) # {}
         \/ \E w \in Workers : taken[w] = t
         \/ owner.op = "gone" /\ (Moved(t) \/ \E w \in Workers : t \in unserved[w])

\* A worker without a thread, be it before it has been joined or after, has
\* nothing in its queue but tasks that were moved there since and tasks that
\* were added to it meanwhile; it has cancelled all others.
StrandedWereMoved ==
  \A w \in Workers :
    thread[w] # "running" =>
      \A n \in DOMAIN queue[w] : Moved(queue[w][n]) \/ queue[w][n] \in unserved[w]

\* stopAndwaitAll cancels no task that does not depend on others, unless a
\* thief gave it back to a worker that was already cancelling its queue.
StopAndWaitAllRunsIndependent ==
  \A w \in Workers :
    owner.op \in {"exitAll", "joinAll"} /\ At(w, "drainCancel")
      => \/ state[taken[w]] # "Queuing"
         \/ dependencies[taken[w]] # {}
         \/ taken[w] \in returned

\* wait() returns only when a task without dependencies is final.
WaitReturnsFinalIndependent ==
  waiter.at = "returned" /\ dependencies[waiter.task] = {}
    => state[waiter.task] \in Final

\* What may keep a task from being handled, or a worker from ending, for good:
\* a worker that sleeps through its wake-up, a task whose retry was refused, a
\* thief that finds its own queue and its victim's full, and a task in the
\* queue of a worker without a thread.
Overslept == \E w \in Workers : <>[](At(w, "asleep") /\ Awake(w))

LostInRetry(t) == <>[](t \in dropped /\ state[t] \notin Final)

StuckThief == \E w \in Workers : <>[](wpc[w] \in {"stealPush", "giveBack"})

Stranded == \E w \in Workers : <>[](thread[w] # "running" /\ queue[w] # <<>>)

\* t and the tasks it depends on, through others or not.
Needed(t) ==
  LET upTo[n \in 0 .. Cardinality(Tasks)] ==
        IF n = 0 THEN {t}
                 ELSE upTo[n - 1] \union UNION {dependencies[d] : d \in upTo[n - 1]}
  IN  upTo[Cardinality(Tasks)]

OnDuty ==
  \A w \in Workers : thread[w] = "running" /\ ~mExit[w] /\ ~mExitAfterAllTasks[w]

\* An added task is eventually run or cancelled while every worker is on
\* duty: retries end, and thefts.  (It stays added, so that it is handled at
\* last if it is not for ever unhandled.)  The exceptions: a worker sleeps for
\* good over a task, a retry of the task or of one that it needs was refused,
\* or a thief is stuck.
AddedIsHandled ==
  \A t \in Tasks :
    \/ []<>(added[t] = "yes" => state[t] \in Final \/ ~OnDuty)
    \/ Overslept \/ StuckThief \/ \E d \in Needed(t) : LostInRetry(d)

\* stop, stopAndwaitAll and ~ThreadPool return, as the owner is not stopping
\* for ever.  The exceptions: a worker sleeps for good although it was told to
\* exit, a thief is stuck, or a task was lost in a retry or is stranded: one
\* that depends on it may then keep another worker busy for ever.
Stopping == {"exit", "join", "exitAll", "joinAll", "destroy", "destroyJoin", "dying"}

StopReturns ==
  \/ []<>(owner.op \notin Stopping)
  \/ Overslept \/ StuckThief \/ Stranded
  \/ \E t \in Tasks : (\E u \in Tasks : t \in dependencies[u]) /\ LostInRetry(t)

\* What the unit tests expect of wait(): it returns when the task is over.
WaitReturnsFinal == waiter.at = "returned" => state[waiter.task] \in Final

\* addTask returns the task's promise, unless a worker was so quick that it
\* had run, cancelled or retried the task before the promise was read.
AddReturnsUnlessTooLate ==
  \A t \in Tasks : added[t] = "garbage" => state[t] \in Final \/ retryCount[t] > 0

=============================================================================
