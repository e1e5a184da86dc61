-------------------------- MODULE ThreadPoolProofs --------------------------
(***************************************************************************)
(* Type correctness of ThreadPool, and what its operations do to queues,   *)
(* tasks, calls and threads, proved for any tasks, dependencies, workers,  *)
(* capacity and retry limit.                                               *)
(***************************************************************************)
EXTENDS ThreadPool, SequenceTheorems, FiniteSetTheorems, TLAPS
-----------------------------------------------------------------------------
(* Control: types, and what must agree for a step to keep them.            *)

QueueOK == queue \in [Workers -> Seq(Tasks)]

\* A worker's thread is somewhere exactly while it runs, and has a local task
\* and a victim where the code has them.
RunAt(w) ==
  /\ wpc[w] = "off" <=> thread[w] # "running"
  /\ taken[w] # NoTask <=> wpc[w] \in Carrying
  /\ victim[w] # -1 <=> wpc[w] \in {"steal", "stealPush", "giveBack"}

RunOK ==
  /\ thread \in [Workers -> {"none", "running", "finished"}]
  /\ wpc \in [Workers -> WorkerLocation]
  /\ taken \in [Workers -> Tasks \union {NoTask}]
  /\ victim \in [Workers -> Workers \union {-1}]
  /\ \A w \in Workers : RunAt(w)

FlagOK == mExit \in [Workers -> BOOLEAN] /\ mExitAfterAllTasks \in [Workers -> BOOLEAN]

CallAt == {"none", "pick", "reset", "scan", "post", "return", "refused"}
CallRecord == [at : CallAt, task : Tasks \union {NoTask}, target : Workers \union {-1},
               first : BOOLEAN]

\* A call has a task and, from the pick on, a worker to post it to.
CallIs(a) ==
  /\ call[a].at = "none" <=> call[a].task = NoTask
  /\ call[a].at \in {"reset", "scan", "post"} => call[a].target \in Workers

\* The owner is in a call while it adds a task, a worker while it retries one.
CallOK ==
  /\ call \in [Actors -> CallRecord]
  /\ \A a \in Actors : CallIs(a)
  /\ call[Owner].at = "none" <=> owner.op # "add"
  /\ \A w \in Workers : call[w].at = "none" <=> wpc[w] \notin {"retry", "stealRetry"}

TaskOK ==
  /\ state \in [Tasks -> TaskState]
  /\ retryCount \in [Tasks -> 0 .. RetryLimit + 1]
  /\ lastWorker \in [Tasks -> Workers \union {-1}]

OwnerOK ==
  /\ added \in [Tasks -> {"no", "adding", "yes", "null", "garbage"}]
  /\ dangling \in BOOLEAN
  /\ owner \in [op : {"free", "add", "start", "exit", "join", "exitAll", "joinAll", "destroy",
                       "destroyJoin", "dying", "gone"},
                next : Workers]
  /\ dropped \subseteq Tasks /\ returned \subseteq Tasks

WaiterOK ==
  /\ waiter \in [at : {"none", "testDepends", "testQueuing", "testRunning", "wait",
                       "returned"},
                 task : Tasks \union {NoTask}]
  /\ waiter.at # "none" => waiter.task # NoTask

UnservedOK == unserved \in [Workers -> SUBSET Tasks]

Control == QueueOK /\ RunOK /\ FlagOK /\ CallOK /\ TaskOK /\ OwnerOK /\ WaiterOK /\ UnservedOK

LEMMA ControlIsTyped == Control => TypeOK
BY DEF Control, QueueOK, RunOK, RunAt, FlagOK, CallOK, CallAt, CallRecord, TaskOK, OwnerOK, WaiterOK,
       UnservedOK, TypeOK

LEMMA FirstWorker == 0 \in Workers
BY NumWorkersAssumption DEF Workers

LEMMA NoWorkerIsNegative == -1 \notin Workers
BY NumWorkersAssumption DEF Workers

-----------------------------------------------------------------------------
(* What the operations on queues and promises do.                          *)

LEMMA PerformEffect ==
  ASSUME NEW t \in Tasks, NEW o \in Operation, state \in [Tasks -> TaskState], Perform(o, t)
  PROVE  /\ state' \in [Tasks -> TaskState]
         /\ \A u \in Tasks \ {t} : state'[u] = state[u]
         /\ state'[t] = IF state[t] \in Leaves(o) THEN Installs(o) ELSE state[t]
BY DEF Perform, TaskState, Operation, Leaves, Installs

LEMMA PushEffect ==
  ASSUME NEW w \in Workers, NEW t \in Tasks, queue \in [Workers -> Seq(Tasks)], Push(w, t)
  PROVE  /\ queue' \in [Workers -> Seq(Tasks)]
         /\ \A u \in Workers \ {w} : queue'[u] = queue[u]
         /\ Len(queue[w]) \in Nat /\ Len(queue'[w]) = Len(queue[w]) + 1
         /\ \A n \in 1 .. Len(queue[w]) : queue'[w][n] = queue[w][n]
         /\ queue'[w][Len(queue[w]) + 1] = t
<1>1. queue'[w] = Append(queue[w], t) /\ \A u \in Workers \ {w} : queue'[u] = queue[u]
  BY DEF Push
<1>2. queue[w] \in Seq(Tasks)
  OBVIOUS
<1>3. /\ queue'[w] \in Seq(Tasks)
      /\ Len(queue'[w]) = Len(queue[w]) + 1 /\ Len(queue[w]) \in Nat
      /\ \A n \in 1 .. Len(queue[w]) : queue'[w][n] = queue[w][n]
      /\ queue'[w][Len(queue[w]) + 1] = t
  BY <1>1, <1>2, AppendProperties, LenProperties
<1>4. queue' \in [Workers -> Seq(Tasks)]
  BY <1>1, <1>3 DEF Push
<1> QED
  BY <1>1, <1>3, <1>4

LEMMA PopEffect ==
  ASSUME NEW w \in Workers, queue \in [Workers -> Seq(Tasks)], queue[w] # <<>>, Pop(w)
  PROVE  /\ queue' \in [Workers -> Seq(Tasks)]
         /\ \A u \in Workers \ {w} : queue'[u] = queue[u]
         /\ Len(queue[w]) \in Nat \ {0} /\ Len(queue'[w]) = Len(queue[w]) - 1
         /\ \A n \in 1 .. Len(queue'[w]) : queue'[w][n] = queue[w][n + 1]
         /\ Head(queue[w]) = queue[w][1] /\ Head(queue[w]) \in Tasks
<1>1. queue'[w] = Tail(queue[w]) /\ \A u \in Workers \ {w} : queue'[u] = queue[u]
  BY DEF Pop
<1>2. queue[w] \in Seq(Tasks)
  OBVIOUS
<1>3. /\ queue'[w] \in Seq(Tasks) /\ Len(queue[w]) \in Nat \ {0}
      /\ Len(queue'[w]) = Len(queue[w]) - 1
      /\ \A n \in 1 .. Len(queue'[w]) : queue'[w][n] = queue[w][n + 1]
      /\ Head(queue[w]) \in Tasks
  BY <1>1, <1>2, HeadTailProperties, EmptySeq, LenProperties
<1>4. queue' \in [Workers -> Seq(Tasks)]
  BY <1>1, <1>3 DEF Pop
<1>5. Head(queue[w]) = queue[w][1]
  OBVIOUS
<1> QED
  BY <1>1, <1>3, <1>4, <1>5

-----------------------------------------------------------------------------
(* Every step keeps Control.                                               *)

LEMMA ControlInit == Init => Control
<1> SUFFICES ASSUME Init PROVE Control
  OBVIOUS
<1>1. QueueOK
  BY EmptySeq DEF Init, QueueOK
<1>2. RunOK /\ FlagOK /\ TaskOK
  BY RetryLimitAssumption
     DEF Init, RunOK, RunAt, FlagOK, TaskOK, WorkerLocation, Carrying, TaskState
<1>3. CallOK
  <2>1. \A a \in Actors : call[a] = NoCall
    BY DEF Init
  <2>2. call \in [Actors -> CallRecord]
    BY DEF Init, CallRecord, CallAt, NoCall
  <2>3. \A a \in Actors : CallIs(a)
    BY <2>1 DEF CallIs, NoCall
  <2>4. call[Owner].at = "none" <=> owner.op # "add"
    BY <2>1 DEF Init, NoCall, Actors
  <2>5. \A w \in Workers : call[w].at = "none" <=> wpc[w] \notin {"retry", "stealRetry"}
    BY <2>1 DEF Init, NoCall, Actors
  <2> QED
    BY <2>2, <2>3, <2>4, <2>5 DEF CallOK
<1>4. OwnerOK
  BY FirstWorker DEF Init, OwnerOK
<1>5. WaiterOK /\ UnservedOK
  BY DEF Init, WaiterOK, UnservedOK
<1> QED
  BY <1>1, <1>2, <1>3, <1>4, <1>5 DEF Control


\* A call that goes on to l.
LEMMA AdvanceEffect ==
  ASSUME call \in [Actors -> CallRecord], NEW a \in Actors, NEW l \in CallAt, Advance(a, l)
  PROVE  /\ call' \in [Actors -> CallRecord]
         /\ call'[a].at = l
         /\ call'[a].task = call[a].task /\ call'[a].target = call[a].target
         /\ call'[a].first = call[a].first
         /\ \A b \in Actors \ {a} : call'[b] = call[b]
BY DEF Advance, CallRecord

\* A call that begins, and one that is over.
LEMMA CallingEffect ==
  ASSUME call \in [Actors -> CallRecord], NEW a \in Actors, NEW t \in Tasks, NEW f \in BOOLEAN,
         call' = Calling(a, t, f)
  PROVE  /\ call' \in [Actors -> CallRecord]
         /\ call'[a].at = "pick" /\ call'[a].task = t /\ call'[a].first = f
         /\ \A b \in Actors \ {a} : call'[b] = call[b]
BY DEF Calling, CallRecord, CallAt

LEMMA CallOverEffect ==
  ASSUME call \in [Actors -> CallRecord], NEW a \in Actors,
         call' = [call EXCEPT ![a] = NoCall]
  PROVE  /\ call' \in [Actors -> CallRecord]
         /\ call'[a].at = "none" /\ call'[a].task = NoTask
         /\ \A b \in Actors \ {a} : call'[b] = call[b]
BY DEF NoCall, CallRecord, CallAt

LEMMA TargetsAreWorkers ==
  ASSUME TaskOK, NEW t \in Tasks
  PROVE  Targets(t) \subseteq Workers
BY DependenciesAssumption DEF Targets, TaskOK, Awaited

LEMMA CallHasTask ==
  ASSUME CallOK, NEW a \in Actors, call[a].at # "none"
  PROVE  call[a].task \in Tasks /\ call[a].task # NoTask
BY NoTaskAssumption DEF CallOK, CallIs, CallRecord

LEMMA PickEffect ==
  ASSUME CallOK, TaskOK, NEW a \in Actors, Pick(a)
  PROVE  /\ call' \in [Actors -> CallRecord]
         /\ call'[a].at = "reset" /\ call'[a].target \in Workers
         /\ call'[a].task = call[a].task /\ call'[a].first = call[a].first
         /\ \A b \in Actors \ {a} : call'[b] = call[b]
<1>1. call[a].task \in Tasks
  BY CallHasTask DEF Pick, InCall
<1>2. PICK w \in Workers : call' = [call EXCEPT ![a].at = "reset", ![a].target = w]
  BY <1>1, TargetsAreWorkers DEF Pick
<1> QED
  BY <1>2 DEF CallOK, CallRecord, CallAt

\* A worker's thread that goes on to l.
LEMMA MoveEffect ==
  ASSUME wpc \in [Workers -> WorkerLocation], NEW w \in Workers, NEW l \in WorkerLocation,
         wpc' = [wpc EXCEPT ![w] = l]
  PROVE  /\ wpc' \in [Workers -> WorkerLocation]
         /\ wpc'[w] = l
         /\ \A u \in Workers \ {w} : wpc'[u] = wpc[u]
OBVIOUS

\* A worker's local task that becomes t.
LEMMA TakenEffect ==
  ASSUME taken \in [Workers -> Tasks \union {NoTask}], NEW w \in Workers,
         NEW t \in Tasks \union {NoTask}, taken' = [taken EXCEPT ![w] = t]
  PROVE  /\ taken' \in [Workers -> Tasks \union {NoTask}]
         /\ taken'[w] = t
         /\ \A u \in Workers \ {w} : taken'[u] = taken[u]
OBVIOUS

LEMMA VictimEffect ==
  ASSUME victim \in [Workers -> Workers \union {-1}], NEW w \in Workers,
         NEW u \in Workers \union {-1}, victim' = [victim EXCEPT ![w] = u]
  PROVE  /\ victim' \in [Workers -> Workers \union {-1}]
         /\ victim'[w] = u
         /\ \A v \in Workers \ {w} : victim'[v] = victim[v]
OBVIOUS

LEMMA CarriesTask ==
  ASSUME RunOK, NEW w \in Workers, wpc[w] \in Carrying
  PROVE  taken[w] \in Tasks /\ taken[w] # NoTask
BY NoTaskAssumption DEF RunOK, RunAt

\* The local task is gone; either its last copy is retried or nothing is.
Retried(w, retrying) ==
  /\ LastCopy(w) /\ state[taken[w]] = "DependsUnfinish"
  /\ wpc'[w] = retrying
  /\ call'[w].at = "pick" /\ call'[w].task = taken[w]
  /\ \A b \in Actors \ {w} : call'[b] = call[b]
  /\ retryCount'[taken[w]] > 0
  /\ \A t \in Tasks \ {taken[w]} : retryCount'[t] = retryCount[t]
  /\ dangling' = dangling

NotRetried(w, next) ==
  /\ ~(LastCopy(w) /\ state[taken[w]] = "DependsUnfinish")
  /\ wpc'[w] = next
  /\ call' = call /\ retryCount' = retryCount
  /\ Deleted(taken[w], LastCopy(w) /\ retryCount[taken[w]] = 0)

LEMMA ReleaseEffect ==
  ASSUME Control, NEW w \in Workers, NEW l \in Carrying, NEW next \in WorkerLocation,
         NEW retrying \in WorkerLocation, Release(w, l, next, retrying)
  PROVE  /\ taken[w] \in Tasks /\ taken[w] # NoTask /\ wpc[w] = l
         /\ taken' \in [Workers -> Tasks \union {NoTask}]
         /\ taken'[w] = NoTask
         /\ \A u \in Workers \ {w} : taken'[u] = taken[u] /\ wpc'[u] = wpc[u]
         /\ wpc' \in [Workers -> WorkerLocation]
         /\ call' \in [Actors -> CallRecord]
         /\ retryCount' \in [Tasks -> 0 .. RetryLimit + 1]
         /\ Retried(w, retrying) \/ NotRetried(w, next)
         /\ UNCHANGED <<queue, workerVars, victim, state, lastWorker, added, owner, waiter, history>>
<1> DEFINE t == taken[w]
<1>1. /\ wpc[w] = l /\ taken' = [taken EXCEPT ![w] = NoTask]
      /\ UNCHANGED <<queue, workerVars, victim, state, lastWorker, added, owner, waiter, history>>
  BY DEF Release, At
<1>2. RunOK /\ CallOK /\ TaskOK
  BY DEF Control
<1>3. t \in Tasks /\ t # NoTask
  BY <1>1, <1>2, CarriesTask
<1>4. /\ taken' \in [Workers -> Tasks \union {NoTask}] /\ taken'[w] = NoTask
      /\ \A u \in Workers \ {w} : taken'[u] = taken[u]
  BY <1>1, <1>2, TakenEffect DEF RunOK
<1>5. CASE LastCopy(w) /\ state[t] = "DependsUnfinish"
  <2>1. /\ retryCount' = [retryCount EXCEPT ![t] = IF @ > RetryLimit THEN @ ELSE @ + 1]
        /\ call' = Calling(w, t, retryCount[t] = 0)
        /\ wpc' = [wpc EXCEPT ![w] = retrying]
        /\ dangling' = dangling
    BY <1>5 DEF Release
  <2>2. /\ retryCount' \in [Tasks -> 0 .. RetryLimit + 1]
        /\ retryCount'[t] > 0
        /\ \A u \in Tasks \ {t} : retryCount'[u] = retryCount[u]
    BY <2>1, <1>2, <1>3, RetryLimitAssumption DEF TaskOK
  <2>3. /\ call' \in [Actors -> CallRecord]
        /\ call'[w].at = "pick" /\ call'[w].task = t
        /\ \A b \in Actors \ {w} : call'[b] = call[b]
    <3> DEFINE f == retryCount[t] = 0
    <3>1. f \in BOOLEAN /\ call' = Calling(w, t, f)
      BY <2>1
    <3> HIDE DEF f
    <3> QED
      BY <3>1, <1>2, <1>3, CallingEffect DEF CallOK, Actors
  <2>4. /\ wpc' \in [Workers -> WorkerLocation] /\ wpc'[w] = retrying
        /\ \A u \in Workers \ {w} : wpc'[u] = wpc[u]
    BY <2>1, <1>2, MoveEffect DEF RunOK
  <2> QED
    BY <1>1, <1>3, <1>4, <1>5, <2>1, <2>2, <2>3, <2>4 DEF Retried
<1>6. CASE ~(LastCopy(w) /\ state[t] = "DependsUnfinish")
  <2>1. /\ wpc' = [wpc EXCEPT ![w] = next]
        /\ Deleted(t, LastCopy(w) /\ retryCount[t] = 0)
        /\ call' = call /\ retryCount' = retryCount
    BY <1>6 DEF Release
  <2>2. /\ wpc' \in [Workers -> WorkerLocation] /\ wpc'[w] = next
        /\ \A u \in Workers \ {w} : wpc'[u] = wpc[u]
    BY <2>1, <1>2, MoveEffect DEF RunOK
  <2>3. call' \in [Actors -> CallRecord] /\ retryCount' \in [Tasks -> 0 .. RetryLimit + 1]
    BY <2>1, <1>2 DEF CallOK, TaskOK
  <2> QED
    BY <1>1, <1>3, <1>4, <1>6, <2>1, <2>2, <2>3 DEF NotRetried
<1> QED
  BY <1>5, <1>6

LEMMA EndRetryEffect ==
  ASSUME Control, NEW w \in Workers, EndRetry(w)
  PROVE  /\ call[w].task \in Tasks /\ call[w].at \in {"return", "refused"}
         /\ wpc[w] \in {"retry", "stealRetry"}
         /\ call' \in [Actors -> CallRecord]
         /\ call'[w].at = "none" /\ call'[w].task = NoTask
         /\ \A b \in Actors \ {w} : call'[b] = call[b]
         /\ wpc' \in [Workers -> WorkerLocation]
         /\ wpc'[w] = IF wpc[w] = "retry" THEN "loop" ELSE "testExitAfter"
         /\ \A u \in Workers \ {w} : wpc'[u] = wpc[u]
         /\ dropped' = IF call[w].at = "refused" THEN dropped \union {call[w].task} ELSE dropped
         /\ Deleted(call[w].task, call[w].first)
         /\ UNCHANGED <<queue, workerVars, taken, victim, taskVars, added, owner, waiter, returned>>
<1>1. CallOK /\ RunOK
  BY DEF Control
<1>2. wpc[w] \in {"retry", "stealRetry"} /\ call[w].at \in {"return", "refused"}
  BY DEF EndRetry
<1>3. call[w].task \in Tasks
  BY <1>1, <1>2, CallHasTask DEF Actors
<1>4. /\ call' \in [Actors -> CallRecord]
      /\ call'[w].at = "none" /\ call'[w].task = NoTask
      /\ \A b \in Actors \ {w} : call'[b] = call[b]
  BY <1>1, CallOverEffect DEF EndRetry, CallOK, Actors
<1>5. /\ wpc' \in [Workers -> WorkerLocation]
      /\ wpc'[w] = IF wpc[w] = "retry" THEN "loop" ELSE "testExitAfter"
      /\ \A u \in Workers \ {w} : wpc'[u] = wpc[u]
  BY <1>1, MoveEffect DEF EndRetry, RunOK, WorkerLocation
<1>6. /\ dropped' = IF call[w].at = "refused" THEN dropped \union {call[w].task} ELSE dropped
      /\ Deleted(call[w].task, call[w].first)
      /\ UNCHANGED <<queue, workerVars, taken, victim, taskVars, added, owner, waiter, returned>>
  BY DEF EndRetry, InCall
<1> QED
  BY <1>2, <1>3, <1>4, <1>5, <1>6

LEMMA TakeHeadEffect ==
  ASSUME Control, NEW w \in Workers, NEW l \in WorkerLocation, TakeHead(w, l),
         queue[w] # <<>>
  PROVE  /\ Pop(w) /\ queue[w][1] \in Tasks
         /\ taken' \in [Workers -> Tasks \union {NoTask}]
         /\ taken'[w] = queue[w][1]
         /\ wpc' \in [Workers -> WorkerLocation]
         /\ wpc'[w] = l
         /\ \A u \in Workers \ {w} : taken'[u] = taken[u] /\ wpc'[u] = wpc[u]
         /\ UNCHANGED <<workerVars, victim, call, taskVars, userVars>>
<1>1. /\ Pop(w) /\ taken' = [taken EXCEPT ![w] = Head(queue[w])]
      /\ wpc' = [wpc EXCEPT ![w] = l]
      /\ UNCHANGED <<workerVars, victim, call, taskVars, userVars>>
  BY DEF TakeHead
<1>2. QueueOK /\ RunOK
  BY DEF Control
<1>3. Head(queue[w]) = queue[w][1] /\ queue[w][1] \in Tasks
  BY <1>1, <1>2, PopEffect DEF QueueOK
<1>4. /\ taken' \in [Workers -> Tasks \union {NoTask}]
      /\ taken'[w] = queue[w][1]
      /\ \A u \in Workers \ {w} : taken'[u] = taken[u]
  BY <1>1, <1>2, <1>3, TakenEffect DEF RunOK
<1>5. /\ wpc' \in [Workers -> WorkerLocation] /\ wpc'[w] = l
      /\ \A u \in Workers \ {w} : wpc'[u] = wpc[u]
  BY <1>1, <1>2, MoveEffect DEF RunOK
<1> QED
  BY <1>1, <1>3, <1>4, <1>5

\* The two outcomes of a theft.
StolenNothing(w) ==
  /\ wpc'[w] = "testExitAfter" /\ victim'[w] = -1
  /\ queue' = queue /\ taken' = taken

StolenOne(w) ==
  /\ queue[victim[w]] # <<>> /\ Pop(victim[w]) /\ queue[victim[w]][1] \in Tasks
  /\ wpc'[w] = "stealPush" /\ victim'[w] = victim[w]
  /\ taken'[w] = queue[victim[w]][1]
  /\ \A u \in Workers \ {w} : taken'[u] = taken[u]

LEMMA StealEffect ==
  ASSUME Control, NEW w \in Workers, Steal(w)
  PROVE  /\ wpc[w] = "steal" /\ victim[w] \in Workers
         /\ taken' \in [Workers -> Tasks \union {NoTask}]
         /\ victim' \in [Workers -> Workers \union {-1}]
         /\ wpc' \in [Workers -> WorkerLocation]
         /\ \A u \in Workers \ {w} : wpc'[u] = wpc[u] /\ victim'[u] = victim[u]
         /\ StolenNothing(w) \/ StolenOne(w)
         /\ UNCHANGED <<workerVars, call, taskVars, userVars>>
<1> DEFINE u == victim[w]
<1>1. QueueOK /\ RunOK
  BY DEF Control
<1>2. wpc[w] = "steal" /\ UNCHANGED <<workerVars, call, taskVars, userVars>>
  BY DEF Steal, At
<1>3. u \in Workers
  BY <1>1, <1>2 DEF RunOK, RunAt
<1>4. CASE queue[u] = <<>>
  <2>1. /\ wpc' = [wpc EXCEPT ![w] = "testExitAfter"] /\ victim' = [victim EXCEPT ![w] = -1]
        /\ queue' = queue /\ taken' = taken
    BY <1>4 DEF Steal
  <2>2. /\ wpc' \in [Workers -> WorkerLocation] /\ wpc'[w] = "testExitAfter"
        /\ \A v \in Workers \ {w} : wpc'[v] = wpc[v]
    BY <2>1, <1>1, MoveEffect DEF RunOK, WorkerLocation
  <2>3. /\ victim' \in [Workers -> Workers \union {-1}] /\ victim'[w] = -1
        /\ \A v \in Workers \ {w} : victim'[v] = victim[v]
    BY <2>1, <1>1, VictimEffect DEF RunOK
  <2>4. taken' \in [Workers -> Tasks \union {NoTask}]
    BY <2>1, <1>1 DEF RunOK
  <2> QED
    BY <1>2, <1>3, <2>1, <2>2, <2>3, <2>4 DEF StolenNothing
<1>5. CASE queue[u] # <<>>
  <2>1. /\ taken' = [taken EXCEPT ![w] = Head(queue[u])] /\ Pop(u)
        /\ wpc' = [wpc EXCEPT ![w] = "stealPush"] /\ victim' = victim
    BY <1>5 DEF Steal
  <2>2. Head(queue[u]) = queue[u][1] /\ queue[u][1] \in Tasks
    BY <2>1, <1>1, <1>3, <1>5, PopEffect DEF QueueOK
  <2>3. /\ wpc' \in [Workers -> WorkerLocation] /\ wpc'[w] = "stealPush"
        /\ \A v \in Workers \ {w} : wpc'[v] = wpc[v]
    BY <2>1, <1>1, MoveEffect DEF RunOK, WorkerLocation
  <2>4. /\ taken' \in [Workers -> Tasks \union {NoTask}] /\ taken'[w] = queue[u][1]
        /\ \A v \in Workers \ {w} : taken'[v] = taken[v]
    BY <2>1, <2>2, <1>1, TakenEffect DEF RunOK
  <2>5. victim' \in [Workers -> Workers \union {-1}]
    BY <2>1, <1>1 DEF RunOK
  <2> QED
    BY <1>2, <1>3, <1>5, <2>1, <2>2, <2>3, <2>4, <2>5 DEF StolenOne
<1> QED
  BY <1>4, <1>5

LEMMA StealPushEffect ==
  ASSUME Control, NEW w \in Workers, NEW l \in Carrying, NEW u \in Workers,
         NEW otherwise \in WorkerLocation, StealPush(w, l, u, otherwise)
  PROVE  /\ taken[w] \in Tasks /\ taken[w] # NoTask /\ wpc[w] = l
         /\ wpc' \in [Workers -> WorkerLocation]
         /\ victim' \in [Workers -> Workers \union {-1}]
         /\ \A v \in Workers \ {w} : wpc'[v] = wpc[v] /\ victim'[v] = victim[v]
         /\ IF HasRoom(u) THEN Push(u, taken[w]) /\ wpc'[w] = "release" /\ victim'[w] = -1
                          ELSE queue' = queue /\ wpc'[w] = otherwise /\ victim'[w] = victim[w]
         /\ UNCHANGED <<workerVars, taken, call, taskVars, addVars, owner, waiter, dropped>>
<1>1. RunOK /\ wpc[w] = l
  BY DEF Control, StealPush, At
<1>2. taken[w] \in Tasks /\ taken[w] # NoTask
  BY <1>1, CarriesTask
<1>3. /\ wpc' = [wpc EXCEPT ![w] = IF HasRoom(u) THEN "release" ELSE otherwise]
      /\ victim' = [victim EXCEPT ![w] = IF HasRoom(u) THEN -1 ELSE victim[w]]
      /\ IF HasRoom(u) THEN Push(u, taken[w]) ELSE queue' = queue
      /\ UNCHANGED <<workerVars, taken, call, taskVars, addVars, owner, waiter, dropped>>
  BY DEF StealPush
<1>4. /\ wpc' \in [Workers -> WorkerLocation]
      /\ wpc'[w] = IF HasRoom(u) THEN "release" ELSE otherwise
      /\ \A v \in Workers \ {w} : wpc'[v] = wpc[v]
  <2>1. (IF HasRoom(u) THEN "release" ELSE otherwise) \in WorkerLocation
    BY DEF WorkerLocation
  <2> QED
    BY <1>1, <1>3, <2>1, MoveEffect DEF RunOK
<1>5. /\ victim' \in [Workers -> Workers \union {-1}]
      /\ victim'[w] = IF HasRoom(u) THEN -1 ELSE victim[w]
      /\ \A v \in Workers \ {w} : victim'[v] = victim[v]
  BY <1>1, <1>3, VictimEffect DEF RunOK
<1> QED
  BY <1>1, <1>2, <1>3, <1>4, <1>5

\* A worker that performs an operation on its task's promise and goes on to l.
LEMMA WorkEffect ==
  ASSUME Control, NEW w \in Workers, wpc[w] \in Carrying, NEW o \in Operation,
         Perform(o, taken[w]), NEW l \in WorkerLocation, wpc' = [wpc EXCEPT ![w] = l]
  PROVE  /\ taken[w] \in Tasks /\ taken[w] # NoTask
         /\ state' \in [Tasks -> TaskState]
         /\ \A t \in Tasks \ {taken[w]} : state'[t] = state[t]
         /\ state'[taken[w]] =
              IF state[taken[w]] \in Leaves(o) THEN Installs(o) ELSE state[taken[w]]
         /\ wpc' \in [Workers -> WorkerLocation]
         /\ wpc'[w] = l
         /\ \A u \in Workers \ {w} : wpc'[u] = wpc[u]
<1>1. RunOK /\ TaskOK /\ taken[w] \in Tasks /\ taken[w] # NoTask
  BY CarriesTask DEF Control
<1> QED
  BY <1>1, PerformEffect, MoveEffect DEF RunOK, TaskOK

LEMMA GotoEffect ==
  ASSUME Control, NEW w \in Workers, NEW l \in WorkerLocation, Goto(w, l)
  PROVE  /\ wpc' \in [Workers -> WorkerLocation]
         /\ wpc'[w] = l
         /\ \A u \in Workers \ {w} : wpc'[u] = wpc[u]
         /\ UNCHANGED <<queue, workerVars, taken, victim, call, taskVars, userVars>>
BY MoveEffect DEF Goto, Control, RunOK

\* A scan that cancels the task is the end of the call.
ScanCancels(a) == Perform("cancel", call[a].task) /\ call'[a].at = "return"

ScanPasses(a) == state' = state /\ call'[a].at = "post"

LEMMA ScanEffect ==
  ASSUME Control, NEW a \in Actors, Scan(a)
  PROVE  /\ call[a].at = "scan" /\ call[a].task \in Tasks /\ call[a].task # NoTask
         /\ call' \in [Actors -> CallRecord]
         /\ call'[a].task = call[a].task /\ call'[a].target = call[a].target
         /\ \A b \in Actors \ {a} : call'[b] = call[b]
         /\ ScanCancels(a) \/ ScanPasses(a)
         /\ UNCHANGED <<queue, workerVars, runVars, retryCount, lastWorker, userVars>>
<1>1. CallOK /\ call[a].at = "scan"
  BY DEF Control, Scan, InCall
<1>2. call[a].task \in Tasks /\ call[a].task # NoTask
  BY <1>1, CallHasTask
<1>3. UNCHANGED <<queue, workerVars, runVars, retryCount, lastWorker, userVars>>
  BY DEF Scan
<1>4. CASE Perform("cancel", call[a].task) /\ Advance(a, "return")
  BY <1>1, <1>2, <1>3, <1>4, AdvanceEffect DEF CallOK, CallAt, ScanCancels
<1>5. CASE Advance(a, "post") /\ UNCHANGED state
  BY <1>1, <1>2, <1>3, <1>5, AdvanceEffect DEF CallOK, CallAt, ScanPasses
<1> QED
  BY <1>4, <1>5 DEF Scan

LEMMA ResetEffect ==
  ASSUME Control, NEW a \in Actors, Reset(a)
  PROVE  /\ call[a].at = "reset" /\ call[a].task \in Tasks /\ call[a].task # NoTask
         /\ call' \in [Actors -> CallRecord]
         /\ call'[a].at = "scan"
         /\ call'[a].task = call[a].task /\ call'[a].target = call[a].target
         /\ \A b \in Actors \ {a} : call'[b] = call[b]
         /\ Perform("reset", call[a].task)
         /\ UNCHANGED <<queue, workerVars, runVars, retryCount, lastWorker, userVars>>
<1>1. CallOK /\ call[a].at = "reset"
  BY DEF Control, Reset, InCall
<1> QED
  BY <1>1, CallHasTask, AdvanceEffect DEF Reset, CallOK, CallAt

LEMMA PostEffect ==
  ASSUME Control, NEW a \in Actors, Post(a)
  PROVE  /\ call[a].at = "post" /\ call[a].task \in Tasks /\ call[a].task # NoTask
         /\ call[a].target \in Workers
         /\ call' \in [Actors -> CallRecord]
         /\ call'[a].at = "return" /\ call'[a].task = call[a].task
         /\ \A b \in Actors \ {a} : call'[b] = call[b]
         /\ Push(call[a].target, call[a].task)
         /\ lastWorker' \in [Tasks -> Workers \union {-1}]
         /\ UNCHANGED <<workerVars, runVars, state, retryCount, addVars, owner, waiter,
                        dropped, returned>>
<1>1. CallOK /\ TaskOK /\ call[a].at = "post"
  BY DEF Control, Post, InCall
<1>2. call[a].target \in Workers
  BY <1>1 DEF CallOK, CallIs
<1>3. lastWorker' \in [Tasks -> Workers \union {-1}]
  BY <1>1, <1>2 DEF Post, TaskOK
<1> QED
  BY <1>1, <1>2, <1>3, CallHasTask, AdvanceEffect DEF Post, CallOK, CallAt

\* A call that has found no worker.
LEMMA RefusedEffect ==
  ASSUME Control, NEW a \in Actors, PickFails(a) \/ PostRefused(a)
  PROVE  /\ call[a].at \in {"pick", "post"} /\ call[a].task \in Tasks /\ call[a].task # NoTask
         /\ call' \in [Actors -> CallRecord]
         /\ call'[a].at = "refused" /\ call'[a].task = call[a].task
         /\ \A b \in Actors \ {a} : call'[b] = call[b]
         /\ UNCHANGED <<queue, workerVars, runVars, taskVars, userVars>>
<1>1. CallOK /\ call[a].at \in {"pick", "post"} /\ Advance(a, "refused")
  BY DEF Control, PickFails, PostRefused, InCall
<1>2. UNCHANGED <<queue, workerVars, runVars, taskVars, userVars>>
  BY DEF PickFails, PostRefused
<1> QED
  BY <1>1, <1>2, CallHasTask, AdvanceEffect DEF CallOK, CallAt

LEMMA AddTaskEffect ==
  ASSUME Control, NEW t \in Tasks, AddTask(t)
  PROVE  /\ owner.op = "free" /\ added[t] \in {"no", "null"}
         /\ \A d \in dependencies[t] : added[d] = "yes"
         /\ call' \in [Actors -> CallRecord]
         /\ call'[Owner].at = "pick" /\ call'[Owner].task = t
         /\ \A b \in Actors \ {Owner} : call'[b] = call[b]
         /\ added' \in [Tasks -> {"no", "adding", "yes", "null", "garbage"}]
         /\ added'[t] = "adding" /\ \A u \in Tasks \ {t} : added'[u] = added[u]
         /\ owner'.op = "add" /\ owner'.next = owner.next
         /\ UNCHANGED <<queue, workerVars, runVars, taskVars, dangling, waiter, history>>
<1>1. CallOK /\ OwnerOK
  BY DEF Control
<1>2. /\ call' \in [Actors -> CallRecord]
      /\ call'[Owner].at = "pick" /\ call'[Owner].task = t
      /\ \A b \in Actors \ {Owner} : call'[b] = call[b]
  BY <1>1, CallingEffect DEF AddTask, CallOK, Actors
<1> QED
  BY <1>1, <1>2 DEF AddTask, OwnerOK

\* The owner's call is over, and r is what it knows of the task.
LEMMA AddOverEffect ==
  ASSUME Control, AddReturns \/ AddRefused
  PROVE  \E r \in {"yes", "garbage", "null"} :
           LET t == call[Owner].task
           IN  /\ t \in Tasks /\ t # NoTask
               /\ r = "null" <=> call[Owner].at = "refused"
               /\ r # "null" <=> call[Owner].at = "return"
               /\ r = "garbage" => dangling
               /\ dangling' = (IF r = "null" THEN dangling ELSE FALSE)
               /\ call' \in [Actors -> CallRecord]
               /\ call'[Owner].at = "none" /\ call'[Owner].task = NoTask
               /\ \A b \in Actors \ {Owner} : call'[b] = call[b]
               /\ added' \in [Tasks -> {"no", "adding", "yes", "null", "garbage"}]
               /\ added'[t] = r /\ \A u \in Tasks \ {t} : added'[u] = added[u]
               /\ owner'.op = "free" /\ owner'.next = owner.next
               /\ UNCHANGED <<queue, workerVars, runVars, taskVars, waiter, history>>
<1> DEFINE t == call[Owner].task
<1>1. CallOK /\ OwnerOK
  BY DEF Control
<1>2. /\ call[Owner].at \in {"return", "refused"}
      /\ call' = [call EXCEPT ![Owner] = NoCall]
      /\ owner' = [owner EXCEPT !.op = "free"]
      /\ UNCHANGED <<queue, workerVars, runVars, taskVars, waiter, history>>
  BY DEF AddReturns, AddRefused, InCall
<1>3. t \in Tasks /\ t # NoTask
  BY <1>1, <1>2, CallHasTask DEF Actors
<1>4. /\ call' \in [Actors -> CallRecord]
      /\ call'[Owner].at = "none" /\ call'[Owner].task = NoTask
      /\ \A b \in Actors \ {Owner} : call'[b] = call[b]
  BY <1>1, <1>2, CallOverEffect DEF CallOK, Actors
<1>5. owner'.op = "free" /\ owner'.next = owner.next
  BY <1>1, <1>2 DEF OwnerOK
<1>6. PICK r \in {"yes", "garbage", "null"} :
         /\ added' = [added EXCEPT ![t] = r]
         /\ r = "null" <=> call[Owner].at = "refused"
         /\ r # "null" <=> call[Owner].at = "return"
         /\ r = "garbage" => dangling
         /\ dangling' = (IF r = "null" THEN dangling ELSE FALSE)
  BY DEF AddReturns, AddRefused, InCall
<1>7. /\ added' \in [Tasks -> {"no", "adding", "yes", "null", "garbage"}]
      /\ added'[t] = r /\ \A u \in Tasks \ {t} : added'[u] = added[u]
  BY <1>1, <1>3, <1>6 DEF OwnerOK
<1> QED
  BY <1>2, <1>3, <1>4, <1>5, <1>6, <1>7

-----------------------------------------------------------------------------
(* Which steps touch what.                                                 *)

\* A worker whose thread only goes on, without and with a task.
Passes(w) ==
  TestExit(w) \/ PopFails(w) \/ NoSteal(w) \/ GoOn(w) \/ Sleep(w) \/ WakeUp(w)

Runs(w) == TestDependencies(w) \/ RunFunction(w)

Works(w) == Begin(w) \/ DependsUnfinish(w) \/ Finish(w) \/ DrainCancel(w)

Takes(w) == PopTakes(w) \/ DrainTakes(w)

Releases(w) == EndIteration(w) \/ LeaveIdle(w)

Steals(w) == ChooseVictim(w) \/ Steal(w) \/ Keep(w) \/ GiveBack(w)

ThreadStep(w) ==
  \/ EndRetry(w) \/ Passes(w) \/ Runs(w) \/ Works(w) \/ Takes(w) \/ Releases(w) \/ Steals(w)
  \/ TestExitAfter(w) \/ Ends(w)

OwnerGoesOn ==
  \/ \E op \in OwnerCalls : CallOwner(op)
  \/ \E w \in Workers : \/ StartWorker(w) \/ ExitWorker(w) \/ ExitAllWorker(w)
                        \/ DestroyWorker(w) \/ JoinWorker(w)

LEMMA DestroyWorkersEffect ==
  ASSUME DestroyWorkers
  PROVE  /\ owner.op = "dying" /\ \A w \in Workers : queue'[w] = <<>>
         /\ queue' \in [Workers -> Seq(Tasks)]
         /\ owner' = [owner EXCEPT !.op = "gone"]
         /\ UNCHANGED <<mExit, mExitAfterAllTasks, thread, wpc, taken, victim, call>>
         /\ UNCHANGED <<state, retryCount, lastWorker, added, dangling, waiter, dropped, returned,
                        unserved>>
<1>1. <<>> \in Seq(Tasks)
  BY EmptySeq
<1> QED
  BY <1>1 DEF DestroyWorkers, workerVars, runVars, taskVars, addVars, history

WaiterMoves == WaiterStep \/ \E t \in Waited : CallWait(t)

LEMMA StepCases ==
  ASSUME [Next]_vars
  PROVE  \/ \E a \in Actors : CallStep(a)
         \/ \E w \in Workers : ThreadStep(w)
         \/ \E t \in Tasks : AddTask(t)
         \/ AddReturns \/ AddRefused
         \/ \E t \in Unwanted : Cancel(t)
         \/ OwnerGoesOn
         \/ DestroyWorkers
         \/ WaiterMoves
         \/ UNCHANGED vars
BY DEF Next, WorkerStep, OwnerStep, ThreadStep, Passes, Runs, Works, Takes, Releases, Steals,
       OwnerGoesOn, WaiterMoves, Actors

LEMMA QueueFrame ==
  ASSUME [Next]_vars
  PROVE  \/ queue' = queue
         \/ \E a \in Actors : Post(a)
         \/ \E w \in Workers : Takes(w) \/ Steal(w) \/ Keep(w) \/ GiveBack(w)
         \/ DestroyWorkers
<1> USE DEF userVars, taskVars, runVars, vars, workerVars
<1>1. ASSUME NEW a \in Actors, CallStep(a) PROVE queue' = queue \/ Post(a)
  BY <1>1 DEF CallStep, Pick, PickFails, Reset, Scan, PostRefused
<1>2. ASSUME NEW w \in Workers, ThreadStep(w)
      PROVE  queue' = queue \/ Takes(w) \/ Steal(w) \/ Keep(w) \/ GiveBack(w)
  BY <1>2 DEF ThreadStep, EndRetry, Passes, TestExit, PopFails, Runs, TestDependencies,
              RunFunction, NoSteal, GoOn, Sleep, WakeUp, Goto, Works, Begin, DependsUnfinish, Finish,
              DrainCancel, Releases, EndIteration, LeaveIdle, Release, Steals, ChooseVictim,
              TestExitAfter, Ends
<1>3. ASSUME NEW t \in Tasks, AddTask(t) \/ Cancel(t) PROVE queue' = queue
  BY <1>3 DEF AddTask, Cancel
<1>4. CASE AddReturns \/ AddRefused \/ OwnerGoesOn \/ WaiterMoves
  BY <1>4 DEF AddReturns, AddRefused, OwnerGoesOn, CallOwner, StartWorker, ExitWorker,
              ExitAllWorker, DestroyWorker, JoinWorker, WaiterMoves, CallWait, WaiterStep,
              TestDepends, TestQueuing, TestRunning, InnerWait, LeaveWait, WaitGoto
<1> QED
  BY <1>1, <1>2, <1>3, <1>4, StepCases, UnwantedAssumption

LEMMA QueueStepOK == Control /\ [Next]_vars => QueueOK'
<1> SUFFICES ASSUME Control, [Next]_vars PROVE QueueOK'
  OBVIOUS
<1>0. QueueOK /\ queue \in [Workers -> Seq(Tasks)]
  BY DEF Control, QueueOK
<1>1. ASSUME NEW a \in Actors, Post(a) PROVE QueueOK'
  BY <1>0, <1>1, PostEffect, PushEffect DEF QueueOK
<1>2. ASSUME NEW w \in Workers, Takes(w) PROVE QueueOK'
  <2>1. queue[w] # <<>> /\ Pop(w)
    BY <1>2 DEF Takes, PopTakes, DrainTakes, TakeHead
  <2> QED
    BY <1>0, <2>1, PopEffect DEF QueueOK
<1>3. ASSUME NEW w \in Workers, Steal(w) PROVE QueueOK'
  BY <1>0, <1>3, StealEffect, PopEffect DEF QueueOK, StolenNothing, StolenOne
<1>4. ASSUME NEW w \in Workers, Keep(w) PROVE QueueOK'
  <2>1. StealPush(w, "stealPush", w, "giveBack")
    BY <1>4 DEF Keep
  <2>2. taken[w] \in Tasks /\ (queue' = queue \/ Push(w, taken[w]))
    BY <2>1, StealPushEffect DEF Carrying, WorkerLocation
  <2> QED
    BY <1>0, <2>2, PushEffect DEF QueueOK
<1>5. ASSUME NEW w \in Workers, GiveBack(w) PROVE QueueOK'
  <2>1. StealPush(w, "giveBack", victim[w], "stealPush") /\ victim[w] \in Workers
    BY <1>5 DEF GiveBack, StealPush, Control, RunOK, RunAt, At
  <2>2. taken[w] \in Tasks /\ (queue' = queue \/ Push(victim[w], taken[w]))
    BY <2>1, StealPushEffect DEF Carrying, WorkerLocation
  <2> QED
    BY <1>0, <2>1, <2>2, PushEffect DEF QueueOK
<1> QED
  BY <1>0, <1>1, <1>2, <1>3, <1>4, <1>5, QueueFrame, DestroyWorkersEffect DEF QueueOK

LEMMA RunFrame ==
  ASSUME [Next]_vars
  PROVE  \/ UNCHANGED <<runVars, thread>>
         \/ \E w \in Workers : ThreadStep(w) \/ StartWorker(w) \/ JoinWorker(w)
<1> USE DEF userVars, taskVars, runVars, vars, workerVars
<1>1. ASSUME NEW a \in Actors, CallStep(a) PROVE UNCHANGED <<runVars, thread>>
  BY <1>1 DEF CallStep, Pick, PickFails, Reset, Scan, Post, PostRefused
<1>2. ASSUME NEW t \in Tasks, AddTask(t) \/ Cancel(t) PROVE UNCHANGED <<runVars, thread>>
  BY <1>2 DEF AddTask, Cancel
<1>3. CASE AddReturns \/ AddRefused \/ WaiterMoves
  BY <1>3 DEF AddReturns, AddRefused, WaiterMoves, CallWait, WaiterStep, TestDepends,
              TestQueuing, TestRunning, InnerWait, LeaveWait, WaitGoto
<1>4. CASE OwnerGoesOn \/ DestroyWorkers
  BY <1>4 DEF OwnerGoesOn, CallOwner, ExitWorker, ExitAllWorker, DestroyWorker, DestroyWorkers
<1> QED
  BY <1>1, <1>2, <1>3, <1>4, StepCases, UnwantedAssumption

LEMMA KeepEffect ==
  ASSUME Control, NEW w \in Workers, Keep(w)
  PROVE  StealPush(w, "stealPush", w, "giveBack") /\ returned' = returned
BY DEF Keep

LEMMA GiveBackEffect ==
  ASSUME Control, NEW w \in Workers, GiveBack(w)
  PROVE  /\ victim[w] \in Workers /\ StealPush(w, "giveBack", victim[w], "stealPush")
         /\ returned' = IF HasRoom(victim[w]) THEN returned \union {taken[w]} ELSE returned
BY DEF GiveBack, StealPush, Control, RunOK, RunAt, At

LEMMA ReleasesEffect ==
  ASSUME Control, NEW w \in Workers, Releases(w)
  PROVE  \E next \in {"loop", "testExitAfter"}, retrying \in {"retry", "stealRetry"} :
           /\ taken[w] \in Tasks /\ taken[w] # NoTask /\ wpc[w] \in {"destroy", "release"}
           /\ taken' \in [Workers -> Tasks \union {NoTask}]
           /\ taken'[w] = NoTask
           /\ \A u \in Workers \ {w} : taken'[u] = taken[u] /\ wpc'[u] = wpc[u]
           /\ wpc' \in [Workers -> WorkerLocation]
           /\ call' \in [Actors -> CallRecord]
           /\ retryCount' \in [Tasks -> 0 .. RetryLimit + 1]
           /\ Retried(w, retrying) \/ NotRetried(w, next)
           /\ UNCHANGED <<queue, workerVars, victim, state, lastWorker, added, owner, waiter, history>>
<1>1. PICK l \in {"destroy", "release"}, next \in {"loop", "testExitAfter"},
           retrying \in {"retry", "stealRetry"} : Release(w, l, next, retrying)
  BY DEF Releases, EndIteration, LeaveIdle
<1>2. l \in Carrying /\ next \in WorkerLocation /\ retrying \in WorkerLocation
  BY DEF WorkerLocation, Carrying
<1> QED
  BY <1>1, <1>2, ReleaseEffect

LEMMA PassesEffect ==
  ASSUME NEW w \in Workers, Passes(w)
  PROVE  \E l \in {"loop", "pop", "idle", "testExitAfter", "asleep", "drain"} :
           /\ Goto(w, l) /\ l \in WorkerLocation \ Carrying
           /\ wpc[w] \in {"loop", "pop", "idle", "testExitAfter", "asleep"}
BY DEF Passes, TestExit, PopFails, NoSteal, GoOn, Sleep, WakeUp, At, WorkerLocation, Carrying

LEMMA RunsEffect ==
  ASSUME NEW w \in Workers, Runs(w)
  PROVE  \E l \in {"function", "depends", "finish"} :
           /\ Goto(w, l) /\ l \in WorkerLocation
           /\ wpc[w] \in {"closure", "function"}
BY DEF Runs, TestDependencies, RunFunction, At, WorkerLocation

LEMMA WorksEffect ==
  ASSUME Control, NEW w \in Workers, Works(w)
  PROVE  \E o \in {"start", "depends", "done", "cancel"}, l \in {"closure", "destroy"} :
           /\ wpc[w] \in {"begin", "depends", "finish", "drainCancel"}
           /\ Perform(o, taken[w])
           /\ wpc' = [wpc EXCEPT ![w] = l]
           /\ UNCHANGED <<queue, workerVars, taken, victim, call, retryCount, lastWorker, userVars>>
BY DEF Works, Begin, DependsUnfinish, Finish, DrainCancel, At

\* Only the thread of w has moved.
LEMMA RunChange ==
  ASSUME RunOK, NEW w \in Workers,
         thread' \in [Workers -> {"none", "running", "finished"}],
         wpc' \in [Workers -> WorkerLocation],
         taken' \in [Workers -> Tasks \union {NoTask}],
         victim' \in [Workers -> Workers \union {-1}],
         \A u \in Workers \ {w} : /\ thread'[u] = thread[u] /\ wpc'[u] = wpc[u]
                                  /\ taken'[u] = taken[u] /\ victim'[u] = victim[u],
         RunAt(w)'
  PROVE  RunOK'
BY DEF RunOK, RunAt

LEMMA RunStepOK == Control /\ [Next]_vars => RunOK'
<1> SUFFICES ASSUME Control, [Next]_vars PROVE RunOK'
  OBVIOUS
<1>0. /\ RunOK /\ thread \in [Workers -> {"none", "running", "finished"}]
      /\ taken \in [Workers -> Tasks \union {NoTask}]
      /\ victim \in [Workers -> Workers \union {-1}]
      /\ wpc \in [Workers -> WorkerLocation]
  BY DEF Control, RunOK
<1>1. ASSUME NEW w \in Workers, ThreadStep(w) PROVE RunOK'
  <2>0. RunAt(w)
    BY <1>0 DEF RunOK
  <2> USE <1>0, <2>0 DEF RunAt, Carrying, workerVars, userVars
  <2>1. CASE EndRetry(w)
    BY <2>1, EndRetryEffect, RunChange
  <2>2. CASE Passes(w)
    <3>1. PICK l \in {"loop", "pop", "idle", "testExitAfter", "asleep", "drain"} :
             /\ Goto(w, l) /\ l \in WorkerLocation \ Carrying
             /\ wpc[w] \in {"loop", "pop", "idle", "testExitAfter", "asleep"}
      BY <2>2, PassesEffect
    <3> QED
      BY <3>1, GotoEffect, RunChange
  <2>3. CASE Runs(w)
    <3>1. PICK l \in {"function", "depends", "finish"} :
             Goto(w, l) /\ l \in WorkerLocation /\ wpc[w] \in {"closure", "function"}
      BY <2>3, RunsEffect
    <3> QED
      BY <3>1, GotoEffect, RunChange
  <2>4. CASE Works(w)
    <3>1. PICK l \in {"closure", "destroy"} :
            /\ wpc[w] \in {"begin", "depends", "finish", "drainCancel"}
            /\ wpc' = [wpc EXCEPT ![w] = l]
            /\ UNCHANGED <<workerVars, taken, victim>>
      BY <2>4, WorksEffect
    <3>2. l \in WorkerLocation
      BY DEF WorkerLocation
    <3> QED
      BY <3>1, <3>2, MoveEffect, RunChange
  <2>5. CASE Takes(w)
    <3>1. PICK l \in {"begin", "drainCancel"} :
            TakeHead(w, l) /\ queue[w] # <<>> /\ wpc[w] \in {"pop", "drain"}
      BY <2>5 DEF Takes, PopTakes, DrainTakes, At
    <3>2. l \in WorkerLocation /\ queue[w][1] # NoTask
      BY <3>1, TakeHeadEffect, NoTaskAssumption DEF WorkerLocation
    <3> QED
      BY <3>1, <3>2, TakeHeadEffect, RunChange
  <2>6. CASE Releases(w)
    <3>1. /\ wpc[w] \in {"destroy", "release"} /\ taken'[w] = NoTask
          /\ wpc'[w] \in {"loop", "testExitAfter", "retry", "stealRetry"}
          /\ \A u \in Workers \ {w} : taken'[u] = taken[u] /\ wpc'[u] = wpc[u]
          /\ taken' \in [Workers -> Tasks \union {NoTask}]
          /\ wpc' \in [Workers -> WorkerLocation]
          /\ UNCHANGED <<workerVars, victim>>
      BY <2>6, ReleasesEffect DEF Retried, NotRetried
    <3> QED
      BY <3>1, RunChange
  <2>7. CASE ChooseVictim(w)
    <3>1. PICK u \in Workers : victim' = [victim EXCEPT ![w] = u]
      BY <2>7 DEF ChooseVictim
    <3>2. /\ wpc[w] = "idle" /\ wpc' = [wpc EXCEPT ![w] = "steal"] /\ "steal" \in WorkerLocation
          /\ UNCHANGED <<workerVars, taken>>
      BY <2>7 DEF ChooseVictim, At, WorkerLocation
    <3> QED
      BY <3>1, <3>2, MoveEffect, VictimEffect, NoWorkerIsNegative, RunChange
  <2>8. CASE Steal(w)
    <3>1. /\ wpc[w] = "steal" /\ victim[w] \in Workers
          /\ taken' \in [Workers -> Tasks \union {NoTask}]
          /\ victim' \in [Workers -> Workers \union {-1}]
          /\ wpc' \in [Workers -> WorkerLocation]
          /\ \A u \in Workers \ {w} : wpc'[u] = wpc[u] /\ victim'[u] = victim[u]
          /\ StolenNothing(w) \/ StolenOne(w)
          /\ UNCHANGED workerVars
      BY <2>8, StealEffect
    <3>2. CASE StolenNothing(w)
      BY <3>1, <3>2, RunChange DEF StolenNothing
    <3>3. CASE StolenOne(w)
      <4>1. /\ wpc'[w] = "stealPush" /\ victim'[w] = victim[w] /\ taken'[w] # NoTask
            /\ \A u \in Workers \ {w} : taken'[u] = taken[u]
        BY <3>3, NoTaskAssumption DEF StolenOne
      <4> QED
        BY <3>1, <4>1, RunChange
    <3> QED
      BY <3>1, <3>2, <3>3
  <2>9. CASE Keep(w) \/ GiveBack(w)
    <3>1. PICK l \in {"stealPush", "giveBack"}, u \in Workers, m \in {"stealPush", "giveBack"} :
             StealPush(w, l, u, m)
      BY <2>9, KeepEffect, GiveBackEffect
    <3>2. l \in Carrying /\ m \in WorkerLocation
      BY DEF WorkerLocation
    <3>3. /\ wpc[w] = l /\ wpc' \in [Workers -> WorkerLocation]
          /\ victim' \in [Workers -> Workers \union {-1}]
          /\ \A v \in Workers \ {w} : wpc'[v] = wpc[v] /\ victim'[v] = victim[v]
          /\ \/ wpc'[w] = "release" /\ victim'[w] = -1
             \/ wpc'[w] = m /\ victim'[w] = victim[w]
          /\ UNCHANGED <<workerVars, taken>>
      BY <3>1, <3>2, StealPushEffect
    <3> QED
      BY <3>3, RunChange
  <2>10. CASE TestExitAfter(w)
    <3>1. /\ wpc[w] = "testExitAfter" /\ wpc' = [wpc EXCEPT ![w] = "drain"]
          /\ "drain" \in WorkerLocation /\ UNCHANGED <<thread, taken, victim>>
      BY <2>10 DEF TestExitAfter, At, WorkerLocation
    <3> QED
      BY <3>1, MoveEffect, RunChange
  <2>11. CASE Ends(w)
    <3>1. /\ wpc[w] = "drain" /\ wpc' = [wpc EXCEPT ![w] = "off"] /\ "off" \in WorkerLocation
          /\ thread' = [thread EXCEPT ![w] = "finished"] /\ UNCHANGED <<taken, victim>>
      BY <2>11 DEF Ends, At, WorkerLocation
    <3> QED
      BY <3>1, MoveEffect, RunChange
  <2> QED
    BY <1>1, <2>1, <2>2, <2>3, <2>4, <2>5, <2>6, <2>7, <2>8, <2>9, <2>10, <2>11
       DEF ThreadStep, Steals
<1>2. ASSUME NEW w \in Workers, StartWorker(w) PROVE RunOK'
  <2>1. CASE thread[w] = "none"
    <3>1. /\ thread' = [thread EXCEPT ![w] = "running"] /\ wpc' = [wpc EXCEPT ![w] = "loop"]
          /\ "loop" \in WorkerLocation \ Carrying /\ wpc[w] = "off" /\ UNCHANGED <<taken, victim>>
          /\ RunAt(w)
      BY <1>0, <1>2, <2>1 DEF StartWorker, RunOK, RunAt, WorkerLocation, Carrying
    <3> QED
      BY <1>0, <3>1, MoveEffect, RunChange DEF RunAt, Carrying
  <2>2. CASE thread[w] # "none"
    BY <1>0, <1>2, <2>2 DEF StartWorker, workerVars, RunOK, RunAt
  <2> QED
    BY <2>1, <2>2
<1>3. ASSUME NEW w \in Workers, JoinWorker(w) PROVE RunOK'
  BY <1>0, <1>3 DEF JoinWorker, RunOK, RunAt, runVars
<1>4. CASE UNCHANGED <<runVars, thread>>
  BY <1>0, <1>4 DEF RunOK, RunAt, runVars
<1> QED
  BY <1>1, <1>2, <1>3, <1>4, RunFrame

\* What a worker's thread leaves alone.
LEMMA ThreadFrame ==
  ASSUME NEW w \in Workers, ThreadStep(w)
  PROVE  UNCHANGED <<added, owner, waiter, lastWorker, mExitAfterAllTasks>>
<1> USE DEF userVars, addVars, history, taskVars, runVars, workerVars
<1>1. CASE EndRetry(w) \/ Passes(w) \/ Runs(w) \/ Works(w) \/ Takes(w)
  BY <1>1 DEF EndRetry, Passes, TestExit, PopFails, Runs, TestDependencies, RunFunction, NoSteal,
              GoOn, Sleep, WakeUp, Goto, Works, Begin, DependsUnfinish, Finish, DrainCancel,
              Takes, PopTakes, DrainTakes, TakeHead
<1>2. CASE Releases(w) \/ Steals(w) \/ TestExitAfter(w) \/ Ends(w)
  BY <1>2 DEF Releases, EndIteration, LeaveIdle, Release, Steals, ChooseVictim, Steal, Keep,
              GiveBack, StealPush, TestExitAfter, Ends
<1> QED
  BY <1>1, <1>2 DEF ThreadStep

\* A worker begins and ends calls of its own only.
LEMMA ThreadCalls ==
  ASSUME NEW w \in Workers, ThreadStep(w)
  PROVE  \/ EndRetry(w)
         \/ Releases(w)
         \/ call' = call /\ dropped' = dropped /\ retryCount' = retryCount /\ dangling' = dangling
<1> USE DEF userVars, addVars, history, taskVars, runVars, workerVars
<1>1. CASE Passes(w) \/ Runs(w) \/ Works(w) \/ Takes(w)
  BY <1>1 DEF Passes, TestExit, PopFails, Runs, TestDependencies, RunFunction, NoSteal,
              GoOn, Sleep, WakeUp, Goto, Works, Begin, DependsUnfinish, Finish, DrainCancel,
              Takes, PopTakes, DrainTakes, TakeHead
<1>2. CASE Steals(w) \/ TestExitAfter(w) \/ Ends(w)
  BY <1>2 DEF Steals, ChooseVictim, Steal, Keep, GiveBack, StealPush, TestExitAfter, Ends
<1> QED
  BY <1>1, <1>2 DEF ThreadStep

\* The other steps of a thread neither begin nor end a retry.
LEMMA ThreadRetries ==
  ASSUME Control, NEW w \in Workers, ThreadStep(w)
  PROVE  \/ EndRetry(w)
         \/ Releases(w)
         \/ /\ wpc[w] \notin {"retry", "stealRetry"} /\ wpc'[w] \notin {"retry", "stealRetry"}
            /\ \A u \in Workers \ {w} : wpc'[u] = wpc[u]
<1> DEFINE Quiet == /\ wpc[w] \notin {"retry", "stealRetry"}
                    /\ wpc'[w] \notin {"retry", "stealRetry"}
                    /\ \A u \in Workers \ {w} : wpc'[u] = wpc[u]
<1>0. wpc \in [Workers -> WorkerLocation]
  BY DEF Control, RunOK
<1> USE <1>0 DEF WorkerLocation, Carrying
<1>1. CASE Passes(w) \/ Runs(w)
  <2>1. PICK l \in WorkerLocation \ {"retry", "stealRetry"} :
           Goto(w, l) /\ wpc[w] \notin {"retry", "stealRetry"}
    BY <1>1, PassesEffect, RunsEffect
  <2> QED
    BY <2>1, GotoEffect
<1>2. CASE Works(w)
  <2>1. PICK l \in {"closure", "destroy"} :
           /\ wpc' = [wpc EXCEPT ![w] = l]
           /\ wpc[w] \in {"begin", "depends", "finish", "drainCancel"}
    BY <1>2, WorksEffect
  <2> QED
    BY <2>1, MoveEffect
<1>3. CASE Takes(w)
  BY <1>3, MoveEffect DEF Takes, PopTakes, DrainTakes, TakeHead, At
<1>4. CASE ChooseVictim(w) \/ TestExitAfter(w) \/ Ends(w)
  BY <1>4, MoveEffect DEF ChooseVictim, TestExitAfter, Ends, At
<1>5. CASE Steal(w)
  BY <1>5, MoveEffect DEF Steal, At
<1>6. CASE Keep(w) \/ GiveBack(w)
  <2>1. PICK l \in {"stealPush", "giveBack"}, u \in Workers, m \in {"stealPush", "giveBack"} :
           StealPush(w, l, u, m)
    BY <1>6, KeepEffect, GiveBackEffect
  <2>2. l \in Carrying /\ m \in WorkerLocation
    OBVIOUS
  <2>3. /\ wpc[w] = l /\ wpc'[w] \in {"release", m}
        /\ \A v \in Workers \ {w} : wpc'[v] = wpc[v]
    <3> HIDE DEF Carrying, WorkerLocation
    <3> QED
      BY <2>1, <2>2, StealPushEffect
  <2> QED
    BY <2>3
<1> QED
  BY <1>1, <1>2, <1>3, <1>4, <1>5, <1>6 DEF ThreadStep, Steals

\* The owner's other calls.
LEMMA OwnerGoesOnEffect ==
  ASSUME Control, OwnerGoesOn
  PROVE  /\ owner.op # "add" /\ owner'.op # "add" /\ owner'.next \in Workers
         /\ owner' \in [op : {"free", "add", "start", "exit", "join", "exitAll", "joinAll",
                              "destroy", "destroyJoin", "dying", "gone"},
                        next : Workers]
         /\ UNCHANGED <<queue, taken, victim, call, taskVars, addVars, waiter, dropped, returned>>
<1> DEFINE Ops == {"free", "add", "start", "exit", "join", "exitAll", "joinAll", "destroy",
                   "destroyJoin", "dying", "gone"}
<1>0. owner \in [op : Ops, next : Workers]
  BY DEF Control, OwnerOK
<1>1. UNCHANGED <<queue, taken, victim, call, taskVars, addVars, waiter, dropped, returned>>
  BY DEF OwnerGoesOn, CallOwner, StartWorker, ExitWorker, ExitAllWorker, DestroyWorker,
         JoinWorker, runVars, history
<1>2. ASSUME NEW op \in OwnerCalls, CallOwner(op)
      PROVE  owner.op # "add" /\ owner'.op # "add" /\ owner' \in [op : Ops, next : Workers]
  BY <1>2, OwnerCallsAssumption, FirstWorker DEF CallOwner
<1>3. ASSUME NEW w \in Workers, NEW op \in Ops, NEW after \in Ops, NextWorker(w, op, after),
             op # "add", after # "add"
      PROVE  owner'.op # "add" /\ owner' \in [op : Ops, next : Workers]
  BY <1>3, FirstWorker DEF NextWorker
<1>4. ASSUME NEW op \in Ops, op # "add", owner' = [owner EXCEPT !.op = op]
      PROVE  owner'.op # "add" /\ owner' \in [op : Ops, next : Workers]
  BY <1>0, <1>4
<1>5. ASSUME NEW w \in Workers, StartWorker(w) \/ ExitWorker(w)
      PROVE  owner.op # "add" /\ owner'.op # "add" /\ owner' \in [op : Ops, next : Workers]
  BY <1>3, <1>5 DEF StartWorker, ExitWorker
<1>6. ASSUME NEW w \in Workers, ExitAllWorker(w) \/ DestroyWorker(w)
      PROVE  owner.op # "add" /\ owner'.op # "add" /\ owner' \in [op : Ops, next : Workers]
  BY <1>3, <1>4, <1>6 DEF ExitAllWorker, DestroyWorker
<1>7. ASSUME NEW w \in Workers, JoinWorker(w)
      PROVE  owner.op # "add" /\ owner'.op # "add" /\ owner' \in [op : Ops, next : Workers]
  BY <1>3, <1>7 DEF JoinWorker
<1> QED
  BY <1>1, <1>2, <1>5, <1>6, <1>7 DEF OwnerGoesOn

\* Only the call of a has changed.
LEMMA CallChange ==
  ASSUME CallOK, NEW a \in Actors, call' \in [Actors -> CallRecord],
         \A b \in Actors \ {a} : call'[b] = call[b],
         CallIs(a)',
         call'[Owner].at = "none" <=> owner'.op # "add",
         \A w \in Workers : call'[w].at = "none" <=> wpc'[w] \notin {"retry", "stealRetry"}
  PROVE  CallOK'
BY DEF CallOK, CallIs

LEMMA CallStepOK == Control /\ [Next]_vars => CallOK'
<1> SUFFICES ASSUME Control, [Next]_vars PROVE CallOK'
  OBVIOUS
<1>0. /\ CallOK /\ call \in [Actors -> CallRecord] /\ \A a \in Actors : CallIs(a)
      /\ call[Owner].at = "none" <=> owner.op # "add"
      /\ \A w \in Workers : call[w].at = "none" <=> wpc[w] \notin {"retry", "stealRetry"}
      /\ Workers \subseteq Actors /\ Owner \in Actors /\ Owner \notin Workers
  BY OwnerAssumption DEF Control, CallOK, Actors
<1> USE <1>0
<1>1. ASSUME NEW a \in Actors, CallStep(a) PROVE CallOK'
  <2>1. /\ call' \in [Actors -> CallRecord]
        /\ \A b \in Actors \ {a} : call'[b] = call[b]
        /\ call[a].at # "none" /\ call'[a].at # "none"
        /\ CallIs(a)'
        /\ owner' = owner /\ wpc' = wpc
    <3> USE DEF userVars, runVars, CallIs
    <3>1. CASE Pick(a)
      <4>1. call[a].at = "pick" /\ owner' = owner /\ wpc' = wpc
        BY <3>1 DEF Pick, InCall
      <4>2. call[a].task # NoTask
        BY <4>1, CallHasTask
      <4>3. TaskOK
        BY DEF Control
      <4> QED
        BY <3>1, <4>1, <4>2, <4>3, PickEffect
    <3>2. CASE PickFails(a) \/ PostRefused(a)
      BY <3>2, RefusedEffect
    <3>3. CASE Reset(a)
      BY <3>3, ResetEffect
    <3>4. CASE Scan(a)
      BY <3>4, ScanEffect DEF ScanCancels, ScanPasses
    <3>5. CASE Post(a)
      BY <3>5, PostEffect
    <3> QED
      BY <1>1, <3>1, <3>2, <3>3, <3>4, <3>5 DEF CallStep
  <2>2. call'[Owner].at = "none" <=> owner'.op # "add"
    BY <2>1
  <2>3. \A w \in Workers : call'[w].at = "none" <=> wpc'[w] \notin {"retry", "stealRetry"}
    BY <2>1
  <2> QED
    BY <2>1, <2>2, <2>3, CallChange
<1>2. ASSUME NEW w \in Workers, ThreadStep(w) PROVE CallOK'
  <2>1. owner' = owner /\ w # Owner
    BY <1>2, ThreadFrame
  <2>2. CASE EndRetry(w)
    <3>1. /\ call' \in [Actors -> CallRecord]
          /\ \A b \in Actors \ {w} : call'[b] = call[b]
          /\ call'[w].at = "none" /\ call'[w].task = NoTask
          /\ wpc'[w] \notin {"retry", "stealRetry"}
          /\ \A u \in Workers \ {w} : wpc'[u] = wpc[u]
      BY <2>2, EndRetryEffect
    <3>2. \A u \in Workers : call'[u].at = "none" <=> wpc'[u] \notin {"retry", "stealRetry"}
      BY <3>1
    <3> QED
      BY <2>1, <3>1, <3>2, CallChange DEF CallIs
  <2>3. CASE Releases(w)
    <3>1. PICK next \in {"loop", "testExitAfter"}, retrying \in {"retry", "stealRetry"} :
            /\ call' \in [Actors -> CallRecord] /\ taken[w] # NoTask
            /\ wpc[w] \in {"destroy", "release"}
            /\ \A u \in Workers \ {w} : wpc'[u] = wpc[u]
            /\ Retried(w, retrying) \/ NotRetried(w, next)
      BY <2>3, ReleasesEffect
    <3>2. CASE Retried(w, retrying)
      <4>1. /\ wpc'[w] = retrying /\ call'[w].at = "pick" /\ call'[w].task # NoTask
            /\ \A b \in Actors \ {w} : call'[b] = call[b]
        BY <3>1, <3>2 DEF Retried
      <4>2. \A u \in Workers : call'[u].at = "none" <=> wpc'[u] \notin {"retry", "stealRetry"}
        BY <3>1, <4>1
      <4> QED
        BY <2>1, <3>1, <4>1, <4>2, CallChange DEF CallIs
    <3>3. CASE NotRetried(w, next)
      <4>1. wpc'[w] = next /\ call' = call
        BY <3>3 DEF NotRetried
      <4>2. \A u \in Workers : call'[u].at = "none" <=> wpc'[u] \notin {"retry", "stealRetry"}
        BY <3>1, <4>1
      <4> QED
        BY <2>1, <4>1, <4>2 DEF CallOK, CallIs
    <3> QED
      BY <3>1, <3>2, <3>3
  <2>4. CASE ~EndRetry(w) /\ ~Releases(w)
    BY <1>2, <2>1, <2>4, ThreadCalls, ThreadRetries DEF CallOK, CallIs
  <2> QED
    BY <2>2, <2>3, <2>4
<1>3. ASSUME NEW t \in Tasks, AddTask(t) PROVE CallOK'
  <2>1. t # NoTask
    BY NoTaskAssumption
  <2>2. /\ call' \in [Actors -> CallRecord] /\ call'[Owner].at = "pick" /\ call'[Owner].task = t
        /\ \A b \in Actors \ {Owner} : call'[b] = call[b]
        /\ owner'.op = "add" /\ wpc' = wpc
    BY <1>3, AddTaskEffect DEF runVars
  <2> QED
    BY <2>1, <2>2, CallChange DEF CallIs
<1>4. CASE AddReturns \/ AddRefused
  <2>1. /\ call' \in [Actors -> CallRecord]
        /\ call'[Owner].at = "none" /\ call'[Owner].task = NoTask
        /\ \A b \in Actors \ {Owner} : call'[b] = call[b]
        /\ owner'.op = "free" /\ wpc' = wpc
    BY <1>4, AddOverEffect DEF runVars
  <2> QED
    BY <2>1, CallChange DEF CallIs
<1>5. ASSUME NEW t \in Tasks, Cancel(t) PROVE CallOK'
  BY <1>5 DEF Cancel, userVars, runVars, CallOK, CallIs
<1>6. CASE OwnerGoesOn
  <2>1. call' = call /\ owner.op # "add" /\ owner'.op # "add"
    BY <1>6, OwnerGoesOnEffect
  <2>2. \A w \in Workers : wpc'[w] \in {"retry", "stealRetry"} <=> wpc[w] \in {"retry", "stealRetry"}
    <3>1. ASSUME NEW w \in Workers, StartWorker(w), thread[w] = "none" PROVE <2>2
      <4>1. wpc[w] = "off" /\ wpc' = [wpc EXCEPT ![w] = "loop"] /\ wpc \in [Workers -> WorkerLocation]
        BY <3>1 DEF StartWorker, Control, RunOK, RunAt
      <4> QED
        BY <4>1
    <3>2. ASSUME NEW w \in Workers, StartWorker(w), thread[w] # "none" PROVE <2>2
      BY <3>2 DEF StartWorker
    <3>3. CASE ~ \E w \in Workers : StartWorker(w)
      BY <1>6, <3>3 DEF OwnerGoesOn, CallOwner, ExitWorker, ExitAllWorker, DestroyWorker,
                        JoinWorker, runVars
    <3> QED
      BY <3>1, <3>2, <3>3
  <2> QED
    BY <2>1, <2>2 DEF CallOK, CallIs
<1>7. CASE DestroyWorkers
  BY <1>7, DestroyWorkersEffect DEF CallOK, CallIs, Control, OwnerOK
<1>8. CASE WaiterMoves \/ UNCHANGED vars
  BY <1>8 DEF WaiterMoves, WaiterStep, CallWait, TestDepends, TestQueuing, TestRunning, InnerWait,
              LeaveWait, WaitGoto, vars, runVars, userVars, CallOK, CallIs
<1> QED
  BY <1>1, <1>2, <1>3, <1>4, <1>5, <1>6, <1>7, <1>8, StepCases, UnwantedAssumption

\* Only the call of an actor and the work of a worker touch a promise.
LEMMA StateFrame ==
  ASSUME [Next]_vars
  PROVE  \/ state' = state
         \/ \E a \in Actors : Reset(a) \/ Scan(a)
         \/ \E w \in Workers : Works(w)
         \/ \E t \in Unwanted : Cancel(t)
<1> USE DEF userVars, taskVars, runVars, vars, workerVars, addVars, history
<1>1. ASSUME NEW a \in Actors, CallStep(a) PROVE state' = state \/ Reset(a) \/ Scan(a)
  BY <1>1 DEF CallStep, Pick, PickFails, Post, PostRefused
<1>2. ASSUME NEW w \in Workers, ThreadStep(w) PROVE state' = state \/ Works(w)
  BY <1>2 DEF ThreadStep, EndRetry, Passes, TestExit, PopFails, Runs, TestDependencies,
              RunFunction, NoSteal, GoOn, Sleep, WakeUp, Goto, Takes, PopTakes, DrainTakes,
              TakeHead, Releases, EndIteration, LeaveIdle, Release, Steals, ChooseVictim, Steal,
              Keep, GiveBack, StealPush, TestExitAfter, Ends
<1>3. ASSUME NEW t \in Tasks, AddTask(t) PROVE state' = state
  BY <1>3 DEF AddTask
<1>4. CASE AddReturns \/ AddRefused \/ OwnerGoesOn \/ WaiterMoves
  BY <1>4 DEF AddReturns, AddRefused, OwnerGoesOn, CallOwner, StartWorker, ExitWorker,
              ExitAllWorker, DestroyWorker, JoinWorker, WaiterMoves, CallWait, WaiterStep,
              TestDepends, TestQueuing, TestRunning, InnerWait, LeaveWait, WaitGoto
<1> QED
  BY <1>1, <1>2, <1>3, <1>4, StepCases, DestroyWorkersEffect

\* What a step may do to a promise: one operation on one of them.
LEMMA StateStep ==
  ASSUME Control, [Next]_vars
  PROVE  state' = state \/ \E t \in Tasks, o \in Operation : Perform(o, t)
<1>1. ASSUME NEW a \in Actors, Reset(a) \/ Scan(a)
      PROVE  state' = state \/ \E t \in Tasks, o \in Operation : Perform(o, t)
  BY <1>1, ResetEffect, ScanEffect DEF ScanCancels, ScanPasses, Operation
<1>2. ASSUME NEW w \in Workers, Works(w)
      PROVE  \E t \in Tasks, o \in Operation : Perform(o, t)
  <2>1. PICK o \in {"start", "depends", "done", "cancel"} :
          Perform(o, taken[w]) /\ wpc[w] \in {"begin", "depends", "finish", "drainCancel"}
    BY <1>2, WorksEffect
  <2> QED
    BY <2>1, CarriesTask DEF Control, Carrying, Operation
<1>3. ASSUME NEW t \in Unwanted, Cancel(t) PROVE Perform("cancel", t) /\ t \in Tasks
  BY <1>3, UnwantedAssumption DEF Cancel
<1> QED
  BY <1>1, <1>2, <1>3, StateFrame DEF Operation

LEMMA TaskStepOK == Control /\ [Next]_vars => TaskOK'
<1> SUFFICES ASSUME Control, [Next]_vars PROVE TaskOK'
  OBVIOUS
<1>0. TaskOK
  BY DEF Control
<1>1. state' \in [Tasks -> TaskState]
  BY <1>0, StateStep, PerformEffect DEF TaskOK
<1>2. retryCount' = retryCount \/ \E w \in Workers : Releases(w)
  <2> USE DEF userVars, taskVars, runVars, vars
  <2>1. ASSUME NEW a \in Actors, CallStep(a) PROVE retryCount' = retryCount
    BY <2>1 DEF CallStep, Pick, PickFails, Reset, Scan, Post, PostRefused
  <2>2. ASSUME NEW w \in Workers, ThreadStep(w) PROVE retryCount' = retryCount \/ Releases(w)
    BY <2>2, ThreadCalls DEF EndRetry
  <2>3. ASSUME NEW t \in Tasks, AddTask(t) \/ Cancel(t) PROVE retryCount' = retryCount
    BY <2>3 DEF AddTask, Cancel
  <2>4. CASE AddReturns \/ AddRefused \/ OwnerGoesOn \/ WaiterMoves
    BY <2>4, OwnerGoesOnEffect
       DEF AddReturns, AddRefused, WaiterMoves, CallWait, WaiterStep,
           TestDepends, TestQueuing, TestRunning, InnerWait, LeaveWait, WaitGoto
  <2> QED
    BY <2>1, <2>2, <2>3, <2>4, StepCases, UnwantedAssumption, DestroyWorkersEffect
<1>3. lastWorker' = lastWorker \/ \E a \in Actors : Post(a)
  <2> USE DEF userVars, taskVars, runVars, vars
  <2>1. ASSUME NEW a \in Actors, CallStep(a) PROVE lastWorker' = lastWorker \/ Post(a)
    BY <2>1 DEF CallStep, Pick, PickFails, Reset, Scan, PostRefused
  <2>2. ASSUME NEW w \in Workers, ThreadStep(w) PROVE lastWorker' = lastWorker
    BY <2>2, ThreadFrame
  <2>3. ASSUME NEW t \in Tasks, AddTask(t) \/ Cancel(t) PROVE lastWorker' = lastWorker
    BY <2>3 DEF AddTask, Cancel
  <2>4. CASE AddReturns \/ AddRefused \/ OwnerGoesOn \/ WaiterMoves
    BY <2>4, OwnerGoesOnEffect
       DEF AddReturns, AddRefused, WaiterMoves, CallWait, WaiterStep,
           TestDepends, TestQueuing, TestRunning, InnerWait, LeaveWait, WaitGoto
  <2> QED
    BY <2>1, <2>2, <2>3, <2>4, StepCases, UnwantedAssumption, DestroyWorkersEffect
<1>4. retryCount' \in [Tasks -> 0 .. RetryLimit + 1]
  <2>1. ASSUME NEW w \in Workers, Releases(w) PROVE retryCount' \in [Tasks -> 0 .. RetryLimit + 1]
    BY <2>1, ReleasesEffect
  <2> QED
    BY <1>0, <1>2, <2>1 DEF TaskOK
<1>5. lastWorker' \in [Tasks -> Workers \union {-1}]
  BY <1>0, <1>3, PostEffect DEF TaskOK
<1> QED
  BY <1>1, <1>4, <1>5 DEF TaskOK

\* What a step may do to the history and to the owner's knowledge of a task.
LEMMA UserFrame ==
  ASSUME Control, [Next]_vars
  PROVE  \/ UNCHANGED <<added, dangling, owner, dropped, returned>>
         \/ \E w \in Workers : EndRetry(w) \/ Releases(w) \/ GiveBack(w)
         \/ \E t \in Tasks : AddTask(t)
         \/ AddReturns \/ AddRefused
         \/ OwnerGoesOn \/ DestroyWorkers
<1> USE DEF userVars, addVars, history, vars
<1>1. ASSUME NEW a \in Actors, CallStep(a)
      PROVE  UNCHANGED <<added, dangling, owner, dropped, returned>>
  BY <1>1 DEF CallStep, Pick, PickFails, Reset, Scan, Post, PostRefused
<1>2. ASSUME NEW w \in Workers, ThreadStep(w)
      PROVE  \/ UNCHANGED <<added, dangling, owner, dropped, returned>>
             \/ EndRetry(w) \/ Releases(w) \/ GiveBack(w)
  <2>1. returned' = returned \/ EndRetry(w) \/ Releases(w) \/ GiveBack(w)
    BY <1>2 DEF ThreadStep, Passes, TestExit, PopFails, Runs, TestDependencies,
                RunFunction, NoSteal, GoOn, Sleep, WakeUp, Goto, Works, Begin, DependsUnfinish,
                Finish, DrainCancel, Takes, PopTakes, DrainTakes, TakeHead,
                Steals, ChooseVictim, Steal, Keep, TestExitAfter, Ends
  <2> QED
    BY <1>2, <2>1, ThreadFrame, ThreadCalls
<1>3. ASSUME NEW t \in Tasks, Cancel(t)
      PROVE  UNCHANGED <<added, dangling, owner, dropped, returned>>
  BY <1>3 DEF Cancel
<1>4. CASE WaiterMoves
  BY <1>4 DEF WaiterMoves, CallWait, WaiterStep, TestDepends, TestQueuing, TestRunning, InnerWait,
              LeaveWait, WaitGoto
<1> QED
  BY <1>1, <1>2, <1>3, <1>4, StepCases, UnwantedAssumption

LEMMA OwnerStepOK == Control /\ [Next]_vars => OwnerOK'
<1> SUFFICES ASSUME Control, [Next]_vars PROVE OwnerOK'
  OBVIOUS
<1> DEFINE Answers == {"no", "adding", "yes", "null", "garbage"}
           Ops == {"free", "add", "start", "exit", "join", "exitAll", "joinAll", "destroy",
                   "destroyJoin", "dying", "gone"}
<1>0. /\ added \in [Tasks -> Answers] /\ dangling \in BOOLEAN
      /\ owner \in [op : Ops, next : Workers]
      /\ dropped \subseteq Tasks /\ returned \subseteq Tasks
  BY DEF Control, OwnerOK
<1>1. ASSUME NEW w \in Workers, EndRetry(w) PROVE OwnerOK'
  <2>1. /\ call[w].task \in Tasks
        /\ dropped' \in {dropped, dropped \union {call[w].task}}
        /\ UNCHANGED <<added, owner, returned>>
    BY <1>1, EndRetryEffect DEF userVars
  <2>2. dangling' \in BOOLEAN
    BY <1>0, <1>1 DEF EndRetry, Deleted
  <2> QED
    BY <1>0, <2>1, <2>2 DEF OwnerOK
<1>2. ASSUME NEW w \in Workers, Releases(w) PROVE OwnerOK'
  <2>1. UNCHANGED <<added, owner, dropped, returned>>
    BY <1>2, ReleasesEffect DEF history
  <2>2. dangling' \in BOOLEAN
    BY <1>0, <1>2, ReleasesEffect DEF Retried, NotRetried, Deleted
  <2> QED
    BY <1>0, <2>1, <2>2 DEF OwnerOK
<1>3. ASSUME NEW w \in Workers, GiveBack(w) PROVE OwnerOK'
  <2>1. returned' \in {returned, returned \union {taken[w]}}
    BY <1>3, GiveBackEffect
  <2>2. taken[w] \in Tasks
    BY <1>3, CarriesTask DEF GiveBack, StealPush, At, Control, Carrying
  <2>3. UNCHANGED <<added, dangling, owner, dropped>>
    BY <1>3 DEF GiveBack, StealPush, addVars
  <2> QED
    BY <1>0, <2>1, <2>2, <2>3 DEF OwnerOK
<1>4. ASSUME NEW t \in Tasks, AddTask(t) PROVE OwnerOK'
  <2>1. owner' \in [op : Ops, next : Workers]
    BY <1>0, <1>4 DEF AddTask
  <2>2. added' \in [Tasks -> Answers] /\ UNCHANGED <<dangling, dropped, returned>>
    BY <1>4, AddTaskEffect DEF history
  <2> QED
    BY <1>0, <2>1, <2>2 DEF OwnerOK
<1>5. CASE AddReturns \/ AddRefused
  <2>1. owner' \in [op : Ops, next : Workers]
    BY <1>0, <1>5 DEF AddReturns, AddRefused
  <2>2. added' \in [Tasks -> Answers] /\ UNCHANGED <<dropped, returned>>
    BY <1>5, AddOverEffect DEF history
  <2>3. dangling' \in BOOLEAN
    BY <1>0, <1>5 DEF AddReturns, AddRefused
  <2> QED
    BY <1>0, <2>1, <2>2, <2>3 DEF OwnerOK
<1>6. CASE OwnerGoesOn
  BY <1>0, <1>6, OwnerGoesOnEffect DEF OwnerOK, addVars
<1>7. CASE DestroyWorkers
  BY <1>0, <1>7, DestroyWorkersEffect DEF OwnerOK
<1> QED
  BY <1>0, <1>1, <1>2, <1>3, <1>4, <1>5, <1>6, <1>7, UserFrame DEF OwnerOK

\* Only the waiting thread changes what it is at.
LEMMA WaiterFrame ==
  ASSUME Control, [Next]_vars
  PROVE  waiter' = waiter \/ WaiterMoves
<1> USE DEF userVars, vars
<1>1. ASSUME NEW a \in Actors, CallStep(a) PROVE waiter' = waiter
  BY <1>1 DEF CallStep, Pick, PickFails, Reset, Scan, Post, PostRefused
<1>2. ASSUME NEW t \in Tasks, AddTask(t) \/ Cancel(t) PROVE waiter' = waiter
  BY <1>2 DEF AddTask, Cancel
<1>3. CASE AddReturns \/ AddRefused
  BY <1>3 DEF AddReturns, AddRefused
<1> QED
  BY <1>1, <1>2, <1>3, ThreadFrame, OwnerGoesOnEffect, DestroyWorkersEffect, StepCases,
     UnwantedAssumption

LEMMA WaiterStepOK == Control /\ [Next]_vars => WaiterOK'
<1> SUFFICES ASSUME WaiterOK, waiter' = waiter \/ WaiterMoves PROVE WaiterOK'
  BY WaiterFrame DEF Control
<1>1. ASSUME NEW t \in Waited, CallWait(t) PROVE WaiterOK'
  BY <1>1, NoTaskAssumption, WaitedAssumption DEF CallWait, WaiterOK
<1>2. CASE TestDepends \/ TestQueuing \/ TestRunning \/ InnerWait
  BY <1>2 DEF TestDepends, TestQueuing, TestRunning, InnerWait, WaitGoto, WaiterOK
<1>3. CASE LeaveWait
  BY <1>3 DEF LeaveWait, WaiterOK
<1> QED
  BY <1>1, <1>2, <1>3 DEF WaiterMoves, WaiterStep, WaiterOK

LEMMA FlagStepOK == Control /\ [Next]_vars => FlagOK'
<1> SUFFICES ASSUME FlagOK, [Next]_vars PROVE FlagOK'
  BY DEF Control
<1> USE DEF workerVars, vars
<1>1. ASSUME NEW a \in Actors, CallStep(a) PROVE FlagOK'
  BY <1>1 DEF CallStep, Pick, PickFails, Reset, Scan, Post, PostRefused, FlagOK
<1>2. ASSUME NEW w \in Workers, ThreadStep(w) PROVE FlagOK'
  <2>1. UNCHANGED <<mExit, mExitAfterAllTasks>> \/ TestExitAfter(w)
    BY <1>2 DEF ThreadStep, EndRetry, Passes, TestExit, PopFails, Runs, TestDependencies,
                RunFunction, NoSteal, GoOn, Sleep, WakeUp, Goto, Works, Begin, DependsUnfinish,
                Finish, DrainCancel, Takes, PopTakes, DrainTakes, TakeHead, Releases, EndIteration,
                LeaveIdle, Release, Steals, ChooseVictim, Steal, Keep, GiveBack, StealPush, Ends
  <2> QED
    BY <2>1 DEF TestExitAfter, FlagOK
<1>3. ASSUME NEW t \in Tasks, AddTask(t) \/ Cancel(t) PROVE FlagOK'
  BY <1>3 DEF AddTask, Cancel, FlagOK
<1>4. CASE AddReturns \/ AddRefused \/ WaiterMoves
  BY <1>4 DEF AddReturns, AddRefused, WaiterMoves, CallWait, WaiterStep, TestDepends,
              TestQueuing, TestRunning, InnerWait, LeaveWait, WaitGoto, FlagOK
<1>5. CASE OwnerGoesOn
  BY <1>5 DEF OwnerGoesOn, CallOwner, StartWorker, ExitWorker, ExitAllWorker, DestroyWorker,
              JoinWorker, FlagOK
<1> QED
  BY <1>1, <1>2, <1>3, <1>4, <1>5, StepCases, UnwantedAssumption, DestroyWorkersEffect DEF FlagOK

\* Only a post by addTask and the start of a worker touch unserved.
LEMMA UnservedFrame ==
  ASSUME [Next]_vars
  PROVE  \/ unserved' = unserved
         \/ \E a \in Actors : Post(a)
         \/ \E w \in Workers : StartWorker(w)
<1> USE DEF userVars, history, vars
<1>1. ASSUME NEW a \in Actors, CallStep(a) PROVE unserved' = unserved \/ Post(a)
  BY <1>1 DEF CallStep, Pick, PickFails, Reset, Scan, PostRefused
<1>2. ASSUME NEW w \in Workers, ThreadStep(w) PROVE unserved' = unserved
  BY <1>2 DEF ThreadStep, EndRetry, Passes, TestExit, PopFails, Runs, TestDependencies,
              RunFunction, NoSteal, GoOn, Sleep, WakeUp, Goto, Works, Begin, DependsUnfinish,
              Finish, DrainCancel, Takes, PopTakes, DrainTakes, TakeHead, Releases, EndIteration,
              LeaveIdle, Release, Steals, ChooseVictim, Steal, Keep, GiveBack, StealPush,
              TestExitAfter, Ends
<1>3. ASSUME NEW t \in Tasks, AddTask(t) \/ Cancel(t) PROVE unserved' = unserved
  BY <1>3 DEF AddTask, Cancel
<1>4. CASE AddReturns \/ AddRefused \/ WaiterMoves
  BY <1>4 DEF AddReturns, AddRefused, WaiterMoves, CallWait, WaiterStep, TestDepends,
              TestQueuing, TestRunning, InnerWait, LeaveWait, WaitGoto
<1>5. CASE OwnerGoesOn
  BY <1>5 DEF OwnerGoesOn, CallOwner, ExitWorker, ExitAllWorker, DestroyWorker, JoinWorker
<1> QED
  BY <1>1, <1>2, <1>3, <1>4, <1>5, StepCases, UnwantedAssumption, DestroyWorkersEffect

LEMMA UnservedStepOK == Control /\ [Next]_vars => UnservedOK'
<1> SUFFICES ASSUME Control, [Next]_vars PROVE UnservedOK'
  OBVIOUS
<1>0. unserved \in [Workers -> SUBSET Tasks]
  BY DEF Control, UnservedOK
<1>1. ASSUME NEW a \in Actors, Post(a) PROVE UnservedOK'
  <2> DEFINE t == call[a].task
             w == call[a].target
             U == unserved[w] \union IF a = Owner /\ thread[w] # "running" THEN {t} ELSE {}
  <2>1. unserved' = [unserved EXCEPT ![w] = U]
    BY <1>1 DEF Post
  <2>2. U \in SUBSET Tasks
    BY <1>0, <1>1, PostEffect
  <2> QED
    BY <1>0, <2>1, <2>2 DEF UnservedOK
<1>2. ASSUME NEW w \in Workers, StartWorker(w) PROVE UnservedOK'
  BY <1>0, <1>2 DEF StartWorker, UnservedOK
<1> QED
  BY <1>0, <1>1, <1>2, UnservedFrame DEF UnservedOK

LEMMA ControlStep == Control /\ [Next]_vars => Control'
BY QueueStepOK, RunStepOK, FlagStepOK, CallStepOK, TaskStepOK, OwnerStepOK, WaiterStepOK,
   UnservedStepOK
   DEF Control

LEMMA ControlInvariant == Spec => []Control
BY ControlInit, ControlStep, PTL DEF Spec

\* The variables of the pool keep their types, and a worker has a local task
\* exactly where the code of run() and onWorkerIdle() has one in scope.
THEOREM TypeCorrect == Spec => []TypeOK
BY ControlInvariant, ControlIsTyped, PTL

=============================================================================
