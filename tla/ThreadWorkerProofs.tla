------------------------ MODULE ThreadWorkerProofs --------------------------
(***************************************************************************)
(* The safety properties of ThreadWorker and its use of the queue as a     *)
(* BoundedFifo, proved for any set of tasks, any queue capacity, any idle  *)
(* threshold and any number of restarts.                                   *)
(***************************************************************************)
EXTENDS ThreadWorker, SequenceTheorems, FiniteSetTheorems, TLAPS

-----------------------------------------------------------------------------
(* The inductive invariant.                                                *)

\* A promise is Running exactly while the worker is in the task's function or
\* on its way to done(), and the counter of calls agrees.
RunningIsTaken ==
  /\ \A t \in Tasks :
       /\ state[t] # "DependsUnfinish"
       /\ state[t] = "Running" => taken = t /\ wpc \in {"run", "done"}
  /\ wpc \in {"run", "done"} => state[taken] = "Running"
  /\ wpc = "run" => runs[taken] = 0
  /\ wpc = "done" => runs[taken] = 1 /\ workerId[taken] = WorkerId

InQueue(t) == \E n \in 1 .. Len(queue) : queue[n].val = t

\* An accepted task that is still Queuing is in the queue or in the worker's
\* hands.
Accounted ==
  \A t \in Tasks :
    state[t] = "Queuing" /\ ppc[t] \in {"accepted", "published", "posted"}
      => InQueue(t) \/ taken = t

\* The worker only drains, and only ends, after mExit was set, and there is a
\* running thread whenever the worker is somewhere.
EndsAfterExit ==
  /\ wpc = "off" <=> thread # "running"
  /\ wpc \in {"drain", "drainPop", "drainVacate", "drainCancel"} => mExit
  /\ thread = "finished" => mExit

\* What was due at the first exit() has been posted, and when mExit was set by
\* the worker itself, nothing that was due is pending.
DuePosted ==
  /\ \A t \in due : ppc[t] = "posted"
  /\ ~hardExit /\ mExit => \A t \in due : state[t] \in Final

-----------------------------------------------------------------------------
(* The queue and the promise operations.                                   *)

Items == [val : Tasks, ready : BOOLEAN]

\* Performing an operation leaves every other promise alone, and cannot take
\* a promise out of a final state (no ThreadPool resets it).
LEMMA PerformEffect ==
  ASSUME NEW t \in Tasks, NEW o \in {"cancel", "start", "done"},
         state \in [Tasks -> TaskState], Perform(o, t)
  PROVE  /\ state' \in [Tasks -> TaskState]
         /\ \A u \in Tasks \ {t} : state'[u] = state[u]
         /\ state'[t] = IF state[t] \in Leaves(o) THEN Installs(o) ELSE state[t]
         /\ \A u \in Tasks : state[u] \in Final => state'[u] = state[u]
BY DEF Perform, TaskState, Leaves, Installs, Final

\* What the two steps of a pop and the publication of an item do to the queue.
LEMMA TakeEffect ==
  ASSUME queue \in Seq(Items), Available
  PROVE  /\ Head(queue).val \in Tasks
         /\ Tail(queue) \in Seq(Items)
         /\ Len(Tail(queue)) = Len(queue) - 1
         /\ Head(queue) = queue[1]
         /\ \A n \in 2 .. Len(queue) : Tail(queue)[n - 1] = queue[n]
<1>1. Head(queue) \in Items /\ Tail(queue) \in Seq(Items)
  BY HeadTailProperties DEF Available
<1> QED
  BY <1>1, HeadTailProperties DEF Available, Items

LEMMA PublishEffect ==
  ASSUME NEW t \in Tasks, queue \in Seq(Items), PostPublished(t)
  PROVE  /\ queue' \in Seq(Items) /\ Len(queue') = Len(queue)
         /\ \A n \in 1 .. Len(queue) : queue'[n].val = queue[n].val
<1>1. /\ DOMAIN queue = 1 .. Len(queue)
      /\ Len(queue) \in Nat
      /\ \A n \in 1 .. Len(queue) : queue[n] \in Items
  BY ElementOfSeq, LenProperties
<1>2. queue' = [n \in 1 .. Len(queue) |->
                 IF queue[n].val = t THEN [val |-> t, ready |-> TRUE] ELSE queue[n]]
  BY <1>1 DEF PostPublished
<1>3. queue' \in [1 .. Len(queue) -> Items]
  BY <1>1, <1>2 DEF Items
<1>4. queue' \in Seq(Items) /\ Len(queue') = Len(queue)
  BY <1>1, <1>3
<1> QED
  BY <1>1, <1>2, <1>4

\* What holds of every reachable state whatever the tasks are.
Base == TypeOK /\ EndsAfterExit

LEMMA BaseInit == Init => Base
<1> SUFFICES ASSUME Init PROVE Base
  OBVIOUS
<1>1. queue \in Seq([val : Tasks, ready : BOOLEAN])
  BY DEF Init
<1>2. workerIds \in [Tasks -> Seq({WorkerId})]
  BY DEF Init
<1>3. starts \in 0 .. MaxStarts
  BY MaxStartsAssumption DEF Init
<1>4. workerId \in [Tasks -> {-1, WorkerId}]
  BY DEF Init
<1>5. EndsAfterExit
  BY DEF Init, EndsAfterExit
<1> QED
  BY <1>1, <1>2, <1>3, <1>4, <1>5 DEF Init, Base, TypeOK, WorkerLocation, TaskState

LEMMA BaseStep == Base /\ [Next]_vars => Base'
<1> SUFFICES ASSUME Base, [Next]_vars PROVE Base'
  OBVIOUS
<1> USE NoTaskAssumption, WorkerIdAssumption DEF Base, TypeOK, EndsAfterExit, WorkerLocation,
        queueVars, flagVars, promiseVars, ownerVars, historyVars
<1>1. CASE WorkerStep
  <2>1. CASE TestExit BY <2>1 DEF TestExit, Goto
  <2>2. CASE PopTakes BY <2>2, TakeEffect DEF PopTakes, Take, Items
  <2>3. CASE PopFails BY <2>3 DEF PopFails, Goto
  <2>4. CASE Vacate BY <2>4 DEF Vacate, Goto
  <2>5. CASE Begin BY <2>5, PerformEffect DEF Begin, Perform
  <2>6. CASE RunFunction BY <2>6 DEF RunFunction
  <2>7. CASE Finish BY <2>7, PerformEffect DEF Finish, Perform
  <2>8. CASE TestSize BY <2>8 DEF TestSize, Goto
  <2>9. CASE CountIdle BY <2>9 DEF CountIdle
  <2>10. CASE TestExitAfter BY <2>10 DEF TestExitAfter, Goto
  <2>11. CASE TestStillEmpty BY <2>11 DEF TestStillEmpty
  <2>12. CASE TestIdle BY <2>12 DEF TestIdle, Goto
  <2>13. CASE EvaluatePredicate BY <2>13 DEF EvaluatePredicate
  <2>14. CASE Block BY <2>14 DEF Block, Goto
  <2>15. CASE TestDrained BY <2>15 DEF TestDrained, Goto
  <2>16. CASE Ends BY <2>16 DEF Ends
  <2>17. CASE DrainTakes BY <2>17, TakeEffect DEF DrainTakes, Take, Items
  <2>18. CASE DrainPopFails BY <2>18 DEF DrainPopFails, Goto
  <2>19. CASE DrainVacate BY <2>19 DEF DrainVacate, Goto
  <2>20. CASE DrainCancel BY <2>20, PerformEffect DEF DrainCancel, Perform
  <2> HIDE DEF Base
  <2> QED
    BY <1>1, <2>1, <2>2, <2>3, <2>4, <2>5, <2>6, <2>7, <2>8, <2>9, <2>10, <2>11, <2>12,
       <2>13, <2>14, <2>15, <2>16, <2>17, <2>18, <2>19, <2>20 DEF WorkerStep
<1>2. CASE WakeSpuriously BY <1>2 DEF WakeSpuriously, Goto
<1>3. ASSUME NEW t \in Tasks, PosterStep(t) \/ PostAccepted(t) \/ PostRefused(t) \/ Cancel(t)
      PROVE  Base'
  <2>1. CASE PostPublished(t)
    <3>1. queue' \in Seq([val : Tasks, ready : BOOLEAN])
      BY <2>1, PublishEffect DEF Items
    <3>2. ppc' \in [Tasks -> {"new", "refused", "accepted", "published", "posted"}]
      BY <2>1 DEF PostPublished
    <3> QED
      BY <2>1, <3>1, <3>2 DEF PostPublished
  <2>2. CASE PostNotifies(t) BY <2>2 DEF PostNotifies, NotifyOne
  <2>3. CASE PostAccepted(t) BY <2>3 DEF PostAccepted
  <2>4. CASE PostRefused(t) BY <2>4 DEF PostRefused
  <2>5. CASE Cancel(t) BY <2>5, PerformEffect DEF Cancel
  <2> QED
    BY <1>3, <2>1, <2>2, <2>3, <2>4, <2>5 DEF PosterStep
<1>4. CASE ExitTestsSize BY <1>4 DEF ExitTestsSize
<1>5. CASE ExitNotifies BY <1>5 DEF ExitNotifies, NotifyOne
<1>6. CASE Joined BY <1>6 DEF Joined
<1>7. CASE Start
  <2>1. starts' \in 0 .. MaxStarts
    BY <1>7, MaxStartsAssumption DEF Start
  <2>2. taken' = NoTask /\ wpc' = "loop"
    BY <1>7 DEF Start
  <2> QED
    BY <1>7, <2>1, <2>2 DEF Start
<1>8. CASE WaitForExit BY <1>8 DEF WaitForExit
<1>9. ASSUME NEW after \in BOOLEAN, ExitCalled(after) PROVE Base' BY <1>9 DEF ExitCalled
<1>10. CASE UNCHANGED vars BY <1>10 DEF vars
<1> QED
  BY <1>1, <1>2, <1>3, <1>4, <1>5, <1>6, <1>7, <1>8, <1>9, <1>10 DEF Next, OwnerStep

-----------------------------------------------------------------------------
(* What a promise reports.                                                 *)

Reports == RunningIsTaken /\ ReportsWhatRan

LEMMA ReportsInit == Init => Reports
BY NoTaskAssumption DEF Init, Reports, RunningIsTaken, ReportsWhatRan

LEMMA ReportsStep == Base /\ Reports /\ [Next]_vars => Reports'
<1> SUFFICES ASSUME Base, Reports, [Next]_vars PROVE Reports'
  OBVIOUS
<1> USE NoTaskAssumption DEF queueVars, flagVars, promiseVars, ownerVars, historyVars
<1>1. TypeOK
  BY DEF Base
\* The steps that neither touch a promise nor enter or leave a task.
<1>2. ASSUME UNCHANGED <<state, workerId, runs, taken>>,
             wpc' = wpc \/ {wpc, wpc'} \cap {"run", "done"} = {}
      PROVE  Reports'
  BY <1>2 DEF Reports, RunningIsTaken, ReportsWhatRan
\* The steps that take a task from the queue.
<1>3. ASSUME UNCHANGED <<state, workerId, runs>>, wpc \notin {"run", "done"},
             wpc' \notin {"run", "done"}
      PROVE  Reports'
  BY <1>3 DEF Reports, RunningIsTaken, ReportsWhatRan
\* The steps that perform an operation.
<1>4. ASSUME NEW t \in Tasks, Perform("cancel", t), UNCHANGED runs,
             workerId' = workerId \/ workerId' = [workerId EXCEPT ![t] = WorkerId],
             \/ wpc' = wpc /\ taken' = taken
             \/ wpc \notin {"run", "done"} /\ wpc' \notin {"run", "done"}
      PROVE  Reports'
  <2>1. /\ \A u \in Tasks \ {t} : state'[u] = state[u]
        /\ state'[t] = IF state[t] = "Queuing" THEN "Cancelled" ELSE state[t]
    BY <1>1, <1>4, PerformEffect DEF TypeOK, Leaves, Installs
  <2>2. \A u \in Tasks : workerId'[u] \in {workerId[u], WorkerId}
    BY <1>1, <1>4 DEF TypeOK
  <2>3. RunningIsTaken'
    BY <1>1, <1>4, <2>1, <2>2 DEF TypeOK, Reports, RunningIsTaken
  <2>4. ReportsWhatRan'
    BY <1>1, <1>4, <2>1, <2>2 DEF TypeOK, Reports, ReportsWhatRan
  <2> QED
    BY <2>3, <2>4 DEF Reports
<1>5. CASE WorkerStep
  <2>1. CASE TestExit \/ PopFails \/ Vacate \/ TestSize \/ CountIdle \/ TestExitAfter
    BY <1>2, <2>1 DEF TestExit, PopFails, Vacate, TestSize, CountIdle, TestExitAfter, Goto
  <2>2. CASE TestStillEmpty \/ TestIdle \/ EvaluatePredicate \/ Block
    BY <1>2, <2>2 DEF TestStillEmpty, TestIdle, EvaluatePredicate, Block, Goto
  <2>3. CASE TestDrained \/ Ends \/ DrainPopFails \/ DrainVacate
    BY <1>2, <2>3 DEF TestDrained, Ends, DrainPopFails, DrainVacate, Goto
  <2>4. CASE PopTakes \/ DrainTakes
    BY <1>3, <2>4 DEF PopTakes, DrainTakes, Take
  <2>5. CASE Begin
    <3>1. taken \in Tasks
      BY <1>1, <2>5 DEF Begin, TypeOK
    <3>2. /\ \A u \in Tasks \ {taken} : state'[u] = state[u]
          /\ state'[taken] = IF state[taken] = "Queuing" THEN "Running" ELSE state[taken]
      BY <1>1, <2>5, <3>1, PerformEffect DEF Begin, TypeOK, Leaves, Installs
    <3>3. CASE state[taken] = "Queuing"
      BY <1>1, <2>5, <3>1, <3>2, <3>3
      DEF Begin, Reports, RunningIsTaken, ReportsWhatRan, Leaves
    <3>4. CASE state[taken] # "Queuing"
      BY <1>1, <2>5, <3>1, <3>2, <3>4
      DEF Begin, Reports, RunningIsTaken, ReportsWhatRan, Leaves
    <3> QED
      BY <3>3, <3>4
  <2>6. CASE RunFunction
    BY <1>1, <2>6 DEF RunFunction, TypeOK, Reports, RunningIsTaken, ReportsWhatRan
  <2>7. CASE Finish
    <3>1. taken \in Tasks /\ state[taken] = "Running" /\ wpc = "done"
      BY <1>1, <2>7 DEF Finish, TypeOK, Reports, RunningIsTaken
    <3>2. /\ \A u \in Tasks \ {taken} : state'[u] = state[u]
          /\ state'[taken] = "Done"
      BY <1>1, <2>7, <3>1, PerformEffect DEF Finish, TypeOK, Leaves, Installs
    <3>3. wpc' = "loop" /\ workerId' = workerId /\ runs' = runs
      BY <2>7 DEF Finish
    <3> QED
      BY <1>1, <3>1, <3>2, <3>3 DEF Reports, RunningIsTaken, ReportsWhatRan
  <2>8. CASE DrainCancel
    BY <1>1, <1>4, <2>8 DEF DrainCancel, TypeOK
  <2> QED
    BY <1>5, <2>1, <2>2, <2>3, <2>4, <2>5, <2>6, <2>7, <2>8 DEF WorkerStep
<1>6. CASE WakeSpuriously
  BY <1>2, <1>6 DEF WakeSpuriously, Goto
<1>7. ASSUME NEW t \in Tasks, PosterStep(t) \/ PostAccepted(t) \/ PostRefused(t)
      PROVE  Reports'
  BY <1>2, <1>7
  DEF PosterStep, PostAccepted, PostRefused, PostPublished, PostNotifies, NotifyOne
<1>8. ASSUME NEW t \in Tasks, Cancel(t) PROVE Reports'
  BY <1>4, <1>8 DEF Cancel
<1>9. CASE OwnerStep
  BY <1>1, <1>2, <1>9 DEF OwnerStep, ExitTestsSize, ExitNotifies, Joined, NotifyOne,
                    Base, EndsAfterExit
<1>10. CASE Start
  BY <1>2, <1>10 DEF Start, Base, EndsAfterExit
<1>11. CASE WaitForExit \/ \E after \in BOOLEAN : ExitCalled(after)
  BY <1>2, <1>11 DEF WaitForExit, ExitCalled
<1>12. CASE UNCHANGED vars
  BY <1>2, <1>12 DEF vars
<1> QED
  BY <1>5, <1>6, <1>7, <1>8, <1>9, <1>10, <1>11, <1>12 DEF Next

-----------------------------------------------------------------------------
(* No accepted task is lost on the way from its poster to the worker.      *)

LEMMA AccountedStep == Base /\ Reports /\ Accounted /\ [Next]_vars => Accounted'
<1> SUFFICES ASSUME Base, Reports, Accounted, [Next]_vars PROVE Accounted'
  OBVIOUS
<1> USE NoTaskAssumption DEF queueVars, flagVars, promiseVars, ownerVars, historyVars
<1>1. TypeOK
  BY DEF Base
<1>2. queue \in Seq(Items) /\ Len(queue) \in Nat
  BY <1>1, LenProperties DEF TypeOK, Items
\* The steps that neither accept an item nor take one nor let go of one.
<1>3. ASSUME UNCHANGED <<queue, state, taken>>,
             \A t \in Tasks : ppc'[t] \in {"accepted", "published", "posted"}
                                => ppc[t] \in {"accepted", "published", "posted"}
      PROVE  Accounted'
  BY <1>3 DEF Accounted, InQueue
\* The steps that take the oldest item.
<1>4. ASSUME NEW from, NEW to, Take(from, to), taken = NoTask PROVE Accounted'
  <2>1. taken' = queue[1].val /\ queue' = Tail(queue) /\ UNCHANGED <<state, ppc>>
    BY <1>2, <1>4, TakeEffect DEF Take
  <2>2. ASSUME NEW n \in 2 .. Len(queue)
        PROVE  n - 1 \in 1 .. Len(queue') /\ queue'[n - 1] = queue[n]
    BY <1>2, <1>4, <2>1, <2>2, TakeEffect DEF Take
  <2>3. ASSUME NEW t \in Tasks, InQueue(t) PROVE InQueue(t)' \/ taken' = t
    <3>1. PICK n \in 1 .. Len(queue) : queue[n].val = t
      BY <2>3 DEF InQueue
    <3>2. CASE n = 1
      BY <2>1, <3>1, <3>2
    <3>3. CASE n # 1
      <4>1. n \in 2 .. Len(queue)
        BY <1>2, <3>3
      <4> QED
        BY <2>2, <3>1, <4>1 DEF InQueue
    <3> QED
      BY <3>2, <3>3
  <2> QED
    BY <1>4, <2>1, <2>3 DEF Accounted
\* The steps that let go of a task perform an operation on it first.
<1>5. ASSUME NEW t \in Tasks, NEW o \in {"cancel", "start", "done"}, Perform(o, t),
             UNCHANGED <<queue, ppc>>,
             taken' = taken \/ (taken = t /\ (state[t] # "Queuing" \/ o # "done"))
      PROVE  Accounted'
  <2>1. /\ \A u \in Tasks \ {t} : state'[u] = state[u]
        /\ state'[t] = "Queuing" => state[t] = "Queuing" /\ o = "done"
    BY <1>1, <1>5, PerformEffect DEF TypeOK, Leaves, Installs
  <2> QED
    BY <1>5, <2>1 DEF Accounted, InQueue
<1>6. CASE WorkerStep
  <2>1. CASE TestExit \/ PopFails \/ Vacate \/ RunFunction \/ TestSize \/ CountIdle
    BY <1>3, <2>1 DEF TestExit, PopFails, Vacate, RunFunction, TestSize, CountIdle, Goto
  <2>2. CASE TestExitAfter \/ TestStillEmpty \/ TestIdle \/ EvaluatePredicate \/ Block
    BY <1>3, <2>2
    DEF TestExitAfter, TestStillEmpty, TestIdle, EvaluatePredicate, Block, Goto
  <2>3. CASE TestDrained \/ Ends \/ DrainPopFails \/ DrainVacate
    BY <1>3, <2>3 DEF TestDrained, Ends, DrainPopFails, DrainVacate, Goto
  <2>4. CASE PopTakes
    BY <1>1, <1>4, <2>4 DEF PopTakes, Take, TypeOK
  <2>5. CASE DrainTakes
    BY <1>1, <1>4, <2>5 DEF DrainTakes, Take, TypeOK
  <2>6. CASE Begin
    BY <1>1, <1>5, <2>6 DEF Begin, TypeOK
  <2>7. CASE Finish
    <3>1. taken \in Tasks /\ state[taken] = "Running"
      BY <1>1, <2>7 DEF Finish, TypeOK, Reports, RunningIsTaken
    <3> QED
      BY <1>5, <2>7, <3>1 DEF Finish
  <2>8. CASE DrainCancel
    BY <1>1, <1>5, <2>8 DEF DrainCancel, TypeOK
  <2> QED
    BY <1>6, <2>1, <2>2, <2>3, <2>4, <2>5, <2>6, <2>7, <2>8 DEF WorkerStep
<1>7. CASE WakeSpuriously
  BY <1>3, <1>7 DEF WakeSpuriously, Goto
<1>8. ASSUME NEW t \in Tasks, PosterStep(t) \/ PostAccepted(t) \/ PostRefused(t) \/ Cancel(t)
      PROVE  Accounted'
  <2>1. CASE PostPublished(t)
    <3>1. \A u \in Tasks : InQueue(u) => InQueue(u)'
      BY <1>2, <2>1, PublishEffect DEF InQueue
    <3> QED
      BY <1>1, <2>1, <3>1 DEF PostPublished, Accounted, TypeOK
  <2>2. CASE PostNotifies(t)
    BY <1>1, <1>3, <2>2 DEF PostNotifies, TypeOK
  <2>3. CASE PostAccepted(t)
    <3>1. /\ Len(queue') = Len(queue) + 1
          /\ \A n \in 1 .. Len(queue) : queue'[n] = queue[n]
          /\ queue'[Len(queue) + 1] = [val |-> t, ready |-> FALSE]
      BY <1>2, <2>3, AppendProperties DEF PostAccepted, Items
    <3>2. InQueue(t)'
      BY <1>2, <3>1 DEF InQueue
    <3>3. \A u \in Tasks : InQueue(u) => InQueue(u)'
      BY <1>2, <3>1 DEF InQueue
    <3> QED
      BY <1>1, <2>3, <3>2, <3>3 DEF PostAccepted, Accounted, TypeOK
  <2>4. CASE PostRefused(t)
    BY <1>1, <1>3, <2>4 DEF PostRefused, TypeOK
  <2>5. CASE Cancel(t)
    BY <1>5, <2>5 DEF Cancel
  <2> QED
    BY <1>8, <2>1, <2>2, <2>3, <2>4, <2>5 DEF PosterStep
<1>9. CASE OwnerStep
  BY <1>3, <1>9 DEF OwnerStep, ExitTestsSize, ExitNotifies, Joined
<1>10. CASE Start \/ WaitForExit \/ \E after \in BOOLEAN : ExitCalled(after)
  BY <1>3, <1>10 DEF Start, WaitForExit, ExitCalled
<1>11. CASE UNCHANGED vars
  BY <1>3, <1>11 DEF vars
<1> QED
  BY <1>6, <1>7, <1>8, <1>9, <1>10, <1>11 DEF Next

-----------------------------------------------------------------------------
(* Nothing that was due is left behind.                                    *)

Due == DuePosted /\ NothingLeftBehind

\* With an empty queue and nothing in the worker's hands, every posted task
\* has been run or cancelled.
LEMMA EmptyMeansHandled ==
  ASSUME Base, Reports, Accounted, Size = 0, taken = NoTask,
         NEW t \in Tasks, ppc[t] = "posted"
  PROVE  state[t] \in Final
<1>1. ~InQueue(t)
  BY DEF InQueue, Size
<1>2. state[t] # "Queuing" /\ state[t] # "Running" /\ state[t] # "DependsUnfinish"
  BY <1>1, NoTaskAssumption DEF Accounted, Reports, RunningIsTaken
<1> QED
  BY <1>2 DEF Base, TypeOK, TaskState, Final

\* No operation that is performed here takes a promise out of a final state.
LEMMA FinalIsFinal ==
  ASSUME Base, [Next]_vars, NEW t \in Tasks, state[t] \in Final
  PROVE  state'[t] = state[t]
<1>1. state \in [Tasks -> TaskState]
  BY DEF Base, TypeOK
<1>2. CASE UNCHANGED state
  BY <1>2
<1>3. ASSUME NEW u \in Tasks, NEW o \in {"cancel", "start", "done"}, Perform(o, u)
      PROVE  state'[t] = state[t]
  BY <1>1, <1>3, PerformEffect
<1>4. CASE Begin \/ Finish \/ DrainCancel
  BY <1>3, <1>4 DEF Begin, Finish, DrainCancel, Base, TypeOK
<1>5. ASSUME NEW u \in Tasks, Cancel(u) PROVE state'[t] = state[t]
  BY <1>3, <1>5 DEF Cancel
<1>6. CASE WorkerStep
  BY <1>2, <1>4, <1>6
  DEF WorkerStep, TestExit, PopTakes, PopFails, Vacate, RunFunction, TestSize,
      CountIdle, TestExitAfter, TestStillEmpty, TestIdle, EvaluatePredicate, Block,
      TestDrained, Ends, DrainTakes, DrainPopFails, DrainVacate, Take, Goto, promiseVars
<1>7. ASSUME NEW u \in Tasks, PosterStep(u) \/ PostAccepted(u) \/ PostRefused(u)
      PROVE  UNCHANGED state
  BY <1>7 DEF PosterStep, PostPublished, PostNotifies, PostAccepted, PostRefused, promiseVars
<1>8. CASE WakeSpuriously \/ OwnerStep \/ Start \/ WaitForExit
             \/ \E after \in BOOLEAN : ExitCalled(after)
  BY <1>8 DEF WakeSpuriously, Goto, OwnerStep, ExitTestsSize, ExitNotifies, Joined,
              Start, WaitForExit, ExitCalled, promiseVars
<1> QED
  BY <1>2, <1>5, <1>6, <1>7, <1>8 DEF Next, vars, promiseVars

LEMMA DueStep == Base /\ Reports /\ Accounted /\ Due /\ [Next]_vars => Due'
<1> SUFFICES ASSUME Base, Reports, Accounted, Due, [Next]_vars PROVE Due'
  OBVIOUS
<1> USE DEF queueVars, flagVars, promiseVars, ownerVars, historyVars
<1>1. TypeOK
  BY DEF Base
<1>2. \A t \in due : t \in Tasks /\ ppc[t] = "posted"
  BY <1>1 DEF TypeOK, Due, DuePosted
<1>3. \A t \in due : state[t] \in Final => state'[t] \in Final
  BY <1>2, FinalIsFinal
\* Most steps neither end the thread nor set a flag nor take a post back.
<1>4. ASSUME UNCHANGED <<due, hardExit, mExit>>, thread' = thread \/ thread' = "none",
             \A t \in due : ppc'[t] = "posted"
      PROVE  Due'
  BY <1>1, <1>3, <1>4 DEF Due, DuePosted, NothingLeftBehind
<1>5. CASE WorkerStep
  <2>1. CASE TestExit \/ PopTakes \/ PopFails \/ Vacate \/ Begin \/ RunFunction \/ Finish
    BY <1>2, <1>4, <2>1
    DEF TestExit, PopTakes, PopFails, Vacate, Begin, RunFunction, Finish, Take, Goto
  <2>2. CASE TestSize \/ CountIdle \/ TestExitAfter \/ TestIdle \/ EvaluatePredicate \/ Block
    BY <1>2, <1>4, <2>2
    DEF TestSize, CountIdle, TestExitAfter, TestIdle, EvaluatePredicate, Block, Goto
  <2>3. CASE TestDrained \/ DrainTakes \/ DrainPopFails \/ DrainVacate \/ DrainCancel
    BY <1>2, <1>4, <2>3
    DEF TestDrained, DrainTakes, DrainPopFails, DrainVacate, DrainCancel, Take, Goto
  \* mExit is set by the worker when it finds nothing left to do.
  <2>4. CASE TestStillEmpty
    <3>1. CASE Size = 0
      <4>1. taken = NoTask
        BY <1>1, <2>4 DEF TestStillEmpty, TypeOK
      <4>2. \A t \in due : state[t] \in Final
        BY <1>2, <3>1, <4>1, EmptyMeansHandled
      <4> QED
        BY <1>2, <1>3, <2>4, <4>2 DEF TestStillEmpty, Due, DuePosted, NothingLeftBehind
    <3>2. CASE Size # 0
      <4>1. mExit' = mExit
        BY <1>1, <2>4, <3>2 DEF TestStillEmpty, TypeOK
      <4> QED
        BY <1>2, <1>4, <2>4, <4>1 DEF TestStillEmpty
    <3> QED
      BY <3>1, <3>2
  <2>5. CASE Ends
    <3>1. taken = NoTask
      BY <1>1, <2>5 DEF Ends, TypeOK
    <3>2. \A t \in due : state[t] \in Final
      BY <1>2, <2>5, <3>1, EmptyMeansHandled DEF Ends
    <3> QED
      BY <1>2, <1>3, <2>5, <3>2 DEF Ends, Due, DuePosted, NothingLeftBehind
  <2> QED
    BY <1>5, <2>1, <2>2, <2>3, <2>4, <2>5 DEF WorkerStep
<1>6. ASSUME NEW t \in Tasks, PosterStep(t) \/ PostAccepted(t) \/ PostRefused(t) \/ Cancel(t)
      PROVE  Due'
  <2>1. \A u \in due : ppc'[u] = "posted"
    BY <1>1, <1>2, <1>6
    DEF TypeOK, PosterStep, PostPublished, PostNotifies, PostAccepted, PostRefused, Cancel
  <2> QED
    BY <1>4, <1>6, <2>1
    DEF PosterStep, PostPublished, PostNotifies, PostAccepted, PostRefused, Cancel
<1>7. CASE WakeSpuriously \/ OwnerStep \/ WaitForExit
  BY <1>2, <1>4, <1>7
  DEF WakeSpuriously, Goto, OwnerStep, ExitTestsSize, ExitNotifies, Joined, WaitForExit
\* A restart forgets what was due.
<1>8. CASE Start
  BY <1>8 DEF Start, Due, DuePosted, NothingLeftBehind
\* What is due changes only while mExit is not set, hence not after the thread ended.
<1>9. ASSUME NEW after \in BOOLEAN, ExitCalled(after) PROVE Due'
  <2>1. CASE mExit
    BY <1>2, <1>3, <1>9, <2>1 DEF ExitCalled, Due, DuePosted, NothingLeftBehind
  <2>2. CASE ~mExit
    <3>1. thread' # "finished"
      BY <1>9, <2>2 DEF ExitCalled, Base, EndsAfterExit
    <3>2. \A t \in due' : ppc'[t] = "posted"
      BY <1>2, <1>9 DEF ExitCalled
    <3>3. mExit' => hardExit'
      BY <1>9, <2>2 DEF ExitCalled
    <3> QED
      BY <3>1, <3>2, <3>3 DEF Due, DuePosted, NothingLeftBehind
  <2> QED
    BY <2>1, <2>2
<1>10. CASE UNCHANGED vars
  BY <1>2, <1>4, <1>10 DEF vars
<1> QED
  BY <1>5, <1>6, <1>7, <1>8, <1>9, <1>10 DEF Next

-----------------------------------------------------------------------------
(* The theorems.                                                           *)

IInv == Base /\ Reports /\ Accounted /\ Due

LEMMA InductiveInvariant == Spec => []IInv
<1>1. Init => IInv
  <2> SUFFICES ASSUME Init PROVE IInv
    OBVIOUS
  <2>1. Accounted /\ Due
    BY DEF Init, Accounted, Due, DuePosted, NothingLeftBehind
  <2> QED
    BY <2>1, BaseInit, ReportsInit DEF IInv
<1>2. IInv /\ [Next]_vars => IInv'
  BY BaseStep, ReportsStep, AccountedStep, DueStep DEF IInv
<1> QED
  BY <1>1, <1>2, PTL DEF Spec

\* The worker's, posters' and owner's state keeps its types, and the worker
\* holds a task exactly where run() has its local task filled.
THEOREM TypeCorrect == Spec => []TypeOK
<1>1. IInv => TypeOK
  BY DEF IInv, Base
<1> QED
  BY <1>1, InductiveInvariant, PTL

\* A cancelled task is never run and a Done one was run exactly once, whoever
\* wins the race between cancel() and the worker.
THEOREM StateTellsWhatRan == Spec => []ReportsWhatRan
<1>1. IInv => ReportsWhatRan
  BY DEF IInv, Reports
<1> QED
  BY <1>1, InductiveInvariant, PTL

\* A worker whose thread has ended has run or cancelled every task whose post
\* returned before the first exit().
THEOREM NoDueTaskPending == Spec => []NothingLeftBehind
<1>1. IInv => NothingLeftBehind
  BY DEF IInv, Due
<1> QED
  BY <1>1, InductiveInvariant, PTL

\* Without an exit(false), the draining loop cancels no task that was posted
\* before the first exit(true): they have all been run by then.
THEOREM ExitTrueRunsAllDue == Spec => []ExitAfterRunsAll
<1>1. IInv => ExitAfterRunsAll
  BY DEF IInv, Base, EndsAfterExit, Due, DuePosted, ExitAfterRunsAll, Final
<1> QED
  BY <1>1, InductiveInvariant, PTL

\* Once cancel() has succeeded the worker neither runs the task nor changes
\* the promise.
THEOREM CancelWins == Spec => CancelIsFinal
<1>1. IInv /\ [Next]_vars
        => [\A t \in Tasks : state[t] = "Cancelled" => UNCHANGED <<state[t], runs[t]>>]_vars
  <2> SUFFICES ASSUME IInv, [Next]_vars, NEW t \in Tasks, state[t] = "Cancelled"
               PROVE  state'[t] = state[t] /\ runs'[t] = runs[t]
    OBVIOUS
  <2>1. state'[t] = state[t]
    BY FinalIsFinal DEF IInv, Final
  <2>2. CASE RunFunction
    <3>1. taken # t /\ taken \in Tasks
      BY <2>2 DEF RunFunction, IInv, Base, TypeOK, Reports, RunningIsTaken
    <3> QED
      BY <2>1, <2>2, <3>1 DEF RunFunction, IInv, Base, TypeOK
  <2>3. CASE UNCHANGED runs
    BY <2>1, <2>3
  <2> QED
    BY <2>2, <2>3
    DEF Next, vars, historyVars, WakeSpuriously, Goto, OwnerStep, PosterStep, WorkerStep,
        TestExit, PopTakes, PopFails, Vacate, Begin, Finish, TestSize, CountIdle,
        TestExitAfter, TestStillEmpty, TestIdle, EvaluatePredicate, Block, TestDrained,
        Ends, DrainTakes, DrainPopFails, DrainVacate, DrainCancel, Take, PostPublished,
        PostNotifies, PostAccepted, PostRefused, Cancel, ExitTestsSize, ExitNotifies,
        Joined, Start, WaitForExit, ExitCalled
<1> QED
  BY <1>1, InductiveInvariant, PTL DEF Spec, CancelIsFinal

-----------------------------------------------------------------------------
(* The worker and its posters use the queue as a bounded FIFO.             *)

\* A task is in the queue at most once, posted by its poster, and its item is
\* held back exactly until the poster publishes it.
QueuedOnce ==
  /\ \A n \in 1 .. Len(queue) :
       /\ ppc[queue[n].val] \in {"accepted", "published", "posted"}
       /\ queue[n].ready = (ppc[queue[n].val] # "accepted")
  /\ \A m, n \in 1 .. Len(queue) : queue[m].val = queue[n].val => m = n
  /\ \A t \in Tasks : ppc[t] = "accepted" => InQueue(t)

LEMMA ItemsAre ==
  ASSUME TypeOK
  PROVE  /\ queue \in Seq(Items) /\ Len(queue) \in Nat /\ DOMAIN queue = 1 .. Len(queue)
         /\ \A n \in 1 .. Len(queue) :
              queue[n] \in Items /\ queue[n].val \in Tasks /\ queue[n].ready \in BOOLEAN
<1>1. queue \in Seq(Items)
  BY DEF TypeOK, Items
<1>2. \A n \in 1 .. Len(queue) : queue[n] \in Items
  BY <1>1, ElementOfSeq
<1> QED
  BY <1>1, <1>2, LenProperties DEF Items

\* An accepted item comes last and is not ready.
LEMMA AcceptedLast ==
  ASSUME TypeOK, NEW t \in Tasks, PostAccepted(t)
  PROVE  /\ Len(queue') = Len(queue) + 1
         /\ \A n \in 1 .. Len(queue) : queue'[n] = queue[n]
         /\ queue'[Len(queue) + 1].val = t /\ queue'[Len(queue) + 1].ready = FALSE
         /\ ppc' = [ppc EXCEPT ![t] = "accepted"] /\ ppc[t] \in {"new", "refused"}
<1>1. [val |-> t, ready |-> FALSE] \in Items
  BY DEF Items
<1>2. /\ Len(queue') = Len(queue) + 1
      /\ \A n \in 1 .. Len(queue) : queue'[n] = queue[n]
      /\ queue'[Len(queue) + 1] = [val |-> t, ready |-> FALSE]
  BY <1>1, ItemsAre, AppendProperties DEF PostAccepted
<1> QED
  BY <1>2 DEF PostAccepted

LEMMA QueuedOnceStep == TypeOK /\ QueuedOnce /\ [Next]_vars => QueuedOnce'
<1> SUFFICES ASSUME TypeOK, QueuedOnce, [Next]_vars PROVE QueuedOnce'
  OBVIOUS
<1> USE DEF queueVars, flagVars, promiseVars, ownerVars, historyVars
<1>1. /\ queue \in Seq(Items) /\ Len(queue) \in Nat
      /\ \A n \in 1 .. Len(queue) : queue[n].val \in Tasks /\ queue[n].ready \in BOOLEAN
      /\ ppc \in [Tasks -> {"new", "refused", "accepted", "published", "posted"}]
  BY ItemsAre DEF TypeOK
\* The steps away from the queue.
<1>2. ASSUME UNCHANGED queue,
             \A t \in Tasks :
               \/ ppc'[t] = ppc[t]
               \/ ppc[t] \in {"new", "refused"} /\ ppc'[t] \in {"new", "refused"}
               \/ ppc[t] = "published" /\ ppc'[t] = "posted"
      PROVE  QueuedOnce'
  BY <1>1, <1>2 DEF QueuedOnce, InQueue
<1>3. ASSUME NEW from, NEW to, Take(from, to) PROVE QueuedOnce'
  <2>1. /\ Len(queue') = Len(queue) - 1 /\ queue[1].ready = TRUE /\ ppc' = ppc
        /\ \A n \in 2 .. Len(queue) : queue'[n - 1] = queue[n]
        /\ Len(queue) >= 1
    BY <1>1, <1>3, TakeEffect, EmptySeq DEF Take, Available
  <2>2. \A n \in 1 .. Len(queue') :
          n + 1 \in 2 .. Len(queue) /\ n + 1 \in 1 .. Len(queue) /\ queue'[n] = queue[n + 1]
    <3> SUFFICES ASSUME NEW n \in 1 .. Len(queue')
                 PROVE  /\ n + 1 \in 2 .. Len(queue) /\ n + 1 \in 1 .. Len(queue)
                        /\ queue'[n] = queue[n + 1]
      OBVIOUS
    <3>1. n + 1 \in 2 .. Len(queue) /\ (n + 1) - 1 = n
      BY <1>1, <2>1
    <3> QED
      BY <2>1, <3>1
  <2>3. ASSUME NEW t \in Tasks, ppc[t] = "accepted"
        PROVE  \E n \in 1 .. Len(queue') : queue'[n].val = t
    <3>1. PICK n \in 1 .. Len(queue) : queue[n].val = t
      BY <2>3 DEF QueuedOnce, InQueue
    <3>2. n # 1
      BY <2>1, <2>3, <3>1 DEF QueuedOnce
    <3>3. n \in 2 .. Len(queue) /\ n - 1 \in 1 .. Len(queue')
      BY <1>1, <2>1, <3>2
    <3> QED
      BY <2>1, <3>1, <3>3
  <2>4. \A n \in 1 .. Len(queue') :
          /\ ppc'[queue'[n].val] \in {"accepted", "published", "posted"}
          /\ queue'[n].ready = (ppc'[queue'[n].val] # "accepted")
    BY <2>1, <2>2 DEF QueuedOnce
  <2>5. ASSUME NEW m \in 1 .. Len(queue'), NEW n \in 1 .. Len(queue'),
               queue'[m].val = queue'[n].val
        PROVE  m = n
    <3>1. /\ m + 1 \in 1 .. Len(queue) /\ n + 1 \in 1 .. Len(queue)
          /\ queue[m + 1].val = queue[n + 1].val
      BY <2>2, <2>5
    <3>2. m + 1 = n + 1
      BY <3>1 DEF QueuedOnce
    <3> QED
      BY <1>1, <2>1, <3>2
  <2> QED
    BY <2>1, <2>3, <2>4, <2>5 DEF QueuedOnce, InQueue
<1>4. ASSUME NEW t \in Tasks, PostAccepted(t) PROVE QueuedOnce'
  <2> DEFINE len == Len(queue)
  <2>1. /\ Len(queue') = len + 1
        /\ \A n \in 1 .. len : queue'[n] = queue[n]
        /\ queue'[len + 1].val = t /\ queue'[len + 1].ready = FALSE
        /\ ppc' = [ppc EXCEPT ![t] = "accepted"] /\ ppc[t] \in {"new", "refused"}
    BY <1>4, AcceptedLast
  <2>2. len \in Nat /\ (\A n \in 1 .. Len(queue') : n \in 1 .. len \/ n = len + 1)
        /\ 1 .. len \subseteq 1 .. Len(queue') /\ len + 1 \in 1 .. Len(queue')
    BY <1>1, <2>1
  <2>3. \A n \in 1 .. len : queue[n].val # t
    BY <2>1 DEF QueuedOnce
  <2>4. \A n \in 1 .. Len(queue') :
          /\ ppc'[queue'[n].val] \in {"accepted", "published", "posted"}
          /\ queue'[n].ready = (ppc'[queue'[n].val] # "accepted")
    BY <1>1, <2>1, <2>2, <2>3 DEF QueuedOnce
  <2>5. \A m, n \in 1 .. Len(queue') : queue'[m].val = queue'[n].val => m = n
    BY <1>1, <2>1, <2>2, <2>3 DEF QueuedOnce
  <2>6. \A u \in Tasks : ppc'[u] = "accepted" => \E n \in 1 .. Len(queue') : queue'[n].val = u
    BY <1>1, <2>1, <2>2 DEF QueuedOnce, InQueue
  <2> QED
    BY <2>4, <2>5, <2>6 DEF QueuedOnce, InQueue
<1>5. ASSUME NEW t \in Tasks, PostPublished(t) PROVE QueuedOnce'
  <2>1. /\ Len(queue') = Len(queue)
        /\ \A n \in 1 .. Len(queue) : queue'[n].val = queue[n].val
    BY <1>1, <1>5, PublishEffect
  <2>2. \A n \in 1 .. Len(queue) :
          queue'[n].ready = IF queue[n].val = t THEN TRUE ELSE queue[n].ready
    <3>1. queue' = [n \in 1 .. Len(queue) |->
                     IF queue[n].val = t THEN [val |-> t, ready |-> TRUE] ELSE queue[n]]
      BY <1>5, ItemsAre DEF PostPublished
    <3> QED
      BY <3>1
  <2>3. ppc[t] = "accepted" /\ ppc' = [ppc EXCEPT ![t] = "published"]
    BY <1>5 DEF PostPublished
  <2>4. ASSUME NEW n \in 1 .. Len(queue)
        PROVE  /\ ppc'[queue'[n].val] \in {"accepted", "published", "posted"}
               /\ queue'[n].ready = (ppc'[queue'[n].val] # "accepted")
    <3>1. /\ queue[n].val \in Tasks
          /\ ppc[queue[n].val] \in {"accepted", "published", "posted"}
          /\ queue[n].ready = (ppc[queue[n].val] # "accepted")
      BY <1>1 DEF QueuedOnce
    <3>2. CASE queue[n].val = t
      BY <1>1, <2>1, <2>2, <2>3, <3>2
    <3>3. CASE queue[n].val # t
      BY <1>1, <2>1, <2>2, <2>3, <3>1, <3>3
    <3> QED
      BY <3>2, <3>3
  <2>5. \A m, n \in 1 .. Len(queue) : queue'[m].val = queue'[n].val => m = n
    BY <2>1 DEF QueuedOnce
  <2>6. \A u \in Tasks : ppc'[u] = "accepted" =>
          \E n \in 1 .. Len(queue) : queue'[n].val = u
    BY <1>1, <2>1, <2>3 DEF QueuedOnce, InQueue
  <2> QED
    BY <2>1, <2>4, <2>5, <2>6 DEF QueuedOnce, InQueue
<1>6. CASE WorkerStep
  <2>1. CASE PopTakes BY <1>3, <2>1 DEF PopTakes
  <2>2. CASE DrainTakes BY <1>3, <2>2 DEF DrainTakes
  <2>3. CASE UNCHANGED <<queue, ppc>> BY <1>2, <2>3
  <2> QED
    BY <1>6, <2>1, <2>2, <2>3
    DEF WorkerStep, TestExit, PopFails, Vacate, Begin, RunFunction, Finish, TestSize,
        CountIdle, TestExitAfter, TestStillEmpty, TestIdle, EvaluatePredicate, Block,
        TestDrained, Ends, DrainPopFails, DrainVacate, DrainCancel, Goto
<1>7. ASSUME NEW t \in Tasks, PosterStep(t) \/ PostAccepted(t) \/ PostRefused(t) \/ Cancel(t)
      PROVE  QueuedOnce'
  <2>1. CASE PostNotifies(t) \/ PostRefused(t) \/ Cancel(t)
    BY <1>1, <1>2, <2>1 DEF PostNotifies, PostRefused, Cancel
  <2> QED
    BY <1>4, <1>5, <1>7, <2>1 DEF PosterStep
<1>8. CASE WakeSpuriously \/ OwnerStep \/ Start \/ WaitForExit
             \/ \E after \in BOOLEAN : ExitCalled(after)
  BY <1>2, <1>8 DEF WakeSpuriously, Goto, OwnerStep, ExitTestsSize, ExitNotifies, Joined,
                    Start, WaitForExit, ExitCalled
<1>9. CASE UNCHANGED vars
  BY <1>2, <1>9 DEF vars
<1> QED
  BY <1>6, <1>7, <1>8, <1>9 DEF Next

\* What the worker has taken out of the queue without having vacated its place.
Moving == IF wpc \in {"vacate", "drainVacate"} THEN taken ELSE NoTask
HoldingNow == [w \in {"worker"} |-> Moving]

\* The instance's name for the cardinality of a set.
LEMMA QueueCardinality == \A S : Queue!Cardinality(S) = Cardinality(S)
  BY DEF Queue!Cardinality, Cardinality

\* The steps that change neither the queue nor what the worker is moving out.
LEMMA QueueUnseen ==
  ASSUME UNCHANGED <<queue, Moving>>
  PROVE  [Queue!Next]_<<queue, HoldingNow>>
  BY DEF HoldingNow

LEMMA AcceptsOne ==
  ASSUME TypeOK, NEW t \in Tasks, PostAccepted(t)
  PROVE  Queue!Accept(t)
<1>1. Queue!Holders = IF wpc \in {"vacate", "drainVacate"} THEN {"worker"} ELSE {}
  BY DEF Queue!Holders, TypeOK
<1>2. Cardinality(Queue!Holders) = IF wpc \in {"vacate", "drainVacate"} THEN 1 ELSE 0
  BY <1>1, FS_EmptySet, FS_Singleton
<1>3. Len(queue) + Cardinality(Queue!Holders) < Capacity
  BY <1>2 DEF PostAccepted, HasRoom, Size
<1>4. /\ queue' = Append(queue, [val |-> t, ready |-> FALSE])
      /\ UNCHANGED <<wpc, taken>>
  BY DEF PostAccepted
<1> QED
  BY <1>3, <1>4, QueueCardinality DEF Queue!Accept

\* An entry that becomes ready.
LEMMA MadeReady ==
  ASSUME NEW v, NEW r \in [val : {v}, ready : {FALSE}], NEW e, e = [r EXCEPT !.ready = TRUE]
  PROVE  e = [val |-> v, ready |-> TRUE]
  OBVIOUS

LEMMA MakesOneAvailable ==
  ASSUME TypeOK, QueuedOnce, NEW t \in Tasks, PostPublished(t)
  PROVE  \E n \in DOMAIN queue : Queue!MakeAvailable(n)
<1>1. /\ ppc[t] = "accepted" /\ UNCHANGED <<wpc, taken>>
      /\ queue' = [m \in DOMAIN queue |->
                    IF queue[m].val = t THEN [val |-> t, ready |-> TRUE] ELSE queue[m]]
  BY DEF PostPublished, queueVars
<1>2. /\ DOMAIN queue = 1 .. Len(queue)
      /\ \A m \in 1 .. Len(queue) : queue[m] \in Items
  BY ItemsAre
<1>3. PICK n \in 1 .. Len(queue) : queue[n].val = t
  BY <1>1 DEF QueuedOnce, InQueue
<1>4. queue[n].ready = FALSE
  BY <1>1, <1>3 DEF QueuedOnce
<1>5. [queue[n] EXCEPT !.ready = TRUE] = [val |-> t, ready |-> TRUE]
  <2> DEFINE e == [queue[n] EXCEPT !.ready = TRUE]
  <2>1. queue[n] \in [val : {t}, ready : {FALSE}]
    BY <1>2, <1>3, <1>4 DEF Items
  <2>2. e = [queue[n] EXCEPT !.ready = TRUE]
    OBVIOUS
  <2> HIDE DEF e
  <2>3. e = [val |-> t, ready |-> TRUE]
    BY <2>1, <2>2, MadeReady
  <2> QED
    BY <2>2, <2>3
<1>6. \A m \in 1 .. Len(queue) : queue[m].val = t <=> m = n
  BY <1>3 DEF QueuedOnce
<1>7. queue' = [m \in 1 .. Len(queue) |->
                 IF m = n THEN [queue[n] EXCEPT !.ready = TRUE] ELSE queue[m]]
  BY <1>1, <1>2, <1>5, <1>6
<1>8. queue' = [queue EXCEPT ![n] = [queue[n] EXCEPT !.ready = TRUE]]
  <2> DEFINE e == [queue[n] EXCEPT !.ready = TRUE]
  <2>1. queue' = [m \in 1 .. Len(queue) |-> IF m = n THEN e ELSE queue[m]]
    BY <1>7
  <2>2. queue \in Seq(Items)
    BY ItemsAre
  <2> HIDE DEF e
  <2>3. queue' = [queue EXCEPT ![n] = e]
    BY <1>2, <1>3, <2>1, <2>2
  <2> QED
    BY <2>3 DEF e
<1> QED
  BY <1>1, <1>2, <1>3, <1>4, <1>8 DEF Queue!MakeAvailable

LEMMA TakesTheOldest ==
  ASSUME TypeOK, NEW from, NEW to, Take(from, to), wpc \in {"pop", "drainPop"},
         to \in {"vacate", "drainVacate"}
  PROVE  Queue!Take("worker")
<1>1. /\ queue # <<>> /\ Head(queue).ready
      /\ taken' = Head(queue).val /\ queue' = Tail(queue) /\ wpc' = to
  BY DEF Take, Available
<1>2. Moving = NoTask /\ Moving' = Head(queue).val
  BY <1>1 DEF Moving
<1> QED
  BY <1>1, <1>2 DEF Queue!Take, Moving

LEMMA VacatesOne ==
  ASSUME TypeOK, Vacate \/ DrainVacate
  PROVE  Queue!Vacate("worker")
<1>1. /\ wpc \in {"vacate", "drainVacate"} /\ taken # NoTask /\ UNCHANGED queue
      /\ wpc' \notin {"vacate", "drainVacate"}
  BY DEF Vacate, DrainVacate, Goto, queueVars, TypeOK
<1> QED
  BY <1>1 DEF Queue!Vacate

LEMMA UsesFifoStep ==
  ASSUME TypeOK, EndsAfterExit, QueuedOnce, [Next]_vars
  PROVE  [Queue!Next]_<<queue, HoldingNow>>
<1> USE DEF queueVars, flagVars, promiseVars, ownerVars, historyVars
<1>1. CASE WorkerStep
  <2>1. CASE PopTakes
    BY <2>1, TakesTheOldest DEF PopTakes, Take, Queue!Next
  <2>2. CASE DrainTakes
    BY <2>2, TakesTheOldest DEF DrainTakes, Take, Queue!Next
  <2>3. CASE Vacate \/ DrainVacate
    BY <2>3, VacatesOne DEF Queue!Next
  <2>4. CASE TestExit \/ PopFails \/ Begin \/ RunFunction \/ Finish \/ TestSize
    BY <2>4, QueueUnseen
    DEF TestExit, PopFails, Begin, RunFunction, Finish, TestSize, Goto, Moving
  <2>5. CASE CountIdle \/ TestExitAfter \/ TestStillEmpty \/ TestIdle \/ EvaluatePredicate
    BY <2>5, QueueUnseen
    DEF CountIdle, TestExitAfter, TestStillEmpty, TestIdle, EvaluatePredicate, Goto, Moving
  <2>6. CASE Block \/ TestDrained \/ Ends \/ DrainPopFails \/ DrainCancel
    BY <2>6, QueueUnseen
    DEF Block, TestDrained, Ends, DrainPopFails, DrainCancel, Goto, Moving
  <2> QED
    BY <1>1, <2>1, <2>2, <2>3, <2>4, <2>5, <2>6 DEF WorkerStep
<1>2. CASE WakeSpuriously
  BY <1>2, QueueUnseen DEF WakeSpuriously, Goto, Moving
<1>3. ASSUME NEW t \in Tasks, PosterStep(t) \/ PostAccepted(t) \/ PostRefused(t) \/ Cancel(t)
      PROVE  [Queue!Next]_<<queue, HoldingNow>>
  <2>1. CASE PostPublished(t)
    BY <2>1, MakesOneAvailable DEF Queue!Next
  <2>2. CASE PostAccepted(t)
    BY <2>2, AcceptsOne DEF Queue!Next
  <2>3. CASE PostNotifies(t) \/ PostRefused(t) \/ Cancel(t)
    BY <2>3, QueueUnseen DEF PostNotifies, PostRefused, Cancel, NotifyOne, Moving
  <2> QED
    BY <1>3, <2>1, <2>2, <2>3 DEF PosterStep
<1>4. CASE OwnerStep
  BY <1>4, QueueUnseen
  DEF OwnerStep, ExitTestsSize, ExitNotifies, Joined, NotifyOne, Moving, EndsAfterExit
<1>5. CASE Start \/ WaitForExit \/ \E after \in BOOLEAN : ExitCalled(after)
  BY <1>5, QueueUnseen DEF Start, WaitForExit, ExitCalled, Moving, EndsAfterExit
<1>6. CASE UNCHANGED vars
  BY <1>6, QueueUnseen DEF vars, Moving
<1> QED
  BY <1>1, <1>2, <1>3, <1>4, <1>5, <1>6 DEF Next

\* post(), the worker's loop and the draining loop treat mTasks as the bounded
\* FIFO that MPMCQueue implements: what ThreadWorker assumes of the queue is
\* what BoundedFifo promises.
THEOREM UsesTheQueueAsFifo == Spec => UsesBoundedFifo
<1>1. Init => QueuedOnce
  <2> SUFFICES ASSUME Init PROVE QueuedOnce
    OBVIOUS
  <2>1. Len(queue) = 0 /\ \A t \in Tasks : ppc[t] # "accepted"
    BY DEF Init
  <2> QED
    BY <2>1 DEF QueuedOnce
<1>2. IInv => TypeOK /\ EndsAfterExit
  BY DEF IInv, Base
<1>3. Spec => [](TypeOK /\ EndsAfterExit /\ QueuedOnce)
  BY <1>1, <1>2, InductiveInvariant, QueuedOnceStep, PTL DEF Spec
<1>4. Init => Queue!Init
  BY DEF Init, Queue!Init
<1>5. TypeOK /\ EndsAfterExit /\ QueuedOnce /\ [Next]_vars
        => [Queue!Next]_<<queue, HoldingNow>>
  BY UsesFifoStep
<1>6. Queue!Init /\ [][Queue!Next]_<<queue, HoldingNow>> => UsesBoundedFifo
  BY DEF UsesBoundedFifo, Queue!Spec, HoldingNow, Moving
<1> QED
  BY <1>3, <1>4, <1>5, <1>6, PTL DEF Spec

=============================================================================
