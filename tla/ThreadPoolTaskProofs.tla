------------------------- MODULE ThreadPoolTaskProofs -------------------------
(***************************************************************************)
(* What becomes of a task in ThreadPool, proved for any tasks,             *)
(* dependencies, workers, capacity and retry limit: who holds its closure, *)
(* which states its promise may be in there, and that the closure is not   *)
(* lost while the pool lives.                                              *)
(***************************************************************************)
EXTENDS ThreadPoolProofs
-----------------------------------------------------------------------------
(* Where the closure of a task is.                                         *)

InQueue(q, t, w) == \E n \in 1 .. Len(q[w]) : q[w][n] = t

Once(q, t, w) == \A m, n \in 1 .. Len(q[w]) : q[w][m] = t /\ q[w][n] = t => m = n

Keeps(t, w) == taken[w] = t /\ wpc[w] # "release"

Distributes(t, a) == call[a].task = t /\ call[a].at # "return"

\* The pool has been destroyed, with its queues.
Gone == owner.op = "gone"

LEMMA PushMoves ==
  ASSUME NEW w \in Workers, NEW t \in Tasks, queue \in [Workers -> Seq(Tasks)], Push(w, t)
  PROVE  \A x \in Tasks, u \in Workers :
           /\ InQueue(queue', x, u) <=> InQueue(queue, x, u) \/ (x = t /\ u = w)
           /\ Once(queue, x, u) /\ ~(x = t /\ u = w /\ InQueue(queue, x, u)) => Once(queue', x, u)
<1> DEFINE k == Len(queue[w])
<1>1. /\ \A u \in Workers \ {w} : queue'[u] = queue[u]
      /\ k \in Nat /\ Len(queue'[w]) = k + 1
      /\ \A n \in 1 .. k : queue'[w][n] = queue[w][n]
      /\ queue'[w][k + 1] = t
  BY PushEffect
<1> SUFFICES ASSUME NEW x \in Tasks, NEW u \in Workers
             PROVE  /\ InQueue(queue', x, u) <=> InQueue(queue, x, u) \/ (x = t /\ u = w)
                    /\ Once(queue, x, u) /\ ~(x = t /\ u = w /\ InQueue(queue, x, u))
                         => Once(queue', x, u)
  OBVIOUS
<1>2. CASE u # w
  BY <1>1, <1>2 DEF InQueue, Once
<1>3. CASE u = w
  <2>1. 1 .. (k + 1) = (1 .. k) \union {k + 1}
    BY <1>1
  <2>2. InQueue(queue', x, u) <=> InQueue(queue, x, u) \/ x = t
    BY <1>1, <1>3, <2>1 DEF InQueue
  <2>3. ASSUME Once(queue, x, w), ~(x = t /\ InQueue(queue, x, w))
        PROVE  Once(queue', x, w)
    <3> SUFFICES ASSUME NEW m \in 1 .. (k + 1), NEW n \in 1 .. (k + 1),
                        queue'[w][m] = x, queue'[w][n] = x
                 PROVE  m = n
      BY <1>1 DEF Once
    <3>1. CASE m \in 1 .. k /\ n \in 1 .. k
      BY <1>1, <2>3, <3>1 DEF Once
    <3>2. CASE x = t
      BY <1>1, <2>1, <2>3, <3>2 DEF InQueue
    <3> QED
      BY <1>1, <2>1, <3>1, <3>2
  <2> QED
    BY <1>3, <2>2, <2>3
<1> QED
  BY <1>2, <1>3

LEMMA PopMoves ==
  ASSUME NEW w \in Workers, queue \in [Workers -> Seq(Tasks)], queue[w] # <<>>, Pop(w)
  PROVE  /\ InQueue(queue, queue[w][1], w)
         /\ Once(queue, queue[w][1], w) => ~InQueue(queue', queue[w][1], w)
         /\ \A x \in Tasks, u \in Workers :
              /\ ~(x = queue[w][1] /\ u = w) => (InQueue(queue', x, u) <=> InQueue(queue, x, u))
              /\ Once(queue, x, u) => Once(queue', x, u)
<1> DEFINE k == Len(queue[w])
           h == queue[w][1]
<1>1. /\ \A u \in Workers \ {w} : queue'[u] = queue[u]
      /\ k \in Nat \ {0} /\ Len(queue'[w]) = k - 1
      /\ \A n \in 1 .. k - 1 : queue'[w][n] = queue[w][n + 1]
  BY PopEffect
<1>2. InQueue(queue, h, w)
  BY <1>1 DEF InQueue
<1>3. Once(queue, h, w) => ~InQueue(queue', h, w)
  <2> SUFFICES ASSUME Once(queue, h, w), NEW n \in 1 .. k - 1, queue[w][n + 1] = h PROVE FALSE
    BY <1>1 DEF InQueue
  <2>1. 1 \in 1 .. k /\ n + 1 \in 1 .. k /\ n + 1 # 1
    BY <1>1
  <2> QED
    BY <2>1 DEF Once
<1>4. ASSUME NEW x \in Tasks, NEW u \in Workers, ~(x = h /\ u = w)
      PROVE  InQueue(queue', x, u) <=> InQueue(queue, x, u)
  <2>1. CASE u # w
    BY <1>1, <2>1 DEF InQueue
  <2>2. CASE u = w
    <3>1. ASSUME NEW n \in 1 .. k, queue[w][n] = x PROVE \E m \in 1 .. k - 1 : queue'[w][m] = x
      <4>1. n # 1
        BY <1>4, <2>2, <3>1
      <4>2. n - 1 \in 1 .. k - 1 /\ (n - 1) + 1 = n
        BY <1>1, <4>1
      <4> QED
        BY <1>1, <3>1, <4>2
    <3>2. ASSUME NEW m \in 1 .. k - 1, queue'[w][m] = x PROVE \E n \in 1 .. k : queue[w][n] = x
      <4>1. m + 1 \in 1 .. k
        BY <1>1
      <4> QED
        BY <1>1, <3>2, <4>1
    <3> QED
      BY <1>1, <2>2, <3>1, <3>2 DEF InQueue
  <2> QED
    BY <2>1, <2>2
<1>5. ASSUME NEW x \in Tasks, NEW u \in Workers, Once(queue, x, u) PROVE Once(queue', x, u)
  <2>1. CASE u # w
    BY <1>1, <1>5, <2>1 DEF Once
  <2>2. CASE u = w
    <3> SUFFICES ASSUME NEW m \in 1 .. k - 1, NEW n \in 1 .. k - 1,
                        queue'[w][m] = x, queue'[w][n] = x
                 PROVE  m = n
      BY <1>1, <2>2 DEF Once
    <3>1. m + 1 \in 1 .. k /\ n + 1 \in 1 .. k
      BY <1>1
    <3>2. queue[w][m + 1] = x /\ queue[w][n + 1] = x
      BY <1>1
    <3>3. m + 1 = n + 1
      BY <1>5, <2>2, <3>1, <3>2 DEF Once
    <3> QED
      BY <3>3
  <2> QED
    BY <2>1, <2>2
<1> QED
  BY <1>2, <1>3, <1>4, <1>5

-----------------------------------------------------------------------------
(* What holds of every task.                                               *)

\* One queue, one thread or one call has its closure.
AtMostOne(t) ==
  /\ \A w \in Workers : Once(queue, t, w)
  /\ \A u, w \in Workers : InQueue(queue, t, u) /\ InQueue(queue, t, w) => u = w
  /\ \A u, w \in Workers : Keeps(t, u) => (Keeps(t, w) => u = w) /\ ~InQueue(queue, t, w)
  /\ \A a, b \in Actors : Distributes(t, a) /\ Distributes(t, b) => a = b
  /\ \A a \in Actors, w \in Workers :
       Distributes(t, a) => taken[w] # t /\ ~InQueue(queue, t, w)

\* One that is not in the pool is nowhere, but in the owner's call.
Known(t) ==
  /\ added[t] \in {"no", "null"} =>
       /\ state[t] = "Queuing"
       /\ \A w \in Workers : taken[w] # t /\ ~InQueue(queue, t, w)
       /\ \A a \in Actors : ~Distributes(t, a)
  /\ call[Owner].task = t => added[t] = "adding"

\* The states of its promise agree with the place it is in; a copy that a thief
\* has left behind is not the last one while the task is pending, or the pool
\* is gone.
StateAllows(t) ==
  /\ \A w \in Workers :
       /\ InQueue(queue, t, w) => state[t] \in {"Queuing", "Cancelled"}
       /\ taken[w] = t =>
            /\ wpc[w] \in {"begin", "stealPush", "giveBack", "drainCancel"}
                 => state[t] \in {"Queuing", "Cancelled"}
            /\ wpc[w] \in {"closure", "depends", "function", "finish"} => state[t] = "Running"
            /\ wpc[w] = "destroy" => state[t] \in {"Done", "Cancelled", "DependsUnfinish"}
            /\ wpc[w] = "release" /\ state[t] \in Pending
                 => Gone \/ \E u \in Workers : Keeps(t, u) \/ InQueue(queue, t, u)
       /\ call[w].task = t /\ call[w].at \in {"pick", "reset"} => state[t] = "DependsUnfinish"
       /\ call[w].task = t /\ call[w].at \in {"scan", "post"}
            => state[t] \in {"Queuing", "Cancelled"}
  /\ call[Owner].task = t /\ call[Owner].at # "return" => state[t] = "Queuing"

\* It is somewhere until it is final, or the pool is gone.
NotLost(t) ==
  added[t] \in {"adding", "yes", "garbage"} /\ state[t] \notin Final /\ t \notin dropped
    => \/ \E w \in Workers : taken[w] = t \/ InQueue(queue, t, w)
       \/ \E a \in Actors : Distributes(t, a)
       \/ Gone

TaskSound(t) == AtMostOne(t) /\ Known(t) /\ StateAllows(t) /\ NotLost(t)

TasksSound == \A t \in Tasks : TaskSound(t)

\* The pool is destroyed for good.
GoneStays == Gone => Gone'

\* A step that has nothing to do with t.
Untouched(t) ==
  /\ GoneStays
  /\ state'[t] = state[t] /\ added'[t] = added[t] /\ retryCount'[t] = retryCount[t]
  /\ t \in dropped' <=> t \in dropped
  /\ \A w \in Workers :
       /\ taken'[w] = t <=> taken[w] = t
       /\ taken[w] = t => wpc'[w] = wpc[w]
       /\ InQueue(queue', t, w) <=> InQueue(queue, t, w)
       /\ Once(queue, t, w) => Once(queue', t, w)
  /\ \A a \in Actors :
       /\ call'[a].task = t <=> call[a].task = t
       /\ call[a].task = t => call'[a].at = call[a].at

\* No step has to do with two tasks.
OneTouched == \A x, y \in Tasks : x = y \/ Untouched(x) \/ Untouched(y)

LEMMA UntouchedSound ==
  ASSUME NEW t \in Tasks, TaskSound(t), Untouched(t)
  PROVE  TaskSound(t)'
<1> Workers \subseteq Actors /\ Owner \in Actors
  BY DEF Actors
<1>1. AtMostOne(t)'
  BY DEF TaskSound, AtMostOne, Untouched, Keeps, Distributes
<1>2. Known(t)'
  BY DEF TaskSound, Known, Untouched, Distributes
<1>3. StateAllows(t)'
  BY DEF TaskSound, StateAllows, Untouched, Keeps, GoneStays
<1>4. NotLost(t)'
  BY DEF TaskSound, NotLost, Untouched, Distributes, GoneStays
<1> QED
  BY <1>1, <1>2, <1>3, <1>4 DEF TaskSound

\* A step that has nothing to do with any task but t.
LEMMA OnlyTouches ==
  ASSUME TasksSound, NEW t \in Tasks, \A x \in Tasks \ {t} : Untouched(x), TaskSound(t)'
  PROVE  TasksSound' /\ OneTouched
BY UntouchedSound DEF TasksSound, OneTouched

-----------------------------------------------------------------------------
(* distributeTask.                                                         *)

LEMMA DistributeSound ==
  ASSUME Control, TasksSound, GoneStays, NEW a \in Actors, CallStep(a)
  PROVE  TasksSound' /\ OneTouched
<1>0. call[a].task \in Tasks
  <2>1. CallOK /\ call[a].at # "none"
    BY DEF CallStep, Pick, PickFails, Reset, Scan, Post, PostRefused, InCall, Control
  <2> QED
    BY <2>1, CallHasTask
<1> PICK t \in Tasks : t = call[a].task
  BY <1>0
<1>1. /\ call'[a].task = t
      /\ \A b \in Actors \ {a} : call'[b] = call[b]
      /\ UNCHANGED <<taken, wpc, added, dropped, retryCount>>
      /\ \/ /\ queue' = queue /\ state' = state
            /\ \/ call[a].at = "pick" /\ call'[a].at \in {"reset", "refused"}
               \/ call[a].at = "post" /\ call'[a].at = "refused"
         \/ /\ queue' = queue /\ Perform("reset", t)
            /\ call[a].at = "reset" /\ call'[a].at = "scan"
         \/ /\ queue' = queue /\ call[a].at = "scan"
            /\ ScanCancels(a) \/ ScanPasses(a)
         \/ /\ call[a].at = "post" /\ call'[a].at = "return" /\ state' = state
            /\ call[a].target \in Workers /\ Push(call[a].target, t)
  <2> USE DEF runVars, taskVars, userVars, addVars, history
  <2>1. CASE Pick(a)
    <3>1. CallOK /\ TaskOK
      BY DEF Control
    <3>2. call[a].at = "pick"
      BY <2>1 DEF Pick, InCall
    <3> QED
      BY <2>1, <3>1, <3>2, PickEffect, CallHasTask DEF Pick
  <2>2. CASE PickFails(a) \/ PostRefused(a)
    BY <2>2, RefusedEffect
  <2>3. CASE Reset(a)
    BY <2>3, ResetEffect
  <2>4. CASE Scan(a)
    BY <2>4, ScanEffect
  <2>5. CASE Post(a)
    BY <2>5, PostEffect
  <2> QED
    BY <2>1, <2>2, <2>3, <2>4, <2>5 DEF CallStep
<1>2. /\ state \in [Tasks -> TaskState]
      /\ queue \in [Workers -> Seq(Tasks)]
  BY DEF Control, TaskOK, QueueOK
<1>3. /\ AtMostOne(t) /\ Known(t) /\ StateAllows(t) /\ NotLost(t)
      /\ call[a].task = t /\ call[a].at # "return"
  BY <1>1 DEF TasksSound, TaskSound
<1>4. \A w \in Workers : taken[w] # t /\ ~InQueue(queue, t, w)
  BY <1>3 DEF AtMostOne, Distributes
<1>5. \A b \in Actors \ {a} : call[b].task = t => call[b].at = "return"
  BY <1>3 DEF AtMostOne, Distributes
<1>6. \A w \in Workers : taken'[w] # t
  BY <1>1, <1>4
<1>7. Owner \in Actors /\ Workers \subseteq Actors /\ (a = Owner \/ a \in Workers) /\ Owner \notin Workers
  BY OwnerAssumption DEF Actors
<1>8. CASE queue' = queue /\ ~(call[a].at = "post" /\ call'[a].at = "return")
  <2>1. ASSUME NEW x \in Tasks \ {t}, state'[x] = state[x] PROVE Untouched(x)
    BY <1>1, <1>8, <2>1 DEF Untouched
  <2>2. AtMostOne(t)' /\ (\A w \in Workers : ~InQueue(queue', t, w))
    BY <1>1, <1>3, <1>4, <1>5, <1>6, <1>8 DEF AtMostOne, Distributes, Keeps
  <2>3. (call[Owner].task = t)' => added'[t] = "adding"
    BY <1>1, <1>3, <1>7 DEF Known
  <2>4. added[t] \notin {"no", "null"}
    BY <1>3 DEF Known, Distributes
  <2>5. Known(t)'
    BY <1>1, <2>3, <2>4 DEF Known
  <2>6. ASSUME StateAllows(t)', NotLost(t)', \A x \in Tasks \ {t} : state'[x] = state[x]
        PROVE  TasksSound' /\ OneTouched
    BY <1>1, <2>1, <2>2, <2>5, <2>6, OnlyTouches DEF TaskSound
  <2>7. call'[a].at # "return" => NotLost(t)'
    BY <1>1 DEF NotLost, Distributes
  <2>8. CASE /\ state' = state
             /\ \/ call[a].at = "pick" /\ call'[a].at \in {"reset", "refused"}
                \/ call[a].at = "post" /\ call'[a].at = "refused"
    <3>1. StateAllows(t)'
      BY <1>1, <1>3, <1>5, <1>6, <1>7, <2>2, <2>8 DEF StateAllows
    <3> QED
      BY <2>6, <2>7, <2>8, <3>1
  <2>9. CASE Perform("reset", t) /\ call[a].at = "reset" /\ call'[a].at = "scan"
    <3>1. /\ \A x \in Tasks \ {t} : state'[x] = state[x]
          /\ state'[t] = "Queuing"
      <4>1. state[t] \in {"Queuing", "DependsUnfinish"}
        BY <1>3, <1>7, <2>9 DEF StateAllows
      <4> QED
        BY <1>1, <1>2, <2>9, <4>1, PerformEffect DEF Leaves, Installs, Operation, TaskState
    <3>2. StateAllows(t)'
      BY <1>1, <1>3, <1>5, <1>6, <1>7, <2>2, <2>9, <3>1 DEF StateAllows
    <3> QED
      BY <2>6, <2>7, <2>9, <3>1, <3>2
  <2>10. CASE call[a].at = "scan" /\ ScanCancels(a)
    <3>1. /\ \A x \in Tasks \ {t} : state'[x] = state[x]
          /\ state'[t] = "Cancelled" /\ call'[a].at = "return"
      <4>1. state[t] \in {"Queuing", "Cancelled"}
        BY <1>3, <1>7, <2>10 DEF StateAllows
      <4> QED
        BY <1>1, <1>2, <2>10, <4>1, PerformEffect DEF ScanCancels, Leaves, Installs, Operation
    <3>2. StateAllows(t)'
      BY <1>1, <1>3, <1>5, <1>6, <1>7, <2>2, <2>10, <3>1 DEF StateAllows
    <3>3. NotLost(t)'
      BY <3>1 DEF NotLost, Final
    <3> QED
      BY <2>6, <3>1, <3>2, <3>3
  <2>11. CASE call[a].at = "scan" /\ ScanPasses(a)
    <3>1. state' = state /\ call'[a].at = "post"
      BY <2>11 DEF ScanPasses
    <3>2. StateAllows(t)'
      BY <1>1, <1>3, <1>5, <1>6, <1>7, <2>2, <2>11, <3>1 DEF StateAllows
    <3> QED
      BY <2>6, <2>7, <3>1, <3>2
  <2> QED
    BY <1>1, <1>8, <2>8, <2>9, <2>10, <2>11
<1>9. CASE /\ call[a].at = "post" /\ call'[a].at = "return" /\ state' = state
           /\ call[a].target \in Workers /\ Push(call[a].target, t)
  <2> DEFINE w == call[a].target
  <2>1. \A x \in Tasks, u \in Workers :
           /\ InQueue(queue', x, u) <=> InQueue(queue, x, u) \/ (x = t /\ u = w)
           /\ Once(queue, x, u) /\ ~(x = t /\ u = w /\ InQueue(queue, x, u)) => Once(queue', x, u)
    BY <1>1, <1>2, <1>9, PushMoves
  <2>2. w \in Workers
    BY <1>9
  <2> HIDE DEF w
  <2>3. ASSUME NEW x \in Tasks \ {t} PROVE Untouched(x)
    BY <1>1, <1>9, <2>1 DEF Untouched
  <2>4. \A u \in Workers : InQueue(queue', t, u) <=> u = w
    BY <1>1, <1>4, <2>1, <2>2
  <2>5. AtMostOne(t)'
    BY <1>1, <1>3, <1>4, <1>5, <1>6, <1>9, <2>1, <2>4 DEF AtMostOne, Distributes, Keeps
  <2>6. Known(t)'
    BY <1>1, <1>3, <1>7 DEF Known, Distributes
  <2>7. state[t] \in {"Queuing", "Cancelled"}
    BY <1>3, <1>7, <1>9 DEF StateAllows
  <2>8. StateAllows(t)'
    BY <1>1, <1>3, <1>5, <1>6, <1>7, <1>9, <2>7 DEF StateAllows
  <2>9. NotLost(t)'
    BY <2>2, <2>4 DEF NotLost
  <2> QED
    BY <1>1, <2>3, <2>5, <2>6, <2>8, <2>9, OnlyTouches DEF TaskSound
<1> QED
  BY <1>1, <1>8, <1>9

-----------------------------------------------------------------------------
(* The worker's thread.                                                    *)

\* A thread that has no task moves on.
LEMMA IdleSound ==
  ASSUME Control, TasksSound, GoneStays, NEW w \in Workers,
         Passes(w) \/ ChooseVictim(w) \/ TestExitAfter(w) \/ Ends(w)
  PROVE  TasksSound' /\ OneTouched
<1>1. /\ UNCHANGED <<queue, taken, call, state, retryCount, added, dropped>>
      /\ wpc[w] \notin Carrying /\ \A u \in Workers \ {w} : wpc'[u] = wpc[u]
  <2> USE DEF taskVars, userVars, addVars, history, Carrying
  <2>0. wpc \in [Workers -> WorkerLocation]
    BY DEF Control, RunOK
  <2>1. CASE Passes(w)
    <3>1. PICK l \in WorkerLocation : Goto(w, l) /\ wpc[w] \notin Carrying
      BY <2>1, PassesEffect
    <3> QED
      BY <3>1, GotoEffect
  <2>2. CASE ChooseVictim(w)
    BY <2>0, <2>2 DEF ChooseVictim, At
  <2>3. CASE TestExitAfter(w) \/ Ends(w)
    BY <2>0, <2>3 DEF TestExitAfter, Ends, At
  <2> QED
    BY <2>1, <2>2, <2>3
<1>2. taken[w] \notin Tasks
  BY <1>1, NoTaskAssumption DEF Control, RunOK, RunAt
<1>3. ASSUME NEW t \in Tasks PROVE Untouched(t)
  BY <1>1, <1>2 DEF Untouched
<1> QED
  BY <1>3, UntouchedSound DEF TasksSound, OneTouched

\* The deleter's call is over.
LEMMA EndRetrySound ==
  ASSUME Control, TasksSound, GoneStays, NEW w \in Workers, EndRetry(w)
  PROVE  TasksSound' /\ OneTouched
<1>0. call[w].task \in Tasks
  BY EndRetryEffect
<1> PICK t \in Tasks : t = call[w].task
  BY <1>0
<1>1. /\ call[w].at \in {"return", "refused"}
      /\ call'[w].at = "none" /\ call'[w].task = NoTask /\ t # NoTask
      /\ \A b \in Actors \ {w} : call'[b] = call[b]
      /\ \A u \in Workers \ {w} : wpc'[u] = wpc[u]
      /\ dropped' = IF call[w].at = "refused" THEN dropped \union {t} ELSE dropped
      /\ UNCHANGED <<queue, taken, state, retryCount, added>>
  BY EndRetryEffect, NoTaskAssumption DEF taskVars, addVars
<1>2. taken[w] \notin Tasks /\ w # Owner /\ Workers \subseteq Actors /\ Owner \in Actors
  <2>1. wpc[w] \in {"retry", "stealRetry"}
    BY DEF EndRetry
  <2> QED
    BY <2>1, NoTaskAssumption, OwnerAssumption DEF Control, RunOK, RunAt, Carrying, Actors
<1>3. ASSUME NEW x \in Tasks \ {t} PROVE Untouched(x)
  BY <1>1, <1>2, NoTaskAssumption DEF Untouched
<1>4. AtMostOne(t) /\ Known(t) /\ StateAllows(t) /\ NotLost(t)
  BY DEF TasksSound, TaskSound
<1>5. AtMostOne(t)'
  BY <1>1, <1>2, <1>4 DEF AtMostOne, Distributes, Keeps
<1>6. Known(t)'
  BY <1>1, <1>2, <1>4 DEF Known, Distributes
<1>7. StateAllows(t)'
  BY <1>1, <1>2, <1>4 DEF StateAllows, Keeps, GoneStays
<1>8. NotLost(t)'
  BY <1>1, <1>2, <1>4 DEF NotLost, Distributes, GoneStays
<1> QED
  BY <1>3, <1>5, <1>6, <1>7, <1>8, OnlyTouches DEF TaskSound

\* A thread that keeps its task is the only one to have it.
LEMMA KeepsAlone ==
  ASSUME NEW t \in Tasks, TaskSound(t), NEW w \in Workers, Keeps(t, w)
  PROVE  /\ \A u \in Workers : ~InQueue(queue, t, u) /\ (u # w => ~Keeps(t, u))
         /\ \A a \in Actors : ~Distributes(t, a)
         /\ added[t] \notin {"no", "null"}
BY DEF TaskSound, AtMostOne, Known, Keeps

\* The thread runs a task, or performs an operation on its promise.
LEMMA RunSound ==
  ASSUME Control, TasksSound, GoneStays, NEW w \in Workers, Runs(w) \/ Works(w)
  PROVE  TasksSound' /\ OneTouched
<1>0. /\ taken[w] \in Tasks /\ wpc[w] \in Carrying \ {"release"}
      /\ \A u \in Workers \ {w} : wpc'[u] = wpc[u]
      /\ UNCHANGED <<queue, taken, call, retryCount, added, dropped>>
      /\ \/ /\ state' = state /\ wpc[w] \in {"closure", "function"}
            /\ wpc'[w] \in {"function", "depends", "finish"}
         \/ \E o \in Operation :
              /\ Perform(o, taken[w])
              /\ \/ /\ o = "start" /\ wpc[w] = "begin"
                    /\ wpc'[w] = IF state[taken[w]] = "Queuing" THEN "closure" ELSE "destroy"
                 \/ o = "depends" /\ wpc[w] = "depends" /\ wpc'[w] = "destroy"
                 \/ o = "done" /\ wpc[w] = "finish" /\ wpc'[w] = "destroy"
                 \/ o = "cancel" /\ wpc[w] = "drainCancel" /\ wpc'[w] = "destroy"
  <2> USE DEF taskVars, userVars, addVars, history
  <2>0. wpc \in [Workers -> WorkerLocation]
    BY DEF Control, RunOK
  <2>1. CASE Runs(w)
    <3>1. PICK l \in {"function", "depends", "finish"} :
             Goto(w, l) /\ l \in WorkerLocation /\ wpc[w] \in {"closure", "function"}
      BY <2>1, RunsEffect
    <3>2. taken[w] \in Tasks
      BY <3>1, CarriesTask DEF Control, Carrying
    <3> QED
      BY <3>1, <3>2, GotoEffect DEF Carrying
  <2>2. CASE Works(w)
    <3>1. wpc[w] \in {"begin", "depends", "finish", "drainCancel"}
      BY <2>2, WorksEffect
    <3>2. taken[w] \in Tasks /\ wpc[w] \in Carrying \ {"release"}
      BY <3>1, CarriesTask DEF Control, Carrying
    <3>3. \E o \in Operation :
            /\ Perform(o, taken[w])
            /\ \/ /\ o = "start" /\ wpc[w] = "begin"
                  /\ wpc'[w] = IF state[taken[w]] = "Queuing" THEN "closure" ELSE "destroy"
               \/ o = "depends" /\ wpc[w] = "depends" /\ wpc'[w] = "destroy"
               \/ o = "done" /\ wpc[w] = "finish" /\ wpc'[w] = "destroy"
               \/ o = "cancel" /\ wpc[w] = "drainCancel" /\ wpc'[w] = "destroy"
      BY <2>0, <2>2 DEF Works, Begin, DependsUnfinish, Finish, DrainCancel, At, Operation, Leaves
    <3>4. /\ \A u \in Workers \ {w} : wpc'[u] = wpc[u]
          /\ UNCHANGED <<queue, taken, call, retryCount, added, dropped>>
      BY <2>0, <2>2 DEF Works, Begin, DependsUnfinish, Finish, DrainCancel
    <3> QED
      BY <3>2, <3>3, <3>4
  <2> QED
    BY <2>1, <2>2
<1> PICK t \in Tasks : t = taken[w]
  BY <1>0
<1>1. TaskSound(t) /\ AtMostOne(t) /\ Known(t) /\ StateAllows(t)
  BY DEF TasksSound, TaskSound
<1>2. /\ \A u \in Workers : ~InQueue(queue, t, u) /\ (u # w => ~Keeps(t, u))
      /\ \A a \in Actors : ~Distributes(t, a)
      /\ added[t] \notin {"no", "null"}
  BY <1>0, <1>1, KeepsAlone DEF Keeps
<1>3. ASSUME \A x \in Tasks \ {t} : state'[x] = state[x], NEW x \in Tasks \ {t} PROVE Untouched(x)
  BY <1>0, <1>3 DEF Untouched
<1>4. wpc'[w] # "release"
  BY <1>0
<1>5. AtMostOne(t)'
  BY <1>0, <1>1, <1>2, <1>4 DEF AtMostOne, Keeps, Distributes
<1>6. Known(t)'
  BY <1>0, <1>1, <1>2 DEF Known
<1>7. NotLost(t)'
  BY <1>0 DEF NotLost
<1>8. /\ \A x \in Tasks \ {t} : state'[x] = state[x]
      /\ wpc'[w] \in {"function", "depends", "finish", "closure"} => state'[t] = "Running"
      /\ wpc'[w] = "destroy" => state'[t] \in {"Done", "Cancelled", "DependsUnfinish"}
      /\ wpc'[w] \in {"function", "depends", "finish", "closure", "destroy"}
  <2>1. CASE state' = state /\ wpc[w] \in {"closure", "function"}
    BY <1>0, <1>1, <2>1 DEF StateAllows
  <2>2. ASSUME NEW o \in Operation, Perform(o, t),
               \/ /\ o = "start" /\ wpc[w] = "begin"
                  /\ wpc'[w] = IF state[t] = "Queuing" THEN "closure" ELSE "destroy"
               \/ o = "depends" /\ wpc[w] = "depends" /\ wpc'[w] = "destroy"
               \/ o = "done" /\ wpc[w] = "finish" /\ wpc'[w] = "destroy"
               \/ o = "cancel" /\ wpc[w] = "drainCancel" /\ wpc'[w] = "destroy"
        PROVE  <1>8
    <3>1. /\ \A x \in Tasks \ {t} : state'[x] = state[x]
          /\ state'[t] = IF state[t] \in Leaves(o) THEN Installs(o) ELSE state[t]
      BY <2>2, PerformEffect DEF Control, TaskOK
    <3> QED
      BY <1>0, <1>1, <2>2, <3>1 DEF StateAllows, Leaves, Installs
  <2> QED
    BY <1>0, <2>1, <2>2
<1>9. StateAllows(t)'
  <2>1. \A u \in Workers : (InQueue(queue, t, u))' => FALSE
    BY <1>0, <1>2
  <2>2. \A a \in Actors : (call[a].task = t)' => call'[a].at = "return"
    BY <1>0, <1>2 DEF Distributes
  <2>3. \A u \in Workers : taken'[u] = t /\ u # w => wpc'[u] = "release"
    BY <1>0, <1>2 DEF Keeps
  <2>4. Keeps(t, w)'
    BY <1>0, <1>4 DEF Keeps
  <2> QED
    BY <1>8, <2>1, <2>2, <2>3, <2>4 DEF StateAllows, Actors
<1> QED
  BY <1>3, <1>5, <1>6, <1>7, <1>8, <1>9, OnlyTouches DEF TaskSound

\* The thread takes the head of a queue, its own or its victim's.
LEMMA TakeSound ==
  ASSUME Control, TasksSound, GoneStays, NEW w \in Workers, Takes(w) \/ (Steal(w) /\ StolenOne(w))
  PROVE  TasksSound' /\ OneTouched
<1>1. \E v \in Workers :
        /\ queue[v] # <<>> /\ Pop(v) /\ queue[v][1] \in Tasks
        /\ taken'[w] = queue[v][1]
        /\ wpc'[w] \in {"begin", "drainCancel", "stealPush"}
        /\ \A u \in Workers \ {w} : taken'[u] = taken[u] /\ wpc'[u] = wpc[u]
        /\ wpc[w] \notin Carrying
        /\ UNCHANGED <<call, state, retryCount, added, dropped>>
  <2> USE DEF taskVars, userVars, addVars, history
  <2>1. CASE Takes(w)
    <3>1. PICK l \in {"begin", "drainCancel"} :
            TakeHead(w, l) /\ queue[w] # <<>> /\ wpc[w] \in {"pop", "drain"}
      BY <2>1 DEF Takes, PopTakes, DrainTakes, At
    <3>2. l \in WorkerLocation
      BY DEF WorkerLocation
    <3> QED
      BY <3>1, <3>2, TakeHeadEffect DEF Carrying
  <2>2. CASE Steal(w) /\ StolenOne(w)
    BY <2>2, StealEffect DEF StolenOne, Carrying
  <2> QED
    BY <2>1, <2>2
<1>2. PICK v \in Workers, t \in Tasks :
        /\ queue[v] # <<>> /\ Pop(v) /\ t = queue[v][1]
        /\ taken'[w] = t
        /\ wpc'[w] \in {"begin", "drainCancel", "stealPush"}
        /\ \A u \in Workers \ {w} : taken'[u] = taken[u] /\ wpc'[u] = wpc[u]
        /\ wpc[w] \notin Carrying
        /\ UNCHANGED <<call, state, retryCount, added, dropped>>
  BY <1>1
<1>3. taken[w] \notin Tasks
  BY <1>2, NoTaskAssumption DEF Control, RunOK, RunAt
<1>4. /\ InQueue(queue, t, v)
      /\ Once(queue, t, v) => ~InQueue(queue', t, v)
      /\ \A x \in Tasks, u \in Workers :
           /\ ~(x = t /\ u = v) => (InQueue(queue', x, u) <=> InQueue(queue, x, u))
           /\ Once(queue, x, u) => Once(queue', x, u)
  BY <1>2, PopMoves DEF Control, QueueOK
<1>5. TaskSound(t) /\ AtMostOne(t) /\ Known(t) /\ StateAllows(t)
  BY DEF TasksSound, TaskSound
<1>6. /\ \A u \in Workers : ~InQueue(queue', t, u) /\ ~Keeps(t, u)
      /\ \A a \in Actors : ~Distributes(t, a)
      /\ \A u \in Workers : Once(queue', t, u)
      /\ state[t] \in {"Queuing", "Cancelled"} /\ added[t] \notin {"no", "null"}
  BY <1>4, <1>5 DEF AtMostOne, StateAllows, Known
<1>7. \A u \in Workers \ {w} : taken'[u] = t => wpc'[u] = "release"
  BY <1>2, <1>6 DEF Keeps
<1>8. ASSUME NEW x \in Tasks \ {t} PROVE Untouched(x)
  BY <1>2, <1>3, <1>4 DEF Untouched
<1>9. AtMostOne(t)'
  BY <1>2, <1>6, <1>7 DEF AtMostOne, Keeps, Distributes
<1>10. Known(t)'
  BY <1>2, <1>5, <1>6 DEF Known
<1>11. StateAllows(t)'
  <2>1. \A a \in Actors : call'[a].task = t => call'[a].at = "return"
    BY <1>2, <1>6 DEF Distributes
  <2>2. Keeps(t, w)'
    BY <1>2 DEF Keeps
  <2> QED
    BY <1>2, <1>6, <1>7, <2>1, <2>2 DEF StateAllows, Actors
<1>12. NotLost(t)'
  BY <1>2 DEF NotLost
<1> QED
  BY <1>8, <1>9, <1>10, <1>11, <1>12, OnlyTouches DEF TaskSound

\* There was nothing left to steal.
LEMMA StealNothingSound ==
  ASSUME Control, TasksSound, GoneStays, NEW w \in Workers, Steal(w), StolenNothing(w)
  PROVE  TasksSound' /\ OneTouched
<1>1. /\ UNCHANGED <<queue, taken, call, state, retryCount, added, dropped>>
      /\ wpc[w] \notin Carrying /\ \A u \in Workers \ {w} : wpc'[u] = wpc[u]
  BY StealEffect DEF StolenNothing, taskVars, userVars, addVars, history, Carrying
<1>2. taken[w] \notin Tasks
  BY <1>1, NoTaskAssumption DEF Control, RunOK, RunAt
<1>3. ASSUME NEW t \in Tasks PROVE Untouched(t)
  BY <1>1, <1>2 DEF Untouched
<1> QED
  BY <1>3, UntouchedSound DEF TasksSound, OneTouched

\* The thief pushes a copy of what it has stolen.
LEMMA StealPushSound ==
  ASSUME Control, TasksSound, GoneStays, NEW w \in Workers, Keep(w) \/ GiveBack(w)
  PROVE  TasksSound' /\ OneTouched
<1>0. \E u \in Workers :
        /\ taken[w] \in Tasks /\ wpc[w] \in {"stealPush", "giveBack"}
        /\ \A v \in Workers \ {w} : wpc'[v] = wpc[v]
        /\ \/ Push(u, taken[w]) /\ wpc'[w] = "release"
           \/ queue' = queue /\ wpc'[w] \in {"stealPush", "giveBack"}
        /\ UNCHANGED <<taken, call, state, retryCount, added, dropped>>
  <2>1. PICK l \in {"stealPush", "giveBack"}, u \in Workers, m \in {"stealPush", "giveBack"} :
           StealPush(w, l, u, m)
    BY KeepEffect, GiveBackEffect
  <2>2. l \in Carrying /\ m \in WorkerLocation
    BY DEF WorkerLocation, Carrying
  <2>3. /\ taken[w] \in Tasks /\ wpc[w] = l
        /\ \A v \in Workers \ {w} : wpc'[v] = wpc[v]
        /\ IF HasRoom(u) THEN Push(u, taken[w]) /\ wpc'[w] = "release" /\ victim'[w] = -1
                         ELSE queue' = queue /\ wpc'[w] = m /\ victim'[w] = victim[w]
        /\ UNCHANGED <<taken, call, state, retryCount, added, dropped>>
    BY <2>1, <2>2, StealPushEffect DEF taskVars, addVars
  <2> QED
    BY <2>3
<1> PICK t \in Tasks : t = taken[w]
  BY <1>0
<1>1. PICK u \in Workers :
        /\ taken[w] = t /\ wpc[w] \in {"stealPush", "giveBack"}
        /\ \A v \in Workers \ {w} : wpc'[v] = wpc[v]
        /\ \/ Push(u, t) /\ wpc'[w] = "release"
           \/ queue' = queue /\ wpc'[w] \in {"stealPush", "giveBack"}
        /\ UNCHANGED <<taken, call, state, retryCount, added, dropped>>
  BY <1>0
<1>2. TaskSound(t) /\ AtMostOne(t) /\ Known(t) /\ StateAllows(t)
  BY DEF TasksSound, TaskSound
<1>3. /\ \A v \in Workers : ~InQueue(queue, t, v) /\ (v # w => ~Keeps(t, v))
      /\ \A a \in Actors : ~Distributes(t, a)
      /\ added[t] \notin {"no", "null"} /\ state[t] \in {"Queuing", "Cancelled"}
  BY <1>1, <1>2, KeepsAlone DEF Keeps, StateAllows
<1>4. \A v \in Workers \ {w} : taken'[v] = t => wpc'[v] = "release"
  BY <1>1, <1>3 DEF Keeps
<1>5. \A a \in Actors : call'[a].task = t => call'[a].at = "return"
  BY <1>1, <1>3 DEF Distributes
<1>6. Known(t)'
  BY <1>1, <1>2, <1>3 DEF Known
<1>7. NotLost(t)'
  BY <1>1 DEF NotLost
<1>8. CASE Push(u, t) /\ wpc'[w] = "release"
  <2>1. \A x \in Tasks, v \in Workers :
           /\ InQueue(queue', x, v) <=> InQueue(queue, x, v) \/ (x = t /\ v = u)
           /\ Once(queue, x, v) /\ ~(x = t /\ v = u /\ InQueue(queue, x, v)) => Once(queue', x, v)
    BY <1>8, PushMoves DEF Control, QueueOK
  <2>2. ASSUME NEW x \in Tasks \ {t} PROVE Untouched(x)
    BY <1>1, <2>1 DEF Untouched
  <2>3. \A v \in Workers : InQueue(queue', t, v) <=> v = u
    BY <1>3, <2>1
  <2>4. AtMostOne(t)'
    BY <1>1, <1>2, <1>3, <1>4, <1>5, <1>8, <2>1, <2>3 DEF AtMostOne, Keeps, Distributes
  <2>5. StateAllows(t)'
    <3>1. \A v \in Workers : taken'[v] = t => wpc'[v] = "release"
      BY <1>4, <1>8
    <3>2. InQueue(queue', t, u) /\ state'[t] \in {"Queuing", "Cancelled"}
      BY <1>1, <1>3, <2>3
    <3> QED
      BY <1>5, <3>1, <3>2 DEF StateAllows, Actors
  <2> QED
    BY <1>6, <1>7, <2>2, <2>4, <2>5, OnlyTouches DEF TaskSound
<1>9. CASE queue' = queue /\ wpc'[w] \in {"stealPush", "giveBack"}
  <2>1. ASSUME NEW x \in Tasks \ {t} PROVE Untouched(x)
    BY <1>1, <1>9 DEF Untouched
  <2>2. AtMostOne(t)'
    BY <1>1, <1>2, <1>3, <1>4, <1>5, <1>9 DEF AtMostOne, Keeps, Distributes
  <2>3. StateAllows(t)'
    <3>1. Keeps(t, w)' /\ \A v \in Workers : ~InQueue(queue', t, v)
      BY <1>1, <1>3, <1>9 DEF Keeps
    <3> QED
      BY <1>1, <1>3, <1>4, <1>5, <1>9, <3>1 DEF StateAllows, Actors
  <2> QED
    BY <1>6, <1>7, <2>1, <2>2, <2>3, OnlyTouches DEF TaskSound
<1> QED
  BY <1>1, <1>8, <1>9

\* The thread lets go of its task.
LEMMA ReleaseSound ==
  ASSUME Control, TasksSound, GoneStays, NEW w \in Workers, Releases(w)
  PROVE  TasksSound' /\ OneTouched
<1>0. taken[w] \in Tasks
  BY ReleasesEffect
<1> PICK t \in Tasks : t = taken[w]
  BY <1>0
<1>1. PICK next \in {"loop", "testExitAfter"}, retrying \in {"retry", "stealRetry"} :
        /\ taken[w] = t /\ wpc[w] \in {"destroy", "release"} /\ taken'[w] = NoTask
        /\ \A u \in Workers \ {w} : taken'[u] = taken[u] /\ wpc'[u] = wpc[u]
        /\ Retried(w, retrying) \/ NotRetried(w, next)
        /\ UNCHANGED <<queue, state, added, dropped>>
  BY ReleasesEffect DEF history
<1>2. TaskSound(t) /\ AtMostOne(t) /\ Known(t) /\ StateAllows(t) /\ NotLost(t)
  BY DEF TasksSound, TaskSound
<1>3. w \in Actors /\ Owner \in Actors /\ w # Owner /\ t # NoTask /\ Workers \subseteq Actors
  BY OwnerAssumption, NoTaskAssumption DEF Actors
<1>4. \A u \in Workers : taken'[u] = t <=> taken[u] = t /\ u # w
  BY <1>1, <1>3
<1>5. LastCopy(w) <=> \A u \in Workers : (u # w => taken[u] # t) /\ ~InQueue(queue, t, u)
  <2>1. \A u \in Workers : DOMAIN queue[u] = 1 .. Len(queue[u])
    BY LenProperties DEF Control, QueueOK
  <2> QED
    BY <1>1, <2>1 DEF LastCopy, InQueue
<1>6. CASE Retried(w, retrying)
  <2>1. /\ \A u \in Workers : (u # w => taken[u] # t) /\ ~InQueue(queue, t, u)
        /\ state[t] = "DependsUnfinish" /\ wpc'[w] = retrying
        /\ call'[w].at = "pick" /\ call'[w].task = t
        /\ \A b \in Actors \ {w} : call'[b] = call[b]
        /\ \A x \in Tasks \ {t} : retryCount'[x] = retryCount[x]
    BY <1>1, <1>5, <1>6 DEF Retried
  <2>2. call[w].task \notin Tasks
    BY <1>1, NoTaskAssumption DEF Control, CallOK, CallIs, Actors
  <2>3. ASSUME NEW x \in Tasks \ {t} PROVE Untouched(x)
    BY <1>1, <1>3, NoTaskAssumption, <2>1, <2>2 DEF Untouched
  <2>4. \A a \in Actors : ~Distributes(t, a)
    BY <1>1, <1>2, <1>3 DEF AtMostOne
  <2>5. AtMostOne(t)'
    BY <1>1, <1>2, <1>3, <1>4, <2>1, <2>4 DEF AtMostOne, Keeps, Distributes
  <2>6. Known(t)'
    BY <1>1, <1>2, <1>3, <1>4, <2>1 DEF Known
  <2>7. StateAllows(t)'
    BY <1>1, <1>3, <1>4, <2>1, <2>4 DEF StateAllows, Distributes
  <2>8. NotLost(t)'
    BY <1>3, <2>1 DEF NotLost, Distributes
  <2> QED
    BY <2>3, <2>5, <2>6, <2>7, <2>8, OnlyTouches DEF TaskSound
<1>7. CASE NotRetried(w, next)
  <2>1. /\ ~(LastCopy(w) /\ state[t] = "DependsUnfinish")
        /\ wpc'[w] = next /\ call' = call /\ retryCount' = retryCount
    BY <1>1, <1>7 DEF NotRetried
  <2>2. ASSUME NEW x \in Tasks \ {t} PROVE Untouched(x)
    BY <1>1, <1>3, <2>1, NoTaskAssumption DEF Untouched
  <2>3. AtMostOne(t)'
    BY <1>1, <1>2, <1>3, <1>4, <2>1 DEF AtMostOne, Keeps, Distributes
  <2>4. Known(t)'
    BY <1>1, <1>2, <1>4, <2>1 DEF Known, Distributes
  <2>5. wpc[w] = "destroy" => state[t] \in {"Done", "Cancelled", "DependsUnfinish"}
    BY <1>1, <1>2 DEF StateAllows
  <2>6. wpc[w] = "release" /\ state[t] \in Pending
          => Gone \/ \E u \in Workers : Keeps(t, u) \/ InQueue(queue, t, u)
    BY <1>1, <1>2 DEF StateAllows
  <2>7. StateAllows(t)'
    <3>1. ASSUME NEW u \in Workers, taken'[u] = t, wpc'[u] = "release", state'[t] \in Pending
          PROVE  Gone' \/ \E v \in Workers : Keeps(t, v)' \/ InQueue(queue', t, v)
      <4>1. u # w /\ taken[u] = t /\ wpc[u] = "release" /\ state[t] \in Pending
        BY <1>1, <1>4, <3>1
      <4>2. Gone \/ \E v \in Workers : Keeps(t, v) \/ InQueue(queue, t, v)
        BY <1>2, <4>1 DEF StateAllows
      <4>3. ~Keeps(t, w)
        BY <1>1, <2>5, <4>1 DEF Keeps, Pending
      <4> QED
        BY <1>1, <4>2, <4>3 DEF Keeps, GoneStays
    <3> QED
      BY <1>1, <1>2, <1>4, <2>1, <3>1 DEF StateAllows
  <2>8. NotLost(t)'
    <3>1. CASE LastCopy(w)
      <4>1. state[t] # "DependsUnfinish"
        BY <2>1, <3>1
      <4>2. wpc[w] = "release" /\ state[t] \in Pending => Gone
        BY <1>5, <2>6, <3>1, <1>1 DEF Keeps
      <4>3. state[t] \in TaskState
        BY DEF Control, TaskOK
      <4> QED
        BY <1>1, <2>5, <4>1, <4>2, <4>3 DEF NotLost, Final, TaskState, Pending, GoneStays
    <3>2. CASE ~LastCopy(w)
      BY <1>1, <1>4, <1>5, <3>2 DEF NotLost
    <3> QED
      BY <3>1, <3>2
  <2> QED
    BY <2>2, <2>3, <2>4, <2>7, <2>8, OnlyTouches DEF TaskSound
<1> QED
  BY <1>1, <1>6, <1>7

-----------------------------------------------------------------------------
(* The users.                                                              *)

LEMMA AddTaskSound ==
  ASSUME Control, TasksSound, GoneStays, NEW t \in Tasks, AddTask(t)
  PROVE  TasksSound' /\ OneTouched
<1>1. /\ owner.op = "free" /\ added[t] \in {"no", "null"}
      /\ call'[Owner].at = "pick" /\ call'[Owner].task = t
      /\ \A b \in Actors \ {Owner} : call'[b] = call[b]
      /\ added'[t] = "adding" /\ \A x \in Tasks \ {t} : added'[x] = added[x]
      /\ UNCHANGED <<queue, wpc, taken, state, retryCount, dropped>>
  BY AddTaskEffect DEF runVars, taskVars, history
<1>2. call[Owner].task \notin Tasks
  BY <1>1, NoTaskAssumption DEF Control, CallOK, CallIs, Actors
<1>3. Owner \in Actors /\ Owner \notin Workers /\ Workers \subseteq Actors
  BY OwnerAssumption DEF Actors
<1>4. ASSUME NEW x \in Tasks \ {t} PROVE Untouched(x)
  BY <1>1, <1>2 DEF Untouched
<1>5. /\ AtMostOne(t) /\ Known(t) /\ StateAllows(t) /\ NotLost(t)
      /\ state[t] = "Queuing"
      /\ \A w \in Workers : taken[w] # t /\ ~InQueue(queue, t, w)
      /\ \A a \in Actors : ~Distributes(t, a)
  BY <1>1 DEF TasksSound, TaskSound, Known
<1>6. AtMostOne(t)'
  BY <1>1, <1>3, <1>5 DEF AtMostOne, Keeps, Distributes
<1>7. Known(t)'
  BY <1>1 DEF Known
<1>8. StateAllows(t)'
  BY <1>1, <1>3, <1>5 DEF StateAllows, Distributes
<1>9. NotLost(t)'
  BY <1>1, <1>3 DEF NotLost, Distributes
<1> QED
  BY <1>4, <1>6, <1>7, <1>8, <1>9, OnlyTouches DEF TaskSound

LEMMA AddOverSound ==
  ASSUME Control, TasksSound, GoneStays, AddReturns \/ AddRefused
  PROVE  TasksSound' /\ OneTouched
<1>0. call[Owner].task \in Tasks
  BY AddOverEffect
<1> PICK t \in Tasks : t = call[Owner].task
  BY <1>0
<1>1. PICK r \in {"yes", "garbage", "null"} :
        /\ r = "null" <=> call[Owner].at = "refused"
        /\ r # "null" <=> call[Owner].at = "return"
        /\ call'[Owner].at = "none" /\ call'[Owner].task = NoTask /\ NoTask \notin Tasks
        /\ \A b \in Actors \ {Owner} : call'[b] = call[b]
        /\ added'[t] = r /\ \A x \in Tasks \ {t} : added'[x] = added[x]
        /\ UNCHANGED <<queue, wpc, taken, state, retryCount, dropped>>
  BY AddOverEffect, NoTaskAssumption DEF runVars, taskVars, history
<1>2. Owner \in Actors /\ Owner \notin Workers /\ Workers \subseteq Actors
  BY OwnerAssumption DEF Actors
<1>3. ASSUME NEW x \in Tasks \ {t} PROVE Untouched(x)
  BY <1>1 DEF Untouched
<1>4. /\ AtMostOne(t) /\ Known(t) /\ StateAllows(t) /\ NotLost(t) /\ added[t] = "adding"
  BY <1>1 DEF TasksSound, TaskSound, Known
<1>5. AtMostOne(t)'
  BY <1>1, <1>2, <1>4 DEF AtMostOne, Keeps, Distributes
<1>6. Known(t)'
  <2>1. ASSUME r = "null"
        PROVE  /\ state[t] = "Queuing"
               /\ \A w \in Workers : taken[w] # t /\ ~InQueue(queue, t, w)
               /\ \A b \in Actors \ {Owner} : ~Distributes(t, b)
    BY <1>1, <1>2, <1>4, <2>1 DEF StateAllows, AtMostOne, Distributes
  <2> QED
    BY <1>1, <1>2, <2>1 DEF Known, Distributes
<1>7. StateAllows(t)'
  BY <1>1, <1>2, <1>4 DEF StateAllows, Keeps, GoneStays
<1>8. NotLost(t)'
  BY <1>1, <1>4 DEF NotLost, Distributes, GoneStays
<1> QED
  BY <1>3, <1>5, <1>6, <1>7, <1>8, OnlyTouches DEF TaskSound

LEMMA CancelSound ==
  ASSUME Control, TasksSound, GoneStays, NEW t \in Tasks, Cancel(t)
  PROVE  TasksSound' /\ OneTouched
<1>1. /\ added[t] = "yes" /\ state[t] = "Queuing"
      /\ \A x \in Tasks \ {t} : state'[x] = state[x]
      /\ state'[t] = "Cancelled"
      /\ UNCHANGED <<queue, wpc, taken, call, retryCount, added, dropped>>
  BY PerformEffect
     DEF Cancel, runVars, userVars, addVars, history, Leaves, Installs, Operation, Control, TaskOK
<1>2. ASSUME NEW x \in Tasks \ {t} PROVE Untouched(x)
  BY <1>1 DEF Untouched
<1>3. /\ AtMostOne(t) /\ Known(t) /\ StateAllows(t)
  BY <1>1 DEF TasksSound, TaskSound
<1>4. AtMostOne(t)' /\ Known(t)' /\ NotLost(t)'
  BY <1>1, <1>3 DEF AtMostOne, Keeps, Distributes, Known, NotLost, Final
<1>5. StateAllows(t)'
  BY <1>1, <1>3 DEF StateAllows, Pending, Known
<1> QED
  BY <1>2, <1>4, <1>5, OnlyTouches DEF TaskSound

\* What the owner and the waiter do besides has nothing to do with any task.
LEMMA OtherSound ==
  ASSUME Control, TasksSound, GoneStays, OwnerGoesOn \/ WaiterMoves \/ UNCHANGED vars
  PROVE  TasksSound' /\ OneTouched
<1>1. /\ UNCHANGED <<queue, taken, call, state, retryCount, added, dropped>>
      /\ \A w \in Workers : taken[w] \in Tasks => wpc'[w] = wpc[w]
  <2> USE DEF taskVars, userVars, addVars, history, runVars, vars
  <2>1. CASE OwnerGoesOn
    <3>1. ASSUME NEW v \in Workers, StartWorker(v), NEW w \in Workers, taken[w] \in Tasks
          PROVE  wpc'[w] = wpc[w]
      BY <3>1, NoTaskAssumption DEF StartWorker, Control, RunOK, RunAt, Carrying
    <3>2. CASE ~ \E v \in Workers : StartWorker(v)
      BY <2>1, <3>2 DEF OwnerGoesOn, CallOwner, ExitWorker, ExitAllWorker, DestroyWorker, JoinWorker
    <3> QED
      BY <2>1, <3>1, <3>2, OwnerGoesOnEffect
  <2>2. CASE WaiterMoves
    BY <2>2 DEF WaiterMoves, CallWait, WaiterStep, TestDepends, TestQueuing, TestRunning,
                InnerWait, LeaveWait, WaitGoto
  <2> QED
    BY <2>1, <2>2
<1>2. ASSUME NEW t \in Tasks PROVE Untouched(t)
  BY <1>1 DEF Untouched
<1> QED
  BY <1>2, UntouchedSound DEF TasksSound, OneTouched

\* The end of the destructor empties the queues; the states of all promises stay.
LEMMA DestroyWorkersSound ==
  ASSUME Control, TasksSound, DestroyWorkers
  PROVE  TasksSound'
<1>1. /\ UNCHANGED <<wpc, taken, call, state, added, dropped>> /\ Gone'
      /\ \A w \in Workers : queue'[w] = <<>>
  BY DestroyWorkersEffect DEF Gone, Control, OwnerOK
<1>2. ASSUME NEW t \in Tasks PROVE TaskSound(t)'
  <2>1. \A w \in Workers : ~InQueue(queue', t, w) /\ Once(queue', t, w)
    BY <1>1, EmptySeq DEF InQueue, Once
  <2>2. TaskSound(t)
    BY DEF TasksSound
  <2>3. AtMostOne(t)'
    BY <1>1, <2>1, <2>2 DEF TaskSound, AtMostOne, Keeps, Distributes
  <2>4. Known(t)'
    BY <1>1, <2>1, <2>2 DEF TaskSound, Known, Distributes
  <2>5. StateAllows(t)'
    BY <1>1, <2>1, <2>2 DEF TaskSound, StateAllows
  <2>6. NotLost(t)'
    BY <1>1 DEF NotLost
  <2> QED
    BY <2>3, <2>4, <2>5, <2>6 DEF TaskSound
<1> QED
  BY <1>2 DEF TasksSound

LEMMA PoolStaysGone ==
  ASSUME Control, [Next]_vars
  PROVE  GoneStays
<1> USE DEF GoneStays, Gone
<1>1. ASSUME NEW w \in Workers, EndRetry(w) \/ Releases(w) \/ GiveBack(w) PROVE GoneStays
  BY <1>1, ThreadFrame DEF ThreadStep, Steals
<1>2. ASSUME NEW t \in Tasks, AddTask(t) PROVE GoneStays
  BY <1>2 DEF AddTask
<1>3. CASE AddReturns \/ AddRefused
  BY <1>3 DEF AddReturns, AddRefused, InCall, Control, CallOK
<1>4. CASE OwnerGoesOn
  BY <1>4, OwnerCallsAssumption
     DEF OwnerGoesOn, CallOwner, StartWorker, ExitWorker, ExitAllWorker, DestroyWorker, JoinWorker
<1> QED
  BY <1>1, <1>2, <1>3, <1>4, UserFrame, DestroyWorkersEffect

LEMMA TasksSoundInit == Init => TasksSound
<1> SUFFICES ASSUME Init, NEW t \in Tasks PROVE TaskSound(t)
  BY DEF TasksSound
<1>1. \A w \in Workers : ~InQueue(queue, t, w) /\ Once(queue, t, w) /\ taken[w] # t
  BY EmptySeq, NoTaskAssumption DEF Init, InQueue, Once
<1>2. /\ \A a \in Actors : call[a].task # t
      /\ state[t] = "Queuing" /\ added[t] = "no"
  BY NoTaskAssumption DEF Init, NoCall
<1>3. Owner \in Actors /\ Workers \subseteq Actors
  BY DEF Actors
<1> QED
  BY <1>1, <1>2, <1>3 DEF TaskSound, AtMostOne, Known, StateAllows, NotLost, Keeps, Distributes

LEMMA TasksSoundStep ==
  Control /\ TasksSound /\ [Next]_vars => TasksSound' /\ (OneTouched \/ DestroyWorkers)
<1> SUFFICES ASSUME Control, TasksSound, [Next]_vars
             PROVE  TasksSound' /\ (OneTouched \/ DestroyWorkers)
  OBVIOUS
<1>0. GoneStays
  BY PoolStaysGone
<1>1. ASSUME NEW w \in Workers, ThreadStep(w) PROVE TasksSound' /\ OneTouched
  <2>1. ASSUME Steal(w) PROVE TasksSound' /\ OneTouched
    BY <1>0, <2>1, StealEffect, TakeSound, StealNothingSound
  <2> QED
    BY <1>0, <1>1, <2>1, IdleSound, EndRetrySound, RunSound, TakeSound, StealPushSound, ReleaseSound
       DEF ThreadStep, Steals
<1> QED
  BY <1>0, <1>1, DistributeSound, AddTaskSound, AddOverSound, CancelSound, OtherSound,
     DestroyWorkersSound, StepCases, UnwantedAssumption

LEMMA TasksSoundInvariant == Spec => [](Control /\ TasksSound)
BY ControlInit, ControlStep, TasksSoundInit, TasksSoundStep, PTL DEF Spec

-----------------------------------------------------------------------------
(* Held once, and lost only with the pool.                                 *)

LEMMA AtMostOneElement ==
  ASSUME NEW S, \A x, y \in S : x = y
  PROVE  Cardinality(S) <= 1
<1>1. CASE S = {}
  BY <1>1, FS_EmptySet
<1>2. CASE S # {}
  <2>1. PICK x : S = {x}
    BY <1>2
  <2> QED
    BY <2>1, FS_Singleton
<1> QED
  BY <1>1, <1>2

LEMMA HoldersAre ==
  ASSUME NEW t, NEW h
  PROVE  h \in Holders(t) <=> \/ \E w \in Workers : h \in QueuedAt(t, w)
                              \/ h \in Taken(t) \/ h \in Distributed(t)
<1>1. h \in Holders(t) <=> h \in Queued(t) \/ h \in Taken(t) \/ h \in Distributed(t)
  BY DEF Holders
<1>2. h \in Queued(t) <=> \E w \in Workers : h \in QueuedAt(t, w)
  BY DEF Queued
<1> QED
  BY <1>1, <1>2

LEMMA HolderCases ==
  ASSUME Control, NEW t \in Tasks, NEW h \in Holders(t)
  PROVE  \/ \E w \in Workers : \E n \in 1 .. Len(queue[w]) :
              queue[w][n] = t /\ h = <<"queued", w, n>>
         \/ \E w \in Workers : Keeps(t, w) /\ h = <<"taken", w>>
         \/ \E a \in Actors : Distributes(t, a) /\ h = <<"distributed", a>>
<1>1. \A w \in Workers : DOMAIN queue[w] = 1 .. Len(queue[w])
  BY LenProperties DEF Control, QueueOK
<1>2. ASSUME NEW w \in Workers, h \in QueuedAt(t, w)
      PROVE  \E n \in 1 .. Len(queue[w]) : queue[w][n] = t /\ h = <<"queued", w, n>>
  <2>1. PICK n \in DOMAIN queue[w] : queue[w][n] = t /\ h = <<"queued", w, n>>
    BY <1>2 DEF QueuedAt
  <2> QED
    BY <1>1, <2>1
<1>3. CASE h \in Taken(t)
  BY <1>3 DEF Keeps, Taken
<1>4. CASE h \in Distributed(t)
  BY <1>4 DEF Distributes, Distributed
<1> QED
  BY <1>2, <1>3, <1>4, HoldersAre

LEMMA HoldersAgree ==
  ASSUME Control, NEW t \in Tasks, AtMostOne(t), NEW g \in Holders(t), NEW h \in Holders(t)
  PROVE  g = h
<1>1. ASSUME NEW w \in Workers, NEW n \in 1 .. Len(queue[w]), queue[w][n] = t
      PROVE  InQueue(queue, t, w)
  BY <1>1 DEF InQueue
<1>2. ASSUME NEW v \in Workers, NEW m \in 1 .. Len(queue[v]), queue[v][m] = t,
             NEW w \in Workers, NEW n \in 1 .. Len(queue[w]), queue[w][n] = t
      PROVE  v = w /\ m = n
  <2>1. v = w
    BY <1>1, <1>2 DEF AtMostOne
  <2> QED
    BY <1>2, <2>1 DEF AtMostOne, Once
<1>3. CASE \E w \in Workers : \E n \in 1 .. Len(queue[w]) :
             queue[w][n] = t /\ h = <<"queued", w, n>>
  <2>0. PICK w \in Workers : \E n \in 1 .. Len(queue[w]) :
            queue[w][n] = t /\ h = <<"queued", w, n>>
    BY <1>3
  <2>1. PICK n \in 1 .. Len(queue[w]) : queue[w][n] = t /\ h = <<"queued", w, n>>
    BY <2>0
  <2>2. InQueue(queue, t, w)
    BY <1>1, <2>1
  <2>3. PICK v \in Workers : \E m \in 1 .. Len(queue[v]) :
            queue[v][m] = t /\ g = <<"queued", v, m>>
    BY <2>2, HolderCases DEF AtMostOne
  <2>4. PICK m \in 1 .. Len(queue[v]) : queue[v][m] = t /\ g = <<"queued", v, m>>
    BY <2>3
  <2> QED
    BY <1>2, <2>1, <2>4
<1>4. CASE \E w \in Workers : Keeps(t, w) /\ h = <<"taken", w>>
  <2>1. PICK w \in Workers : Keeps(t, w) /\ h = <<"taken", w>>
    BY <1>4
  <2>2. \A v \in Workers : ~InQueue(queue, t, v)
    BY <2>1 DEF AtMostOne
  <2>3. \A a \in Actors : ~Distributes(t, a)
    BY <2>1 DEF AtMostOne, Keeps
  <2>4. PICK v \in Workers : Keeps(t, v) /\ g = <<"taken", v>>
    BY <1>1, <2>2, <2>3, HolderCases
  <2> QED
    BY <2>1, <2>4 DEF AtMostOne
<1>5. CASE \E a \in Actors : Distributes(t, a) /\ h = <<"distributed", a>>
  <2>1. PICK a \in Actors : Distributes(t, a) /\ h = <<"distributed", a>>
    BY <1>5
  <2>2. \A w \in Workers : ~InQueue(queue, t, w) /\ ~Keeps(t, w)
    BY <2>1 DEF AtMostOne, Keeps
  <2>3. PICK b \in Actors : Distributes(t, b) /\ g = <<"distributed", b>>
    BY <1>1, <2>2, HolderCases
  <2> QED
    BY <2>1, <2>3 DEF AtMostOne
<1> QED
  BY <1>3, <1>4, <1>5, HolderCases

\* No two threads ever hold a task's closure, whatever is stolen and retried:
\* the closure and its promise are used without a lock on that account.
THEOREM NeverHeldTwice == Spec => []HeldOnce
<1>1. Control /\ TasksSound => HeldOnce
  <2> SUFFICES ASSUME Control, TasksSound, NEW t \in Tasks PROVE Cardinality(Holders(t)) <= 1
    BY DEF HeldOnce
  <2>1. AtMostOne(t)
    BY DEF TasksSound, TaskSound
  <2>2. \A g, h \in Holders(t) : g = h
    BY <2>1, HoldersAgree
  <2> HIDE DEF Holders
  <2> QED
    BY <2>2, AtMostOneElement
<1> QED
  BY <1>1, TasksSoundInvariant, PTL

=============================================================================
