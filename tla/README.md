# LLWorkFlows in TLA+

LLWorkFlows is a small C++20 library that runs tasks on worker threads. This
directory holds its specifications, the TLC configurations that model-check
them, and theorems about them with proofs for TLAPS. Every definition is
translated from the source (`workflows/`), in the variant the build selects
(`set_languages("c++latest")`, so the `LLWFLOWS_CPP_PLUS >= 20` paths).

## The system

A user hands a function to a `ThreadPool`, which wraps it in a closure that
knows its dependencies, chooses a worker and posts the closure with a promise
to the worker's queue. The worker's thread pops it, moves the promise from
Queuing to Running, calls the function and marks the promise Done. Users
cancel, poll or wait on the promise. A task whose dependencies are not Done
puts its promise in the custom state DependsUnfinish; destroying its closure
then posts it again.

| Component | Source | State | Operations | Talks to |
|---|---|---|---|---|
| `MPMCQueue`, `SRingBuffer` | `detail/MPMCQueue.h`, `sringbuffer.hpp` | `head_`, `tail_`, per slot `turn` and `storage` | `try_emplace`, `try_pop`, `size` | any number of producers and consumers, no lock |
| `TaskPromise` | `threadworker.hpp/.cpp` | `mState`, worker ids | `cancel`, `changeState`, `resetState`, `done`, `wait` | users, workers and the pool share it |
| `ThreadWorker` | `threadworker.hpp/.cpp` | its queue, `mExit`, `mExitAfterAllTasks`, idle count, mutex and condition variable, its thread | `start`, `post` (two forms), `exit`, `waitForExit`, `run` | posters through the queue and the condition variable, owner through the flags |
| `ThreadPool` tasks | `threadpools.hpp/.cpp` | the workers, per task a description (dependencies, promise, retry count) owned by its closure | `addTask`, `distributeTask`, `packTask`, `addTaskImp`, `cancel`, `wait`, `start`, `stop`, `stopAndwaitAll`, destructor | posts to workers; its closures run on them and post again |
| `ThreadPool` stealing | `threadpools.cpp` | a task held between two queues | `onWorkerIdle` | pops from one worker's queue, pushes to another's |
| `ThreadPool` choice of worker | `threadpools.cpp` | round-robin counter | `pickWorkerIdBy...` | reads sizes and idle counts of all workers |
| `Thread` and registry | `thread.hpp/.cpp` | `mThread`, `mThreadMetaData`, the map `kThreads` | `start`, `join`, `detach`, `swap`, destructor, `makeMetaObjectForCurrentThread` | base class of the worker |
| log, enum names, build macros, `actuators.hpp` | `detail/*`, `actuators.hpp` | none that matters | | |

### What is hard

* Nothing but the condition variable's predicate is under a lock. A poster
  publishes its item and notifies without the mutex; `exit` stores its flag
  and notifies without it. The order of these steps against the worker's
  test of its predicate and its sleep decides whether a wake-up is lost.
* The queue is lock-free: a ticket is won by one atomic access, the item
  constructed by a later one and published by a third, and every one of them
  can be separated from the next by any number of steps of other threads.
* The promise's state is changed by users, workers and the pool. Each change
  is a loop over a compare-and-swap; `wait` reads the state several times.
* Tasks are retried: what was finished is reset, and posted to another
  worker, which may have been told to exit in between.
* Workers are stopped with their queues not empty, restarted, and told to
  exit in two ways, in any order.

### What makes each component correct

* Promise: each operation takes effect at one instant; of two racing
  operations only one wins; no waiter is forgotten; `wait` reports the final
  state.
* Queue: slots are never shared between two operations; items live from
  construction to the pop; when a call fails, the queue had no place for its
  ticket, or no item to take, at some instant of the call; as a whole it is a
  bounded FIFO; no call waits for another thread.
* Worker: a function is called at most once, never for a cancelled promise,
  and the promise tells whether it was; nothing posted before an exit is left
  pending; `exit(true)` runs what was posted before; a posted task is handled
  if the worker is awake.
* Pool: a task runs once, after its dependencies; it is never in two queues,
  nor lost between them; `wait` returns on a final state only; a retry ends
  when the dependencies do; stopping ends, and handles every task. The code
  does not keep all of this in every case; see the findings.
* Choice of worker: the worker had room; if nothing moved meanwhile it is the
  extremal one; the choice is defined unless every queue was full.
* Thread: `isRunning` can be relied on by those who start, join and destroy;
  a thread finds its own object in the registry, whatever others have left
  there.

## The modules

| Module | Models | Against |
|---|---|---|
| `PromiseState` | the states, and per operation what it leaves, installs and notifies | `threadworker.cpp:12-72` |
| `AtomicPromise` | abstract: each operation is one step | what users of a promise rely on |
| `TaskPromise` | the promise access by access, and `wait` | implements `AtomicPromise` |
| `BoundedFifo` | abstract: a bounded queue whose items become visible after they are accepted, and whose places become free after they are taken | what users of the queue rely on |
| `MPMCQueue` | `try_emplace` and `try_pop`, access by access | implements `BoundedFifo` |
| `ThreadWorker` | one worker with its posters, cancelling users and owner | uses the queue as a `BoundedFifo`, the promises as `AtomicPromise`s |
| `TaskGraph` | abstract: a task runs once, after its dependencies, or never | what users of a pool rely on |
| `ThreadPool` | several workers, their owner, the closures with their deleters, stealing, both stops, the destructor, `wait` | `threadpools.cpp:7-197`; implements `TaskGraph` |
| `WorkerPick` | the choices of a worker and the order they are tried in, read by read, against other threads that push, pop and idle | `threadpools.cpp:91-107`, `201-278`, `MPMCQueue.h:252-257` |
| `Thread` | thread objects, the first and last steps of their threads, the registry | `thread.cpp` |
| `TaskPromiseProofs`, `MPMCQueueProofs`, `ThreadWorkerProofs`, `WorkerPickProofs`, `ThreadProofs` | the theorems about the module of that name | |
| `ThreadPoolProofs`, `ThreadPoolTaskProofs`, `ThreadPoolGraphProofs` | the theorems about `ThreadPool`: its control, where a task is, in which order tasks run; each extends the one before | |
| `MC...` | model values, thread sets and task graphs for TLC | |

`WorkerPick` and `Thread` are each on their own; what the others use of them
is in their abstractions below. The layers rest on each other. `TaskPromise` implements `AtomicPromise`, so
`ThreadWorker` performs an operation on a promise in one step (`Perform`).
`MPMCQueue` implements `BoundedFifo`, whose four steps (accept, make
available, take, vacate) are steps of their own in `ThreadWorker`, and
`UsesBoundedFifo`, checked and proved, says that they are used that way. `ThreadPool` has
several workers and abstracts each of them further: a push, a pop and a
`size()` are one step, and a sleeping worker with work to do wakes up or does
not, because `ThreadWorker` has shown that both happen.

Definitions marked "Slip" are plausible mistakes (a dropped test, a store for
a compare-and-swap). They belong to no specification; substituting one for
the definition after it makes the property it is meant for fail.

### How state and actions correspond to the code

`TaskPromise`. `mState` is the atomic; `pc`, `op`, `seen` and `ok` are a
caller's position, operation, local `taskState` and result. `Load`, then
`CasSucceeds` or `CasFails`, then `NotifyAll`, are the accesses of a loop.
A spurious failure of the weak compare-and-swap reloads the state it had, so
it is a stuttering step. `wait` has one step per load and per
`atomic::wait`; blocking and the comparison before it are one step, as the
standard requires, and a blocked thread may look again at any time.
"depends" stands for `changeState(Running, TaskDependsUnfinish)`, the only
call of `changeState`.

`MPMCQueue`. `head` and `tail` are the ticket counters, `slotTurn` and
`storage` the slots, `pc`, `ticket` and `item` the locals of a call.
`PushLoad`, `PushTest`, `PushCas`, `PushReload`, `Construct` and `Publish`
are the accesses of `try_emplace` and likewise for `try_pop`. `justified` is
a history variable for `FailureJustified`: when a test failed, was it because
there was no place for the ticket in hand (`NoRoom`), or no item. A free place
further on does not help `try_emplace`, which never skips a ticket.

`ThreadWorker`. `wpc` is the position in `run`, one value per shared access;
`taken` is the local task. A post is accepted, published and then notifies.
The owner calls `exit(false)`, `exit(true)`, `waitForExit` and `start` one at
a time, in any order. `runs`, `due` and `hardExit` are history variables.
A refused poster may try again. Wake-ups of the condition variable may be
spurious. The predicate is evaluated in one step and the sleep is another,
which is where a notification is missed.

`ThreadPool`. `call[a]` is the call of `distributeTask` that actor a is in:
the owner from `addTask`, a worker from the deleter of a task's description.
Its steps are the choice of a worker (`Pick`, `PickFails`), `resetState`
(`Reset`), the scan for cancelled dependencies (`Scan`) and the post (`Post`,
`PostRefused`). `wpc[w]`, `taken[w]` and `victim[w]` are the position and the
locals of a worker's thread, from `run` into the closure of `packTask`, the
deleter and `onWorkerIdle`. A description has no variable of its own: it lives
as long as a closure of its task is in a queue or in `taken`, and `LastCopy`
tells when it goes. `retryCount` counts no further than `RetryLimit + 1`,
where its only test has the same answer for good. `owner` goes through the
workers one by one, as the loops of `start`, `stop` and `stopAndwaitAll` do.
`added` is what `addTask` returned, `dangling` that the description it is
about to read was deleted: then the result is undefined. `waiter` is a thread
in `wait`, between its three loads. The destructor is a third way to stop: when
it has joined the workers one by one the owner is "dying", nobody calls the
pool, and `DestroyWorkers` destroys the queues with all the closures in them;
then it is "gone". A theft chooses the victim and tests its size
(`ChooseVictim`), and pops in a step of its own (`Steal`). History variables:
`dropped`, the tasks whose retry was refused; `returned`, those a thief has
given back; `unserved`, per worker those that `addTask` posted to it while it
had no thread, until it is started.

`WorkerPick`. `head`, `tail` and `mIdleLoopCount` are the queues' counters and
the workers' idle counts. `PushItem`, `PopItem`, `IdleRound` and `WakesUp` change
them at any time; between finding its queue empty (`FindsEmpty`) and counting
the round a worker is in `foundEmpty`. A pop and the reset of the count after it
are one step. One thread chooses: `Ask` with a priority, or as a thief.
`attempts` is the rest of the choices `distributeTask` tries (the priorities'
`switch` and the last resort), `at` the loop's worker, `todo` what is still to
be read of it, `key` the vector that is sorted. A `size()` is `LoadFirst` and
`LoadSecond`, of `head_` and `tail_` in either order. A negative difference is
one less than it should be (`MPMCQueue.h:256` adds 2^64 - 1), does not pass a
comparison with the capacity as a `size_t`, and is sorted as an `int`.
`Choices` keeps the differing tests of the vector's length; where they let a
missing element through, or `rand() % 0` is evaluated, the result is
`Undefined`. `hadRoom`, `wasFull` and `moved` are history variables.

`Thread`. Per object, `mThreadMetaData` is the id of its `std::thread`, `Empty`
after a join or a detach and `Null` before the first start. `start` is
`Start`, `Create`, `Assign`, `SetId` and `Register`: its last four writes, with
the new thread running from the second one on. Per thread, `pc` goes through
`runImpl` (`Begin`, `SetName`, `SetPriority`, `Leave`) to `End`, where its
`thread_local` object, if `MakeMetaObject` has made one, erases its entry of
`kThreads`. `applied` is what of name and priority has been set of a thread,
by whomever. An object has one user who makes one call at a time and destroys it only when `isRunning` is
false. `misused` is a history variable: the objects that were started again or
swapped while a thread was in their `runImpl`.

### Abstractions

* Values of atomics are interleaved as if sequentially consistent. The code
  loads with `memory_order_release`, which the standard does not define for
  loads; the modules do not model weaker orders.
* Tickets are natural numbers, not 64-bit words; at 10^9 items a second they
  wrap after five centuries.
* `size()` is one step in `ThreadWorker`. Its two loads can disagree only
  when pops happen in between, and the only consumer in that module is the
  worker itself.
* The idle callback belongs to the pool and is left out of `ThreadWorker`.
* In `Thread`, an access to `kThreads` is one step, although nothing protects
  the map; a `std::thread`'s `join`, `detach` and the end of its thread are one
  step each. An id is used again only when its thread has been joined, or has
  ended detached, as the standard allows.
* Which worker `distributeTask` chooses, and from which one a thief takes, is
  decided by sizes and idle counts that are read one after the other while
  they change (`WorkerPick`). In `ThreadPool` it may be any worker; the theft
  keeps the test that the victim's queue is longer than one, and an idle round
  may end without stealing. If every queue is full, `WorkerPick` may choose no
  worker of the pool; `ThreadPool` leaves that case out.
* `size()` is one step in `ThreadPool`. Torn as in `WorkerPick`, it could only
  make a thief try a shorter queue.
* The reads of several dependencies in one loop are one step. The closure
  looks for Done and the scan for Cancelled, and neither state is ever left,
  so the loop's answer is right for the moment of its last read.
* `TaskPromise::wait`, inside `ThreadPool::wait`, may return at any time: its
  own three reads can straddle a reset.
* Formatting, log, the text of names and the values of priorities decide
  nothing and are left out.

## The runs

| Run | Question | Bounds |
|---|---|---|
| `promise` | are all five operations atomic, is no waiter forgotten, do waiters come back | 3 callers, unlimited calls |
| `queue` | exclusive slots, live storage, justified failures, bounded FIFO; do calls return although others are suspended | 2 threads that push, 2 that pop, one of them both; 2 items, 2 slots, 5 tickets |
| `worker` | what ran, what was left behind, what exit promises, cancel is final; is a posted task handled unless the worker sleeps for good | 2 tasks, queue of 1, 2 starts, sleep after 2 idle rounds |
| `worker_exit` | does `waitForExit` return (violated) | 1 task |
| `pool` | the task graph, nothing doubled, what can be lost or stranded, what `addTask` returns, `wait` without dependencies | 2 workers that steal, a chain of 2 tasks and one whose worker does not exist, queues of 2, `start`, `stopAndwaitAll` and destructor |
| `pool_full` | the same where retries meet full queues and thieves give back; what `stopAndwaitAll` cancels | 2 workers that steal, 3 tasks, 2 of them dependent and one of these cancellable, queues of 2, `start` and `stopAndwaitAll` |
| `pool_live` | do retries end, do `stop`, `stopAndwaitAll` and the destructor return | 2 workers that steal, a chain of 3 tasks, the first and the last on the second worker, queues of 2, all calls of the owner |
| `pool_wait_early` | does `wait` last until the task is over (violated) | 2 workers, a chain of 2 |
| `pick` | is the chosen worker right, and when is the choice undefined | 2 workers, queues of 2, 2 items through each, 2 idle rounds |
| `pick_idle` | is the worker of a high task the most idle one (violated) | as `pick` |
| `thread` | can `isRunning` be relied on, does the registry lead a thread to its object | 2 objects, 2 ids, unlimited calls |
| `thread_name` | has the thread its name when the function runs (violated) | 1 object, 1 id |

Why these are enough to meet the interesting cases. A race on a promise is
between two operations; the third caller waits or resets. Five tickets on two
slots take a slot into its third round, so a thread can be suspended with a
ticket whose slot has gone through a whole round, and three threads allow a
race on either end while the third thread is inside a slot. A second task on a
queue of one is refused while the first one is moved out. Two starts bring
tasks of the first life into the second one. The idle limit, 0xffffff in the
code, is 1: the worker still counts, is interrupted while counting and sleeps.

In the pool, `RetryLimit` is 0 instead of 10, so the first retry already
queues behind a dependency. Two tasks in one queue are what a thief needs. For
a thief's copy to outlive the next run of its task, the task must come back to
its old worker while the thief's queue is full; this takes the three tasks and
the chosen workers of `pool_full`, where the copies then decide who retries.
A chain of three makes a task depend on one that is itself retried or
stranded.

The two promises of `pool_live` have exceptions, listed below, and its bounds
are small enough to meet each of them: queues of two fill up, so that retries
are refused and a thief is stuck; the chosen worker of the first and the last
task brings a stranded task and one that needs it to where the others keep it
busy. Leaving out any one of the exceptions makes this run fail. It is also the
run with calls of `stop`; in `pool` the destructor tells the workers to exit in
the same way, and the theorems cover both.

In `pick`, two workers are as many as one comparison sorts. Two items through
a queue of two fill it, empty it, and make its size negative or too large when
it is popped from between the two loads. Two idle rounds tell apart workers that
are both idle; after the second one a worker goes to sleep. In `thread`, the second object can inherit
an id whose first owner has left an entry behind, be swapped with the first, and
run while the first is destroyed.
Objects and ids are interchangeable, which the symmetry uses.

`CHECK_DEADLOCK FALSE`: `pool` and `pool_live` end after the destructor, and
`thread` when every object has been destroyed and its threads have ended.

Fairness. A thread inside a call keeps running (weak fairness of its steps,
which the operating system's scheduler gives), and functions of tasks return.
Nobody is obliged to make a call, and spurious wake-ups are never counted on.
In `queue` only one thread is assumed to keep running. In `pool_live` the
workers and the owner keep running, but a worker that sleeps need not wake up.

### Findings

* `worker_exit`: `exit` stores the flag and notifies without the mutex
  (`threadworker.cpp:155-163`). If that happens between the worker's test of
  its predicate and its sleep, the worker sleeps with the flag set and the
  join in `waitForExit` never ends.
* `pool_wait_early`: `ThreadPool::wait` tests the state in three loads
  (`threadpools.cpp:37-38`). A task that is Running at the first two and
  DependsUnfinish at the third ends the loop without having run.
* `pick_idle`: of `pickWorkerIdByIdleness`, `threadpools.hpp:69` says "The idx
  smaller the more idle". The sort puts the smallest idle count first
  (`threadpools.cpp:238-239`), so that a high task, which asks for index 0
  (line 100), goes to the idle worker that has been idle for the shortest time.
* `thread_name`: the new thread may run `setName` before `start` has assigned
  `mThreadMetaData` (`thread.cpp:46`); `isRunning` is true by then, and
  `thread.cpp:19` dereferences a null pointer, or names the thread of an
  earlier start.

What the properties of passing runs make exceptions for, because the code does:

* `OnlySleepDelays`, `AddedIsHandled`, `StopReturns`: a worker that sleeps
  through its wake-up (`Overslept`). `post` notifies without the mutex too
  (`threadworker.cpp:129-130`, `139-140`), so a task can stay in the queue of a
  sleeping worker; `OnlySleepDelays` shows that for a worker on its own there
  is no other reason.
* `AddedIsHandled`, `StopReturns`: a retry that was refused (`LostInRetry`). The
  deleter ignores it (`threadpools.cpp:156`); the promise stays Queuing, and
  nothing will ever run the task, although all workers are on duty. Those that
  depend on it are retried for ever; one whose worker is chosen keeps that
  worker's queue from being empty when `mExitAfterAllTasks` is tested, and the
  join waits for it.
* `StopReturns`: a task that is `Stranded` with a worker that has ended does
  the same to those that depend on it.
* `AddedIsHandled`, `StopReturns`: a thief that finds its own queue full, and its
  victim's as well or its victim to be itself, tries the two in turns
  (`threadpools.cpp:132-133`) until somebody else makes room. Two of them can
  wait for each other, or one for itself (`StuckThief`).
* `NothingLost`: `dropped`, the refused retries; and the destructor. It joins the
  workers, each of which cancels what is in its queue, but then destroys the
  queues with whatever came later: what a worker still running retried to or
  gave back to one that had ended, and what was added to a worker that was not
  started. These promises stay Queuing too.
* `AddReturnsUnlessTooLate`: `addTaskImp` reads `desc.promise` after the post
  (`threadpools.cpp:191`), from a description that a quick worker has deleted
  by then. What is shown is that this takes a worker that has run, cancelled
  or retried the task: a thief's copy alone does not delete it.
* `StrandedWereMoved`, `StopAndWaitAllRunsIndependent`: tasks that were retried
  or given back may be stranded with a worker that has ended, or cancelled
  by one that is ending. What was added to a worker without a thread waits
  there for the next `start`.
* `UndefinedOnlyIfFull`: if every queue is full, `rand() % 0`
  (`threadpools.cpp:277`) or element 0 of an empty vector (line 222, since
  line 218 tests with `>`). A queue also looks full when it is popped from
  between the loads of `head_` and `tail_`.
* `IsRunningIsTrue`: a thread that was detached before it had begun does not
  count as running, so its object may be destroyed under it
  (`NotUsedWhenGone`).
* `misused`: `swap` copies `mIsRunning` one way only (`thread.cpp:109`), and an
  object can be started again while a detached thread runs in it.
* `FindsItself`: `start` registers the object after its thread has begun, which
  may therefore find no entry, or a stale one that a joined object has left
  (`thread.cpp:200` looks for the id of no thread).

Read from the code, but no property: `Thread::Thread` binds new locals
(`thread.cpp:194`), so `mPolicy` and `mPriority` stay 0.

## The proofs

All proofs are for arbitrary sets of threads, tasks and objects, every number
of workers and every capacity, under the named assumptions of each module: a
positive capacity and number of workers, natural worker ids, idle and retry
limits, null values and results outside the sets they are kept apart from, a
pool's owner that is not one of its workers. The dependencies of a pool's tasks
are any function to sets of tasks, a cyclic one included, and a task may name a
worker that does not exist, as in the code.

* `TaskPromiseProofs`. `NoLostNotification` rests on `Sound`: besides types,
  a caller at its swap has seen a state its operation may leave, and only
  operations that notify lead out of the states `wait` blocks in. From there,
  whoever ends Pending stands before its `notifyAll`. `WaitReportsFinalState`
  adds `Forward`: without resets, a caller that has seen the state not
  Queuing, and then not Running, is at a final state for good.
  `Linearizable` shows step by step that the loops implement `AtomicPromise`.
* `MPMCQueueProofs`. `SlotsAreExclusive` is not inductive. `Exclusion` adds
  what a slot's turn says about whoever works on it: the thread that fills
  ticket i finds turn 2*turn(i) until it publishes, the one that empties
  it 2*turn(i)+1, and won tickets are below `head` and `tail`. Two owners
  of one slot would need two turns at once. `StorageIsAlive` adds `Lifetime`: an
  even turn without a finished construction means empty storage, an odd one
  means filled.
  `FailureJustified` and the refinement need the slots nobody works on as well.
  `Counted`: at most Capacity tickets are out, and the turn of a slot tells
  which of its tickets were filled and emptied. `Attended`: a slot that is free
  for a ticket below `head`, or holds the item of one below `tail`, has a thread
  that owns it. So a test that fails on the current ticket has a reason at that
  instant (`TestFailsForAReason`), and `TestRemembered` carries the reason to
  the reload on which the call returns false. `RefinesFifo` adds `Carried` and
  `Entries`: each ticket between `tail` and `head` is a filled slot or an item in the
  hands of exactly one thread. A won compare-and-swap is then an accept or a
  take, the store of a turn makes an item available or vacates its place, and
  every other step stutters. An accepted ticket finds room (`RoomForOne`)
  because the threads that are emptying have distinct tickets, all less than
  Capacity behind the new one and none in the queue: a cardinality.
* `ThreadWorkerProofs`. `Base` relates the promise to the worker's position,
  `Reports` counts the calls of the function, `Accounted` says where each
  posted task is (in the queue once, in the worker's hands, or in a final
  state), and `Due` says what an ended or draining worker still owes.
  `QueuedOnce` adds that a queued task is held back exactly until its poster
  publishes it, so that each step of worker and posters is one step of the
  `BoundedFifo` or none (`UsesTheQueueAsFifo`).
* `ThreadPoolProofs`. `Control` says where threads, calls and local variables
  agree: a worker has a taken task, a victim or a call exactly at the lines that
  have them. Lemmas say per action what it does to queues, promises and calls.
* `ThreadPoolTaskProofs`. `TasksSound` says of every task: at most one queue,
  thread or distributing call has its closure (`AtMostOne`, which leaves out the
  copy a thief is about to release), a task not in the pool is nowhere
  (`Known`), its promise is in a state that fits its place (`StateAllows`), and
  it is somewhere until it is final, its deleter dropped it or the pool is gone
  (`NotLost`). No conjunct is inductive alone: that a thief's copy is not the last
  one follows from the states, and those from there being one holder.
  `OneTouched` says that no step but `DestroyWorkers` concerns two tasks, so that
  each task is followed by itself; once the workers are destroyed no thread holds
  anything (`Gone`), and that stays so.
* `ThreadPoolGraphProofs`. `Dependent`: only tasks with dependencies are put
  off, and a function runs only when the dependencies of its task are Done, which
  they stay. With `StatusMoves` (the status a task has in `TaskGraph` moves
  along its edges) and `OneTouched`, `RunsInOrder` follows: every step is one of
  `TaskGraph` or stutters. `Waiting`: an independent task that
  `wait` has seen not Queuing is past it for good. `Garbage`: the
  description `addTask` reads after posting is only deleted when the task is
  over or retried. `Stopped` and `MovedSince`: a worker is told to exit by the call that
  then waits for it; when it has cancelled its queue, whatever appears there
  later was pushed by a retry, given back by a thief (`Pushed`) or added by the
  owner while the worker had no thread. When the destructor is done with the
  workers none has a thread, so this holds of all that `DestroyWorkers`
  destroys: `LostWereMoved`, which `NothingIsLost` adds to `NotLost`.
* `WorkerPickProofs`. `Control` has the types, and which tries and reads can be
  left. `Torn` says what the first of the two loads of a size implies about the
  history of that queue, whatever the second one finds: a ticket only grows, and
  each value of the size in between was at most Capacity. `Seen`
  carries it over the rest of the loop, to `ChosenHadRoom` and
  `UndefinedOnlyIfFull`. `AtRest` says that while nothing moves the keys read so
  far are those of the workers that qualify; that the ends of a sorted vector are the
  least and the greatest key is proved from its being a permutation, by counting.
* `ThreadProofs`. `Ownership`: a thread that can be joined, or is about to be
  stored by `start`, has one owner, and its id is not given to another thread.
  With `StartSound` (what `start` has done so far) a registration writes only
  the caller's own entry, which gives `ThreadFindsItself`; `MetaSound` ties
  each metaObject to a thread that runs, which gives `RegistryIsAlive`.
  `FlagSound` says why `isRunning` can be trusted: at most one thread is in an
  object's `runImpl`, the flag is set exactly while it is past the first line,
  and before that line it is owned or was detached. `GoneSound` carries this
  over the destructor. `IsRunningIsTrue` and `NotUsedWhenGone` follow, for
  objects that were not started again or swapped while a thread was in their
  `runImpl` or `isRunning` was true.
  `NamesAssumption` and `EmptyAssumption` keep objects, ids and the two null
  values apart.

Every invariant and refinement that a passing run checks is proved. Only
model-checked: liveness (`LivelyReturn`, `WaitReturns`, `AddedIsHandled`,
`OnlySleepDelays`, `StopReturns`), since the prover has neither fairness nor
ENABLED, and the four properties that are violated, whose counterexamples are the
findings. Only proved: `WaitReportsFinalState`, since it is about callers that
never reset, and the callers of the run `promise` do.

What the theorems do not say. The layers are composed by what each promises: no
theorem joins `TaskPromise`, `MPMCQueue`, `ThreadWorker` and `ThreadPool` in
one state space. Tickets are natural numbers in the proofs, as they
are in `MPMCQueue`: 64-bit counters that do not wrap.

## The plan

1. Done: promise, queue, worker, the pool, the choice of a worker, thread
   objects.
2. Done: theorems for every invariant, action property and refinement that the
   passing runs check.
3. Left: the safety parts of the liveness arguments as theorems: which steps a
   worker that was told to exit can still take, and what each of them uses up,
   for `StopReturns`; where a posted task stands while the worker is awake, for
   `AddedIsHandled`.

## Not modelled

* `pickWorkerIdByRoundRobin`, and the waiting `emplace`, `push` and `pop` of the
  queue: no caller.
* A `ThreadWorker` whose id is negative (`start` refuses it) and `init` on it:
  a pool's workers have ids from its constructor on. A pool without workers,
  which returns at once from everything.
* `mTaskCount`, `taskId`, `userData`: stored and never tested.
* The data races on plain objects (`kThreads`, `mWorkerIds`, the idle callback
  that `start` replaces): each access is a step, and what a torn one does is
  not described.
* Threads that no `Thread` started, which may use `currentThread` as well. Such
  a thread may have been given an id for which a destroyed `Thread` has left its
  entry behind (`thread.cpp:200`): it then finds that entry, as a thread in
  `runImpl` does before it has been registered.
* Functions of tasks that call `addTask` themselves: in `ThreadPool` only the
  owner adds tasks.
* The move operations of `Thread`: defaulted, but deleted by the atomic member.
* The values of priorities and names (calls to the operating system), log,
  enum names, macros and the empty `actuators.hpp`: no state of the library
  depends on them.
