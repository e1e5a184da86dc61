------------------------------- MODULE Thread -------------------------------
(***************************************************************************)
(* Thread objects (workflows/thread.cpp): start() and the first steps of   *)
(* the thread it creates, join, detach, swap, the destructor, and the map  *)
(* kThreads in which a thread finds the object it belongs to.              *)
(*                                                                         *)
(* An operating system thread is known by its id; an id is used again when *)
(* its thread has been joined, or has ended detached.  Each object has one *)
(* user, who makes one call after the other; the users of different        *)
(* objects, and the threads, run side by side.  An access to kThreads is   *)
(* one step, although nothing protects the map.                            *)
(***************************************************************************)
EXTENDS FiniteSets

CONSTANTS
  Objects,   \* Thread objects
  Ids,       \* of threads; also names the thread's thread_local metaObject
  Null,      \* no std::thread, no id, no entry in kThreads
  Empty      \* a std::thread that was joined or detached

ASSUME NamesAssumption == Objects \intersect Ids = {} /\ {Null, Empty} \intersect (Objects \union Ids) = {}
ASSUME EmptyAssumption == Null # Empty

VARIABLES
  mThreadMetaData,  \* per object: the id of its std::thread, Empty or Null
  mId,              \* per object
  mIsRunning,       \* per object
  kThreads,         \* per id: the object registered
  starting,         \* per object: where start() is, and the id it got
  destroyed,        \* the objects that are gone
  pc,               \* per id: where its thread is
  body,             \* per id: the object whose runImpl it runs
  detached,         \* the threads nobody will join
  hasMeta,          \* the threads whose metaObject is constructed
  applied,          \* per id: what runImpl has set of the thread
  misused           \* history: the objects that were started again or
                    \* swapped while a thread was in their runImpl

objectVars == <<mThreadMetaData, mId, mIsRunning, destroyed>>
threadVars == <<pc, body, detached, hasMeta, applied>>
vars == <<objectVars, kThreads, starting, threadVars, misused>>

NotStarting == [at |-> "none", id |-> Null]

Init ==
  /\ mThreadMetaData = [o \in Objects |-> Null]
  /\ mId = [o \in Objects |-> Null]
  /\ mIsRunning = [o \in Objects |-> FALSE]
  /\ kThreads = [i \in Ids |-> Null]
  /\ starting = [o \in Objects |-> NotStarting]
  /\ destroyed = {}
  /\ pc = [i \in Ids |-> "free"]
  /\ body = [i \in Ids |-> Null]
  /\ detached = {} /\ hasMeta = {}
  /\ applied = [i \in Ids |-> {}]
  /\ misused = {}

\* The threads that execute runImpl of o.
InRunImpl(o) ==
  {i \in Ids : body[i] = o /\ pc[i] \in {"begin", "setName", "setPriority", "run"}}

IsJoinable(o) == mThreadMetaData[o] \in Ids

\* Slip: a thread that has not begun does not count.
IsRunningByFlag(o) == mIsRunning[o]

IsRunning(o) == mIsRunning[o] \/ IsJoinable(o)

\* The user of o is free to make a call.
Free(o) == o \notin destroyed /\ starting[o] = NotStarting

Unregister(id) == kThreads' = IF id \in Ids THEN [kThreads EXCEPT ![id] = Null] ELSE kThreads

-----------------------------------------------------------------------------
(* start(), shared access by shared access; a thread that can be joined is *)
(* not started again (the assertion, or std::terminate without it).        *)

StartGoto(o, l) == starting' = [starting EXCEPT ![o].at = l]

Start(o) ==
  /\ Free(o) /\ ~IsJoinable(o)
  /\ Unregister(IF mThreadMetaData[o] = Null THEN Null ELSE mId[o])
  /\ StartGoto(o, "create")
  /\ misused' = IF InRunImpl(o) = {} THEN misused ELSE misused \union {o}
  /\ UNCHANGED <<objectVars, threadVars>>

Create(o, i) ==
  /\ starting[o].at = "create"
  /\ pc[i] = "free"
  /\ pc' = [pc EXCEPT ![i] = "begin"]
  /\ body' = [body EXCEPT ![i] = o]
  /\ applied' = [applied EXCEPT ![i] = {}]
  /\ starting' = [starting EXCEPT ![o] = [at |-> "assign", id |-> i]]
  /\ UNCHANGED <<objectVars, kThreads, detached, hasMeta, misused>>

Assign(o) ==
  /\ starting[o].at = "assign"
  /\ mThreadMetaData' = [mThreadMetaData EXCEPT ![o] = starting[o].id]
  /\ StartGoto(o, "setId")
  /\ UNCHANGED <<mId, mIsRunning, destroyed, kThreads, threadVars, misused>>

\* Slip: the id stays the one of an earlier thread.
SetIdOnce(o) ==
  /\ starting[o].at = "setId"
  /\ mId' = [mId EXCEPT ![o] = IF @ = Null THEN mThreadMetaData[o] ELSE @]
  /\ StartGoto(o, "register")
  /\ UNCHANGED <<mThreadMetaData, mIsRunning, destroyed, kThreads, threadVars, misused>>

SetId(o) ==
  /\ starting[o].at = "setId"
  /\ mId' = [mId EXCEPT ![o] = mThreadMetaData[o]]
  /\ StartGoto(o, "register")
  /\ UNCHANGED <<mThreadMetaData, mIsRunning, destroyed, kThreads, threadVars, misused>>

Register(o) ==
  /\ starting[o].at = "register"
  /\ kThreads' = [kThreads EXCEPT ![mId[o]] = o]
  /\ starting' = [starting EXCEPT ![o] = NotStarting]
  /\ UNCHANGED <<objectVars, threadVars, misused>>

-----------------------------------------------------------------------------
(* The other calls.                                                        *)

\* Slip: the std::thread is not emptied.
JoinOnly(o) ==
  /\ Free(o) /\ IsJoinable(o)
  /\ pc[mThreadMetaData[o]] = "ended"
  /\ pc' = [pc EXCEPT ![mThreadMetaData[o]] = "free"]
  /\ UNCHANGED <<objectVars, kThreads, starting, body, detached, hasMeta, applied, misused>>

Join(o) ==
  /\ Free(o) /\ IsJoinable(o)
  /\ pc[mThreadMetaData[o]] = "ended"
  /\ pc' = [pc EXCEPT ![mThreadMetaData[o]] = "free"]
  /\ mThreadMetaData' = [mThreadMetaData EXCEPT ![o] = Empty]
  /\ UNCHANGED <<mId, mIsRunning, destroyed, kThreads, starting, body, detached, hasMeta,
                 applied, misused>>

Detach(o) ==
  LET i == mThreadMetaData[o]
  IN  /\ Free(o) /\ IsJoinable(o)
      /\ mThreadMetaData' = [mThreadMetaData EXCEPT ![o] = Empty]
      /\ IF pc[i] = "ended"
           THEN pc' = [pc EXCEPT ![i] = "free"] /\ UNCHANGED detached
           ELSE detached' = detached \union {i} /\ UNCHANGED pc
      /\ UNCHANGED <<mId, mIsRunning, destroyed, kThreads, starting, body, hasMeta, applied,
                     misused>>

Exchange(f, o, p) == [f EXCEPT ![o] = f[p], ![p] = f[o]]

\* mIsRunning goes one way only.
Swap(o, p) ==
  /\ o # p /\ Free(o) /\ Free(p)
  /\ mThreadMetaData' = Exchange(mThreadMetaData, o, p)
  /\ mId' = Exchange(mId, o, p)
  /\ mIsRunning' = [mIsRunning EXCEPT ![o] = mIsRunning[p]]
  /\ misused' = IF \E q \in {o, p} : InRunImpl(q) # {} \/ IsRunning(q)
                  THEN misused \union {o, p} ELSE misused
  /\ UNCHANGED <<destroyed, kThreads, starting, threadVars>>

\* ~Thread, by a user who has made sure that isRunning() is false.  The id
\* of a std::thread that was joined is no thread's: its entry stays.
Destroy(o) ==
  /\ Free(o) /\ ~IsRunning(o)
  /\ Unregister(IF mThreadMetaData[o] = Null THEN mId[o] ELSE mThreadMetaData[o])
  /\ destroyed' = destroyed \union {o}
  /\ UNCHANGED <<mThreadMetaData, mId, mIsRunning, starting, threadVars, misused>>

-----------------------------------------------------------------------------
(* The thread: runImpl, and the end of its thread_local metaObject.        *)

Goto(i, l) == pc' = [pc EXCEPT ![i] = l]

SetsRunning(i, from, value, to) ==
  /\ pc[i] = from
  /\ mIsRunning' = [mIsRunning EXCEPT ![body[i]] = value]
  /\ Goto(i, to)
  /\ UNCHANGED <<mThreadMetaData, mId, destroyed, kThreads, starting, body, detached, hasMeta,
                 applied, misused>>

Begin(i) == SetsRunning(i, "begin", TRUE, "setName")

\* Slip: the flag stays set.
LeaveRunning(i) == SetsRunning(i, "run", TRUE, "exit")

Leave(i) == SetsRunning(i, "run", FALSE, "exit")

\* What is set is set of the std::thread the object has now.  Without one the
\* name is set through a null pointer, which is undefined, and the priority is
\* not set; the handle of an empty one is no thread's.
Applies(i, what, l) ==
  /\ pc[i] = what
  /\ LET h == mThreadMetaData[body[i]]
     IN  applied' = IF h \in Ids THEN [applied EXCEPT ![h] = @ \union {what}] ELSE applied
  /\ Goto(i, l)
  /\ UNCHANGED <<objectVars, kThreads, starting, body, detached, hasMeta, misused>>

SetName(i) == Applies(i, "setName", "setPriority")
SetPriority(i) == Applies(i, "setPriority", "run")

\* The function calls makeMetaObjectForCurrentThread, or currentThread() when
\* kThreads has no entry for it.
MakeMetaObject(i) ==
  /\ pc[i] = "run"
  /\ hasMeta' = hasMeta \union {i}
  /\ kThreads' = [kThreads EXCEPT ![i] = i]
  /\ UNCHANGED <<objectVars, starting, pc, body, detached, applied, misused>>

\* Slip: the metaObject leaves its entry behind.
EndSilently(i) ==
  /\ pc[i] = "exit"
  /\ Goto(i, IF i \in detached THEN "free" ELSE "ended")
  /\ hasMeta' = hasMeta \ {i} /\ detached' = detached \ {i}
  /\ UNCHANGED <<objectVars, kThreads, starting, body, applied, misused>>

\* The metaObject's destructor erases the entry of its id, whose it is.
End(i) ==
  /\ pc[i] = "exit"
  /\ Unregister(IF i \in hasMeta THEN i ELSE Null)
  /\ Goto(i, IF i \in detached THEN "free" ELSE "ended")
  /\ hasMeta' = hasMeta \ {i} /\ detached' = detached \ {i}
  /\ UNCHANGED <<objectVars, starting, body, applied, misused>>

-----------------------------------------------------------------------------
Next ==
  \/ \E o \in Objects : \/ Start(o) \/ Assign(o) \/ SetId(o) \/ Register(o)
                        \/ Join(o) \/ Detach(o) \/ Destroy(o)
                        \/ \E i \in Ids : Create(o, i)
                        \/ \E p \in Objects : Swap(o, p)
  \/ \E i \in Ids : \/ Begin(i) \/ SetName(i) \/ SetPriority(i) \/ MakeMetaObject(i)
                    \/ Leave(i) \/ End(i)

Spec == Init /\ [][Next]_vars

-----------------------------------------------------------------------------
(* Properties.                                                             *)

TypeOK ==
  /\ mThreadMetaData \in [Objects -> Ids \union {Null, Empty}]
  /\ mId \in [Objects -> Ids \union {Null}]
  /\ mIsRunning \in [Objects -> BOOLEAN]
  /\ kThreads \in [Ids -> Objects \union Ids \union {Null}]
  /\ starting \in [Objects -> [at : {"none", "create", "assign", "setId", "register"},
                               id : Ids \union {Null}]]
  /\ pc \in [Ids -> {"free", "begin", "setName", "setPriority", "run", "exit", "ended"}]
  /\ body \in [Ids -> Objects \union {Null}]
  /\ destroyed \subseteq Objects /\ misused \subseteq Objects
  /\ detached \subseteq Ids /\ hasMeta \subseteq Ids
  /\ applied \in [Ids -> SUBSET {"setName", "setPriority"}]
  /\ \A o \in Objects : IsJoinable(o) => pc[mThreadMetaData[o]] # "free"

\* isRunning(), by which ThreadWorker::start and ~ThreadPool decide, can be
\* relied on both ways.  It is true while a thread is in the object's runImpl,
\* unless that thread was detached before it had begun.  And it is true no
\* longer than that or, if the thread has returned, until it is joined or
\* detached.
IsRunningIsTrue ==
  \A o \in Objects \ misused :
    starting[o].at = "none" =>
      /\ \A i \in InRunImpl(o) : IsRunning(o) \/ (i \in detached /\ pc[i] = "begin")
      /\ IsRunning(o) => IsJoinable(o) \/ InRunImpl(o) # {}

\* Once start() has returned, currentThread() in the object's thread finds
\* the object, or a metaObject of the thread, however stale the entries are
\* that other objects have left in kThreads.
FindsItself ==
  \A o \in Objects : \A i \in InRunImpl(o) :
    starting[o].id # i => kThreads[i] \in {o, i, Null}

\* No entry of kThreads outlives the metaObject it points to.
NoDeadMetaObject == \A i \in Ids : kThreads[i] = i => i \in hasMeta /\ pc[i] \in {"run", "exit"}

\* A thread does not use an object that is gone, unless it was detached.
NotUsedWhenGone ==
  \A o \in destroyed \ misused : InRunImpl(o) \subseteq detached

\* What the unit test expects of setName() before start(): the thread has
\* the name by the time the function runs.
NamedWhenRun == \A i \in Ids : pc[i] = "run" => "setName" \in applied[i]

=============================================================================
