----------------------------- MODULE WorkerPick -----------------------------
(***************************************************************************)
(* How a ThreadPool chooses a worker (workflows/threadpools.cpp): the      *)
(* choices by workload, idleness, queue size and at random, and the order  *)
(* in which distributeTask and onWorkerIdle try them.                      *)
(*                                                                         *)
(* Each choice looks at one worker after the other, and size() is a load   *)
(* of head_ and one of tail_, in an order the language leaves open, while  *)
(* the other threads push, pop and idle.  A size that comes out negative   *)
(* is huge where it is compared with the capacity (size_t), and negative   *)
(* again where it is sorted (int).  A worker of a request is Undefined if  *)
(* it comes from rand() % 0 or from index 0 of an empty vector.            *)
(***************************************************************************)
EXTENDS Integers, Sequences, FiniteSets

CONSTANTS
  NumWorkers,
  Capacity,     \* of each worker's queue
  MaxTickets,   \* bound of the model: the items that go through a queue
  MaxIdle,      \* mMaxIdleLoopCount + 1: with that many idle rounds, a worker
                \* goes to sleep
  Undefined,
  NoResult,
  NoLoad

Workers == 0 .. (NumWorkers - 1)

ASSUME NumWorkersAssumption == NumWorkers \in Nat \ {0}
ASSUME CapacityAssumption == Capacity \in Nat \ {0}
ASSUME BoundsAssumption == MaxTickets \in Nat /\ MaxIdle \in Nat
ASSUME ResultAssumption == Undefined \notin Int /\ NoResult \notin Int \union {Undefined}
ASSUME NoLoadAssumption == NoLoad \notin [end : {"head", "tail"}, ticket : Int]

VARIABLES
  head, tail,       \* per worker: of its queue
  mIdleLoopCount,   \* per worker
  foundEmpty,       \* the workers about to count an idle round
  request,          \* what a worker is chosen for: a priority, or "steal"
  attempts,         \* the choices left to try: a method and its idx each
  at,               \* the worker the loop is at, NumWorkers after it
  todo,             \* what it still reads of that worker
  load,             \* what size() has loaded first
  local,            \* what it has read of that worker
  key,              \* per worker that qualified: what it is sorted by
  result,
  hadRoom, wasFull, \* history: the workers whose queue had room, or was full
                    \* or popped from during size(), since the request
  moved             \* history: something changed since the request

queueVars == <<head, tail, mIdleLoopCount, foundEmpty>>
loopVars == <<at, todo, load, local, key>>
history == <<hadRoom, wasFull, moved>>
vars == <<queueVars, request, attempts, loopVars, result, history>>

Size(w) == head[w] - tail[w]
WithRoom == {w \in Workers : Size(w) < Capacity}
Abs(i) == IF i < 0 THEN -i ELSE i
Unread == [size |-> 0, idle |-> 0]

Attempts(r) ==
  CASE r = "High"   -> <<<<"Idleness", 0>>, <<"Workload", 0>>, <<"Random", 0>>>>
    [] r = "Normal" -> <<<<"Random", 0>>>>
    [] r = "Low"    -> <<<<"Workload", -1>>, <<"Random", 0>>>>
    [] r = "steal"  -> <<<<"QueueSize", -1>>>>

method == attempts[1][1]
idx == attempts[1][2]

\* What a choice reads of each worker: first what decides whether the worker
\* qualifies, then what it is sorted by, a pair in either order.
Reads ==
  [Idleness  |-> {<<"anyIdle", "idle">>},
   Workload  |-> {<<"room", "size", "idle">>, <<"room", "idle", "size">>},
   QueueSize |-> {<<"size">>},
   Random    |-> {<<"room">>}]

Init ==
  /\ head = [w \in Workers |-> 0] /\ tail = head
  /\ mIdleLoopCount = [w \in Workers |-> 0] /\ foundEmpty = {}
  /\ request = "none" /\ attempts = <<>>
  /\ at = 0 /\ todo = <<>> /\ load = NoLoad /\ local = Unread /\ key = <<>>
  /\ result = NoResult
  /\ hadRoom = {} /\ wasFull = {} /\ moved = FALSE

-----------------------------------------------------------------------------
(* The workers, posters and thieves.                                       *)

Asking == request # "none"

\* Nobody looks at the history between two requests.
Remember(torn) ==
  /\ hadRoom' = IF Asking THEN hadRoom \union {w \in Workers : head'[w] - tail'[w] < Capacity}
                          ELSE {}
  /\ wasFull' = IF Asking
                  THEN wasFull \union torn
                         \union {w \in Workers : head'[w] - tail'[w] >= Capacity}
                  ELSE {}
  /\ moved' = Asking
  /\ UNCHANGED <<request, attempts, loopVars, result>>

PushItem(w) ==
  /\ Size(w) < Capacity /\ head[w] < MaxTickets
  /\ head' = [head EXCEPT ![w] = @ + 1]
  /\ UNCHANGED <<tail, mIdleLoopCount, foundEmpty>>
  /\ Remember({})

\* A thief's pop, or the worker's own, which ends its idle rounds.
PopItem(w) ==
  /\ Size(w) > 0
  /\ tail' = [tail EXCEPT ![w] = @ + 1]
  /\ mIdleLoopCount' \in
       {mIdleLoopCount}
         \union IF w \in foundEmpty \/ mIdleLoopCount[w] = MaxIdle
                  THEN {} ELSE {[mIdleLoopCount EXCEPT ![w] = 0]}
  /\ UNCHANGED <<head, foundEmpty>>
  /\ Remember(IF load # NoLoad /\ at = w THEN {w} ELSE {})

\* The worker is awake and could pop nothing.
FindsEmpty(w) ==
  /\ Size(w) = 0 /\ mIdleLoopCount[w] < MaxIdle
  /\ foundEmpty' = foundEmpty \union {w}
  /\ UNCHANGED <<head, tail, mIdleLoopCount, request, attempts, loopVars, result, history>>

\* Its queue may have been filled since.
IdleRound(w) ==
  /\ w \in foundEmpty
  /\ foundEmpty' = foundEmpty \ {w}
  /\ mIdleLoopCount' = [mIdleLoopCount EXCEPT ![w] = @ + 1]
  /\ UNCHANGED <<head, tail>>
  /\ Remember({})

\* By a task, or to exit, and so at any time.
WakesUp(w) ==
  /\ mIdleLoopCount[w] = MaxIdle
  /\ mIdleLoopCount' = [mIdleLoopCount EXCEPT ![w] = 0]
  /\ UNCHANGED <<head, tail, foundEmpty>>
  /\ Remember({})

-----------------------------------------------------------------------------
(* The choice.                                                             *)

\* The first of tries; if its idx is too far, no worker is looked at.
Try(tries) ==
  LET m == tries[1][1]
      tooFar == m # "Random" /\ Abs(tries[1][2]) >= NumWorkers
  IN  /\ attempts' = tries
      /\ at' = IF tooFar THEN NumWorkers ELSE 0
      /\ todo' \in IF tooFar THEN {<<>>} ELSE Reads[m]
      /\ load' = NoLoad /\ local' = Unread /\ key' = <<>>

Ask(r) ==
  /\ ~Asking
  /\ request' = r
  /\ Try(Attempts(r))
  /\ hadRoom' = WithRoom /\ wasFull' = Workers \ WithRoom /\ moved' = FALSE
  /\ UNCHANGED <<queueVars, result>>

\* Slip: a full queue has room.
HasRoomWhenFull(n) == n >= 0 /\ n <= Capacity

\* Slip: a queue has room if it is empty.
HasRoomWhenEmpty(n) == n = 0

HasRoom(n) == n >= 0 /\ n < Capacity

\* The read at the head of todo gave n; a worker that does not qualify, or
\* of which nothing else is to be read, makes way for the next one.
Take(n) ==
  LET r == Head(todo)
      passes == (r = "room" => HasRoom(n)) /\ (r = "anyIdle" => n > 0)
      last == ~passes \/ Len(todo) = 1
      now == IF r \in DOMAIN local THEN [local EXCEPT ![r] = n] ELSE local
  IN  /\ key' = IF passes /\ last
                  THEN [w \in DOMAIN key \union {at} |-> IF w = at THEN now ELSE key[w]]
                  ELSE key
      /\ local' = IF last THEN Unread ELSE now
      /\ at' = IF last THEN at + 1 ELSE at
      /\ todo' \in IF ~last THEN {Tail(todo)}
                  ELSE IF at + 1 \in Workers THEN Reads[method] ELSE {<<>>}

NextRead(reads) == todo # <<>> /\ Head(todo) \in reads

ReadIdle ==
  /\ NextRead({"anyIdle", "idle"})
  /\ Take(mIdleLoopCount[at])
  /\ UNCHANGED <<queueVars, request, attempts, load, result, history>>

LoadFirst ==
  /\ load = NoLoad
  /\ NextRead({"room", "size"})
  /\ load' \in {[end |-> "head", ticket |-> head[at]], [end |-> "tail", ticket |-> tail[at]]}
  /\ UNCHANGED <<queueVars, request, attempts, at, todo, local, key, result, history>>

\* What size() returns, as a signed number.
Difference ==
  LET n == IF load.end = "head" THEN load.ticket - tail[at] ELSE head[at] - load.ticket
  IN  IF n < 0 THEN n - 1 ELSE n

\* Slip: the next size() starts from the old ticket.
LoadSecondKeeps ==
  /\ load # NoLoad
  /\ Take(Difference)
  /\ UNCHANGED <<queueVars, request, attempts, load, result, history>>

LoadSecond ==
  /\ load # NoLoad
  /\ Take(Difference)
  /\ load' = NoLoad
  /\ UNCHANGED <<queueVars, request, attempts, result, history>>

\* Slip: the larger key goes first.
After(k, l) ==
  IF k.size # l.size THEN k.size > l.size ELSE k.idle > l.idle

\* The comparison of the sort; keys that are not read are all 0.
Before(k, l) ==
  IF k.size # l.size THEN k.size < l.size ELSE k.idle < l.idle

\* What std::sort may leave: equal keys come in any order.
Sorted ==
  LET n == Cardinality(DOMAIN key)
  IN  {s \in [1 .. n -> DOMAIN key] :
         \A i, j \in 1 .. n : i < j => s[i] # s[j] /\ ~Before(key[s[j]], key[s[i]])}

\* Nothing stands at idx in a vector of n: the two tests differ.
NothingAt(n) == IF method = "Workload" THEN Abs(idx) > n ELSE Abs(idx) >= n

Choices ==
  LET n == Cardinality(DOMAIN key)
  IN  IF method # "Random" /\ NothingAt(n) THEN {-1}
      ELSE IF n = 0 THEN {Undefined}
      ELSE IF method = "Random" THEN DOMAIN key
      ELSE {s[IF idx >= 0 THEN idx + 1 ELSE n + idx + 1] : s \in Sorted}

Choose ==
  /\ Asking /\ result = NoResult
  /\ at = NumWorkers
  /\ \E c \in Choices :
       IF c = -1 /\ Len(attempts) > 1
         THEN Try(Tail(attempts)) /\ UNCHANGED result
         ELSE result' = c /\ UNCHANGED <<attempts, loopVars>>
  /\ UNCHANGED <<queueVars, request, history>>

Return ==
  /\ result # NoResult
  /\ result' = NoResult
  /\ request' = "none" /\ attempts' = <<>>
  /\ at' = 0 /\ todo' = <<>> /\ load' = NoLoad /\ local' = Unread /\ key' = <<>>
  /\ hadRoom' = {} /\ wasFull' = {} /\ moved' = FALSE
  /\ UNCHANGED queueVars

Next ==
  \/ \E w \in Workers :
       PushItem(w) \/ PopItem(w) \/ FindsEmpty(w) \/ IdleRound(w) \/ WakesUp(w)
  \/ \E r \in {"High", "Normal", "Low", "steal"} : Ask(r)
  \/ ReadIdle \/ LoadFirst \/ LoadSecond \/ Choose \/ Return

Spec == Init /\ [][Next]_vars

-----------------------------------------------------------------------------
(* Properties.                                                             *)

TypeOK ==
  /\ head \in [Workers -> 0 .. MaxTickets] /\ tail \in [Workers -> 0 .. MaxTickets]
  /\ \A w \in Workers : Size(w) \in 0 .. Capacity
  /\ mIdleLoopCount \in [Workers -> 0 .. MaxIdle]
  /\ foundEmpty \subseteq {w \in Workers : mIdleLoopCount[w] < MaxIdle}
  /\ request \in {"none", "High", "Normal", "Low", "steal"}
  /\ at \in 0 .. NumWorkers
  /\ todo \in Seq({"anyIdle", "room", "size", "idle"})
  /\ load # NoLoad => at \in Workers /\ Head(todo) \in {"room", "size"}
  /\ load # NoLoad => load.end \in {"head", "tail"} /\ load.ticket \in Nat
  /\ local.size \in Int /\ local.idle \in 0 .. MaxIdle
  /\ DOMAIN key \subseteq 0 .. (at - 1)
  /\ result \in Workers \union {-1, Undefined, NoResult}
  /\ hadRoom \subseteq Workers /\ wasFull \subseteq Workers /\ moved \in BOOLEAN

\* A worker that is chosen because its queue has room did have room at some
\* instant of the choice, although size() may have put together a head and
\* a tail that never belonged together.
ChosenHadRoom ==
  result \in Workers /\ method \in {"Workload", "Random"} => result \in hadRoom

\* The choice is undefined only if each queue was full at some instant of it,
\* or was popped from while its size was read: they need not have been full
\* together.
UndefinedOnlyIfFull == result = Undefined => wasFull = Workers

\* While nothing moves, the choice is right: any worker with room for a
\* normal task, the most loaded one with room for a low one, an idle worker
\* or, if none is, the least loaded one with room for a high one, and the
\* longest queue for a thief.
Lighter(u, w) ==
  \/ Size(u) < Size(w)
  \/ Size(u) = Size(w) /\ mIdleLoopCount[u] < mIdleLoopCount[w]

Idle == {w \in Workers : mIdleLoopCount[w] > 0}

Best(S, Worse(_, _)) ==
  IF S = {} THEN {Undefined} ELSE {w \in S : \A u \in S : ~Worse(w, u)}

Expected(r) ==
  CASE r = "Normal" -> Best(WithRoom, LAMBDA w, u : FALSE)
    [] r = "Low"    -> Best(WithRoom, LAMBDA w, u : NumWorkers > 1 /\ Lighter(w, u))
    [] r = "High"   -> IF Idle # {}
                         THEN Best(Idle, LAMBDA w, u : FALSE)
                         ELSE Best(WithRoom, LAMBDA w, u : Lighter(u, w))
    [] r = "steal"  -> IF NumWorkers = 1
                         THEN {-1} ELSE Best(Workers, LAMBDA w, u : Size(w) < Size(u))

RightAtRest == result # NoResult /\ ~moved => result \in Expected(request)

\* What threadpools.hpp says of pickWorkerIdByIdleness, of which a high task
\* asks for idx 0: no worker has been idle for longer than the chosen one.
HighIsMostIdle ==
  result \in Workers /\ ~moved /\ request = "High" /\ method = "Idleness"
    => \A w \in Workers : mIdleLoopCount[w] <= mIdleLoopCount[result]

=============================================================================
