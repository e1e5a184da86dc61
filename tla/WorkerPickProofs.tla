-------------------------- MODULE WorkerPickProofs --------------------------
(***************************************************************************)
(* The choice of a worker, proved for any number of workers, any capacity  *)
(* and any number of pushes, pops and idle rounds in between: types, what  *)
(* a choice may rely on while the queues change, and that it is the right  *)
(* one while they do not.                                                  *)
(***************************************************************************)
EXTENDS WorkerPick, FiniteSetTheorems, TLAPS

-----------------------------------------------------------------------------
(* The inductive invariant.                                                *)

\* What is left to try of a request, and to read of a worker.
LeftToTry(r) ==
  CASE r = "none"   -> {<<>>}
    [] r = "High"   -> {<<<<"Idleness", 0>>, <<"Workload", 0>>, <<"Random", 0>>>>,
                        <<<<"Workload", 0>>, <<"Random", 0>>>>}
    [] r = "Normal" -> {<<<<"Random", 0>>>>}
    [] r = "Low"    -> {<<<<"Workload", -1>>, <<"Random", 0>>>>, <<<<"Random", 0>>>>}
    [] r = "steal"  -> {<<<<"QueueSize", -1>>>>}

LeftToRead(m) ==
  CASE m = "Idleness"  -> {<<"anyIdle", "idle">>, <<"idle">>}
    [] m = "Workload"  -> {<<"room", "size", "idle">>, <<"room", "idle", "size">>,
                           <<"size", "idle">>, <<"idle", "size">>, <<"size">>, <<"idle">>}
    [] m = "QueueSize" -> {<<"size">>}
    [] m = "Random"    -> {<<"room">>}

QueuesOK ==
  /\ head \in [Workers -> 0 .. MaxTickets] /\ tail \in [Workers -> 0 .. MaxTickets]
  /\ \A w \in Workers : Size(w) \in 0 .. Capacity
  /\ mIdleLoopCount \in [Workers -> 0 .. MaxIdle]
  /\ foundEmpty \subseteq {w \in Workers : mIdleLoopCount[w] < MaxIdle}

\* The state of a choice: which of its loops it is in, and where.
LoopOK ==
  /\ request \in {"none", "High", "Normal", "Low", "steal"}
  /\ attempts \in LeftToTry(request)
  /\ at \in 0 .. NumWorkers
  /\ at = NumWorkers => todo = <<>>
  /\ Asking /\ at # NumWorkers => todo \in LeftToRead(method)
  /\ load # NoLoad =>
       /\ load \in [end : {"head", "tail"}, ticket : 0 .. MaxTickets]
       /\ Asking /\ at # NumWorkers /\ Head(todo) \in {"room", "size"}
  /\ local \in [size : Int, idle : 0 .. MaxIdle]
  /\ key \in [DOMAIN key -> [size : Int, idle : 0 .. MaxIdle]]
  /\ DOMAIN key \subseteq 0 .. (at - 1)
  /\ result \in Workers \union {-1, Undefined, NoResult}
  /\ result # NoResult => Asking /\ at = NumWorkers
  /\ ~Asking => at = 0 /\ todo = <<>>

HistoryOK ==
  /\ hadRoom \subseteq Workers /\ wasFull \subseteq Workers /\ moved \in BOOLEAN
  /\ ~Asking => ~moved
  /\ Asking => WithRoom \subseteq hadRoom /\ (Workers \ WithRoom) \subseteq wasFull

Control == QueuesOK /\ LoopOK /\ HistoryOK

\* What the first load of a size tells about the history, whatever the second
\* one will find.
Torn ==
  load # NoLoad =>
    /\ load.end = "head" =>
         /\ load.ticket - tail[at] < Capacity => at \in hadRoom
         /\ load.ticket - tail[at] \notin 0 .. (Capacity - 1) => at \in wasFull
    /\ load.end = "tail" =>
         /\ load.ticket <= tail[at]
         /\ load.ticket # tail[at] => at \in wasFull

\* The methods that look for room, and the tries in which a worker without
\* room is the only reason to find none.
SeeksRoom == Asking /\ method \in {"Workload", "Random"}
NeedsRoom == Asking /\ <<method, idx>> \in {<<"Workload", 0>>, <<"Random", 0>>}

Seen ==
  /\ SeeksRoom => DOMAIN key \subseteq hadRoom
  /\ SeeksRoom /\ at # NumWorkers /\ Head(todo) # "room" => at \in hadRoom
  /\ SeeksRoom /\ result \in Workers => result \in hadRoom
  /\ NeedsRoom => \A w \in Workers : w < at /\ w \notin DOMAIN key => w \in wasFull
  /\ result = Undefined => wasFull = Workers

\* While nothing moves: the keys are those of the workers that qualify.
Qualifies(w) ==
  CASE method = "Idleness"  -> w \in Idle
    [] method = "QueueSize" -> TRUE
    [] OTHER                -> w \in WithRoom

KeyOf(w) ==
  CASE method = "Idleness"  -> [size |-> 0, idle |-> mIdleLoopCount[w]]
    [] method = "Workload"  -> [size |-> Size(w), idle |-> mIdleLoopCount[w]]
    [] method = "QueueSize" -> [size |-> Size(w), idle |-> 0]
    [] OTHER                -> Unread

TooFar == method # "Random" /\ Abs(idx) >= NumWorkers

\* What has been read of the worker the loop is at.
ReadSoFar ==
  /\ todo \notin Reads[method] => Qualifies(at)
  /\ local =
       CASE method = "Workload" /\ todo = <<"idle">> -> [size |-> Size(at), idle |-> 0]
         [] method = "Workload" /\ todo = <<"size">> -> [size |-> 0, idle |-> mIdleLoopCount[at]]
         [] OTHER -> Unread
  /\ load # NoLoad => load.ticket = IF load.end = "head" THEN head[at] ELSE tail[at]

AtRest ==
  Asking /\ ~moved =>
    /\ DOMAIN key = IF TooFar THEN {} ELSE {w \in Workers : w < at /\ Qualifies(w)}
    /\ \A w \in DOMAIN key : key[w] = KeyOf(w)
    /\ at # NumWorkers => ~TooFar /\ ReadSoFar
    /\ request = "High" /\ method = "Workload" => Idle = {}
    /\ request = "Low" /\ method = "Random" => NumWorkers = 1 \/ WithRoom = {}
    /\ result # NoResult => result \in Expected(request)

IInv == Control /\ Torn /\ Seen /\ AtRest

-----------------------------------------------------------------------------
(* Tries and reads.                                                        *)

Methods == {"Idleness", "Workload", "QueueSize", "Random"}

Requests == {"High", "Normal", "Low", "steal"}

\* Which choice is being tried for a request, and what comes after it.
LEMMA Stages ==
  ASSUME NEW r \in Requests, NEW a \in LeftToTry(r)
  PROVE  \/ /\ r = "High" /\ a[1][1] = "Idleness" /\ a[1][2] = 0
            /\ Len(a) > 1 /\ Tail(a) = <<<<"Workload", 0>>, <<"Random", 0>>>>
         \/ r = "High" /\ a[1][1] = "Workload" /\ a[1][2] = 0
         \/ r = "Normal" /\ a[1][1] = "Random" /\ a[1][2] = 0
         \/ /\ r = "Low" /\ a[1][1] = "Workload" /\ a[1][2] = -1
            /\ Len(a) > 1 /\ Tail(a) = <<<<"Random", 0>>>>
         \/ r = "Low" /\ a[1][1] = "Random" /\ a[1][2] = 0
         \/ r = "steal" /\ a[1][1] = "QueueSize" /\ a[1][2] = -1 /\ ~(Len(a) > 1)
<1>1. CASE r = "High"
  <2>1. CASE a = <<<<"Idleness", 0>>, <<"Workload", 0>>, <<"Random", 0>>>>
    BY <1>1, <2>1
  <2>2. CASE a = <<<<"Workload", 0>>, <<"Random", 0>>>>
    BY <1>1, <2>2
  <2> QED
    BY <1>1, <2>1, <2>2 DEF LeftToTry
<1>2. CASE r = "Normal"
  BY <1>2 DEF LeftToTry
<1>3. CASE r = "Low"
  <2>1. CASE a = <<<<"Workload", -1>>, <<"Random", 0>>>>
    BY <1>3, <2>1
  <2>2. CASE a = <<<<"Random", 0>>>>
    BY <1>3, <2>2
  <2> QED
    BY <1>3, <2>1, <2>2 DEF LeftToTry
<1>4. CASE r = "steal"
  <2>1. a = <<<<"QueueSize", -1>>>>
    BY <1>4 DEF LeftToTry
  <2>2. a[1][1] = "QueueSize" /\ a[1][2] = -1 /\ ~(Len(a) > 1)
    BY <2>1
  <2> QED
    BY <1>4, <2>2
<1> QED
  BY <1>1, <1>2, <1>3, <1>4 DEF Requests

\* The sequences of reads: the rest of one is one again.
LEMMA Shapes ==
  \A m \in Methods :
    /\ Reads[m] \subseteq LeftToRead(m)
    /\ \A s \in LeftToRead(m) :
         /\ s # <<>>
         /\ s \in Seq({"anyIdle", "room", "size", "idle"})
         /\ Head(s) \in {"anyIdle", "room", "size", "idle"}
         /\ Len(s) # 1 => Tail(s) \in LeftToRead(m)
<1> DEFINE P(s, m) ==
      /\ s # <<>>
      /\ s \in Seq({"anyIdle", "room", "size", "idle"})
      /\ Head(s) \in {"anyIdle", "room", "size", "idle"}
      /\ Len(s) # 1 => Tail(s) \in LeftToRead(m)
<1> DEFINE Names == {"anyIdle", "room", "size", "idle"}
<1>0. /\ <<"idle">> \in LeftToRead("Idleness")
      /\ LeftToRead("Idleness") = {<<"anyIdle", "idle">>, <<"idle">>}
      /\ \A s \in {<<"size", "idle">>, <<"idle", "size">>, <<"size">>, <<"idle">>} :
           s \in LeftToRead("Workload")
      /\ LeftToRead("Workload") =
           {<<"room", "size", "idle">>, <<"room", "idle", "size">>,
            <<"size", "idle">>, <<"idle", "size">>, <<"size">>, <<"idle">>}
      /\ LeftToRead("QueueSize") = {<<"size">>} /\ LeftToRead("Random") = {<<"room">>}
  BY DEF LeftToRead
<1>1. ASSUME NEW a \in Names
      PROVE  <<a>> # <<>> /\ <<a>> \in Seq(Names) /\ Head(<<a>>) = a /\ Len(<<a>>) = 1
  OBVIOUS
<1>2. ASSUME NEW a \in Names, NEW b \in Names
      PROVE  /\ <<a, b>> # <<>> /\ <<a, b>> \in Seq(Names)
             /\ Head(<<a, b>>) = a /\ Tail(<<a, b>>) = <<b>>
  OBVIOUS
<1>3. ASSUME NEW a \in Names, NEW b \in Names, NEW c \in Names
      PROVE  /\ <<a, b, c>> # <<>> /\ <<a, b, c>> \in Seq(Names)
             /\ Head(<<a, b, c>>) = a /\ Tail(<<a, b, c>>) = <<b, c>>
  OBVIOUS
<1>4. \A m \in Methods : \A s \in LeftToRead(m) : P(s, m)
  <2>1. P(<<"anyIdle", "idle">>, "Idleness") /\ P(<<"idle">>, "Idleness")
    BY <1>0, <1>1, <1>2
  <2>2. P(<<"room", "size", "idle">>, "Workload") /\ P(<<"room", "idle", "size">>, "Workload")
    BY <1>0, <1>3
  <2>3. P(<<"size", "idle">>, "Workload") /\ P(<<"idle", "size">>, "Workload")
    BY <1>0, <1>2
  <2>4. P(<<"size">>, "Workload") /\ P(<<"idle">>, "Workload")
    BY <1>1
  <2>5. P(<<"size">>, "QueueSize") /\ P(<<"room">>, "Random")
    BY <1>1
  <2> HIDE DEF P
  <2> QED
    BY <1>0, <2>1, <2>2, <2>3, <2>4, <2>5 DEF Methods
<1>5. \A m \in Methods : Reads[m] \subseteq LeftToRead(m)
  BY DEF Methods, Reads, LeftToRead
<1> QED
  BY <1>4, <1>5

\* What is read first decides whether the worker qualifies.
LEMMA FirstReads ==
  /\ \A s \in Reads["Workload"] \union Reads["Random"] : Head(s) = "room"
  /\ <<"idle">> \notin Reads["Workload"] /\ <<"size">> \notin Reads["Workload"]
  /\ \A m \in Methods : Reads[m] # {}
<1>1. /\ Reads["Workload"] = {<<"room", "size", "idle">>, <<"room", "idle", "size">>}
      /\ Reads["Random"] = {<<"room">>}
  BY DEF Reads
<1>4. \A m \in Methods : Reads[m] # {}
  <2>1. Reads["Idleness"] # {} /\ Reads["QueueSize"] # {}
    BY DEF Reads
  <2> QED
    BY <1>1, <2>1 DEF Methods
<1>2. \A a, b, c : Head(<<a, b, c>>) = a /\ <<a, b, c>> # <<b>> /\ <<a, b, c>> # <<c>>
  OBVIOUS
<1>3. Head(<<"room">>) = "room" /\ Head(<<"idle">>) = "idle" /\ Head(<<"size">>) = "size"
  OBVIOUS
<1> QED
  BY <1>1, <1>2, <1>3, <1>4

\* What is left to read of a worker tells what has been read.
LEMMA Stations ==
  ASSUME NEW m \in Methods, NEW s \in LeftToRead(m)
  PROVE  \/ /\ m = "Workload" /\ s \in Reads[m] /\ Head(s) = "room" /\ Len(s) # 1
            /\ {s, Tail(s)} \intersect {<<"idle">>, <<"size">>} = {}
         \/ /\ m = "Workload" /\ s \notin Reads[m] /\ Head(s) = "size" /\ Len(s) # 1
            /\ s \notin {<<"idle">>, <<"size">>} /\ Tail(s) = <<"idle">>
         \/ /\ m = "Workload" /\ s \notin Reads[m] /\ Head(s) = "idle" /\ Len(s) # 1
            /\ s \notin {<<"idle">>, <<"size">>} /\ Tail(s) = <<"size">>
         \/ m = "Workload" /\ s \notin Reads[m] /\ Head(s) = "size" /\ s = <<"size">>
         \/ m = "Workload" /\ s \notin Reads[m] /\ Head(s) = "idle" /\ s = <<"idle">>
         \/ m = "Idleness" /\ s \in Reads[m] /\ Head(s) = "anyIdle" /\ Len(s) # 1
         \/ m = "Idleness" /\ s \notin Reads[m] /\ Head(s) = "idle" /\ Len(s) = 1
         \/ m = "QueueSize" /\ s \in Reads[m] /\ Head(s) = "size" /\ Len(s) = 1
         \/ m = "Random" /\ s \in Reads[m] /\ Head(s) = "room" /\ Len(s) = 1
<1>1. /\ Reads["Idleness"] = {<<"anyIdle", "idle">>}
      /\ Reads["Workload"] = {<<"room", "size", "idle">>, <<"room", "idle", "size">>}
      /\ Reads["QueueSize"] = {<<"size">>} /\ Reads["Random"] = {<<"room">>}
  BY DEF Reads
<1>2. /\ \A a, b : <<a>> = <<b>> => a = b
      /\ \A a, b, c : <<a>> # <<b, c>>
      /\ \A a, b, c, d : <<a>> # <<b, c, d>>
      /\ \A a, b, c, d, e : <<a, b>> # <<c, d, e>>
  OBVIOUS
<1>3. /\ \A a : Head(<<a>>) = a /\ Len(<<a>>) = 1
      /\ \A a, b : Head(<<a, b>>) = a /\ Len(<<a, b>>) = 2 /\ Tail(<<a, b>>) = <<b>>
      /\ \A a, b, c : Head(<<a, b, c>>) = a /\ Len(<<a, b, c>>) = 3 /\ Tail(<<a, b, c>>) = <<b, c>>
  OBVIOUS
<1>4. CASE m = "Idleness"
  BY <1>1, <1>2, <1>3, <1>4 DEF LeftToRead
<1>5. CASE m = "Workload"
  <2>1. CASE s \in Reads[m]
    BY <1>1, <1>2, <1>3, <1>5, <2>1
  <2>2. CASE s \in {<<"size", "idle">>, <<"idle", "size">>}
    <3>1. s \notin Reads[m] /\ s \notin {<<"idle">>, <<"size">>}
      BY <1>1, <1>2, <1>5, <2>2
    <3>2. /\ Head(<<"size", "idle">>) = "size" /\ Len(<<"size", "idle">>) # 1
          /\ Tail(<<"size", "idle">>) = <<"idle">>
          /\ Head(<<"idle", "size">>) = "idle" /\ Len(<<"idle", "size">>) # 1
          /\ Tail(<<"idle", "size">>) = <<"size">>
      BY <1>3
    <3> QED
      BY <1>5, <2>2, <3>1, <3>2
  <2>3. CASE s \in {<<"size">>, <<"idle">>}
    BY <1>1, <1>2, <1>3, <1>5, <2>3
  <2> QED
    BY <1>1, <1>5, <2>1, <2>2, <2>3 DEF LeftToRead
<1>6. CASE m \in {"QueueSize", "Random"}
  BY <1>1, <1>3, <1>6 DEF LeftToRead
<1> QED
  BY <1>4, <1>5, <1>6 DEF Methods

\* Where the loop is while something is left to read.
LEMMA Reading ==
  ASSUME LoopOK, todo # <<>>
  PROVE  /\ Asking /\ at \in Workers /\ at # NumWorkers /\ method \in Methods
         /\ todo \in LeftToRead(method) /\ result = NoResult
<1>1. Asking /\ at # NumWorkers
  BY DEF LoopOK
<1>2. at \in Workers
  BY <1>1, NumWorkersAssumption DEF LoopOK, Workers
<1>3. method \in Methods
  BY <1>1, Stages DEF LoopOK, Asking, Requests, Methods, method
<1> QED
  BY <1>1, <1>2, <1>3 DEF LoopOK

\* The three outcomes of a read.
Passes(n) ==
  (Head(todo) = "room" => HasRoom(n)) /\ (Head(todo) = "anyIdle" => n > 0)

Now(n) ==
  IF Head(todo) \in DOMAIN local THEN [local EXCEPT ![Head(todo)] = n] ELSE local

NextWorker ==
  /\ at' = at + 1 /\ local' = Unread
  /\ todo' \in IF at + 1 \in Workers THEN Reads[method] ELSE {<<>>}

SkipsWorker(n) == ~Passes(n) /\ NextWorker /\ key' = key

KeepsWorker(n) ==
  /\ Passes(n) /\ Len(todo) = 1 /\ NextWorker
  /\ key' = [w \in DOMAIN key \union {at} |-> IF w = at THEN Now(n) ELSE key[w]]

ReadsOn(n) ==
  /\ Passes(n) /\ Len(todo) # 1
  /\ at' = at /\ local' = Now(n) /\ todo' = Tail(todo) /\ key' = key

LEMMA TakeOutcome ==
  ASSUME NEW n, Take(n)
  PROVE  SkipsWorker(n) \/ KeepsWorker(n) \/ ReadsOn(n)
  BY DEF Take, Passes, Now, NextWorker, SkipsWorker, KeepsWorker, ReadsOn

-----------------------------------------------------------------------------
(* The queues change.                                                      *)

Moves(w) == PushItem(w) \/ PopItem(w) \/ IdleRound(w) \/ WakesUp(w)

\* A move changes one queue or idle count, and the history if there is a
\* request.
LEMMA MoveEffect ==
  ASSUME Control, NEW w \in Workers, Moves(w)
  PROVE  /\ QueuesOK'
         /\ UNCHANGED <<request, attempts, loopVars, result>>
         /\ moved' = Asking
         /\ Asking => /\ hadRoom' = hadRoom \union WithRoom'
                      /\ wasFull \union (Workers \ WithRoom)' \subseteq wasFull'
                      /\ wasFull' \subseteq Workers
         /\ ~Asking => hadRoom' = {} /\ wasFull' = {}
         /\ \A u \in Workers : head[u] <= head'[u] /\ tail[u] <= tail'[u]
         /\ \A u \in Workers : Size(u) \in 0 .. Capacity /\ Size(u)' \in 0 .. Capacity
         /\ \/ tail' = tail
            \/ /\ UNCHANGED head
               /\ \A u \in Workers : tail'[u] # tail[u] =>
                    /\ u = w /\ u \in WithRoom'
                    /\ Asking /\ load # NoLoad /\ at = w => w \in wasFull'
<1> USE CapacityAssumption, BoundsAssumption DEF Control, QueuesOK, Size
<1>1. QueuesOK'
  <2>1. CASE PushItem(w)
    BY <2>1 DEF PushItem
  <2>2. CASE PopItem(w)
    BY <2>2 DEF PopItem
  <2>3. CASE IdleRound(w)
    BY <2>3 DEF IdleRound
  <2>4. CASE WakesUp(w)
    BY <2>4 DEF WakesUp
  <2> QED
    BY <2>1, <2>2, <2>3, <2>4 DEF Moves
<1>2. PICK torn \in SUBSET Workers :
        Remember(torn) /\ (PopItem(w) => torn = IF load # NoLoad /\ at = w THEN {w} ELSE {})
  BY DEF Moves, PushItem, PopItem, IdleRound, WakesUp
<1>3. WithRoom' = {u \in Workers : head'[u] - tail'[u] < Capacity}
  BY DEF WithRoom
<1>4. (Workers \ WithRoom)' = {u \in Workers : head'[u] - tail'[u] >= Capacity}
  BY <1>1, <1>3 DEF WithRoom, Workers
<1>5. /\ UNCHANGED <<request, attempts, loopVars, result>> /\ moved' = Asking
      /\ Asking => /\ hadRoom' = hadRoom \union WithRoom'
                   /\ wasFull' = wasFull \union torn \union (Workers \ WithRoom)'
      /\ ~Asking => hadRoom' = {} /\ wasFull' = {}
  BY <1>2, <1>3, <1>4 DEF Remember
<1>6. Asking => wasFull' \subseteq Workers
  BY <1>4, <1>5 DEF HistoryOK
<1>7. /\ \A u \in Workers : head[u] <= head'[u] /\ tail[u] <= tail'[u]
      /\ tail' = tail \/ (PopItem(w) /\ UNCHANGED head)
      /\ \A u \in Workers : tail'[u] # tail[u] => PopItem(w) /\ u = w /\ tail'[u] = tail[u] + 1
  <2>1. CASE PopItem(w)
    <3>1. UNCHANGED head /\ tail' = [tail EXCEPT ![w] = @ + 1]
      BY <2>1 DEF PopItem
    <3> QED
      BY <2>1, <3>1
  <2>2. CASE PushItem(w)
    BY <2>2 DEF PushItem
  <2>3. CASE IdleRound(w) \/ WakesUp(w)
    BY <2>3 DEF IdleRound, WakesUp
  <2> QED
    BY <2>1, <2>2, <2>3 DEF Moves
<1>8. ASSUME NEW u \in Workers, tail'[u] # tail[u]
      PROVE  /\ u = w /\ u \in WithRoom'
             /\ Asking /\ load # NoLoad /\ at = w => w \in wasFull'
  BY <1>2, <1>3, <1>5, <1>7, <1>8
<1> QED
  BY <1>1, <1>5, <1>6, <1>7, <1>8

LEMMA MoveKeeps ==
  ASSUME IInv, NEW w \in Workers, Moves(w)
  PROVE  IInv'
<1> USE DEF IInv
<1>0. UNCHANGED <<request, attempts, at, todo, load, local, key, result, method, idx, Asking>>
  BY MoveEffect DEF loopVars, method, idx, Asking
<1>1. QueuesOK' /\ LoopOK'
  BY <1>0, MoveEffect DEF Control, LoopOK
<1>2. HistoryOK'
  BY <1>0, MoveEffect DEF Control, HistoryOK, WithRoom, Asking
<1>3. Torn'
  <2> SUFFICES ASSUME load # NoLoad PROVE Torn'
    BY <1>0 DEF Torn
  <2>1. Asking /\ at \in Workers
    BY NumWorkersAssumption DEF Control, LoopOK, Workers
  <2>2. /\ load.end \in {"head", "tail"} /\ load.ticket \in Nat
        /\ head[at] \in Nat /\ tail[at] \in Nat /\ tail'[at] \in Nat
        /\ head'[at] - tail'[at] \in 0 .. Capacity /\ head[at] - tail[at] \in 0 .. Capacity
    <3>1. load \in [end : {"head", "tail"}, ticket : 0 .. MaxTickets]
      BY DEF Control, LoopOK
    <3>2. /\ head[at] \in Nat /\ tail[at] \in Nat
          /\ Size(at) \in 0 .. Capacity
      BY <2>1, BoundsAssumption DEF Control, QueuesOK
    <3>3. tail'[at] \in Nat /\ Size(at)' \in 0 .. Capacity
      BY <1>0, <1>1, <2>1, BoundsAssumption DEF QueuesOK
    <3> QED
      BY <1>0, <3>1, <3>2, <3>3, BoundsAssumption DEF Size
  <2>3. at \in hadRoom => at \in hadRoom'
    BY <2>1, MoveEffect
  <2>4. at \in wasFull => at \in wasFull'
    BY <2>1, MoveEffect
  <2>5. CASE tail'[at] = tail[at]
    BY <1>0, <2>2, <2>3, <2>4, <2>5 DEF Torn
  <2>6. CASE tail'[at] # tail[at]
    <3>1. at = w /\ at \in WithRoom' /\ at \in wasFull' /\ tail[at] <= tail'[at]
      BY <2>1, <2>6, MoveEffect
    <3>2. at \in hadRoom'
      BY <2>1, <3>1, MoveEffect
    <3> QED
      BY <1>0, <2>2, <3>1, <3>2 DEF Torn
  <2> QED
    BY <2>5, <2>6
<1>4. Seen'
  <2>1. Asking => hadRoom \subseteq hadRoom' /\ wasFull \subseteq wasFull' /\ wasFull' \subseteq Workers
    BY MoveEffect
  <2>2. result = Undefined => Asking
    BY ResultAssumption DEF Control, LoopOK
  <2> QED
    BY <1>0, <2>1, <2>2 DEF Seen, SeeksRoom, NeedsRoom
<1>5. AtRest'
  BY <1>0, MoveEffect DEF AtRest
<1> QED
  BY <1>1, <1>2, <1>3, <1>4, <1>5 DEF Control

\* Nothing that a choice reads changes when a worker finds its queue empty.
LEMMA FindsEmptyPreserves ==
  ASSUME IInv, NEW w \in Workers, FindsEmpty(w)
  PROVE  IInv'
<1>1. UNCHANGED <<head, tail, mIdleLoopCount, request, hadRoom, wasFull, moved, attempts,
                  at, todo, load, local, key, result>>
  BY DEF FindsEmpty, loopVars, history
<1>2. QueuesOK'
  BY <1>1 DEF FindsEmpty, IInv, Control, QueuesOK, Size
<1>3. LoopOK' /\ HistoryOK' /\ Torn' /\ Seen' /\ AtRest'
  BY <1>1 DEF IInv, Control, LoopOK, HistoryOK, Torn, Seen, AtRest, Asking, method, idx, WithRoom,
       Size, SeeksRoom, NeedsRoom, TooFar, Qualifies, KeyOf, Idle, ReadSoFar, Expected, Best,
       Lighter
<1> QED
  BY <1>2, <1>3 DEF IInv, Control

-----------------------------------------------------------------------------
(* A choice begins.                                                        *)

\* The first read of the next thing to try, with what the tries before it
\* have shown.
LEMMA TryKeeps ==
  ASSUME QueuesOK, HistoryOK', UNCHANGED queueVars,
         request' \in Requests, attempts' \in LeftToTry(request'), Try(attempts'),
         result' = NoResult,
         ~moved' /\ request' = "High" /\ method' = "Workload" => Idle' = {},
         ~moved' /\ request' = "Low" /\ method' = "Random" => NumWorkers = 1 \/ WithRoom' = {}
  PROVE  IInv'
<1>0. /\ method' \in Methods /\ idx' \in {0, -1}
      /\ Asking' /\ result' # Undefined /\ result' \notin Workers
  <2>1. method' \in Methods /\ idx' \in {0, -1}
    BY Stages DEF Methods, method, idx
  <2> QED
    BY <2>1, ResultAssumption DEF Asking, Requests, Workers
<1>1. /\ at' = IF TooFar' THEN NumWorkers ELSE 0
      /\ todo' \in IF TooFar' THEN {<<>>} ELSE Reads[method']
      /\ load' = NoLoad /\ local' = Unread /\ key' = <<>>
  BY DEF Try, TooFar, method, idx
<1>2. DOMAIN key' = {} /\ key' \in [DOMAIN key' -> [size : Int, idle : 0 .. MaxIdle]]
  BY <1>1
<1>3. QueuesOK'
  BY DEF QueuesOK, queueVars, Size
<1>4. LoopOK'
  <2>1. todo' # <<>> => todo' \in LeftToRead(method')
    BY <1>0, <1>1, Shapes
  <2>2. at' \in {0, NumWorkers} /\ (at' # NumWorkers => todo' \in LeftToRead(method'))
    BY <1>0, <1>1, Shapes
  <2>3. at' = NumWorkers => todo' = <<>>
    BY <1>1, NumWorkersAssumption
  <2> QED
    <3>1. local' \in [size : Int, idle : 0 .. MaxIdle]
      BY <1>1, BoundsAssumption DEF Unread
    <3>2. at' \in 0 .. NumWorkers
      BY <2>2, NumWorkersAssumption
    <3> QED
      BY <1>0, <1>1, <1>2, <2>2, <2>3, <3>1, <3>2 DEF LoopOK, Requests
<1>5. Torn'
  BY <1>1 DEF Torn
<1>6. Seen'
  <2>1. SeeksRoom' /\ at' # NumWorkers => Head(todo') = "room"
    BY <1>1, FirstReads DEF SeeksRoom
  <2>2. NeedsRoom' => at' = 0
    <3>1. NeedsRoom' => method' = "Random" \/ idx' = 0
      BY DEF NeedsRoom
    <3> QED
      BY <1>1, <3>1, NumWorkersAssumption DEF TooFar, Abs
  <2>3. \A w \in Workers : ~(w < 0)
    BY DEF Workers
  <2> QED
    BY <1>0, <1>2, <2>1, <2>2, <2>3 DEF Seen
<1>7. AtRest'
  <2>1. ReadSoFar' \/ TooFar'
    <3> SUFFICES ASSUME ~TooFar' PROVE ReadSoFar'
      OBVIOUS
    <3>1. todo' \in Reads[method'] /\ local' = Unread
      BY <1>1
    <3>2. method' = "Workload" => todo' # <<"idle">> /\ todo' # <<"size">>
      BY <3>1, FirstReads
    <3> QED
      BY <1>1, <3>1, <3>2 DEF ReadSoFar
  <2>2. TooFar' => at' = NumWorkers
    BY <1>1
  <2>3. ~TooFar' => {w \in Workers : w < at' /\ Qualifies(w)'} = {}
    BY <1>1 DEF Workers
  <2> QED
    BY <1>2, <2>1, <2>2, <2>3 DEF AtRest
<1> QED
  BY <1>3, <1>4, <1>5, <1>6, <1>7 DEF IInv, Control

LEMMA AskKeeps ==
  ASSUME IInv, NEW r \in Requests, Ask(r)
  PROVE  IInv'
<1>1. /\ request' = r /\ attempts' = Attempts(r) /\ Try(attempts') /\ UNCHANGED <<queueVars, result>>
      /\ hadRoom' = WithRoom /\ wasFull' = Workers \ WithRoom /\ moved' = FALSE /\ ~Asking
  BY DEF Ask, Try
<1>3. attempts' \in LeftToTry(request')
  BY <1>1 DEF Attempts, LeftToTry, Requests
<1>4. r = "High" => method' = "Idleness"
  BY <1>1 DEF Attempts, method
<1>5. r = "Low" => method' = "Workload"
  BY <1>1 DEF Attempts, method
<1>6. QueuesOK /\ HistoryOK'
  BY <1>1 DEF IInv, Control, HistoryOK, WithRoom, Asking, queueVars, Size, Requests
<1>7. result' = NoResult
  BY <1>1 DEF IInv, Control, LoopOK
<1> QED
  BY <1>1, <1>3, <1>4, <1>5, <1>6, <1>7, TryKeeps

-----------------------------------------------------------------------------
(* A read.                                                                 *)

\* A worker passes the read of a quiet queue exactly if it qualifies.
LEMMA PassesQualifies ==
  ASSUME IInv, todo # <<>>, ~moved, NEW n \in Int,
         Head(todo) \in {"anyIdle", "idle"} => n = mIdleLoopCount[at],
         Head(todo) \in {"room", "size"} => n = Size(at)
  PROVE  Passes(n) <=> Qualifies(at)
<1>1. /\ Asking /\ at \in Workers /\ at # NumWorkers /\ method \in Methods
      /\ todo \in LeftToRead(method)
  BY Reading DEF IInv, Control
<1>2. ReadSoFar
  BY <1>1 DEF IInv, AtRest
<1>3. CASE Head(todo) = "room"
  <2>1. method \in {"Workload", "Random"} /\ (Passes(n) <=> HasRoom(n))
    BY <1>1, <1>3, Stations DEF Passes
  <2>2. Size(at) >= 0
    BY <1>1, CapacityAssumption DEF IInv, Control, QueuesOK
  <2> QED
    BY <1>1, <1>3, <2>1, <2>2 DEF Qualifies, WithRoom, HasRoom
<1>4. CASE Head(todo) = "anyIdle"
  <2>1. method = "Idleness" /\ (Passes(n) <=> n > 0)
    BY <1>1, <1>4, Stations DEF Passes
  <2> QED
    BY <1>1, <1>4, <2>1 DEF Qualifies, Idle
<1>5. CASE Head(todo) \notin {"room", "anyIdle"}
  <2>1. method = "QueueSize" \/ todo \notin Reads[method]
    BY <1>1, <1>5, Stations
  <2>2. Passes(n)
    BY <1>5 DEF Passes
  <2> QED
    BY <1>2, <2>1, <2>2 DEF Qualifies, ReadSoFar
<1> QED
  BY <1>3, <1>4, <1>5

\* What has been read of a worker after a read, and its key after the last.
LEMMA NowReads ==
  ASSUME IInv, todo # <<>>, ~moved, NEW n \in Int,
         Head(todo) \in {"anyIdle", "idle"} => n = mIdleLoopCount[at],
         Head(todo) \in {"room", "size"} => n = Size(at)
  PROVE  /\ Len(todo) = 1 => Now(n) = KeyOf(at)
         /\ Len(todo) # 1 => Now(n) =
              CASE method = "Workload" /\ Tail(todo) = <<"idle">> -> [size |-> Size(at), idle |-> 0]
                [] method = "Workload" /\ Tail(todo) = <<"size">> ->
                     [size |-> 0, idle |-> mIdleLoopCount[at]]
                [] OTHER -> Unread
<1>1. /\ Asking /\ at \in Workers /\ at # NumWorkers /\ method \in Methods
      /\ todo \in LeftToRead(method)
  BY Reading DEF IInv, Control
<1>2. ReadSoFar
  BY <1>1 DEF IInv, AtRest
<1> DEFINE sizeRead == [size |-> Size(at), idle |-> 0]
           idleRead == [size |-> 0, idle |-> mIdleLoopCount[at]]
<1>3. /\ local = Unread /\ Head(todo) \in {"room", "anyIdle"} => Now(n) = Unread
      /\ local = Unread /\ Head(todo) = "size" => Now(n) = sizeRead
      /\ local = Unread /\ Head(todo) = "idle" => Now(n) = idleRead
      /\ local = sizeRead /\ Head(todo) = "idle" =>
           Now(n) = [size |-> Size(at), idle |-> mIdleLoopCount[at]]
      /\ local = idleRead /\ Head(todo) = "size" =>
           Now(n) = [size |-> Size(at), idle |-> mIdleLoopCount[at]]
  BY DEF Now, Unread
<1>4. CASE method = "Workload"
  <2>0. <<"idle">> # <<"size">> /\ Len(<<"idle">>) = 1 /\ Len(<<"size">>) = 1
    OBVIOUS
  <2>1. CASE Head(todo) = "room"
    BY <1>1, <1>2, <1>3, <1>4, <2>1, Stations DEF ReadSoFar
  <2>2. CASE Len(todo) # 1 /\ Head(todo) # "room"
    BY <1>1, <1>2, <1>3, <1>4, <2>0, <2>2, Stations DEF ReadSoFar
  <2>3. CASE todo = <<"idle">> \/ todo = <<"size">>
    BY <1>1, <1>2, <1>3, <1>4, <2>0, <2>3, Stations DEF ReadSoFar, KeyOf
  <2> QED
    BY <1>1, <1>4, <2>1, <2>2, <2>3, Stations
<1>5. CASE method # "Workload"
  <2>1. local = Unread
    BY <1>2, <1>5 DEF ReadSoFar
  <2> QED
    BY <1>1, <1>3, <1>5, <2>1, Stations DEF KeyOf
<1> QED
  BY <1>4, <1>5

\* A read of the worker the loop is at, whose result n the history knows of.
LEMMA TakeKeeps ==
  ASSUME IInv, todo # <<>>, NEW n \in Int, Take(n),
         UNCHANGED <<queueVars, request, attempts, result, history>>, load' = NoLoad,
         Head(todo) \in {"anyIdle", "idle"} => n = mIdleLoopCount[at],
         Head(todo) \in {"room", "size"} /\ ~moved => n = Size(at),
         Head(todo) = "room" /\ HasRoom(n) => at \in hadRoom,
         Head(todo) = "room" /\ ~HasRoom(n) => at \in wasFull
  PROVE  IInv'
<1>0. /\ Asking /\ at \in Workers /\ at # NumWorkers /\ method \in Methods
      /\ todo \in LeftToRead(method) /\ result = NoResult
  BY Reading DEF IInv, Control
<1>1. /\ UNCHANGED <<head, tail, mIdleLoopCount, foundEmpty, request, attempts, result,
                     hadRoom, wasFull, moved>>
      /\ UNCHANGED <<method, idx, Asking, WithRoom, Idle, SeeksRoom, NeedsRoom, TooFar>>
      /\ \A w \in Workers : Size(w)' = Size(w)
  BY DEF queueVars, history, method, idx, Asking, WithRoom, Idle, Size,
         SeeksRoom, NeedsRoom, TooFar
<1>2. result' \notin Workers /\ result' # Undefined
  BY <1>0, <1>1, ResultAssumption DEF Workers
<1>3. at + 1 \in Workers <=> at + 1 # NumWorkers
  BY <1>0, NumWorkersAssumption DEF Workers
<1>4. SkipsWorker(n) \/ KeepsWorker(n) \/ ReadsOn(n)
  BY TakeOutcome
<1>5. at \notin DOMAIN key /\ at \in 0 .. (NumWorkers - 1)
  BY <1>0 DEF IInv, Control, LoopOK, Workers
<1>6. NextWorker => /\ at' = at + 1 /\ local' = Unread
                    /\ at' = NumWorkers => todo' = <<>>
                    /\ at' # NumWorkers => todo' \in Reads[method]
  BY <1>3 DEF NextWorker
<1>7. QueuesOK' /\ HistoryOK'
  BY <1>1 DEF IInv, Control, QueuesOK, HistoryOK, Asking, WithRoom, Size
<1>8. Now(n) \in [size : Int, idle : 0 .. MaxIdle]
  BY <1>0 DEF Now, IInv, Control, LoopOK, QueuesOK
<1>9. /\ DOMAIN key' = IF KeepsWorker(n) THEN DOMAIN key \union {at} ELSE DOMAIN key
      /\ KeepsWorker(n) => key'[at] = Now(n) /\ (\A w \in DOMAIN key : key'[w] = key[w])
      /\ ~KeepsWorker(n) => key' = key
  BY <1>4, <1>5 DEF KeepsWorker, SkipsWorker, ReadsOn
<1>10. LoopOK'
  <2>1. at' \in 0 .. NumWorkers /\ (at' = NumWorkers => todo' = <<>>)
    BY <1>0, <1>4, <1>5, <1>6, NumWorkersAssumption DEF SkipsWorker, KeepsWorker, ReadsOn
  <2>2. at' # NumWorkers => todo' \in LeftToRead(method)
    BY <1>0, <1>4, <1>6, Shapes DEF SkipsWorker, KeepsWorker, ReadsOn
  <2>3. local' \in [size : Int, idle : 0 .. MaxIdle]
    BY <1>4, <1>6, <1>8, BoundsAssumption DEF SkipsWorker, KeepsWorker, ReadsOn, Unread
  <2>4. key' \in [DOMAIN key' -> [size : Int, idle : 0 .. MaxIdle]]
    BY <1>4, <1>8 DEF KeepsWorker, SkipsWorker, ReadsOn, IInv, Control, LoopOK
  <2>5. DOMAIN key' \subseteq 0 .. (at' - 1)
    BY <1>4, <1>5, <1>6, <1>9 DEF KeepsWorker, SkipsWorker, ReadsOn, IInv, Control, LoopOK
  <2> QED
    BY <1>0, <1>1, <2>1, <2>2, <2>3, <2>4, <2>5 DEF IInv, Control, LoopOK
<1>11. Torn'
  BY DEF Torn
<1>12. Seen'
  <2>1. SeeksRoom /\ ~SkipsWorker(n) => at \in hadRoom
    <3> SUFFICES ASSUME SeeksRoom, ~SkipsWorker(n) PROVE at \in hadRoom
      OBVIOUS
    <3>1. CASE Head(todo) = "room"
      BY <1>4, <3>1 DEF KeepsWorker, ReadsOn, Passes
    <3>2. CASE Head(todo) # "room"
      BY <1>0, <3>2 DEF IInv, Seen
    <3> QED
      BY <3>1, <3>2
  <2>2. SeeksRoom => DOMAIN key' \subseteq hadRoom
    <3>1. KeepsWorker(n) => ~SkipsWorker(n)
      BY DEF KeepsWorker, SkipsWorker
    <3> QED
      BY <1>9, <2>1, <3>1 DEF IInv, Seen
  <2>3. SeeksRoom /\ at' # NumWorkers /\ Head(todo') # "room" => at' \in hadRoom
    <3>1. SeeksRoom /\ NextWorker /\ at' # NumWorkers => Head(todo') = "room"
      BY <1>6, FirstReads DEF SeeksRoom
    <3> QED
      BY <1>4, <2>1, <3>1 DEF SkipsWorker, KeepsWorker, ReadsOn
  <2>4. ASSUME NeedsRoom, NEW w \in Workers, w < at', w \notin DOMAIN key'
        PROVE  w \in wasFull
    <3>1. CASE w < at
      BY <1>9, <2>4, <3>1 DEF IInv, Seen
    <3>2. CASE ~(w < at)
      <4>1. w = at /\ NextWorker
        BY <1>4, <1>5, <1>6, <2>4, <3>2 DEF SkipsWorker, KeepsWorker, ReadsOn, Workers
      <4>2. SkipsWorker(n) \/ ReadsOn(n)
        BY <1>4, <1>9, <2>4, <4>1
      <4>3. SkipsWorker(n)
        BY <1>5, <1>6, <4>1, <4>2 DEF ReadsOn
      <4>4. method # "Idleness"
        BY <2>4 DEF NeedsRoom
      <4>5. Head(todo) = "room" /\ ~HasRoom(n)
        BY <1>0, <4>3, <4>4, Stations DEF SkipsWorker, Passes
      <4> QED
        BY <4>1, <4>5
    <3> QED
      BY <3>1, <3>2
  <2> QED
    BY <1>1, <1>2, <2>2, <2>3, <2>4 DEF Seen
<1>13. AtRest'
  <2> SUFFICES ASSUME ~moved PROVE AtRest'
    BY <1>1 DEF AtRest
  <2>1. /\ DOMAIN key = {w \in Workers : w < at /\ Qualifies(w)}
        /\ \A w \in DOMAIN key : key[w] = KeyOf(w)
        /\ ~TooFar /\ ReadSoFar
        /\ request = "High" /\ method = "Workload" => Idle = {}
        /\ request = "Low" /\ method = "Random" => NumWorkers = 1 \/ WithRoom = {}
    BY <1>0 DEF IInv, AtRest
  <2>2. Passes(n) <=> Qualifies(at)
    BY PassesQualifies
  <2>3. /\ Len(todo) = 1 => Now(n) = KeyOf(at)
        /\ Len(todo) # 1 => Now(n) =
             CASE method = "Workload" /\ Tail(todo) = <<"idle">> -> [size |-> Size(at), idle |-> 0]
               [] method = "Workload" /\ Tail(todo) = <<"size">> ->
                    [size |-> 0, idle |-> mIdleLoopCount[at]]
               [] OTHER -> Unread
    BY NowReads
  <2>4. \A w \in Workers : (Qualifies(w)' <=> Qualifies(w)) /\ KeyOf(w)' = KeyOf(w)
    BY <1>1 DEF Qualifies, KeyOf
  <2>5. DOMAIN key' = {w \in Workers : w < at' /\ Qualifies(w)}
    <3>1. CASE NextWorker
      <4>1. \A w \in Workers : w < at' <=> w < at \/ w = at
        BY <1>5, <1>6, <3>1 DEF Workers
      <4>2. KeepsWorker(n) <=> Passes(n)
        BY <1>4, <1>5, <1>6, <3>1 DEF KeepsWorker, SkipsWorker, ReadsOn
      <4> QED
        BY <1>0, <1>9, <2>1, <2>2, <4>1, <4>2
    <3>2. CASE ~NextWorker
      BY <1>4, <2>1, <3>2 DEF KeepsWorker, SkipsWorker, ReadsOn
    <3> QED
      BY <3>1, <3>2
  <2>6. \A w \in DOMAIN key' : key'[w] = KeyOf(w)
    <3>1. CASE KeepsWorker(n)
      BY <1>9, <2>1, <2>3, <3>1 DEF KeepsWorker
    <3>2. CASE ~KeepsWorker(n)
      BY <1>9, <2>1, <3>2
    <3> QED
      BY <3>1, <3>2
  <2>7. ASSUME at' # NumWorkers PROVE ReadSoFar'
    <3>1. CASE NextWorker
      <4>1. todo' \in Reads[method] /\ local' = Unread
        BY <1>6, <2>7, <3>1
      <4>2. method = "Workload" => todo' # <<"idle">> /\ todo' # <<"size">>
        BY <4>1, FirstReads
      <4> QED
        BY <1>1, <4>1, <4>2 DEF ReadSoFar
    <3>2. CASE ReadsOn(n)
      <4>1. at' = at /\ todo' = Tail(todo) /\ local' = Now(n) /\ Qualifies(at)
        BY <2>2, <3>2 DEF ReadsOn
      <4>2. Qualifies(at)' /\ Size(at)' = Size(at) /\ mIdleLoopCount'[at'] = mIdleLoopCount[at]
        BY <1>0, <1>1, <2>4, <4>1 DEF Qualifies, Size
      <4>3. local' = CASE method = "Workload" /\ todo' = <<"idle">> -> [size |-> Size(at), idle |-> 0]
                       [] method = "Workload" /\ todo' = <<"size">> ->
                            [size |-> 0, idle |-> mIdleLoopCount[at]]
                       [] OTHER -> Unread
        BY <2>3, <3>2, <4>1 DEF ReadsOn
      <4> HIDE DEF method
      <4> QED
        BY <1>1, <4>2, <4>3 DEF ReadSoFar, Unread
    <3> QED
      BY <1>4, <3>1, <3>2 DEF SkipsWorker, KeepsWorker
  <2> QED
    BY <1>0, <1>1, <1>5, <2>1, <2>4, <2>5, <2>6, <2>7 DEF AtRest, IInv, Control, LoopOK
<1> QED
  BY <1>7, <1>10, <1>11, <1>12, <1>13 DEF IInv, Control

LEMMA ReadIdlePreserves == IInv /\ ReadIdle => IInv'
<1> SUFFICES ASSUME IInv, ReadIdle PROVE IInv'
  OBVIOUS
<1>1. /\ todo # <<>> /\ Head(todo) \in {"anyIdle", "idle"} /\ Take(mIdleLoopCount[at])
      /\ UNCHANGED <<queueVars, request, attempts, load, result, history>>
  BY DEF ReadIdle, NextRead
<1>2. mIdleLoopCount[at] \in Int
  BY <1>1, Reading DEF IInv, Control, QueuesOK
<1>3. load = NoLoad
  BY <1>1 DEF IInv, Control, LoopOK
<1> QED
  BY <1>1, <1>2, <1>3, TakeKeeps

\* size() has read one end of the queue.
LEMMA LoadFirstPreserves == IInv /\ LoadFirst => IInv'
<1> SUFFICES ASSUME IInv, LoadFirst PROVE IInv'
  OBVIOUS
<1>1. /\ todo # <<>> /\ Head(todo) \in {"room", "size"}
      /\ load' \in {[end |-> "head", ticket |-> head[at]], [end |-> "tail", ticket |-> tail[at]]}
      /\ UNCHANGED <<head, tail, mIdleLoopCount, foundEmpty, request, attempts, at, todo, local, key,
                     result, hadRoom, wasFull, moved>>
      /\ UNCHANGED <<method, idx, Asking, WithRoom, Idle, SeeksRoom, NeedsRoom, TooFar>>
  BY DEF LoadFirst, NextRead, queueVars, history, method, idx, Asking, WithRoom, Idle, Size,
         SeeksRoom, NeedsRoom, TooFar
<1>2. Asking /\ at \in Workers /\ at # NumWorkers
  BY <1>1, Reading DEF IInv, Control
<1>3. /\ head[at] \in 0 .. MaxTickets /\ tail[at] \in 0 .. MaxTickets
      /\ head[at] - tail[at] \in 0 .. Capacity
  BY <1>2 DEF IInv, Control, QueuesOK, Size
<1>4. Control'
  <2>1. QueuesOK' /\ HistoryOK'
    BY <1>1 DEF IInv, Control, QueuesOK, HistoryOK, Size
  <2>2. LoopOK'
    BY <1>1, <1>2, <1>3 DEF IInv, Control, LoopOK
  <2> QED
    BY <2>1, <2>2 DEF Control
<1>5. Torn'
  <2>1. head[at] - tail[at] < Capacity => at \in hadRoom
    BY <1>2 DEF IInv, Control, HistoryOK, WithRoom, Size
  <2>2. ~(head[at] - tail[at] < Capacity) => at \in wasFull
    BY <1>2 DEF IInv, Control, HistoryOK, WithRoom, Size
  <2> QED
    BY <1>1, <1>3, <2>1, <2>2, CapacityAssumption, BoundsAssumption DEF Torn
<1>6. Seen'
  BY <1>1 DEF IInv, Seen
<1>7. AtRest'
  <2>1. \A w : (Qualifies(w)' <=> Qualifies(w)) /\ KeyOf(w)' = KeyOf(w)
    BY <1>1 DEF Qualifies, KeyOf, Size
  <2>2. ReadSoFar => ReadSoFar'
    BY <1>1, <2>1 DEF ReadSoFar, Size
  <2>3. result = NoResult
    BY <1>1, Reading DEF IInv, Control
  <2> QED
    BY <1>1, <2>1, <2>2, <2>3 DEF IInv, AtRest
<1> QED
  BY <1>4, <1>5, <1>6, <1>7 DEF IInv

\* size() puts the two ends together.
LEMMA LoadSecondPreserves == IInv /\ LoadSecond => IInv'
<1> SUFFICES ASSUME IInv, LoadSecond PROVE IInv'
  OBVIOUS
<1>1. /\ load # NoLoad /\ Take(Difference) /\ load' = NoLoad
      /\ UNCHANGED <<queueVars, request, attempts, result, history>>
  BY DEF LoadSecond
<1>2. /\ Asking /\ at # NumWorkers /\ Head(todo) \in {"room", "size"}
      /\ load.end \in {"head", "tail"} /\ load.ticket \in Nat
  BY <1>1, BoundsAssumption DEF IInv, Control, LoopOK
<1>3. todo # <<>>
  <2>1. method \in Methods
    BY <1>2, Stages DEF IInv, Control, LoopOK, Asking, Requests, Methods, method
  <2> QED
    BY <1>2, <2>1, Shapes DEF IInv, Control, LoopOK
<1>4. at \in Workers
  BY <1>3, Reading DEF IInv, Control
<1>5. /\ head[at] \in Nat /\ tail[at] \in Nat /\ Size(at) \in 0 .. Capacity
      /\ head[at] - tail[at] \in 0 .. Capacity
  BY <1>4, BoundsAssumption DEF IInv, Control, QueuesOK, Size
<1>6. Difference \in Int
  BY <1>2, <1>5 DEF Difference
<1>7. ~moved => Difference = Size(at)
  <2>1. ~moved => load.ticket = IF load.end = "head" THEN head[at] ELSE tail[at]
    BY <1>1, <1>2 DEF IInv, AtRest, ReadSoFar
  <2> QED
    BY <1>2, <1>5, <2>1 DEF Difference, Size
<1>8. (HasRoom(Difference) => at \in hadRoom) /\ (~HasRoom(Difference) => at \in wasFull)
  <2>1. Size(at) < Capacity => at \in hadRoom
    BY <1>2, <1>4 DEF IInv, Control, HistoryOK, WithRoom
  <2>2. Size(at) >= Capacity => at \in wasFull
    BY <1>2, <1>4, <1>5, CapacityAssumption DEF IInv, Control, HistoryOK, WithRoom
  <2>3. CASE load.end = "head"
    BY <1>1, <1>2, <1>5, <2>3, CapacityAssumption DEF IInv, Torn, Difference, HasRoom
  <2>4. CASE load.end = "tail"
    <3>1. load.ticket <= tail[at] /\ (load.ticket # tail[at] => at \in wasFull)
      BY <1>1, <2>4 DEF IInv, Torn
    <3>2. Difference = head[at] - load.ticket /\ Difference >= Size(at)
      BY <1>2, <1>5, <2>4, <3>1 DEF Difference, Size
    <3>3. load.ticket = tail[at] => Difference = Size(at)
      BY <3>2 DEF Size
    <3> QED
      BY <1>5, <1>6, <2>1, <2>2, <3>1, <3>2, <3>3, CapacityAssumption DEF HasRoom
  <2> QED
    BY <1>2, <2>3, <2>4
<1> QED
  BY <1>1, <1>2, <1>3, <1>6, <1>7, <1>8, TakeKeeps

-----------------------------------------------------------------------------
(* The choice.                                                             *)

\* Nothing qualified that comes before the first of a sorted vector, or after
\* its last.
LEMMA SortedEnds ==
  ASSUME IsFiniteSet(DOMAIN key), DOMAIN key # {}, NEW s \in Sorted,
         key \in [DOMAIN key -> [size : Int, idle : 0 .. MaxIdle]]
  PROVE  LET n == Cardinality(DOMAIN key)
         IN  /\ n \in Nat \ {0} /\ s[1] \in DOMAIN key /\ s[n] \in DOMAIN key
             /\ \A w \in DOMAIN key :
                  ~Before(key[w], key[s[1]]) /\ ~Before(key[s[n]], key[w])
<1> DEFINE n == Cardinality(DOMAIN key)
<1>1. n \in Nat \ {0}
  BY FS_CardinalityType, FS_EmptySet
<1>2. /\ s \in [1 .. n -> DOMAIN key]
      /\ \A i, j \in 1 .. n : i < j => s[i] # s[j] /\ ~Before(key[s[j]], key[s[i]])
  BY DEF Sorted
<1>3. IsFiniteSet(1 .. n) /\ Cardinality(1 .. n) = n
  BY <1>1, FS_Interval
<1>4. \A w \in DOMAIN key : \E i \in 1 .. n : s[i] = w
  <2> HIDE DEF n
  <2>1. \A i, j \in 1 .. n : s[i] = s[j] => i = j
    BY <1>1, <1>2
  <2>2. s \in Injection(1 .. n, DOMAIN key)
    BY <1>2, <2>1 DEF Injection, IsInjective
  <2>3. s \in Surjection(1 .. n, DOMAIN key)
    BY <1>3, <2>2, FS_Injection DEF n
  <2> QED
    BY <2>3 DEF Surjection
<1>5. \A w \in DOMAIN key : ~Before(key[w], key[w])
  BY DEF Before
<1>6. ASSUME NEW w \in DOMAIN key
      PROVE  ~Before(key[w], key[s[1]]) /\ ~Before(key[s[n]], key[w])
  <2>1. PICK i \in 1 .. n : s[i] = w
    BY <1>4
  <2> HIDE DEF n
  <2>2. (i = 1 \/ 1 < i) /\ (i = n \/ i < n)
    BY <1>1
  <2> QED
    BY <1>1, <1>2, <1>5, <2>1, <2>2
<1> QED
  BY <1>1, <1>2, <1>6

\* What a choice may return, of the workers that have qualified.
LEMMA ChoiceMade ==
  ASSUME IInv, Asking, NEW c \in Choices
  PROVE  \/ /\ c = -1
            /\ \/ method = "Idleness" /\ DOMAIN key = {}
               \/ method = "Workload" /\ idx = -1 /\ DOMAIN key = {}
               \/ method = "QueueSize" /\ Cardinality(DOMAIN key) <= 1
         \/ c = Undefined /\ DOMAIN key = {} /\ NeedsRoom
         \/ /\ c \in DOMAIN key /\ c \in Workers
            /\ method # "Random" /\ idx = 0 =>
                 \A w \in DOMAIN key : ~Before(key[w], key[c])
            /\ method # "Random" /\ idx = -1 =>
                 \A w \in DOMAIN key : ~Before(key[c], key[w])
<1> DEFINE n == Cardinality(DOMAIN key)
<1>1. /\ IsFiniteSet(DOMAIN key) /\ n \in Nat /\ (n = 0 <=> DOMAIN key = {})
      /\ DOMAIN key \subseteq Workers
  <2>1. DOMAIN key \subseteq 0 .. (at - 1) /\ at \in 0 .. NumWorkers
    BY DEF IInv, Control, LoopOK
  <2>2. DOMAIN key \subseteq 0 .. (NumWorkers - 1)
    BY <2>1, NumWorkersAssumption
  <2>3. IsFiniteSet(0 .. (NumWorkers - 1))
    BY FS_Interval, NumWorkersAssumption
  <2> QED
    BY <2>2, <2>3, FS_Subset, FS_CardinalityType, FS_EmptySet DEF Workers
<1>2. \/ method = "Idleness" /\ idx = 0
      \/ method = "Workload" /\ idx \in {0, -1}
      \/ method = "QueueSize" /\ idx = -1
      \/ method = "Random" /\ idx = 0
  BY Stages DEF IInv, Control, LoopOK, Asking, Requests, method, idx
<1>3. key \in [DOMAIN key -> [size : Int, idle : 0 .. MaxIdle]]
  BY DEF IInv, Control, LoopOK
<1> HIDE DEF n
<1>4. CASE method # "Random" /\ NothingAt(n)
  <2>1. c = -1
    BY <1>4 DEF Choices, n
  <2> QED
    BY <1>1, <1>2, <1>4, <2>1 DEF NothingAt, Abs, n
<1>5. CASE ~(method # "Random" /\ NothingAt(n)) /\ n = 0
  <2>1. c = Undefined
    BY <1>5 DEF Choices, n
  <2>2. method = "Random" \/ (method = "Workload" /\ idx = 0)
    BY <1>2, <1>5 DEF NothingAt, Abs
  <2> QED
    BY <1>1, <1>2, <1>5, <2>1, <2>2 DEF NeedsRoom
<1>6. CASE n # 0 /\ method = "Random"
  BY <1>1, <1>6 DEF Choices, n
<1>7. CASE n # 0 /\ method # "Random" /\ ~NothingAt(n)
  <2>1. PICK s \in Sorted : c = s[IF idx >= 0 THEN idx + 1 ELSE n + idx + 1]
    BY <1>7 DEF Choices, n
  <2>2. /\ s[1] \in DOMAIN key /\ s[n] \in DOMAIN key
        /\ \A w \in DOMAIN key : ~Before(key[w], key[s[1]]) /\ ~Before(key[s[n]], key[w])
    BY <1>1, <1>3, <1>7, SortedEnds DEF n
  <2>3. (idx = 0 /\ c = s[1]) \/ (idx = -1 /\ c = s[n])
    BY <1>1, <1>2, <2>1
  <2> QED
    BY <1>1, <2>2, <2>3
<1> QED
  BY <1>4, <1>5, <1>6, <1>7

\* Workers are sorted by size, and by idleness where the sizes are equal.
LEMMA SameOrder ==
  ASSUME NEW u \in Workers, NEW w \in Workers, QueuesOK,
         key[u] = [size |-> Size(u), idle |-> mIdleLoopCount[u]],
         key[w] = [size |-> Size(w), idle |-> mIdleLoopCount[w]]
  PROVE  Before(key[u], key[w]) <=> Lighter(u, w)
<1>1. Size(u) \in Int /\ Size(w) \in Int
  BY CapacityAssumption DEF QueuesOK
<1> QED
  BY <1>1 DEF Before, Lighter

\* A choice among quiet queues is one of those expected.
LEMMA ChosenIsExpected ==
  ASSUME IInv, Asking, at = NumWorkers, ~moved, NEW c \in Choices,
         c = -1 => ~(Len(attempts) > 1)
  PROVE  c \in Expected(request)
<1>1. /\ DOMAIN key = IF TooFar THEN {} ELSE {w \in Workers : Qualifies(w)}
      /\ \A w \in DOMAIN key : key[w] = KeyOf(w)
      /\ request = "High" /\ method = "Workload" => Idle = {}
      /\ request = "Low" /\ method = "Random" => NumWorkers = 1 \/ WithRoom = {}
  <2>1. \A w \in Workers : w < at
    BY NumWorkersAssumption DEF Workers
  <2> QED
    BY <2>1 DEF IInv, AtRest
<1>2. \/ request = "High" /\ method = "Idleness" /\ idx = 0 /\ Len(attempts) > 1
      \/ request = "High" /\ method = "Workload" /\ idx = 0
      \/ request = "Normal" /\ method = "Random" /\ idx = 0
      \/ request = "Low" /\ method = "Workload" /\ idx = -1 /\ Len(attempts) > 1
      \/ request = "Low" /\ method = "Random" /\ idx = 0
      \/ request = "steal" /\ method = "QueueSize" /\ idx = -1 /\ ~(Len(attempts) > 1)
  BY Stages DEF IInv, Control, LoopOK, Asking, Requests, method, idx
<1>3. \/ c = -1 /\ method = "QueueSize" /\ Cardinality(DOMAIN key) <= 1
      \/ c = Undefined /\ DOMAIN key = {} /\ NeedsRoom
      \/ /\ c \in DOMAIN key /\ c \in Workers
         /\ method # "Random" /\ idx = 0 =>
              \A w \in DOMAIN key : ~Before(key[w], key[c])
         /\ method # "Random" /\ idx = -1 =>
              \A w \in DOMAIN key : ~Before(key[c], key[w])
  <2> HIDE DEF method, idx
  <2> QED
    BY <1>2, ChoiceMade
<1>4. WithRoom \subseteq Workers /\ Idle \subseteq Workers
  BY DEF WithRoom, Idle
<1>5. CASE request = "Normal"
  BY <1>1, <1>2, <1>3, <1>4, <1>5 DEF Expected, Best, TooFar, Qualifies
<1>6. CASE request = "Low"
  <2>1. CASE method = "Random"
    <3>1. DOMAIN key = WithRoom
      BY <1>1, <1>4, <2>1 DEF TooFar, Qualifies
    <3>2. NumWorkers = 1 \/ WithRoom = {}
      BY <1>1, <1>6, <2>1
    <3>3. c \in WithRoom \/ (c = Undefined /\ WithRoom = {})
      BY <1>3, <2>1, <3>1
    <3> QED
      BY <1>6, <3>2, <3>3 DEF Expected, Best
  <2>2. CASE method = "Workload"
    <3>1. c \in DOMAIN key /\ ~TooFar /\ \A w \in DOMAIN key : ~Before(key[c], key[w])
      BY <1>1, <1>2, <1>3, <1>6, <2>2 DEF NeedsRoom
    <3>2. DOMAIN key = WithRoom
      BY <1>1, <1>4, <2>2, <3>1 DEF Qualifies
    <3>3. \A u, w \in WithRoom : Before(key[u], key[w]) <=> Lighter(u, w)
      <4>1. \A u \in WithRoom : key[u] = [size |-> Size(u), idle |-> mIdleLoopCount[u]]
        BY <1>1, <2>2, <3>2 DEF KeyOf
      <4> QED
        BY <1>4, <4>1, SameOrder DEF IInv, Control
    <3> QED
      BY <1>6, <3>1, <3>2, <3>3 DEF Expected, Best
  <2> QED
    BY <1>2, <1>6, <2>1, <2>2
<1>7. CASE request = "High"
  <2>1. CASE method = "Idleness"
    <3>1. c \in DOMAIN key /\ \A w \in DOMAIN key : ~Before(key[w], key[c])
      BY <1>2, <1>3, <1>7, <2>1 DEF NeedsRoom
    <3>2. DOMAIN key = Idle
      BY <1>1, <1>4, <2>1, <3>1 DEF Qualifies
    <3>3. \A u, w \in Idle :
            Before(key[u], key[w]) <=> mIdleLoopCount[u] < mIdleLoopCount[w]
      <4>1. \A u \in Idle : key[u] = [size |-> 0, idle |-> mIdleLoopCount[u]]
        BY <1>1, <2>1, <3>2 DEF KeyOf
      <4> QED
        <5> SUFFICES ASSUME NEW u \in Idle, NEW w \in Idle
                     PROVE  Before(key[u], key[w]) <=> mIdleLoopCount[u] < mIdleLoopCount[w]
          OBVIOUS
        <5>1. /\ key[u] = [size |-> 0, idle |-> mIdleLoopCount[u]]
              /\ key[w] = [size |-> 0, idle |-> mIdleLoopCount[w]]
          BY <4>1
        <5> QED
          BY <5>1 DEF Before
    <3> QED
      BY <1>7, <3>1, <3>2, <3>3 DEF Expected, Best
  <2>2. CASE method = "Workload"
    <3>1. DOMAIN key = WithRoom /\ Idle = {}
      BY <1>1, <1>2, <1>4, <1>7, <2>2, NumWorkersAssumption DEF TooFar, Abs, Qualifies
    <3>2. \A u, w \in WithRoom : Before(key[u], key[w]) <=> Lighter(u, w)
      <4>1. \A u \in WithRoom : key[u] = [size |-> Size(u), idle |-> mIdleLoopCount[u]]
        BY <1>1, <2>2, <3>1 DEF KeyOf
      <4> QED
        BY <1>4, <4>1, SameOrder DEF IInv, Control
    <3>3. \/ c = Undefined /\ WithRoom = {}
          \/ c \in WithRoom /\ \A w \in WithRoom : ~Lighter(w, c)
      BY <1>2, <1>3, <1>7, <2>2, <3>1, <3>2
    <3> QED
      BY <1>7, <3>1, <3>3 DEF Expected, Best
  <2> QED
    BY <1>2, <1>7, <2>1, <2>2
<1>8. CASE request = "steal"
  <2>1. method = "QueueSize" /\ idx = -1
    BY <1>2, <1>8
  <2>2. CASE NumWorkers = 1
    <3>1. DOMAIN key = {}
      BY <1>1, <2>1, <2>2 DEF TooFar, Abs
    <3> QED
      BY <1>3, <1>8, <2>1, <2>2, <3>1 DEF Expected, NeedsRoom
  <2>3. CASE NumWorkers # 1
    <3>1. DOMAIN key = Workers
      BY <1>1, <2>1, <2>3, NumWorkersAssumption DEF TooFar, Abs, Qualifies
    <3>2. Cardinality(DOMAIN key) = NumWorkers
      BY <3>1, FS_Interval, NumWorkersAssumption DEF Workers
    <3>3. c \in Workers /\ \A w \in Workers : ~Before(key[c], key[w])
      BY <1>3, <2>1, <2>3, <3>1, <3>2, NumWorkersAssumption DEF NeedsRoom
    <3>4. \A u, w \in Workers : Size(u) < Size(w) => Before(key[u], key[w])
      <4>1. \A u \in Workers : key[u] = [size |-> Size(u), idle |-> 0]
        BY <1>1, <2>1, <3>1 DEF KeyOf
      <4>2. \A u, w \in Workers : Size(u) < Size(w) => Size(u) # Size(w)
        BY CapacityAssumption DEF IInv, Control, QueuesOK
      <4> QED
        <5> SUFFICES ASSUME NEW u \in Workers, NEW w \in Workers, Size(u) < Size(w)
                     PROVE  Before(key[u], key[w])
          OBVIOUS
        <5>1. /\ key[u] = [size |-> Size(u), idle |-> 0]
              /\ key[w] = [size |-> Size(w), idle |-> 0]
          BY <4>1
        <5> QED
          BY <4>2, <5>1 DEF Before
    <3> QED
      BY <1>8, <2>3, <3>3, <3>4 DEF Expected, Best
  <2> QED
    BY <2>2, <2>3
<1> QED
  BY <1>2, <1>5, <1>6, <1>7, <1>8

\* A choice that found nothing makes way for the next one, if there is one.
LEMMA NextTryKeeps ==
  ASSUME IInv, Asking, at = NumWorkers, result = NoResult, -1 \in Choices,
         Len(attempts) > 1, Try(Tail(attempts)),
         UNCHANGED <<queueVars, request, result, history>>
  PROVE  IInv'
<1>1. /\ request \in Requests /\ attempts \in LeftToTry(request)
      /\ method = attempts[1][1] /\ idx = attempts[1][2]
  BY DEF IInv, Control, LoopOK, Asking, Requests, method, idx
<1>2. attempts' = Tail(attempts)
  BY DEF Try
<1>3. -1 # Undefined /\ -1 \notin Workers
  BY ResultAssumption DEF Workers
<1>4. /\ DOMAIN key = {}
      /\ \/ /\ request = "High" /\ method = "Idleness"
            /\ attempts' = <<<<"Workload", 0>>, <<"Random", 0>>>>
         \/ /\ request = "Low" /\ method = "Workload" /\ idx = -1
            /\ attempts' = <<<<"Random", 0>>>>
  <2>1. \/ method = "Idleness" /\ DOMAIN key = {}
        \/ method = "Workload" /\ idx = -1 /\ DOMAIN key = {}
        \/ method = "QueueSize"
    BY <1>3, ChoiceMade
  <2> HIDE DEF method, idx
  <2> QED
    BY <1>1, <1>2, <2>1, Stages
<1>5. attempts' \in LeftToTry(request')
  BY <1>4 DEF LeftToTry
<1>6. QueuesOK /\ HistoryOK'
  BY DEF IInv, Control, HistoryOK, history, queueVars, WithRoom, Size, Asking
<1>7. ~moved => DOMAIN key = IF TooFar THEN {} ELSE {w \in Workers : Qualifies(w)}
  <2>1. \A w \in Workers : w < at
    BY NumWorkersAssumption DEF Workers
  <2> QED
    BY <2>1 DEF IInv, AtRest
<1>8. ASSUME ~moved', request' = "High", method' = "Workload"
      PROVE  Idle' = {}
  <2>1. request = "High" /\ method = "Idleness" /\ ~moved
    BY <1>4, <1>8 DEF history
  <2>2. idx = 0
    BY <1>1, <2>1, Stages
  <2>3. ~TooFar
    BY <2>2, NumWorkersAssumption DEF TooFar, Abs
  <2>4. \A w \in Workers : w \notin Idle
    BY <1>4, <1>7, <2>1, <2>3 DEF Qualifies
  <2> QED
    BY <2>4 DEF Idle, queueVars
<1>9. ASSUME ~moved', request' = "Low", method' = "Random"
      PROVE  NumWorkers = 1 \/ WithRoom' = {}
  <2>1. request = "Low" /\ method = "Workload" /\ idx = -1 /\ ~moved
    BY <1>4, <1>9 DEF history
  <2>2. CASE TooFar
    BY <2>1, <2>2, NumWorkersAssumption DEF TooFar, Abs
  <2>3. CASE ~TooFar
    <3>1. \A w \in Workers : w \notin WithRoom
      BY <1>4, <1>7, <2>1, <2>3 DEF Qualifies
    <3> QED
      BY <3>1 DEF WithRoom, Size, queueVars
  <2> QED
    BY <2>2, <2>3
<1> QED
  BY <1>1, <1>2, <1>5, <1>6, <1>8, <1>9, TryKeeps

LEMMA ChoosePreserves == IInv /\ Choose => IInv'
<1> SUFFICES ASSUME IInv, Choose PROVE IInv'
  OBVIOUS
<1>1. Asking /\ result = NoResult /\ at = NumWorkers /\ UNCHANGED <<queueVars, request, history>>
  BY DEF Choose
<1>2. PICK c \in Choices :
        IF c = -1 /\ Len(attempts) > 1
          THEN Try(Tail(attempts)) /\ UNCHANGED result
          ELSE result' = c /\ UNCHANGED <<attempts, loopVars>>
  BY DEF Choose
<1>3. CASE c = -1 /\ Len(attempts) > 1
  BY <1>1, <1>2, <1>3, NextTryKeeps
<1>4. CASE ~(c = -1 /\ Len(attempts) > 1)
  <2>1. /\ result' = c
        /\ UNCHANGED <<head, tail, mIdleLoopCount, foundEmpty, request, hadRoom, wasFull, moved,
                       attempts, at, todo, load, local, key>>
        /\ UNCHANGED <<method, idx, Asking, WithRoom, Idle, SeeksRoom, NeedsRoom, TooFar>>
    BY <1>1, <1>2, <1>4 DEF queueVars, loopVars, history, method, idx, Asking, WithRoom, Idle,
                            Size, SeeksRoom, NeedsRoom, TooFar
  <2>2. \/ c = -1
        \/ c = Undefined /\ DOMAIN key = {} /\ NeedsRoom
        \/ c \in DOMAIN key /\ c \in Workers
    BY <1>1, ChoiceMade
  <2>3. Control'
    BY <1>1, <2>1, <2>2 DEF IInv, Control, QueuesOK, LoopOK, HistoryOK, Size
  <2>4. Torn'
    BY <2>1 DEF IInv, Torn
  <2>5. Seen'
    <3>1. SeeksRoom /\ c \in Workers => c \in hadRoom
      BY <2>2, ResultAssumption DEF IInv, Seen, Workers
    <3>2. c = Undefined => wasFull = Workers
      <4> SUFFICES ASSUME c = Undefined PROVE wasFull = Workers
        OBVIOUS
      <4>1. DOMAIN key = {} /\ NeedsRoom
        BY <2>2, ResultAssumption DEF Workers
      <4>2. \A w \in Workers : w < at
        BY <1>1, NumWorkersAssumption DEF Workers
      <4>3. Workers \subseteq wasFull
        BY <4>1, <4>2 DEF IInv, Seen
      <4> QED
        BY <4>3 DEF IInv, Control, HistoryOK
    <3> QED
      BY <2>1, <3>1, <3>2 DEF IInv, Seen
  <2>6. AtRest'
    <3>1. \A w : (Qualifies(w)' <=> Qualifies(w)) /\ KeyOf(w)' = KeyOf(w)
      BY <2>1 DEF Qualifies, KeyOf, Size
    <3>2. Expected(request)' = Expected(request)
      BY <2>1 DEF Expected, Best, Lighter, Size
    <3>3. ~moved => c \in Expected(request)
      BY <1>1, <1>4, ChosenIsExpected
    <3> QED
      BY <1>1, <2>1, <3>1, <3>2, <3>3 DEF IInv, AtRest
  <2> QED
    BY <2>3, <2>4, <2>5, <2>6 DEF IInv
<1> QED
  BY <1>3, <1>4

\* No request: the state in which a call leaves the loop, and the first one.
AtStart ==
  /\ QueuesOK
  /\ request = "none" /\ attempts = <<>> /\ at = 0 /\ todo = <<>>
  /\ load = NoLoad /\ local = Unread /\ key = <<>> /\ result = NoResult
  /\ hadRoom = {} /\ wasFull = {} /\ moved = FALSE

LEMMA NoRequest == AtStart => IInv
<1> SUFFICES ASSUME AtStart PROVE IInv
  OBVIOUS
<1> USE DEF AtStart
<1>1. ~Asking /\ ~SeeksRoom /\ ~NeedsRoom
  BY DEF Asking, SeeksRoom, NeedsRoom
<1>2. DOMAIN key = {} /\ key \in [DOMAIN key -> [size : Int, idle : 0 .. MaxIdle]]
  OBVIOUS
<1>3. local \in [size : Int, idle : 0 .. MaxIdle]
  BY BoundsAssumption DEF Unread
<1>4. LoopOK
  BY <1>1, <1>2, <1>3, NumWorkersAssumption DEF LoopOK, LeftToTry
<1> QED
  BY <1>1, <1>4, ResultAssumption DEF IInv, Control, HistoryOK, Torn, Seen, AtRest

LEMMA IInvInit == Init => IInv
<1> SUFFICES ASSUME Init PROVE IInv
  OBVIOUS
<1>1. QueuesOK
  BY BoundsAssumption, CapacityAssumption DEF Init, QueuesOK, Size
<1> QED
  BY <1>1, NoRequest DEF Init, AtStart

LEMMA ReturnPreserves == IInv /\ Return => IInv'
<1> SUFFICES ASSUME IInv, Return PROVE IInv'
  OBVIOUS
<1>1. QueuesOK'
  BY DEF Return, IInv, Control, QueuesOK, queueVars, Size
<1>2. AtStart'
  BY <1>1 DEF Return, AtStart
<1> QED
  BY <1>2, NoRequest, PTL

-----------------------------------------------------------------------------
(* The theorems.                                                           *)

LEMMA IInvStep == IInv /\ [Next]_vars => IInv'
<1> SUFFICES ASSUME IInv, [Next]_vars PROVE IInv'
  OBVIOUS
<1>1. ASSUME NEW w \in Workers, Moves(w) PROVE IInv'
  BY <1>1, MoveKeeps
<1>2. ASSUME NEW r \in {"High", "Normal", "Low", "steal"}, Ask(r) PROVE IInv'
  BY <1>2, AskKeeps DEF Requests
<1>3. CASE ReadIdle \/ LoadFirst \/ LoadSecond \/ Choose \/ Return
  BY <1>3, ReadIdlePreserves, LoadFirstPreserves, LoadSecondPreserves, ChoosePreserves,
     ReturnPreserves
<1>4. CASE UNCHANGED vars
  <2>1. UNCHANGED <<head, tail, mIdleLoopCount, foundEmpty, request, hadRoom, wasFull, moved,
                    attempts, at, todo, load, local, key, result>>
    BY <1>4 DEF vars, queueVars, loopVars, history
  <2>2. IInv' <=> IInv
    BY <2>1 DEF IInv, Control, QueuesOK, LoopOK, HistoryOK, Torn, Seen, AtRest, Asking, method,
         idx, WithRoom, Size, SeeksRoom, NeedsRoom, TooFar, Qualifies, KeyOf, Idle, ReadSoFar,
         Expected, Best, Lighter
  <2> QED
    BY <2>2
<1>5. ASSUME NEW w \in Workers, FindsEmpty(w) PROVE IInv'
  BY <1>5, FindsEmptyPreserves
<1> QED
  BY <1>1, <1>2, <1>3, <1>4, <1>5 DEF Next, Moves

LEMMA IInvInvariant == Spec => []IInv
<1> QED
  BY IInvInit, IInvStep, PTL DEF Spec

\* The counters, the loop's position, what it has read and what it returns keep
\* their types, and no queue holds more than its capacity.
THEOREM TypeCorrect == Spec => []TypeOK
<1>1. IInv => TypeOK
  <2> SUFFICES ASSUME IInv PROVE TypeOK
    OBVIOUS
  <2>1. todo \in Seq({"anyIdle", "room", "size", "idle"})
    <3>1. CASE todo = <<>>
      BY <3>1
    <3>2. CASE todo # <<>>
      BY <3>2, Reading, Shapes DEF IInv, Control
    <3> QED
      BY <3>1, <3>2
  <2>2. load # NoLoad => /\ at \in Workers /\ Head(todo) \in {"room", "size"}
                         /\ load.end \in {"head", "tail"} /\ load.ticket \in Nat
    BY NumWorkersAssumption, BoundsAssumption DEF IInv, Control, LoopOK, Workers
  <2> QED
    BY <2>1, <2>2 DEF TypeOK, IInv, Control, QueuesOK, LoopOK, HistoryOK
<1> QED
  BY <1>1, IInvInvariant, PTL

\* pickWorkerIdByWorkload and pickWorkerIdByRandom return a worker whose queue
\* had room at some instant of the call, although size() loads head_ and tail_
\* one after the other while tasks are pushed and popped.
THEOREM ChosenQueueHadRoom == Spec => []ChosenHadRoom
<1>1. IInv => ChosenHadRoom
  <2> SUFFICES ASSUME IInv, result \in Workers, method \in {"Workload", "Random"}
               PROVE  result \in hadRoom
    BY DEF ChosenHadRoom
  <2>1. Asking
    BY ResultAssumption DEF IInv, Control, LoopOK, Workers
  <2> QED
    BY <2>1 DEF IInv, Seen, SeeksRoom
<1> QED
  BY <1>1, IInvInvariant, PTL

\* The choice divides by zero or reads an empty vector only if every queue was
\* full, or popped from while its size was read, at some instant of the call.
THEOREM UndefinedWhenFull == Spec => []UndefinedOnlyIfFull
<1>1. IInv => UndefinedOnlyIfFull
  BY DEF IInv, Seen, UndefinedOnlyIfFull
<1> QED
  BY <1>1, IInvInvariant, PTL

\* Without a push, pop or idle round during the call, distributeTask and
\* onWorkerIdle choose the worker their order of methods and the sorts promise.
THEOREM RightWhileNothingMoves == Spec => []RightAtRest
<1>1. IInv => RightAtRest
  <2> SUFFICES ASSUME IInv, result # NoResult, ~moved PROVE result \in Expected(request)
    BY DEF RightAtRest
  <2>1. Asking
    BY DEF IInv, Control, LoopOK
  <2> QED
    BY <2>1 DEF IInv, AtRest
<1> QED
  BY <1>1, IInvInvariant, PTL

=============================================================================
