----------------------------- MODULE MPMCQueue ------------------------------
(***************************************************************************)
(* The queue behind SRingBuffer (workflows/detail/MPMCQueue.h), at the     *)
(* grain of its atomic accesses.  SRingBuffer only forwards to the two     *)
(* operations that never wait, try_emplace and try_pop; they are modelled. *)
(*                                                                         *)
(* head_ and tail_ hand out tickets.  Ticket i is served by slot idx(i) in *)
(* the slot's round turn(i).  A slot's turn is twice its round when it is  *)
(* free for that round and one more when it holds that round's item.       *)
(* Tickets are 64-bit in the code and do not wrap; here they are naturals. *)
(***************************************************************************)
EXTENDS Integers, FiniteSets

CONSTANTS
  Producers,   \* the threads that call try_emplace
  Consumers,   \* the threads that call try_pop (may overlap Producers)
  Values,      \* the items
  NoValue,     \* an empty slot, an unset local
  Capacity,    \* capacity_
  Lively,      \* the threads assumed to keep running inside their calls
  MaxTickets   \* bound of the model: the number of items ever accepted

Threads == Producers \union Consumers

\* The constructor refuses capacity < 1.
ASSUME CapacityAssumption == Capacity \in Nat \ {0}
ASSUME NoValueAssumption == NoValue \notin Values
ASSUME MaxTicketsAssumption == MaxTickets \in Nat

VARIABLES
  head,      \* head_: the next ticket for an item
  tail,      \* tail_: the ticket of the oldest item
  slotTurn,  \* per slot: Slot::turn
  storage,   \* per slot: Slot::storage
  pc,        \* where each thread is
  ticket,    \* its local head or tail
  item,      \* the item it brings or has moved out
  justified  \* history: its last failed test saw a queue that was in fact
             \* full (push) or without an available item (pop)

vars == <<head, tail, slotTurn, storage, pc, ticket, item, justified>>

Slots == 0 .. (Capacity - 1)
idx(i) == i % Capacity
turn(i) == i \div Capacity

Location == {"idle", "pushTest", "pushCas", "pushReload", "construct", "publish",
             "popTest", "popCas", "popReload", "move", "vacate"}

Init ==
  /\ head = 0
  /\ tail = 0
  /\ slotTurn = [s \in Slots |-> 0]
  /\ storage = [s \in Slots |-> NoValue]
  /\ pc = [t \in Threads |-> "idle"]
  /\ ticket = [t \in Threads |-> 0]
  /\ item = [t \in Threads |-> NoValue]
  /\ justified = [t \in Threads |-> FALSE]

\* Slip: the turn is compared with the round itself.
FreeInRound(i) == slotTurn[idx(i)] = turn(i)

\* The slot of ticket i is free for it; it holds its item.
Free(i) == slotTurn[idx(i)] = turn(i) * 2
Filled(i) == slotTurn[idx(i)] = turn(i) * 2 + 1

Goto(t, l) == pc' = [pc EXCEPT ![t] = l]

\* The locals of the call go out of scope.
Leave(t) ==
  /\ Goto(t, "idle")
  /\ ticket' = [ticket EXCEPT ![t] = 0]
  /\ item' = [item EXCEPT ![t] = NoValue]
  /\ justified' = [justified EXCEPT ![t] = FALSE]

-----------------------------------------------------------------------------
(* try_emplace                                                             *)

PushLoad(t, v) ==
  /\ pc[t] = "idle"
  /\ head < MaxTickets
  /\ ticket' = [ticket EXCEPT ![t] = head]
  /\ item' = [item EXCEPT ![t] = v]
  /\ Goto(t, "pushTest")
  /\ UNCHANGED <<head, tail, slotTurn, storage, justified>>

\* Every place is taken, or the pop of the item that was in the place for
\* ticket i, one round ago, has not emptied it yet.
NoRoom(i) ==
  \/ head - tail = Capacity
  \/ \E c \in Threads : pc[c] \in {"move", "vacate"} /\ ticket[c] = i - Capacity

PushTest(t) ==
  /\ pc[t] = "pushTest"
  /\ Goto(t, IF Free(ticket[t]) THEN "pushCas" ELSE "pushReload")
  /\ justified' = [justified EXCEPT ![t] = ~Free(ticket[t]) /\ NoRoom(ticket[t])]
  /\ UNCHANGED <<head, tail, slotTurn, storage, ticket, item>>

\* Slip: a store in place of the compare-and-swap.
PushStore(t) ==
  /\ pc[t] = "pushCas"
  /\ head' = ticket[t] + 1
  /\ Goto(t, "construct")
  /\ UNCHANGED <<tail, slotTurn, storage, ticket, item, justified>>

\* compare_exchange_strong; a failed one loads head_ into the local.
PushCas(t) ==
  /\ pc[t] = "pushCas"
  /\ IF head = ticket[t]
       THEN head' = head + 1 /\ Goto(t, "construct") /\ UNCHANGED ticket
       ELSE /\ ticket' = [ticket EXCEPT ![t] = head]
            /\ Goto(t, "pushTest")
            /\ UNCHANGED head
  /\ UNCHANGED <<tail, slotTurn, storage, item, justified>>

\* Slip: waits for room, as emplace does.
PushSpins(t) ==
  /\ pc[t] = "pushReload"
  /\ ticket' = [ticket EXCEPT ![t] = head]
  /\ Goto(t, "pushTest")
  /\ UNCHANGED <<head, tail, slotTurn, storage, item, justified>>

\* Returns false only if head_ has not moved since it was last loaded.
PushReload(t) ==
  /\ pc[t] = "pushReload"
  /\ IF head = ticket[t]
       THEN Leave(t)
       ELSE /\ ticket' = [ticket EXCEPT ![t] = head]
            /\ Goto(t, "pushTest")
            /\ UNCHANGED <<item, justified>>
  /\ UNCHANGED <<head, tail, slotTurn, storage>>

Construct(t) ==
  /\ pc[t] = "construct"
  /\ storage' = [storage EXCEPT ![idx(ticket[t])] = item[t]]
  /\ Goto(t, "publish")
  /\ UNCHANGED <<head, tail, slotTurn, ticket, item, justified>>

Publish(t) ==
  /\ pc[t] = "publish"
  /\ slotTurn' = [slotTurn EXCEPT ![idx(ticket[t])] = turn(ticket[t]) * 2 + 1]
  /\ Leave(t)
  /\ UNCHANGED <<head, tail, storage>>

-----------------------------------------------------------------------------
(* try_pop                                                                 *)

\* Slip: takes tail_ for the last ticket popped.
PopLoadPrevious(t) ==
  /\ pc[t] = "idle"
  /\ ticket' = [ticket EXCEPT ![t] = tail - 1]
  /\ Goto(t, "popTest")
  /\ UNCHANGED <<head, tail, slotTurn, storage, item, justified>>

PopLoad(t) ==
  /\ pc[t] = "idle"
  /\ ticket' = [ticket EXCEPT ![t] = tail]
  /\ Goto(t, "popTest")
  /\ UNCHANGED <<head, tail, slotTurn, storage, item, justified>>

\* There is no item, or the push of the oldest one has not published it yet.
NothingAvailable ==
  \/ head = tail
  \/ \E p \in Threads : pc[p] \in {"construct", "publish"} /\ ticket[p] = tail

\* Slip: the turn of the slot is not tested.
PopUntested(t) ==
  /\ pc[t] = "popTest"
  /\ Goto(t, "popCas")
  /\ UNCHANGED <<head, tail, slotTurn, storage, ticket, item, justified>>

PopTest(t) ==
  /\ pc[t] = "popTest"
  /\ Goto(t, IF Filled(ticket[t]) THEN "popCas" ELSE "popReload")
  /\ justified' = [justified EXCEPT ![t] = ~Filled(ticket[t]) /\ NothingAvailable]
  /\ UNCHANGED <<head, tail, slotTurn, storage, ticket, item>>

PopCas(t) ==
  /\ pc[t] = "popCas"
  /\ IF tail = ticket[t]
       THEN tail' = tail + 1 /\ Goto(t, "move") /\ UNCHANGED ticket
       ELSE /\ ticket' = [ticket EXCEPT ![t] = tail]
            /\ Goto(t, "popTest")
            /\ UNCHANGED tail
  /\ UNCHANGED <<head, slotTurn, storage, item, justified>>

PopReload(t) ==
  /\ pc[t] = "popReload"
  /\ IF tail = ticket[t]
       THEN Leave(t)
       ELSE /\ ticket' = [ticket EXCEPT ![t] = tail]
            /\ Goto(t, "popTest")
            /\ UNCHANGED <<item, justified>>
  /\ UNCHANGED <<head, tail, slotTurn, storage>>

\* Slip: the moved-from item is not destroyed.
MoveOnly(t) ==
  /\ pc[t] = "move"
  /\ item' = [item EXCEPT ![t] = storage[idx(ticket[t])]]
  /\ Goto(t, "vacate")
  /\ UNCHANGED <<head, tail, slotTurn, storage, ticket, justified>>

\* v = slot.move(); slot.destroy().
Move(t) ==
  /\ pc[t] = "move"
  /\ item' = [item EXCEPT ![t] = storage[idx(ticket[t])]]
  /\ storage' = [storage EXCEPT ![idx(ticket[t])] = NoValue]
  /\ Goto(t, "vacate")
  /\ UNCHANGED <<head, tail, slotTurn, ticket, justified>>

\* Gives the slot to the next round.
Vacate(t) ==
  /\ pc[t] = "vacate"
  /\ slotTurn' = [slotTurn EXCEPT ![idx(ticket[t])] = turn(ticket[t]) * 2 + 2]
  /\ Leave(t)
  /\ UNCHANGED <<head, tail, storage>>

-----------------------------------------------------------------------------
Step(t) ==
  \/ PushTest(t) \/ PushCas(t) \/ PushReload(t) \/ Construct(t) \/ Publish(t)
  \/ PopTest(t) \/ PopCas(t) \/ PopReload(t) \/ Move(t) \/ Vacate(t)

Next ==
  \/ \E t \in Producers, v \in Values : PushLoad(t, v)
  \/ \E t \in Consumers : PopLoad(t)
  \/ \E t \in Threads : Step(t)

Spec == Init /\ [][Next]_vars

\* The lively threads keep running inside their calls; the others may be
\* suspended anywhere, for good.
FairSpec == Spec /\ \A t \in Lively : WF_vars(Step(t))

-----------------------------------------------------------------------------
(* Properties.                                                             *)

TypeOK ==
  /\ head \in Nat
  /\ tail \in Nat
  /\ slotTurn \in [Slots -> Nat]
  /\ storage \in [Slots -> Values \union {NoValue}]
  /\ pc \in [Threads -> Location]
  /\ ticket \in [Threads -> Nat]
  /\ item \in [Threads -> Values \union {NoValue}]
  /\ justified \in [Threads -> BOOLEAN]

Filling(t) == pc[t] \in {"construct", "publish"}
Emptying(t) == pc[t] \in {"move", "vacate"}
Owns(t) == Filling(t) \/ Emptying(t)

\* No data race on a slot's storage: two threads that are past their
\* compare-and-swap never work on the same slot, whether they fill or empty it.
SlotExclusive ==
  \A t, u \in Threads :
    t # u /\ Owns(t) /\ Owns(u) => idx(ticket[t]) # idx(ticket[u])

\* construct() never overwrites an item that is still in the slot, and move()
\* never takes from a slot in which no item has been constructed.
StorageLifetime ==
  \A t \in Threads :
    /\ pc[t] = "construct" => storage[idx(ticket[t])] = NoValue
    /\ pc[t] = "move" => storage[idx(ticket[t])] # NoValue

\* A call returns false for a reason.  For a push there was an instant, between
\* its first load and its return, at which every place was taken or the next
\* place in the ring was still being emptied (pops may end out of order, and
\* then another place is free); for a pop one at which the oldest item was not
\* available.  The test that fails and the load that confirms the ticket are
\* separate steps, with other threads running in between.
FailureJustified ==
  \A t \in Threads :
    \/ pc[t] = "pushReload" /\ head = ticket[t]
    \/ pc[t] = "popReload" /\ tail = ticket[t]
    => justified[t]

\* The accepted items, the oldest first.  An item that is not published is
\* still in the hands of the thread that pushes it.
Fifo ==
  [n \in 1 .. (head - tail) |->
    LET i == tail + n - 1
    IN  IF Filled(i)
          THEN [val |-> storage[idx(i)], ready |-> TRUE]
          ELSE [val |-> item[CHOOSE t \in Threads : Filling(t) /\ ticket[t] = i],
                ready |-> FALSE]]

Holding ==
  [t \in Threads |->
    CASE pc[t] = "move"   -> storage[idx(ticket[t])]
      [] pc[t] = "vacate" -> item[t]
      [] OTHER            -> NoValue]

Queue == INSTANCE BoundedFifo WITH fifo <- Fifo, holding <- Holding

\* The queue is a bounded FIFO: no item is lost, duplicated, reordered or
\* handed out before it is constructed, and no more than Capacity are held.
ImplementsBoundedFifo == Queue!Spec

\* No operation waits for another thread: a call of a lively thread returns
\* even if the others are suspended in the middle of theirs.
LivelyReturn == \A t \in Lively : []<>(pc[t] = "idle")

=============================================================================
