-------------------------- MODULE MPMCQueueProofs ---------------------------
(***************************************************************************)
(* Type correctness, exclusive access to the slots, the lifetime of their  *)
(* items, the reasons for which a call fails, and the refinement of        *)
(* BoundedFifo, proved for any number of threads, any capacity and any     *)
(* number of items.                                                        *)
(***************************************************************************)
EXTENDS MPMCQueue, SequenceTheorems, FiniteSetTheorems, TLAPS

-----------------------------------------------------------------------------
(* The inductive invariant.                                                *)

Pushing(t) == pc[t] \in {"pushTest", "pushCas", "pushReload"}
Popping(t) == pc[t] \in {"popTest", "popCas", "popReload"}

\* A thread that has not won its ticket yet has seen one already handed out,
\* or the next one.
TicketsSeen ==
  \A t \in Threads :
    /\ Pushing(t) => ticket[t] <= head
    /\ Popping(t) => ticket[t] <= tail

\* What a thread's test found still holds when its compare-and-swap wins.
TestStillHolds ==
  \A t \in Threads :
    /\ pc[t] = "pushCas" /\ head = ticket[t] => Free(ticket[t])
    /\ pc[t] = "popCas" /\ tail = ticket[t] => Filled(ticket[t])

\* The slot of a ticket that was won stays as it was found until its owner
\* publishes or vacates it.
TicketsWon ==
  \A t \in Threads :
    /\ Filling(t) => ticket[t] < head /\ Free(ticket[t])
    /\ Emptying(t) => ticket[t] < tail /\ Filled(ticket[t])

\* No ticket is won twice.
TicketsDistinct ==
  \A t, u \in Threads :
    /\ t # u /\ Filling(t) /\ Filling(u) => ticket[t] # ticket[u]
    /\ t # u /\ Emptying(t) /\ Emptying(u) => ticket[t] # ticket[u]

Exclusion == TypeOK /\ TicketsSeen /\ TestStillHolds /\ TicketsWon /\ TicketsDistinct

\* A slot holds an item when its turn is odd, up to the owner that has
\* already constructed the item or moved it out.
StorageFollowsTurn ==
  \A s \in Slots :
    \/ slotTurn[s] % 2 = 0 /\ storage[s] = NoValue
    \/ slotTurn[s] % 2 = 1 /\ storage[s] # NoValue
    \/ \E t \in Threads : pc[t] \in {"publish", "vacate"} /\ idx(ticket[t]) = s

\* The owners' view of the same.
OwnersStorage ==
  \A t \in Threads :
    /\ pc[t] \in {"pushTest", "pushCas", "pushReload", "construct", "publish"}
         => item[t] # NoValue
    /\ pc[t] = "publish" => storage[idx(ticket[t])] # NoValue
    /\ pc[t] = "vacate" => storage[idx(ticket[t])] = NoValue

-----------------------------------------------------------------------------
(* Tickets and slots.                                                      *)

\* Every ticket is served by a slot, and by its slot in one round only.
LEMMA TicketSlot ==
  /\ \A i \in Nat : idx(i) \in Slots /\ turn(i) \in Nat
  /\ \A i, j \in Nat : idx(i) = idx(j) /\ turn(i) = turn(j) => i = j
<1>1. \A i \in Nat : idx(i) \in Slots /\ turn(i) \in Nat
  BY CapacityAssumption DEF idx, turn, Slots
<1>2. \A i \in Nat : i = Capacity * turn(i) + idx(i)
  BY CapacityAssumption DEF idx, turn
<1> QED
  BY <1>1, <1>2

\* A slot is free for one ticket at most, or filled for one at most, and
\* never both.
LEMMA SlotServesOne ==
  ASSUME NEW i \in Nat, NEW j \in Nat, idx(i) = idx(j)
  PROVE  /\ Free(i) /\ Free(j) => i = j
         /\ Filled(i) /\ Filled(j) => i = j
         /\ ~(Free(i) /\ Filled(j))
<1>1. turn(i) \in Nat /\ turn(j) \in Nat /\ (turn(i) = turn(j) => i = j)
  BY TicketSlot
<1> QED
  BY <1>1 DEF Free, Filled

-----------------------------------------------------------------------------
(* Exclusion is inductive.                                                 *)

LEMMA ExclusionInit == Init => Exclusion
<1> SUFFICES ASSUME Init PROVE Exclusion
  OBVIOUS
<1>1. TypeOK
  BY CapacityAssumption DEF Init, TypeOK, Location, Slots
<1> QED
  BY <1>1 DEF Init, Exclusion, TicketsSeen, TestStillHolds, TicketsWon,
              TicketsDistinct, Pushing, Popping, Filling, Emptying

LEMMA TypeOKStep == TypeOK /\ [Next]_vars => TypeOK'
<1> SUFFICES ASSUME TypeOK, [Next]_vars PROVE TypeOK'
  OBVIOUS
<1> USE DEF TypeOK, Location
<1>1. ASSUME NEW t \in Producers, NEW v \in Values, PushLoad(t, v) PROVE TypeOK'
  BY <1>1 DEF PushLoad, Goto, Threads
<1>2. ASSUME NEW t \in Consumers, PopLoad(t) PROVE TypeOK'
  BY <1>2 DEF PopLoad, Goto, Threads
<1>3. ASSUME NEW t \in Threads, Step(t) PROVE TypeOK'
  <2>1. idx(ticket[t]) \in Slots /\ turn(ticket[t]) \in Nat
    BY TicketSlot
  <2>2. CASE PushTest(t) BY <2>2 DEF PushTest, Goto
  <2>3. CASE PushCas(t) BY <2>3 DEF PushCas, Goto
  <2>4. CASE PushReload(t)
    <3>1. CASE Leave(t) /\ UNCHANGED <<head, tail, slotTurn, storage>>
      BY <3>1 DEF Goto, Leave
    <3>2. CASE head # ticket[t] BY <2>4, <3>2 DEF PushReload, Goto
    <3> QED BY <2>4, <3>1, <3>2 DEF PushReload
  <2>5. CASE Construct(t) BY <2>1, <2>5 DEF Construct, Goto
  <2>6. CASE Publish(t) BY <2>1, <2>6 DEF Publish, Goto, Leave
  <2>7. CASE PopTest(t) BY <2>7 DEF PopTest, Goto
  <2>8. CASE PopCas(t) BY <2>8 DEF PopCas, Goto
  <2>9. CASE PopReload(t)
    <3>1. CASE Leave(t) /\ UNCHANGED <<head, tail, slotTurn, storage>>
      BY <3>1 DEF Goto, Leave
    <3>2. CASE tail # ticket[t] BY <2>9, <3>2 DEF PopReload, Goto
    <3> QED BY <2>9, <3>1, <3>2 DEF PopReload
  <2>10. CASE Move(t) BY <2>1, <2>10 DEF Move, Goto
  <2>11. CASE Vacate(t) BY <2>1, <2>11 DEF Vacate, Goto, Leave
  <2> QED
    BY <1>3, <2>2, <2>3, <2>4, <2>5, <2>6, <2>7, <2>8, <2>9, <2>10, <2>11 DEF Step
<1>4. CASE UNCHANGED vars
  BY <1>4 DEF vars
<1> QED
  BY <1>1, <1>2, <1>3, <1>4 DEF Next

\* The steps that only move thread t about, the counters and turns untouched.
LEMMA QuietStep ==
  ASSUME Exclusion, TypeOK', NEW t \in Threads,
         UNCHANGED <<head, tail, slotTurn>>,
         \A u \in Threads \ {t} : pc'[u] = pc[u] /\ ticket'[u] = ticket[u],
         Pushing(t)' => ticket'[t] <= head,
         Popping(t)' => ticket'[t] <= tail,
         pc'[t] = "pushCas" => Free(ticket'[t]),
         pc'[t] = "popCas" => Filled(ticket'[t]),
         Filling(t)' => Filling(t) /\ ticket'[t] = ticket[t],
         Emptying(t)' => Emptying(t) /\ ticket'[t] = ticket[t]
  PROVE  Exclusion'
<1>1. TicketsSeen'
  BY DEF Exclusion, TicketsSeen, Pushing, Popping
<1>2. TestStillHolds'
  BY DEF Exclusion, TestStillHolds, Free, Filled
<1>3. TicketsWon'
  BY DEF Exclusion, TicketsWon, Filling, Emptying, Free, Filled
<1>4. TicketsDistinct'
  BY DEF Exclusion, TicketsDistinct, Filling, Emptying
<1> QED
  BY <1>1, <1>2, <1>3, <1>4 DEF Exclusion

\* Thread t hands a slot it owns on, to the readers or to the next round.
LEMMA HandOver ==
  ASSUME Exclusion, TypeOK', NEW t \in Threads, Owns(t),
         UNCHANGED <<head, tail>>,
         \A u \in Threads \ {t} : pc'[u] = pc[u] /\ ticket'[u] = ticket[u],
         \A s \in Slots : s # idx(ticket[t]) => slotTurn'[s] = slotTurn[s],
         pc'[t] = "idle"
  PROVE  Exclusion'
<1> USE DEF TypeOK
<1>1. ASSUME NEW i \in Nat, idx(i) # idx(ticket[t])
      PROVE  (Free(i)' <=> Free(i)) /\ (Filled(i)' <=> Filled(i))
  BY <1>1, TicketSlot DEF Free, Filled, Exclusion
<1>2. ASSUME NEW u \in Threads \ {t}, Owns(u)
      PROVE  idx(ticket[u]) # idx(ticket[t])
  BY <1>2, SlotServesOne DEF Exclusion, TicketsWon, TicketsDistinct, Owns, Filling, Emptying
<1>3. ASSUME NEW u \in Threads \ {t},
             \/ pc[u] = "pushCas" /\ head = ticket[u]
             \/ pc[u] = "popCas" /\ tail = ticket[u]
      PROVE  idx(ticket[u]) # idx(ticket[t])
  BY <1>3, SlotServesOne DEF Exclusion, TicketsWon, TestStillHolds, Owns
<1>4. TicketsSeen'
  BY DEF Exclusion, TicketsSeen, Pushing, Popping
<1>5. TestStillHolds'
  BY <1>1, <1>3 DEF Exclusion, TestStillHolds
<1>6. TicketsWon'
  BY <1>1, <1>2 DEF Exclusion, TicketsWon, Owns, Filling, Emptying
<1>7. TicketsDistinct'
  BY DEF Exclusion, TicketsDistinct, Filling, Emptying
<1> QED
  BY <1>4, <1>5, <1>6, <1>7 DEF Exclusion

LEMMA ExclusionStep == Exclusion /\ [Next]_vars => Exclusion'
<1> SUFFICES ASSUME Exclusion, [Next]_vars PROVE Exclusion'
  OBVIOUS
<1>1. TypeOK'
  BY TypeOKStep DEF Exclusion
<1> USE <1>1 DEF TypeOK, Goto, Leave, Pushing, Popping, Filling, Emptying
<1>2. ASSUME NEW t \in Producers, NEW v \in Values, PushLoad(t, v) PROVE Exclusion'
  BY <1>2, QuietStep DEF PushLoad, Threads, Exclusion
<1>3. ASSUME NEW t \in Consumers, PopLoad(t) PROVE Exclusion'
  BY <1>3, QuietStep DEF PopLoad, Threads, Exclusion
<1>4. ASSUME NEW t \in Threads, Step(t) PROVE Exclusion'
  <2>1. CASE PushTest(t) BY <2>1, QuietStep DEF PushTest, Exclusion, TicketsSeen
  <2>2. CASE PushCas(t) 
    <3>1. CASE head = ticket[t] 
      <4>1. head' = head + 1 /\ pc' = [pc EXCEPT ![t] = "construct"]
            /\ UNCHANGED <<tail, slotTurn, ticket>>
        BY <2>2, <3>1 DEF PushCas
      <4>2. Free(ticket[t])
        BY <2>2, <3>1 DEF PushCas, Exclusion, TestStillHolds
      <4>3. TicketsSeen'
        BY <4>1 DEF Exclusion, TicketsSeen
      <4>4. TestStillHolds'
        BY <4>1 DEF Exclusion, TicketsSeen, TestStillHolds, Free, Filled
      <4>5. TicketsWon'
        BY <3>1, <4>1, <4>2 DEF Exclusion, TicketsWon, Free, Filled
      <4>6. TicketsDistinct'
        BY <3>1, <4>1 DEF Exclusion, TicketsWon, TicketsDistinct
      <4> QED
        BY <4>3, <4>4, <4>5, <4>6 DEF Exclusion
    <3>2. CASE head # ticket[t]
      BY <2>2, <3>2, QuietStep DEF PushCas, Exclusion
    <3> QED BY <3>1, <3>2
  <2>3. CASE PushReload(t) BY <2>3, QuietStep DEF PushReload, Exclusion
  <2>4. CASE Construct(t) BY <2>4, QuietStep DEF Construct, Exclusion
  <2>5. CASE Publish(t) BY <2>5, HandOver, TicketSlot DEF Publish, Owns, Exclusion
  <2>6. CASE PopTest(t) BY <2>6, QuietStep DEF PopTest, Exclusion, TicketsSeen
  <2>7. CASE PopCas(t)
    <3>1. CASE tail = ticket[t] 
      <4>1. tail' = tail + 1 /\ pc' = [pc EXCEPT ![t] = "move"]
            /\ UNCHANGED <<head, slotTurn, ticket>>
        BY <2>7, <3>1 DEF PopCas
      <4>2. Filled(ticket[t])
        BY <2>7, <3>1 DEF PopCas, Exclusion, TestStillHolds
      <4>3. TicketsSeen'
        BY <4>1 DEF Exclusion, TicketsSeen
      <4>4. TestStillHolds'
        BY <4>1 DEF Exclusion, TicketsSeen, TestStillHolds, Free, Filled
      <4>5. TicketsWon'
        BY <3>1, <4>1, <4>2 DEF Exclusion, TicketsWon, Free, Filled
      <4>6. TicketsDistinct'
        BY <3>1, <4>1 DEF Exclusion, TicketsWon, TicketsDistinct
      <4> QED
        BY <4>3, <4>4, <4>5, <4>6 DEF Exclusion
    <3>2. CASE tail # ticket[t]
      BY <2>7, <3>2, QuietStep DEF PopCas, Exclusion
    <3> QED BY <3>1, <3>2
  <2>8. CASE PopReload(t) BY <2>8, QuietStep DEF PopReload, Exclusion
  <2>9. CASE Move(t) BY <2>9, QuietStep DEF Move, Exclusion
  <2>10. CASE Vacate(t) BY <2>10, HandOver, TicketSlot DEF Vacate, Owns, Exclusion
  <2> QED
    BY <1>4, <2>1, <2>2, <2>3, <2>4, <2>5, <2>6, <2>7, <2>8, <2>9, <2>10 DEF Step
<1>5. CASE UNCHANGED vars
  BY <1>5 DEF vars, Exclusion, TicketsSeen, TestStillHolds, TicketsWon,
              TicketsDistinct, Free, Filled
<1> QED
  BY <1>2, <1>3, <1>4, <1>5 DEF Next

-----------------------------------------------------------------------------
(* The theorems.                                                           *)

LEMMA ExclusionInvariant == Spec => []Exclusion
<1> QED
  BY ExclusionInit, ExclusionStep, PTL DEF Spec

\* The counters, turns, items and locals keep their types.
THEOREM TypeCorrect == Spec => []TypeOK
<1>1. Exclusion => TypeOK
  BY DEF Exclusion
<1> QED
  BY <1>1, ExclusionInvariant, PTL

LEMMA ExclusionIsExclusive == Exclusion => SlotExclusive
<1> SUFFICES ASSUME Exclusion,
                    NEW t \in Threads, NEW u \in Threads, t # u, Owns(t), Owns(u)
             PROVE  idx(ticket[t]) # idx(ticket[u])
  BY DEF SlotExclusive
<1>1. ticket[t] \in Nat /\ ticket[u] \in Nat
  BY DEF Exclusion, TypeOK
<1> QED
  BY <1>1, SlotServesOne DEF Exclusion, TicketsWon, TicketsDistinct, Owns

\* No two threads are ever between their won compare-and-swap and the store of
\* the turn (MPMCQueue.h, try_emplace and try_pop) of the same slot.
THEOREM SlotsAreExclusive == Spec => []SlotExclusive
<1> QED
  BY ExclusionIsExclusive, ExclusionInvariant, PTL

-----------------------------------------------------------------------------
(* The lifetime of the items.                                              *)

Lifetime == StorageFollowsTurn /\ OwnersStorage

LEMMA TurnParity ==
  \A i \in Nat :
    /\ Free(i) => slotTurn[idx(i)] % 2 = 0
    /\ Filled(i) => slotTurn[idx(i)] % 2 = 1
    /\ (turn(i) * 2 + 1) % 2 = 1
    /\ (turn(i) * 2 + 2) % 2 = 0
<1> SUFFICES ASSUME NEW i \in Nat
             PROVE  /\ Free(i) => slotTurn[idx(i)] % 2 = 0
                    /\ Filled(i) => slotTurn[idx(i)] % 2 = 1
                    /\ (turn(i) * 2 + 1) % 2 = 1
                    /\ (turn(i) * 2 + 2) % 2 = 0
  OBVIOUS
<1>1. turn(i) \in Nat
  BY TicketSlot
<1> QED
  BY <1>1 DEF Free, Filled

\* construct() and move() find the storage they expect.
LEMMA LifetimeHolds == Exclusion /\ Lifetime => StorageLifetime
<1> SUFFICES ASSUME Exclusion, Lifetime, NEW t \in Threads
             PROVE  /\ pc[t] = "construct" => storage[idx(ticket[t])] = NoValue
                    /\ pc[t] = "move" => storage[idx(ticket[t])] # NoValue
  BY DEF StorageLifetime
<1>1. ticket[t] \in Nat /\ idx(ticket[t]) \in Slots
  BY TicketSlot DEF Exclusion, TypeOK
<1>2. ASSUME pc[t] \in {"construct", "move"}, NEW u \in Threads,
             pc[u] \in {"publish", "vacate"}
      PROVE  idx(ticket[u]) # idx(ticket[t])
  BY <1>2, ExclusionIsExclusive DEF SlotExclusive, Owns, Filling, Emptying
<1>3. CASE pc[t] = "construct"
  BY <1>1, <1>2, <1>3, TurnParity
  DEF Lifetime, StorageFollowsTurn, Exclusion, TicketsWon, Filling
<1>4. CASE pc[t] = "move"
  BY <1>1, <1>2, <1>4, TurnParity
  DEF Lifetime, StorageFollowsTurn, Exclusion, TicketsWon, Emptying
<1> QED
  BY <1>3, <1>4

LEMMA LifetimeInit == Init => Lifetime
  BY DEF Init, Lifetime, StorageFollowsTurn, OwnersStorage

\* A step of thread t that touches no slot and does not become or cease to be
\* the owner whose slot is out of step with its turn.
LEMMA LifetimeAway ==
  ASSUME Exclusion, Lifetime, NEW t \in Threads, UNCHANGED <<slotTurn, storage>>,
         \A u \in Threads \ {t} :
           pc'[u] = pc[u] /\ ticket'[u] = ticket[u] /\ item'[u] = item[u],
         pc[t] \notin {"publish", "vacate"}, pc'[t] \notin {"publish", "vacate"},
         pc'[t] \in {"pushTest", "pushCas", "pushReload", "construct"}
           => item'[t] # NoValue
  PROVE  Lifetime'
<1>1. StorageFollowsTurn'
  BY DEF Lifetime, StorageFollowsTurn
<1>2. OwnersStorage'
  BY DEF Lifetime, OwnersStorage
<1> QED
  BY <1>1, <1>2 DEF Lifetime

\* A step of thread t on the slot it owns, which makes its turn and its
\* storage agree again, or marks it as out of step.
LEMMA LifetimeOwner ==
  ASSUME Exclusion, Lifetime, NEW t \in Threads, Owns(t),
         \A s \in Slots \ {idx(ticket[t])} :
           slotTurn'[s] = slotTurn[s] /\ storage'[s] = storage[s],
         \A u \in Threads \ {t} :
           pc'[u] = pc[u] /\ ticket'[u] = ticket[u] /\ item'[u] = item[u],
         \/ pc'[t] = "idle" /\ LET s == idx(ticket[t]) IN
              \/ slotTurn'[s] % 2 = 0 /\ storage'[s] = NoValue
              \/ slotTurn'[s] % 2 = 1 /\ storage'[s] # NoValue
         \/ /\ pc'[t] = "publish"
            /\ ticket'[t] = ticket[t]
            /\ storage'[idx(ticket[t])] # NoValue /\ item'[t] # NoValue
         \/ /\ pc'[t] = "vacate"
            /\ ticket'[t] = ticket[t]
            /\ storage'[idx(ticket[t])] = NoValue
  PROVE  Lifetime'
<1>1. \A u \in Threads : ticket[u] \in Nat /\ idx(ticket[u]) \in Slots
  BY TicketSlot DEF Exclusion, TypeOK
<1>2. ASSUME NEW u \in Threads \ {t}, pc[u] \in {"publish", "vacate"}
      PROVE  idx(ticket[u]) # idx(ticket[t])
  BY <1>2, ExclusionIsExclusive DEF SlotExclusive, Owns, Filling, Emptying
<1>3. StorageFollowsTurn'
  <2> SUFFICES ASSUME NEW s \in Slots
               PROVE  \/ slotTurn'[s] % 2 = 0 /\ storage'[s] = NoValue
                      \/ slotTurn'[s] % 2 = 1 /\ storage'[s] # NoValue
                      \/ \E u \in Threads :
                           pc'[u] \in {"publish", "vacate"} /\ idx(ticket'[u]) = s
    BY DEF StorageFollowsTurn, idx
  <2>1. CASE s = idx(ticket[t])
    BY <2>1
  <2>2. CASE s # idx(ticket[t])
    BY <2>2 DEF Lifetime, StorageFollowsTurn
  <2> QED
    BY <2>1, <2>2
<1>4. OwnersStorage'
  BY <1>1, <1>2 DEF Lifetime, OwnersStorage, idx
<1> QED
  BY <1>3, <1>4 DEF Lifetime

LEMMA LifetimeStep == Exclusion /\ Lifetime /\ [Next]_vars => Lifetime'
<1> SUFFICES ASSUME Exclusion, Lifetime, [Next]_vars PROVE Lifetime'
  OBVIOUS
<1> USE DEF Goto, Leave, Filling, Emptying, Owns
<1>1. TypeOK
  BY DEF Exclusion
<1>2. ASSUME NEW t \in Producers, NEW v \in Values, PushLoad(t, v) PROVE Lifetime'
  BY <1>1, <1>2, LifetimeAway, NoValueAssumption DEF PushLoad, Threads, TypeOK
<1>3. ASSUME NEW t \in Consumers, PopLoad(t) PROVE Lifetime'
  BY <1>1, <1>3, LifetimeAway DEF PopLoad, Threads, TypeOK
<1>4. ASSUME NEW t \in Threads, Step(t) PROVE Lifetime'
  <2>1. ticket[t] \in Nat /\ idx(ticket[t]) \in Slots
    BY <1>1, TicketSlot DEF TypeOK
  <2>2. pc[t] \in {"pushTest", "pushCas", "pushReload", "construct", "publish"}
          => item[t] # NoValue
    BY DEF Lifetime, OwnersStorage
  <2>3. CASE PushTest(t) BY <1>1, <2>2, <2>3, LifetimeAway DEF PushTest, TypeOK
  <2>4. CASE PushCas(t) BY <1>1, <2>2, <2>4, LifetimeAway DEF PushCas, TypeOK
  <2>5. CASE PushReload(t) BY <1>1, <2>2, <2>5, LifetimeAway DEF PushReload, TypeOK
  <2>6. CASE Construct(t)
    BY <1>1, <2>1, <2>2, <2>6, LifetimeOwner DEF Construct, TypeOK
  <2>7. CASE Publish(t)
    <3>1. storage[idx(ticket[t])] # NoValue
      BY <2>7 DEF Publish, Lifetime, OwnersStorage
    <3>2. slotTurn'[idx(ticket[t])] % 2 = 1
      BY <1>1, <2>1, <2>7, TurnParity DEF Publish, TypeOK
    <3> QED
      BY <1>1, <2>1, <2>7, <3>1, <3>2, LifetimeOwner DEF Publish, TypeOK
  <2>8. CASE PopTest(t) BY <1>1, <2>8, LifetimeAway DEF PopTest, TypeOK
  <2>9. CASE PopCas(t) BY <1>1, <2>9, LifetimeAway DEF PopCas, TypeOK
  <2>10. CASE PopReload(t) BY <1>1, <2>10, LifetimeAway DEF PopReload, TypeOK
  <2>11. CASE Move(t)
    BY <1>1, <2>1, <2>11, LifetimeOwner DEF Move, TypeOK
  <2>12. CASE Vacate(t)
    <3>1. storage[idx(ticket[t])] = NoValue
      BY <2>12 DEF Vacate, Lifetime, OwnersStorage
    <3>2. slotTurn'[idx(ticket[t])] % 2 = 0
      BY <1>1, <2>1, <2>12, TurnParity DEF Vacate, TypeOK
    <3> QED
      BY <1>1, <2>1, <2>12, <3>1, <3>2, LifetimeOwner DEF Vacate, TypeOK
  <2> QED
    BY <1>4, <2>3, <2>4, <2>5, <2>6, <2>7, <2>8, <2>9, <2>10, <2>11, <2>12 DEF Step
<1>5. CASE UNCHANGED vars
  BY <1>5 DEF vars, Lifetime, StorageFollowsTurn, OwnersStorage
<1> QED
  BY <1>2, <1>3, <1>4, <1>5 DEF Next

\* No item is overwritten in its slot and none is read from a slot that holds
\* none (Slot::construct, Slot::move and Slot::destroy).
THEOREM StorageIsAlive == Spec => []StorageLifetime
<1> QED
  BY ExclusionInvariant, LifetimeInit, LifetimeStep, LifetimeHolds, PTL DEF Spec

-----------------------------------------------------------------------------
(* Why a call fails.                                                       *)

\* No more than Capacity tickets are out, and the turns of the slots tell
\* which: a slot has reached the round of each ticket below head, has been
\* filled for each one below tail, and is not ahead of any other.
Counted ==
  /\ tail <= head /\ head <= tail + Capacity
  /\ \A i \in Nat :
       /\ i < head => slotTurn[idx(i)] >= turn(i) * 2
       /\ i < tail => slotTurn[idx(i)] >= turn(i) * 2 + 1
       /\ i >= head => slotTurn[idx(i)] <= turn(i) * 2
       /\ i >= tail => slotTurn[idx(i)] <= turn(i) * 2 + 1

\* A slot that is free for a ticket already handed out is being filled for it;
\* one that still holds the item of a popped ticket is being emptied.
Attended ==
  \A i \in Nat :
    /\ Free(i) => i >= head \/ \E t \in Threads : Filling(t) /\ ticket[t] = i
    /\ Filled(i) => i >= tail \/ \E t \in Threads : Emptying(t) /\ ticket[t] = i

\* What a failed test has seen is remembered, until the ticket is out of date.
TestRemembered ==
  \A t \in Threads :
    /\ pc[t] = "pushReload" /\ head = ticket[t] => justified[t]
    /\ pc[t] = "popReload" /\ tail = ticket[t] => justified[t]

Accounts == Counted /\ Attended

\* A slot serves its tickets in turn, one ticket every Capacity.
LEMMA Rounds ==
  /\ \A i, j \in Nat : idx(i) = idx(j) /\ i < j => turn(i) < turn(j)
  /\ \A i \in Nat : i < Capacity => turn(i) = 0
  /\ \A i \in Nat : i >= Capacity =>
       /\ i - Capacity \in Nat
       /\ idx(i - Capacity) = idx(i) /\ turn(i - Capacity) = turn(i) - 1
<1>1. \A i \in Nat : /\ i = Capacity * turn(i) + idx(i)
                     /\ turn(i) \in Nat /\ idx(i) \in 0 .. (Capacity - 1)
  BY CapacityAssumption DEF idx, turn
<1>2. /\ \A p, q \in Nat : p <= q => Capacity * p <= Capacity * q
      /\ \A p \in Nat : Capacity * (p + 1) = Capacity * p + Capacity /\ Capacity * p \in Nat
  BY CapacityAssumption
<1>3. ASSUME NEW i \in Nat, NEW j \in Nat, idx(i) = idx(j), i < j PROVE turn(i) < turn(j)
  <2>1. turn(j) <= turn(i) => Capacity * turn(j) <= Capacity * turn(i)
    BY <1>1, <1>2
  <2>2. Capacity * turn(j) \in Int /\ Capacity * turn(i) \in Int
    BY <1>1, CapacityAssumption
  <2> QED
    BY <1>1, <1>3, <2>1, <2>2
<1>4. ASSUME NEW i \in Nat, i < Capacity PROVE turn(i) = 0
  BY <1>4, CapacityAssumption DEF turn
<1>5. ASSUME NEW i \in Nat, i >= Capacity
      PROVE  /\ i - Capacity \in Nat
             /\ idx(i - Capacity) = idx(i) /\ turn(i - Capacity) = turn(i) - 1
  <2>1. i - Capacity \in Nat
    BY <1>5, CapacityAssumption
  <2> DEFINE q == turn(i - Capacity)
             r == idx(i - Capacity)
  <2>2. i = Capacity * (q + 1) + r /\ q \in Nat /\ r \in 0 .. (Capacity - 1)
    <3>1. i - Capacity = Capacity * q + r
      BY <1>1, <2>1
    <3>2. q \in Nat /\ r \in 0 .. (Capacity - 1)
      BY <1>1, <2>1
    <3> HIDE DEF q, r
    <3>3. Capacity * (q + 1) = Capacity * q + Capacity /\ Capacity * q \in Nat
      BY <1>2, <3>2
    <3> QED
      BY <3>1, <3>2, <3>3, CapacityAssumption
  <2>3. i = Capacity * turn(i) + idx(i) /\ turn(i) \in Nat /\ idx(i) \in 0 .. (Capacity - 1)
    BY <1>1
  <2> HIDE DEF q, r
  <2>4. /\ q + 1 < turn(i) => Capacity * (q + 1) + Capacity <= Capacity * turn(i)
        /\ turn(i) < q + 1 => Capacity * turn(i) + Capacity <= Capacity * (q + 1)
    <3>1. q + 1 < turn(i) => q + 2 <= turn(i)
      BY <2>2, <2>3
    <3>2. turn(i) < q + 1 => turn(i) + 1 <= q + 1
      BY <2>2, <2>3
    <3>3. /\ Capacity * (q + 2) = Capacity * (q + 1) + Capacity
          /\ Capacity * (turn(i) + 1) = Capacity * turn(i) + Capacity
      BY <2>2, <2>3, CapacityAssumption
    <3>4. q + 2 \in Nat /\ q + 1 \in Nat /\ turn(i) + 1 \in Nat
      BY <2>2, <2>3
    <3>5. /\ q + 2 <= turn(i) => Capacity * (q + 2) <= Capacity * turn(i)
          /\ turn(i) + 1 <= q + 1 => Capacity * (turn(i) + 1) <= Capacity * (q + 1)
      BY <1>2, <2>3, <3>4
    <3> QED
      BY <3>1, <3>2, <3>3, <3>5
  <2>5. Capacity * (q + 1) \in Nat /\ Capacity * turn(i) \in Nat
    BY <1>2, <2>2, <2>3
  <2>6. q + 1 = turn(i)
    <3> DEFINE a == Capacity * (q + 1)
               b == Capacity * turn(i)
    <3>1. /\ a \in Nat /\ b \in Nat /\ a + r = b + idx(i)
          /\ q + 1 < turn(i) => a + Capacity <= b
          /\ turn(i) < q + 1 => b + Capacity <= a
      BY <2>2, <2>3, <2>4, <2>5
    <3> HIDE DEF a, b
    <3> QED
      BY <2>2, <2>3, <3>1, CapacityAssumption
  <2>7. r = idx(i)
    BY <2>2, <2>3, <2>5, <2>6
  <2> QED
    BY <2>1, <2>2, <2>3, <2>6, <2>7 DEF q, r
<1> QED
  BY <1>3, <1>4, <1>5

LEMMA AccountsInit == Init => Accounts
<1> SUFFICES ASSUME Init PROVE Accounts
  OBVIOUS
<1>1. \A i \in Nat : slotTurn[idx(i)] = 0 /\ turn(i) \in Nat
  BY TicketSlot DEF Init
<1>2. \A i \in Nat : ~Filled(i)
  BY <1>1 DEF Filled
<1> QED
  BY <1>1, <1>2, CapacityAssumption DEF Init, Accounts, Counted, Attended

\* The steps that leave the counters, the turns and their owners alone.
LEMMA AccountsAway ==
  ASSUME Accounts, UNCHANGED <<head, tail, slotTurn>>,
         \A t \in Threads : Owns(t) =>
           /\ ticket'[t] = ticket[t]
           /\ (Filling(t) => Filling(t)') /\ (Emptying(t) => Emptying(t)')
  PROVE  Accounts'
<1>1. Counted'
  BY DEF Accounts, Counted
<1>2. \A i : (Free(i)' <=> Free(i)) /\ (Filled(i)' <=> Filled(i))
  BY DEF Free, Filled
<1>3. Attended'
  BY <1>2 DEF Accounts, Attended, Owns
<1> QED
  BY <1>1, <1>3 DEF Accounts

\* A ticket is handed out for an item only if fewer than Capacity are out.
LEMMA AccountsPush ==
  ASSUME Exclusion, Accounts, NEW t \in Threads, pc[t] = "pushCas", head = ticket[t], PushCas(t)
  PROVE  Accounts'
<1> USE DEF Exclusion, TypeOK
<1>1. /\ head' = head + 1 /\ UNCHANGED <<tail, slotTurn, ticket>>
      /\ pc' = [pc EXCEPT ![t] = "construct"]
  BY DEF PushCas, Goto
<1>2. Free(head)
  BY DEF TestStillHolds
<1>3. head < tail + Capacity
  <2> SUFFICES ASSUME head = tail + Capacity PROVE FALSE
    BY CapacityAssumption DEF Accounts, Counted
  <2>1. idx(tail) = idx(head) /\ turn(tail) = turn(head) - 1
    BY Rounds, CapacityAssumption
  <2>2. slotTurn[idx(tail)] <= turn(tail) * 2 + 1
    BY DEF Accounts, Counted
  <2> QED
    BY <1>2, <2>1, <2>2, TicketSlot DEF Free
<1>4. slotTurn[idx(head)] = turn(head) * 2
  BY <1>2 DEF Free
<1>5. \A i \in Nat : slotTurn[idx(i)] \in Nat /\ turn(i) \in Nat
  BY TicketSlot
<1>6. Counted'
  <2>1. tail' <= head' /\ head' <= tail' + Capacity
    BY <1>1, <1>3, CapacityAssumption DEF Accounts, Counted
  <2>2. \A i \in Nat : (i < head' => i < head \/ i = head) /\ (i >= head' => i >= head)
    BY <1>1
  <2> QED
    BY <1>1, <1>4, <1>5, <2>1, <2>2 DEF Accounts, Counted
<1>7. \A u \in Threads : /\ Filling(u) => Filling(u)'
                         /\ Emptying(u) => Emptying(u)'
  BY <1>1 DEF Filling, Emptying
<1>8. Filling(t)' /\ ticket'[t] = head
  BY <1>1 DEF Filling
<1>9. Attended'
  <2>1. \A i \in Nat : (Free(i)' <=> Free(i)) /\ (Filled(i)' <=> Filled(i))
    BY <1>1 DEF Free, Filled
  <2>2. \A i \in Nat : i >= head => i = head \/ i >= head'
    BY <1>1
  <2> QED
    BY <1>1, <1>7, <1>8, <2>1, <2>2 DEF Accounts, Attended
<1> QED
  BY <1>6, <1>9 DEF Accounts

\* A ticket is handed out for a pop only if it has been handed out for an item.
LEMMA AccountsPop ==
  ASSUME Exclusion, Accounts, NEW t \in Threads, pc[t] = "popCas", tail = ticket[t], PopCas(t)
  PROVE  Accounts'
<1> USE DEF Exclusion, TypeOK
<1>1. /\ tail' = tail + 1 /\ UNCHANGED <<head, slotTurn, ticket>>
      /\ pc' = [pc EXCEPT ![t] = "move"]
  BY DEF PopCas, Goto
<1>2. slotTurn[idx(tail)] = turn(tail) * 2 + 1
  BY DEF TestStillHolds, Filled
<1>3. \A i \in Nat : slotTurn[idx(i)] \in Nat /\ turn(i) \in Nat
  BY TicketSlot
<1>4. tail < head
  BY <1>2, <1>3 DEF Accounts, Counted
<1>5. Counted'
  <2>1. tail' <= head' /\ head' <= tail' + Capacity
    BY <1>1, <1>4, CapacityAssumption DEF Accounts, Counted
  <2>2. \A i \in Nat : (i < tail' => i < tail \/ i = tail) /\ (i >= tail' => i >= tail)
    BY <1>1
  <2> QED
    BY <1>1, <1>2, <1>3, <2>1, <2>2 DEF Accounts, Counted
<1>6. \A u \in Threads : /\ Filling(u) => Filling(u)'
                         /\ Emptying(u) => Emptying(u)'
  BY <1>1 DEF Filling, Emptying
<1>7. Emptying(t)' /\ ticket'[t] = tail
  BY <1>1 DEF Emptying
<1>8. Attended'
  <2>1. \A i \in Nat : (Free(i)' <=> Free(i)) /\ (Filled(i)' <=> Filled(i))
    BY <1>1 DEF Free, Filled
  <2>2. \A i \in Nat : i >= tail => i = tail \/ i >= tail'
    BY <1>1
  <2> QED
    BY <1>1, <1>6, <1>7, <2>1, <2>2 DEF Accounts, Attended
<1> QED
  BY <1>5, <1>8 DEF Accounts

\* An owner stores the next turn of its slot: what was true of the tickets of
\* other slots stays so, and the turn moves by one.
LEMMA AccountsStore ==
  ASSUME Exclusion, Accounts, NEW t \in Threads, Publish(t) \/ Vacate(t)
  PROVE  Accounts'
<1> USE DEF Exclusion, TypeOK
<1> DEFINE k == ticket[t]
           new == IF Publish(t) THEN turn(k) * 2 + 1 ELSE turn(k) * 2 + 2
<1>1. /\ k \in Nat /\ idx(k) \in Slots /\ turn(k) \in Nat
      /\ \A i \in Nat : idx(i) \in Slots /\ turn(i) \in Nat /\ slotTurn[idx(i)] \in Nat
  BY TicketSlot
<1>2. /\ slotTurn' = [slotTurn EXCEPT ![idx(k)] = new]
      /\ UNCHANGED <<head, tail>> /\ pc' = [pc EXCEPT ![t] = "idle"]
      /\ \A u \in Threads \ {t} : ticket'[u] = ticket[u]
  <2>1. CASE Publish(t)
    BY <2>1 DEF Publish, Leave, Goto
  <2>2. CASE ~Publish(t)
    BY <2>2 DEF Vacate, Leave, Goto
  <2> QED
    BY <2>1, <2>2
<1>3. \/ Publish(t) /\ Filling(t) /\ k < head /\ slotTurn[idx(k)] = turn(k) * 2
      \/ ~Publish(t) /\ Emptying(t) /\ k < tail /\ slotTurn[idx(k)] = turn(k) * 2 + 1
  BY DEF Publish, Vacate, Filling, Emptying, TicketsWon, Free, Filled
<1>4. slotTurn'[idx(k)] = new /\ new = slotTurn[idx(k)] + 1
  BY <1>1, <1>2, <1>3
<1> HIDE DEF new
<1>5. \A i \in Nat : idx(i) # idx(k) => slotTurn'[idx(i)] = slotTurn[idx(i)]
  BY <1>1, <1>2
<1>6. /\ tail <= head /\ head <= tail + Capacity
      /\ \A i \in Nat :
           /\ i < head => slotTurn[idx(i)] >= turn(i) * 2
           /\ i < tail => slotTurn[idx(i)] >= turn(i) * 2 + 1
           /\ i >= head => slotTurn[idx(i)] <= turn(i) * 2
           /\ i >= tail => slotTurn[idx(i)] <= turn(i) * 2 + 1
  BY DEF Accounts, Counted
<1>7. \A i \in Nat : idx(i) = idx(k) =>
        /\ i > k => turn(k) < turn(i)
        /\ turn(i) = turn(k) => i = k
  BY <1>1, Rounds, TicketSlot
<1>8. ASSUME NEW i \in Nat
      PROVE  /\ i < head => slotTurn'[idx(i)] >= turn(i) * 2
             /\ i < tail => slotTurn'[idx(i)] >= turn(i) * 2 + 1
             /\ i >= head => slotTurn'[idx(i)] <= turn(i) * 2
             /\ i >= tail => slotTurn'[idx(i)] <= turn(i) * 2 + 1
  <2>1. CASE idx(i) # idx(k)
    BY <1>5, <1>6, <2>1
  <2>2. CASE idx(i) = idx(k)
    <3>1. slotTurn'[idx(i)] = slotTurn[idx(i)] + 1 /\ slotTurn[idx(i)] \in Nat /\ turn(i) \in Nat
      BY <1>1, <1>4, <2>2
    <3>2. i >= head => i > k
      BY <1>1, <1>3, <1>6
    <3>3. i >= tail /\ ~Publish(t) => i > k
      BY <1>1, <1>3
    <3> QED
      BY <1>1, <1>3, <1>6, <1>7, <2>2, <3>1, <3>2, <3>3
  <2> QED
    BY <2>1, <2>2
<1>9. Counted'
  BY <1>2, <1>6, <1>8 DEF Counted
<1>10. \A u \in Threads \ {t} : /\ Filling(u) => Filling(u)'
                                /\ Emptying(u) => Emptying(u)'
  BY <1>2 DEF Filling, Emptying
<1>11. ASSUME NEW i \in Nat
       PROVE  /\ Free(i)' => i >= head \/ \E u \in Threads : Filling(u)' /\ ticket'[u] = i
              /\ Filled(i)' => i >= tail \/ \E u \in Threads : Emptying(u)' /\ ticket'[u] = i
  <2>1. CASE idx(i) # idx(k)
    <3>1. (Free(i)' <=> Free(i)) /\ (Filled(i)' <=> Filled(i)) /\ i # k
      BY <1>5, <2>1 DEF Free, Filled
    <3>2. \A u \in Threads : ticket[u] = i => u # t
      BY <3>1
    <3>3. Free(i) => i >= head \/ \E u \in Threads : Filling(u) /\ ticket[u] = i
      BY DEF Accounts, Attended
    <3>4. Filled(i) => i >= tail \/ \E u \in Threads : Emptying(u) /\ ticket[u] = i
      BY DEF Accounts, Attended
    <3> QED
      BY <1>2, <1>10, <3>1, <3>2, <3>3, <3>4
  <2>2. CASE idx(i) = idx(k)
    <3>1. slotTurn'[idx(i)] = slotTurn[idx(k)] + 1 /\ turn(i) \in Nat
      BY <1>1, <1>4, <2>2
    <3>2. Free(i)' => ~Publish(t) /\ i >= head
      <4> SUFFICES ASSUME Free(i)' PROVE ~Publish(t) /\ i >= head
        OBVIOUS
      <4>1. slotTurn[idx(k)] + 1 = turn(i) * 2
        BY <3>1 DEF Free
      <4>2. ~Publish(t)
        BY <1>1, <1>3, <3>1, <4>1
      <4> QED
        BY <1>1, <1>6, <2>2, <3>1, <4>1, <4>2
    <3>3. Filled(i)' => Publish(t) /\ i >= tail
      <4> SUFFICES ASSUME Filled(i)' PROVE Publish(t) /\ i >= tail
        OBVIOUS
      <4>1. slotTurn[idx(k)] + 1 = turn(i) * 2 + 1
        BY <3>1 DEF Filled
      <4>2. Publish(t)
        BY <1>1, <1>3, <3>1, <4>1
      <4> QED
        BY <1>1, <1>3, <1>6, <2>2, <3>1, <4>1, <4>2
    <3> QED
      BY <3>2, <3>3
  <2> QED
    BY <2>1, <2>2
<1>12. Attended'
  BY <1>2, <1>11 DEF Attended
<1> QED
  BY <1>9, <1>12 DEF Accounts

LEMMA AccountsStep == Exclusion /\ Accounts /\ [Next]_vars => Accounts'
<1> SUFFICES ASSUME Exclusion, Accounts, [Next]_vars PROVE Accounts'
  OBVIOUS
<1> USE DEF Goto, Leave, Filling, Emptying, Owns
<1>1. TypeOK
  BY DEF Exclusion
<1>2. ASSUME NEW t \in Producers, NEW v \in Values, PushLoad(t, v) PROVE Accounts'
  BY <1>1, <1>2, AccountsAway DEF PushLoad, Threads, TypeOK
<1>3. ASSUME NEW t \in Consumers, PopLoad(t) PROVE Accounts'
  BY <1>1, <1>3, AccountsAway DEF PopLoad, Threads, TypeOK
<1>4. ASSUME NEW t \in Threads, Step(t) PROVE Accounts'
  <2>1. CASE PushTest(t) BY <1>1, <2>1, AccountsAway DEF PushTest, TypeOK
  <2>2. CASE PushCas(t)
    <3>1. CASE head = ticket[t] BY <2>2, <3>1, AccountsPush DEF PushCas
    <3>2. CASE head # ticket[t] BY <1>1, <2>2, <3>2, AccountsAway DEF PushCas, TypeOK
    <3> QED BY <3>1, <3>2
  <2>3. CASE PushReload(t) BY <1>1, <2>3, AccountsAway DEF PushReload, TypeOK
  <2>4. CASE Construct(t) BY <1>1, <2>4, AccountsAway DEF Construct, TypeOK
  <2>5. CASE Publish(t) \/ Vacate(t) BY <2>5, AccountsStore
  <2>6. CASE PopTest(t) BY <1>1, <2>6, AccountsAway DEF PopTest, TypeOK
  <2>7. CASE PopCas(t)
    <3>1. CASE tail = ticket[t] BY <2>7, <3>1, AccountsPop DEF PopCas
    <3>2. CASE tail # ticket[t] BY <1>1, <2>7, <3>2, AccountsAway DEF PopCas, TypeOK
    <3> QED BY <3>1, <3>2
  <2>8. CASE PopReload(t) BY <1>1, <2>8, AccountsAway DEF PopReload, TypeOK
  <2>9. CASE Move(t) BY <1>1, <2>9, AccountsAway DEF Move, TypeOK
  <2> QED
    BY <1>4, <2>1, <2>2, <2>3, <2>4, <2>5, <2>6, <2>7, <2>8, <2>9 DEF Step
<1>5. CASE UNCHANGED vars
  BY <1>5, AccountsAway DEF vars
<1> QED
  BY <1>2, <1>3, <1>4, <1>5 DEF Next

\* A test fails on the current ticket only if there is no room for it, or
\* nothing available.
LEMMA TestFailsForAReason ==
  ASSUME Exclusion, Accounts
  PROVE  /\ ~Free(head) => NoRoom(head)
         /\ ~Filled(tail) => NothingAvailable
<1> USE DEF Exclusion, TypeOK
<1>1. /\ tail <= head /\ head <= tail + Capacity
      /\ \A i \in Nat :
           /\ i < head => slotTurn[idx(i)] >= turn(i) * 2
           /\ i < tail => slotTurn[idx(i)] >= turn(i) * 2 + 1
           /\ i >= head => slotTurn[idx(i)] <= turn(i) * 2
           /\ i >= tail => slotTurn[idx(i)] <= turn(i) * 2 + 1
  BY DEF Accounts, Counted
<1>2. \A i \in Nat : slotTurn[idx(i)] \in Nat /\ turn(i) \in Nat
  BY TicketSlot
<1>3. ASSUME ~Free(head) PROVE NoRoom(head)
  <2>1. slotTurn[idx(head)] < turn(head) * 2
    <3>1. /\ slotTurn[idx(head)] <= turn(head) * 2 /\ slotTurn[idx(head)] # turn(head) * 2
          /\ slotTurn[idx(head)] \in Nat /\ turn(head) \in Nat
      BY <1>1, <1>2, <1>3 DEF Free
    <3> QED
      BY <3>1
  <2>2. head >= Capacity
    BY <1>2, <2>1, Rounds, CapacityAssumption
  <2> DEFINE j == head - Capacity
  <2>3. j \in Nat /\ idx(j) = idx(head) /\ turn(j) = turn(head) - 1
    BY <2>2, Rounds
  <2>4. CASE j >= tail
    BY <1>1, <2>4, CapacityAssumption DEF NoRoom
  <2>5. CASE j < tail
    <3>1. Filled(j)
      <4>1. /\ slotTurn[idx(j)] >= turn(j) * 2 + 1 /\ slotTurn[idx(j)] < (turn(j) + 1) * 2
            /\ slotTurn[idx(j)] \in Nat /\ turn(j) \in Nat
        BY <1>1, <1>2, <2>1, <2>3, <2>5
      <4> HIDE DEF j
      <4> QED
        BY <4>1 DEF Filled
    <3>2. PICK t \in Threads : Emptying(t) /\ ticket[t] = j
      BY <2>3, <2>5, <3>1 DEF Accounts, Attended
    <3> QED
      BY <3>2 DEF NoRoom, Emptying
  <2> QED
    BY <2>3, <2>4, <2>5
<1>4. ASSUME ~Filled(tail) PROVE NothingAvailable
  <2>1. CASE head = tail
    BY <2>1 DEF NothingAvailable
  <2>2. CASE head # tail
    <3>1. tail < head
      BY <1>1, <2>2
    <3>2. Free(tail)
      <4>1. /\ slotTurn[idx(tail)] >= turn(tail) * 2 /\ slotTurn[idx(tail)] <= turn(tail) * 2 + 1
            /\ slotTurn[idx(tail)] # turn(tail) * 2 + 1
            /\ slotTurn[idx(tail)] \in Nat /\ turn(tail) \in Nat
        BY <1>1, <1>2, <1>4, <3>1 DEF Filled
      <4> QED
        BY <4>1 DEF Free
    <3>3. PICK t \in Threads : Filling(t) /\ ticket[t] = tail
      BY <3>1, <3>2 DEF Accounts, Attended
    <3> QED
      BY <3>3 DEF NothingAvailable, Filling
  <2> QED
    BY <2>1, <2>2
<1> QED
  BY <1>3, <1>4

LEMMA RememberedStep ==
  Exclusion /\ Accounts /\ TestRemembered /\ [Next]_vars => TestRemembered'
<1> SUFFICES ASSUME Exclusion, Accounts, TestRemembered, [Next]_vars PROVE TestRemembered'
  OBVIOUS
<1> USE DEF Goto, Leave, TestRemembered
<1>1. TypeOK /\ TicketsSeen
  BY DEF Exclusion
<1>2. ASSUME NEW t \in Producers, NEW v \in Values, PushLoad(t, v) PROVE TestRemembered'
  BY <1>1, <1>2 DEF PushLoad, Threads, TypeOK
<1>3. ASSUME NEW t \in Consumers, PopLoad(t) PROVE TestRemembered'
  BY <1>1, <1>3 DEF PopLoad, Threads, TypeOK
<1>4. ASSUME NEW t \in Threads, Step(t) PROVE TestRemembered'
  <2> USE DEF TypeOK
  <2>1. CASE PushTest(t)
    <3>1. head = ticket[t] /\ ~Free(ticket[t]) => NoRoom(ticket[t])
      BY TestFailsForAReason
    <3> QED
      BY <1>1, <2>1, <3>1 DEF PushTest
  <2>2. CASE PushCas(t)
    <3>1. \A u \in Threads : pc[u] = "pushReload" => ticket[u] <= head
      BY <1>1 DEF TicketsSeen, Pushing
    <3> QED
      BY <1>1, <2>2, <3>1 DEF PushCas
  <2>3. CASE PushReload(t) BY <1>1, <2>3 DEF PushReload
  <2>4. CASE Construct(t) BY <1>1, <2>4 DEF Construct
  <2>5. CASE Publish(t) BY <1>1, <2>5 DEF Publish
  <2>6. CASE PopTest(t)
    <3>1. tail = ticket[t] /\ ~Filled(ticket[t]) => NothingAvailable
      BY TestFailsForAReason
    <3> QED
      BY <1>1, <2>6, <3>1 DEF PopTest
  <2>7. CASE PopCas(t)
    <3>1. \A u \in Threads : pc[u] = "popReload" => ticket[u] <= tail
      BY <1>1 DEF TicketsSeen, Popping
    <3> QED
      BY <1>1, <2>7, <3>1 DEF PopCas
  <2>8. CASE PopReload(t) BY <1>1, <2>8 DEF PopReload
  <2>9. CASE Move(t) BY <1>1, <2>9 DEF Move
  <2>10. CASE Vacate(t) BY <1>1, <2>10 DEF Vacate
  <2> QED
    BY <1>4, <2>1, <2>2, <2>3, <2>4, <2>5, <2>6, <2>7, <2>8, <2>9, <2>10 DEF Step
<1>5. CASE UNCHANGED vars
  BY <1>5 DEF vars
<1> QED
  BY <1>2, <1>3, <1>4, <1>5 DEF Next

LEMMA AccountsInvariant == Spec => []Accounts
<1> QED
  BY ExclusionInvariant, AccountsInit, AccountsStep, PTL DEF Spec

\* try_emplace and try_pop return false only if the queue had no free place, or
\* no available item, at an instant between the call's last load of the ticket
\* and its return.
THEOREM FailuresAreJustified == Spec => []FailureJustified
<1>1. Init => TestRemembered
  BY DEF Init, TestRemembered
<1>2. TestRemembered => FailureJustified
  BY DEF TestRemembered, FailureJustified
<1> QED
  BY <1>1, <1>2, ExclusionInvariant, AccountsInvariant, RememberedStep, PTL DEF Spec

-----------------------------------------------------------------------------
(* The queue is a bounded FIFO.                                            *)

\* An item that has been constructed is the one its owner brought, and one
\* that has been moved out is in its owner's hands.
Carried ==
  \A t \in Threads :
    /\ pc[t] = "publish" => storage[idx(ticket[t])] = item[t]
    /\ pc[t] = "vacate" => item[t] # NoValue

LEMMA CarriedStep ==
  Exclusion /\ Lifetime /\ Carried /\ [Next]_vars => Carried'
<1> SUFFICES ASSUME Exclusion, Lifetime, Carried, [Next]_vars PROVE Carried'
  OBVIOUS
<1> USE DEF Goto, Leave, Carried
<1>1. TypeOK /\ StorageLifetime /\ SlotExclusive
  BY LifetimeHolds, ExclusionIsExclusive DEF Exclusion
<1>2. ASSUME NEW t \in Producers, NEW v \in Values, PushLoad(t, v) PROVE Carried'
  BY <1>1, <1>2 DEF PushLoad, Threads, TypeOK
<1>3. ASSUME NEW t \in Consumers, PopLoad(t) PROVE Carried'
  BY <1>1, <1>3 DEF PopLoad, Threads, TypeOK
<1>4. ASSUME NEW t \in Threads, Step(t) PROVE Carried'
  <2> USE DEF TypeOK
  <2>1. \A u \in Threads : ticket[u] \in Nat /\ idx(ticket[u]) \in Slots
    BY <1>1, TicketSlot
  <2>2. ASSUME Owns(t), NEW u \in Threads \ {t}, Owns(u)
        PROVE  idx(ticket[u]) # idx(ticket[t])
    BY <1>1, <2>2 DEF SlotExclusive
  <2>3. CASE PushTest(t) BY <1>1, <2>3 DEF PushTest
  <2>4. CASE PushCas(t) BY <1>1, <2>4 DEF PushCas
  <2>5. CASE PushReload(t) BY <1>1, <2>5 DEF PushReload
  <2>6. CASE Construct(t)
    BY <1>1, <2>1, <2>2, <2>6 DEF Construct, Owns, Filling, Emptying
  <2>7. CASE Publish(t) BY <1>1, <2>7 DEF Publish
  <2>8. CASE PopTest(t) BY <1>1, <2>8 DEF PopTest
  <2>9. CASE PopCas(t) BY <1>1, <2>9 DEF PopCas
  <2>10. CASE PopReload(t) BY <1>1, <2>10 DEF PopReload
  <2>11. CASE Move(t)
    BY <1>1, <2>1, <2>2, <2>11 DEF Move, Owns, Filling, Emptying, StorageLifetime
  <2>12. CASE Vacate(t) BY <1>1, <2>12 DEF Vacate
  <2> QED
    BY <1>4, <2>3, <2>4, <2>5, <2>6, <2>7, <2>8, <2>9, <2>10, <2>11, <2>12 DEF Step
<1>5. CASE UNCHANGED vars
  BY <1>5 DEF vars
<1> QED
  BY <1>2, <1>3, <1>4, <1>5 DEF Next

Sound == Exclusion /\ Lifetime /\ Accounts /\ Carried

LEMMA SoundInvariant == Spec => []Sound
<1>1. Init => Carried
  BY DEF Init, Carried
<1>2. Init => Sound
  BY <1>1, ExclusionInit, LifetimeInit, AccountsInit DEF Sound
<1>3. Sound /\ [Next]_vars => Sound'
  BY ExclusionStep, LifetimeStep, AccountsStep, CarriedStep DEF Sound
<1> QED
  BY <1>2, <1>3, PTL DEF Spec

\* The entry of the abstract queue for ticket i.
Entry(i) ==
  IF Filled(i)
    THEN [val |-> storage[idx(i)], ready |-> TRUE]
    ELSE [val |-> item[CHOOSE t \in Threads : Filling(t) /\ ticket[t] = i],
          ready |-> FALSE]

\* Each ticket in the queue is filled, or in the hands of one thread.
Entries ==
  \A i \in Nat : tail <= i /\ i < head =>
    /\ Free(i) \/ Filled(i)
    /\ Filled(i) => Entry(i) = [val |-> storage[idx(i)], ready |-> TRUE]
    /\ ~Filled(i) => \E t \in Threads : Filling(t) /\ ticket[t] = i
    /\ \A t \in Threads : Filling(t) /\ ticket[t] = i =>
         ~Filled(i) /\ Entry(i) = [val |-> item[t], ready |-> FALSE]

LEMMA EntriesAre == Sound => Entries
<1> SUFFICES ASSUME Sound, NEW i \in Nat, tail <= i, i < head
             PROVE  /\ Free(i) \/ Filled(i)
                    /\ Filled(i) => Entry(i) = [val |-> storage[idx(i)], ready |-> TRUE]
                    /\ ~Filled(i) => \E t \in Threads : Filling(t) /\ ticket[t] = i
                    /\ \A t \in Threads : Filling(t) /\ ticket[t] = i =>
                         ~Filled(i) /\ Entry(i) = [val |-> item[t], ready |-> FALSE]
  BY DEF Entries
<1>1. Free(i) \/ Filled(i)
  <2>1. /\ slotTurn[idx(i)] >= turn(i) * 2 /\ slotTurn[idx(i)] <= turn(i) * 2 + 1
        /\ slotTurn[idx(i)] \in Nat /\ turn(i) \in Nat
    BY TicketSlot DEF Sound, Exclusion, TypeOK, Accounts, Counted
  <2> QED
    BY <2>1 DEF Free, Filled
<1>2. ~Filled(i) => \E t \in Threads : Filling(t) /\ ticket[t] = i
  BY <1>1 DEF Sound, Exclusion, TypeOK, Accounts, Attended
<1>3. ASSUME NEW t \in Threads, Filling(t), ticket[t] = i
      PROVE  ~Filled(i) /\ Entry(i) = [val |-> item[t], ready |-> FALSE]
  <2>1. ~Filled(i)
    BY <1>3, SlotServesOne DEF Sound, Exclusion, TicketsWon
  <2>2. \A u \in Threads : Filling(u) /\ ticket[u] = i => u = t
    BY <1>3 DEF Sound, Exclusion, TicketsDistinct
  <2> DEFINE owner == CHOOSE u \in Threads : Filling(u) /\ ticket[u] = i
  <2>3. owner \in Threads /\ Filling(owner) /\ ticket[owner] = i
    BY <1>3
  <2>4. owner = t
    BY <2>2, <2>3
  <2> QED
    BY <2>1, <2>4 DEF Entry
<1> QED
  BY <1>1, <1>2, <1>3 DEF Entry

\* The instance's name for the cardinality of a set.
LEMMA QueueCardinality == \A S : Queue!Cardinality(S) = Cardinality(S)
  BY DEF Queue!Cardinality, Cardinality

LEMMA AppendIs ==
  ASSUME NEW S, NEW n \in Nat, NEW f \in [1 .. n -> S], NEW e \in S
  PROVE  Append(f, e) = [k \in 1 .. (n + 1) |-> IF k <= n THEN f[k] ELSE e]
<1> DEFINE g == [k \in 1 .. (n + 1) |-> IF k <= n THEN f[k] ELSE e]
<1>1. f \in Seq(S) /\ Len(f) = n
  BY SeqDef, LenProperties
<1>2. g \in [1 .. (n + 1) -> S]
  OBVIOUS
<1>3. g \in Seq(S) /\ Len(g) = n + 1
  <2> HIDE DEF g
  <2> QED
    BY <1>2, SeqDef, LenProperties
<1>4. /\ Append(f, e) \in Seq(S) /\ Len(Append(f, e)) = n + 1
      /\ \A k \in 1 .. n : Append(f, e)[k] = f[k]
      /\ Append(f, e)[n + 1] = e
  BY <1>1, AppendProperties
<1>5. \A k \in 1 .. (n + 1) : Append(f, e)[k] = g[k]
  BY <1>4
<1> QED
  <2> HIDE DEF g
  <2> SUFFICES Append(f, e) = g
    BY DEF g
  <2> QED
    BY <1>3, <1>4, <1>5, SeqEqual

LEMMA TailIs ==
  ASSUME NEW S, NEW n \in Nat \ {0}, NEW f \in [1 .. n -> S]
  PROVE  /\ f # <<>> /\ Head(f) = f[1]
         /\ Tail(f) = [k \in 1 .. (n - 1) |-> f[k + 1]]
<1> DEFINE g == [k \in 1 .. (n - 1) |-> f[k + 1]]
<1>1. f \in Seq(S) /\ Len(f) = n
  BY SeqDef, LenProperties
<1>2. f # <<>>
  BY <1>1, EmptySeq
<1>3. Head(f) = f[1]
  OBVIOUS
<1>4. g \in [1 .. (n - 1) -> S]
  OBVIOUS
<1>5. g \in Seq(S) /\ Len(g) = n - 1
  <2> HIDE DEF g
  <2> QED
    BY <1>4, SeqDef, LenProperties
<1>6. /\ Tail(f) \in Seq(S) /\ Len(Tail(f)) = n - 1
      /\ \A k \in 1 .. (n - 1) : Tail(f)[k] = f[k + 1]
  BY <1>1, <1>2, HeadTailProperties
<1>7. \A k \in 1 .. (n - 1) : Tail(f)[k] = g[k]
  BY <1>6
<1>8. Tail(f) = g
  <2> HIDE DEF g
  <2> QED
    BY <1>5, <1>6, <1>7, SeqEqual
<1> QED
  BY <1>2, <1>3, <1>8

\* The abstract queue as a function on the tickets it stands for.
LEMMA FifoIs ==
  ASSUME Sound
  PROVE  /\ head - tail \in Nat
         /\ Fifo = [n \in 1 .. (head - tail) |-> Entry(tail + n - 1)]
         /\ Fifo \in [1 .. (head - tail) -> {Entry(i) : i \in Nat}]
         /\ Len(Fifo) = head - tail
<1>1. head - tail \in Nat /\ tail \in Nat
  BY DEF Sound, Exclusion, TypeOK, Accounts, Counted
<1>2. Fifo = [n \in 1 .. (head - tail) |-> Entry(tail + n - 1)]
  BY DEF Fifo, Entry
<1>3. \A n \in 1 .. (head - tail) : tail + n - 1 \in Nat
  BY <1>1
<1> DEFINE S == {Entry(i) : i \in Nat}
<1>4. Fifo \in [1 .. (head - tail) -> S]
  BY <1>2, <1>3
<1> HIDE DEF S
<1>5. Len(Fifo) = head - tail
  BY <1>1, <1>4, SeqDef, LenProperties
<1> QED
  BY <1>1, <1>2, <1>4, <1>5 DEF S

LEMMA LastPlace ==
  ASSUME NEW h \in Nat, NEW l \in Nat, h - l \in Nat,
         NEW k \in 1 .. (h - l + 1), k > h - l
  PROVE  l + k - 1 = h
OBVIOUS

\* The entry of a ticket whose slot and owner a step leaves alone.
LEMMA EntryStays ==
  ASSUME Entries, Entries', NEW i \in Nat,
         tail <= i, i < head, tail' <= i, i < head',
         Filled(i)' <=> Filled(i),
         Filled(i) => storage'[idx(i)] = storage[idx(i)],
         \A t \in Threads : Filling(t) /\ ticket[t] = i =>
           Filling(t)' /\ ticket'[t] = i /\ item'[t] = item[t]
  PROVE  Entry(i)' = Entry(i)
<1>1. CASE Filled(i)
  BY <1>1 DEF Entries, idx
<1>2. CASE ~Filled(i)
  <2>1. PICK t \in Threads : Filling(t) /\ ticket[t] = i
    BY <1>2 DEF Entries
  <2>2. Entry(i) = [val |-> item[t], ready |-> FALSE]
    BY <2>1 DEF Entries
  <2>3. Entry(i)' = [val |-> item'[t], ready |-> FALSE]
    BY <2>1 DEF Entries
  <2> QED
    BY <2>1, <2>2, <2>3
<1> QED
  BY <1>1, <1>2

\* The steps that change no entry of the abstract queue.
LEMMA FifoStays ==
  ASSUME Sound, Sound', Entries, Entries', UNCHANGED <<head, tail>>,
         \A i \in Nat : tail <= i /\ i < head =>
           /\ Filled(i)' <=> Filled(i)
           /\ Filled(i) => storage'[idx(i)] = storage[idx(i)],
         \A t \in Threads : Filling(t) =>
           Filling(t)' /\ ticket'[t] = ticket[t] /\ item'[t] = item[t]
  PROVE  Fifo' = Fifo
<1>1. ASSUME NEW i \in Nat, tail <= i, i < head PROVE Entry(i)' = Entry(i)
  BY <1>1, EntryStays
<1>2. tail \in Nat /\ head \in Nat
  BY DEF Sound, Exclusion, TypeOK
<1>3. \A n \in 1 .. (head - tail) :
        tail + n - 1 \in Nat /\ tail <= tail + n - 1 /\ tail + n - 1 < head
  BY <1>2
<1>4. Fifo = [n \in 1 .. (head - tail) |-> Entry(tail + n - 1)]
  BY FifoIs
<1>5. Fifo' = [n \in 1 .. (head - tail) |-> Entry(tail + n - 1)']
  BY DEF Fifo, Entry
<1> QED
  BY <1>1, <1>3, <1>4, <1>5

\* What a thread holds, in terms of where it is.
LEMMA HoldingIs ==
  \A t \in Threads :
    /\ pc[t] = "move" => Holding[t] = storage[idx(ticket[t])]
    /\ pc[t] = "vacate" => Holding[t] = item[t]
    /\ ~Emptying(t) => Holding[t] = NoValue
  BY DEF Holding, Emptying

\* A ticket is accepted only when the items and the places still being emptied
\* leave room: a pop that is under way keeps the slot of a ticket that is less
\* than Capacity behind head.
LEMMA RoomForOne ==
  ASSUME Sound, Free(head)
  PROVE  Len(Fifo) + Cardinality(Queue!Holders) < Capacity
<1> DEFINE H == Queue!Holders
           I == (head - Capacity + 1) .. (tail - 1)
           f == [u \in H |-> ticket[u]]
<1>1. /\ head \in Nat /\ tail \in Nat /\ tail <= head /\ Capacity \in Nat \ {0}
      /\ TicketsDistinct
      /\ \A u \in Threads : ticket[u] \in Nat
      /\ \A u \in Threads : Emptying(u) => ticket[u] < tail /\ Filled(ticket[u])
  BY CapacityAssumption DEF Sound, Exclusion, TypeOK, Accounts, Counted, TicketsWon
<1>2. \A u \in H : u \in Threads /\ Emptying(u)
  BY HoldingIs DEF Queue!Holders
<1>3. ASSUME NEW i \in Nat, i < tail, Filled(i) PROVE i \in I
  <2> SUFFICES ASSUME i + Capacity <= head PROVE FALSE
    BY <1>1, <1>3
  <2>1. head >= Capacity /\ head - Capacity \in Nat
    BY <1>1
  <2>2. slotTurn[idx(i)] = turn(i) * 2 + 1
    BY <1>3 DEF Filled
  <2>3. CASE i + Capacity = head
    <3>1. i = head - Capacity
      BY <1>1, <2>3
    <3>2. idx(i) = idx(head)
      BY <1>1, <2>1, <3>1, Rounds
    <3> QED
      BY <1>1, <1>3, <3>2, SlotServesOne
  <2>4. CASE i + Capacity < head
    <3> DEFINE j == i + Capacity
    <3>1. j \in Nat /\ j < head /\ j >= Capacity /\ j - Capacity = i
      BY <1>1, <2>4
    <3>2. idx(i) = idx(j) /\ turn(i) = turn(j) - 1
      BY <3>1, Rounds
    <3>3. slotTurn[idx(j)] >= turn(j) * 2
      BY <3>1 DEF Sound, Accounts, Counted
    <3>4. turn(i) \in Nat /\ turn(j) \in Nat
      BY <3>1, TicketSlot
    <3> HIDE DEF j
    <3> QED
      BY <2>2, <3>2, <3>3, <3>4
  <2> QED
    BY <1>1, <1>3, <2>3, <2>4
<1>4. f \in Injection(H, I)
  <2>1. f \in [H -> I]
    BY <1>1, <1>2, <1>3
  <2>2. \A u, v \in H : u # v => f[u] # f[v]
    BY <1>1, <1>2 DEF TicketsDistinct
  <2> HIDE DEF f, H, I
  <2> QED
    BY <2>1, <2>2 DEF Injection, IsInjective
<1>5. /\ IsFiniteSet(I)
      /\ Cardinality(I) = IF head - Capacity + 1 > tail - 1
                            THEN 0 ELSE (tail - 1) - (head - Capacity + 1) + 1
  BY <1>1, FS_Interval
<1>6. IsFiniteSet(H) /\ Cardinality(H) <= Cardinality(I)
  <2> HIDE DEF f, H, I
  <2> QED
    BY <1>4, <1>5, FS_Injection
<1>7. Cardinality(H) \in Nat
  <2> HIDE DEF H
  <2> QED
    BY <1>6, FS_CardinalityType
<1>8. head - tail < Capacity
  <2> SUFFICES ASSUME head = tail + Capacity PROVE FALSE
    BY <1>1 DEF Sound, Accounts, Counted
  <2>1. head >= Capacity /\ tail = head - Capacity
    BY <1>1
  <2>2. idx(tail) = idx(head) /\ turn(tail) = turn(head) - 1
    BY <1>1, <2>1, Rounds
  <2>3. slotTurn[idx(tail)] <= turn(tail) * 2 + 1
    BY <1>1 DEF Sound, Accounts, Counted
  <2>4. turn(tail) \in Nat /\ turn(head) \in Nat /\ slotTurn[idx(head)] = turn(head) * 2
    BY <1>1, TicketSlot DEF Free
  <2> QED
    BY <2>2, <2>3, <2>4
<1> HIDE DEF H
<1>9. Len(Fifo) = head - tail
  BY FifoIs
<1> QED
  BY <1>1, <1>5, <1>6, <1>7, <1>8, <1>9 DEF H

\* The steps before the compare-and-swap is won, and those of a call that
\* gives up, change nothing in the abstract queue.
LEMMA Unseen ==
  ASSUME Sound, Sound', NEW t \in Threads, UNCHANGED <<head, tail, slotTurn, storage>>,
         ~Owns(t), ~Owns(t)',
         \A u \in Threads \ {t} :
           pc'[u] = pc[u] /\ ticket'[u] = ticket[u] /\ item'[u] = item[u]
  PROVE  UNCHANGED <<Fifo, Holding>>
<1>1. Fifo' = Fifo
  <2>1. \A i : (Filled(i)' <=> Filled(i)) /\ storage'[idx(i)] = storage[idx(i)]
    BY DEF Filled, idx
  <2>2. \A u \in Threads : Filling(u) =>
          Filling(u)' /\ ticket'[u] = ticket[u] /\ item'[u] = item[u]
    BY DEF Owns, Filling
  <2>3. Entries /\ Entries'
    BY EntriesAre, PTL
  <2> QED
    BY <2>1, <2>2, <2>3, FifoStays
<1>2. ASSUME NEW u \in Threads
      PROVE  \/ pc'[u] = pc[u] /\ ticket'[u] = ticket[u] /\ item'[u] = item[u]
             \/ pc[u] \notin {"move", "vacate"} /\ pc'[u] \notin {"move", "vacate"}
  BY DEF Owns, Emptying
<1>3. Holding' = Holding
  BY <1>2 DEF Holding, idx
<1> QED
  BY <1>1, <1>3

\* Winning the compare-and-swap for an item is the acceptance of the item.
LEMMA PushWins ==
  ASSUME Sound, Sound', NEW t \in Threads, PushCas(t), head = ticket[t]
  PROVE  \E v \in Values : Queue!Accept(v)
<1>1. /\ pc[t] = "pushCas" /\ head' = head + 1 /\ pc' = [pc EXCEPT ![t] = "construct"]
      /\ UNCHANGED <<tail, slotTurn, storage, ticket, item>>
  BY DEF PushCas, Goto
<1>2. TypeOK
  BY DEF Sound, Exclusion
<1>3. item[t] \in Values
  BY <1>1, <1>2 DEF Sound, Lifetime, OwnersStorage, TypeOK
<1>4. Len(Fifo) + Cardinality(Queue!Holders) < Capacity
  BY <1>1, RoomForOne DEF Sound, Exclusion, TestStillHolds
<1>5. Entries /\ Entries'
  BY EntriesAre, PTL
<1>6. \A i \in Nat : tail <= i /\ i < head => Entry(i)' = Entry(i)
  <2> SUFFICES ASSUME NEW i \in Nat, tail <= i, i < head PROVE Entry(i)' = Entry(i)
    OBVIOUS
  <2>1. (Filled(i)' <=> Filled(i)) /\ storage'[idx(i)] = storage[idx(i)]
    BY <1>1 DEF Filled, idx
  <2>2. tail' <= i /\ i < head'
    BY <1>1, <1>2 DEF TypeOK
  <2>3. \A u \in Threads : Filling(u) /\ ticket[u] = i =>
          Filling(u)' /\ ticket'[u] = i /\ item'[u] = item[u]
    BY <1>1, <1>2 DEF Filling, TypeOK
  <2> QED
    BY <1>5, <2>1, <2>2, <2>3, EntryStays
<1>7. ASSUME NEW i \in Nat, i = head
      PROVE  Entry(i)' = [val |-> item[t], ready |-> FALSE]
  <2>1. Filling(t)' /\ ticket'[t] = i /\ item'[t] = item[t]
    BY <1>1, <1>2, <1>7 DEF Filling, TypeOK
  <2>2. tail' <= i /\ i < head'
    BY <1>1, <1>2, <1>7 DEF Sound, Accounts, Counted, TypeOK
  <2> QED
    BY <1>5, <2>1, <2>2 DEF Entries
<1> DEFINE e == [val |-> item[t], ready |-> FALSE]
           S == {Entry(i) : i \in Nat} \union {e}
<1>8. Fifo' = Append(Fifo, e)
  <2>1. /\ head - tail \in Nat
        /\ Fifo = [n \in 1 .. (head - tail) |-> Entry(tail + n - 1)]
        /\ Fifo \in [1 .. (head - tail) -> {Entry(i) : i \in Nat}]
    BY FifoIs
  <2>2. Fifo \in [1 .. (head - tail) -> S] /\ e \in S
    BY <2>1
  <2>3. Append(Fifo, e) =
          [k \in 1 .. (head - tail + 1) |-> IF k <= head - tail THEN Fifo[k] ELSE e]
    <3> HIDE DEF S, e
    <3> QED
      BY <2>1, <2>2, AppendIs
  <2>4. Fifo' = [n \in 1 .. (head' - tail) |-> Entry(tail + n - 1)']
    BY <1>1 DEF Fifo, Entry
  <2>5. head' - tail = head - tail + 1 /\ head \in Nat /\ tail \in Nat
    BY <1>1, <1>2 DEF TypeOK
  <2>6. \A k \in 1 .. (head - tail + 1) :
          Entry(tail + k - 1)' = IF k <= head - tail THEN Fifo[k] ELSE e
    <3> SUFFICES ASSUME NEW k \in 1 .. (head - tail + 1)
                 PROVE  Entry(tail + k - 1)' = IF k <= head - tail THEN Fifo[k] ELSE e
      OBVIOUS
    <3>1. CASE k <= head - tail
      <4>1. tail + k - 1 \in Nat /\ tail <= tail + k - 1 /\ tail + k - 1 < head
        BY <2>1, <2>5, <3>1
      <4>2. Fifo[k] = Entry(tail + k - 1)
        BY <2>1, <3>1
      <4> QED
        BY <1>1, <1>6, <3>1, <4>1, <4>2
    <3>2. CASE k > head - tail
      <4>1. tail + k - 1 = head
        BY <2>1, <2>5, <3>2, LastPlace
      <4>2. PICK i \in Nat : i = tail + k - 1
        BY <2>5, <4>1
      <4>3. Entry(i)' = e
        BY <1>7, <4>1, <4>2
      <4> QED
        BY <1>1, <2>1, <3>2, <4>2, <4>3
    <3> QED
      BY <2>1, <3>1, <3>2
  <2> HIDE DEF e
  <2> QED
    BY <2>3, <2>4, <2>5, <2>6
<1>9. Holding' = Holding
  BY <1>1, <1>2 DEF Holding, idx, TypeOK
<1> QED
  BY <1>3, <1>4, <1>8, <1>9, QueueCardinality DEF Queue!Accept

\* An owner that works on its slot leaves the slot of every ticket in the queue
\* alone, except of the one it fills.
LEMMA OthersSlots ==
  ASSUME Sound, NEW t \in Threads, Owns(t), NEW i \in Nat, tail <= i, i < head,
         i # ticket[t]
  PROVE  idx(i) # idx(ticket[t])
<1>1. ticket[t] \in Nat /\ (Free(ticket[t]) \/ Filled(ticket[t]))
  BY DEF Sound, Exclusion, TypeOK, TicketsWon, Owns
<1>2. Free(i) \/ Filled(i)
  BY EntriesAre DEF Entries
<1> QED
  BY <1>1, <1>2, SlotServesOne

\* Taking the oldest item: the compare-and-swap of a pop wins.
LEMMA PopWins ==
  ASSUME Sound, Sound', NEW t \in Threads, PopCas(t), tail = ticket[t]
  PROVE  Queue!Take(t)
<1>1. /\ pc[t] = "popCas" /\ tail' = tail + 1 /\ pc' = [pc EXCEPT ![t] = "move"]
      /\ UNCHANGED <<head, slotTurn, storage, ticket, item>>
  BY DEF PopCas, Goto
<1>2. TypeOK /\ Filled(tail)
  BY <1>1 DEF Sound, Exclusion, TestStillHolds
<1>3. tail \in Nat /\ head \in Nat /\ tail + 1 <= head
  BY <1>1, <1>2 DEF Sound, Accounts, Counted, TypeOK
<1>4. Entries /\ Entries'
  BY EntriesAre, PTL
<1>5. Entry(tail) = [val |-> storage[idx(tail)], ready |-> TRUE]
  BY <1>2 DEF Entry
<1> DEFINE S == {Entry(i) : i \in Nat}
<1>6. /\ Fifo = [n \in 1 .. (head - tail) |-> Entry(tail + n - 1)]
      /\ Fifo \in [1 .. (head - tail) -> S]
      /\ head - tail \in Nat \ {0}
  BY <1>3, FifoIs
<1>7. /\ Fifo # <<>> /\ Head(Fifo) = Fifo[1]
      /\ Tail(Fifo) = [k \in 1 .. (head - tail - 1) |-> Fifo[k + 1]]
  <2> HIDE DEF S
  <2> QED
    BY <1>6, TailIs
<1>8. Fifo[1] = Entry(tail)
  <2>1. 1 \in 1 .. (head - tail) /\ tail + 1 - 1 = tail
    BY <1>3
  <2> QED
    BY <1>6, <2>1
<1>9. \A i \in Nat : tail + 1 <= i /\ i < head => Entry(i)' = Entry(i)
  <2> SUFFICES ASSUME NEW i \in Nat, tail + 1 <= i, i < head PROVE Entry(i)' = Entry(i)
    OBVIOUS
  <2>1. (Filled(i)' <=> Filled(i)) /\ storage'[idx(i)] = storage[idx(i)]
    BY <1>1 DEF Filled, idx
  <2>2. tail <= i /\ tail' <= i /\ i < head'
    BY <1>1, <1>3
  <2>3. \A u \in Threads : Filling(u) /\ ticket[u] = i =>
          Filling(u)' /\ ticket'[u] = i /\ item'[u] = item[u]
    BY <1>1, <1>2 DEF Filling, TypeOK
  <2> QED
    BY <1>4, <2>1, <2>2, <2>3, EntryStays
<1>10. Fifo' = Tail(Fifo)
  <2>1. Fifo' = [n \in 1 .. (head - tail') |-> Entry(tail + n - 1)']
    BY <1>1 DEF Fifo, Entry
  <2>2. head - tail' = head - tail - 1
    BY <1>1, <1>3
  <2>3. ASSUME NEW k \in 1 .. (head - tail - 1)
        PROVE  Entry(tail + k - 1)' = Fifo[k + 1]
    <3>1. PICK i \in Nat : i = tail + k
      BY <1>3
    <3>2. tail + 1 <= i /\ i < head /\ i = tail + (k + 1) - 1 /\ k + 1 \in 1 .. (head - tail)
      BY <1>3, <3>1
    <3>3. Fifo[k + 1] = Entry(i)
      BY <1>6, <3>2
    <3>4. Entry(i)' = Entry(i)
      BY <1>9, <3>2
    <3>5. tail' + k - 1 = i
      BY <1>1, <1>3, <3>1
    <3> QED
      BY <3>3, <3>4, <3>5
  <2> QED
    BY <1>7, <2>1, <2>2, <2>3
<1>11. Holding[t] = NoValue
  BY <1>1, HoldingIs DEF Emptying
<1>12. Holding' = [Holding EXCEPT ![t] = storage[idx(tail)]]
  BY <1>1, <1>2 DEF Holding, idx, TypeOK
<1>13. Head(Fifo).ready = TRUE /\ Head(Fifo).val = storage[idx(tail)]
  BY <1>5, <1>7, <1>8
<1>14. Fifo # <<>>
  BY <1>7
<1> QED
  BY <1>10, <1>11, <1>12, <1>13, <1>14, Zenon DEF Queue!Take

\* Constructing the item in its slot shows in the queue only when published.
LEMMA ConstructUnseen ==
  ASSUME Sound, Sound', NEW t \in Threads, Construct(t)
  PROVE  UNCHANGED <<Fifo, Holding>>
<1>1. /\ pc[t] = "construct" /\ pc' = [pc EXCEPT ![t] = "publish"]
      /\ storage' = [storage EXCEPT ![idx(ticket[t])] = item[t]]
      /\ UNCHANGED <<head, tail, slotTurn, ticket, item>>
  BY DEF Construct, Goto
<1>2. TypeOK /\ SlotExclusive /\ Entries /\ Entries'
  BY EntriesAre, ExclusionIsExclusive, PTL DEF Sound, Exclusion
<1>3. Owns(t) /\ Filling(t) /\ ~Emptying(t)
  BY <1>1 DEF Owns, Filling, Emptying
<1>4. Fifo' = Fifo
  <2>1. ASSUME NEW i \in Nat, tail <= i, i < head, Filled(i)
        PROVE  storage'[idx(i)] = storage[idx(i)]
    <3>1. i # ticket[t]
      BY <1>2, <1>3, <2>1 DEF Entries
    <3> QED
      BY <1>1, <1>2, <1>3, <2>1, <3>1, OthersSlots, TicketSlot DEF TypeOK
  <2>2. \A i \in Nat : Filled(i)' <=> Filled(i)
    BY <1>1 DEF Filled
  <2>3. \A u \in Threads : Filling(u) =>
          Filling(u)' /\ ticket'[u] = ticket[u] /\ item'[u] = item[u]
    BY <1>1, <1>2 DEF Filling, TypeOK
  <2> QED
    BY <1>1, <1>2, <2>1, <2>2, <2>3, FifoStays
<1>5. Holding' = Holding
  <2>1. ASSUME NEW u \in Threads, pc[u] = "move"
        PROVE  storage'[idx(ticket[u])] = storage[idx(ticket[u])]
    <3>1. idx(ticket[u]) # idx(ticket[t])
      BY <1>1, <1>2, <1>3, <2>1 DEF SlotExclusive, Owns, Emptying
    <3> QED
      BY <1>1, <1>2, <2>1, <3>1, TicketSlot DEF TypeOK
  <2>2. \A u \in Threads : u # t => pc'[u] = pc[u]
    BY <1>1, <1>2 DEF TypeOK
  <2>3. pc'[t] = "publish"
    BY <1>1, <1>2 DEF TypeOK
  <2> QED
    BY <1>1, <2>1, <2>2, <2>3 DEF Holding, idx
<1> QED
  BY <1>4, <1>5

\* An entry that becomes ready.
LEMMA MadeReady ==
  ASSUME NEW v, NEW e, e = [[val |-> v, ready |-> FALSE] EXCEPT !.ready = TRUE]
  PROVE  e = [val |-> v, ready |-> TRUE]
  OBVIOUS

\* The store of the turn makes the item available.
LEMMA PublishShows ==
  ASSUME Sound, Sound', NEW t \in Threads, Publish(t)
  PROVE  \E n \in DOMAIN Fifo : Queue!MakeAvailable(n)
<1>1. /\ pc[t] = "publish" /\ pc' = [pc EXCEPT ![t] = "idle"]
      /\ slotTurn' = [slotTurn EXCEPT ![idx(ticket[t])] = turn(ticket[t]) * 2 + 1]
      /\ UNCHANGED <<head, tail, storage>>
      /\ \A u \in Threads \ {t} : ticket'[u] = ticket[u] /\ item'[u] = item[u]
  BY DEF Publish, Leave, Goto
<1>2. TypeOK /\ Entries /\ Entries'
  BY EntriesAre, PTL DEF Sound, Exclusion
<1>3. Owns(t) /\ Filling(t)
  BY <1>1 DEF Owns, Filling
<1>4. PICK k \in Nat : k = ticket[t]
  BY <1>2 DEF TypeOK
<1>5. tail \in Nat /\ head \in Nat
  BY <1>2 DEF TypeOK
<1>6. k < head /\ Free(k) /\ idx(k) \in Slots /\ turn(k) \in Nat
  BY <1>3, <1>4, TicketSlot DEF Sound, Exclusion, TicketsWon
<1>7. tail <= k
  <2>1. k < tail => slotTurn[idx(k)] >= turn(k) * 2 + 1
    BY DEF Sound, Accounts, Counted
  <2> QED
    BY <1>4, <1>5, <1>6, <2>1 DEF Free
<1>8. Entry(k) = [val |-> item[t], ready |-> FALSE]
  BY <1>2, <1>3, <1>4, <1>6, <1>7 DEF Entries
<1>9. Entry(k)' = [val |-> item[t], ready |-> TRUE]
  <2>1. Filled(k)'
    BY <1>1, <1>2, <1>4, <1>6 DEF Filled, TypeOK
  <2>2. storage[idx(k)] = item[t]
    BY <1>1, <1>4 DEF Sound, Carried
  <2> QED
    BY <1>1, <2>1, <2>2 DEF Entry
<1>10. ASSUME NEW i \in Nat, tail <= i, i < head, i # k PROVE Entry(i)' = Entry(i)
  <2>1. idx(i) # idx(ticket[t])
    BY <1>3, <1>4, <1>10, OthersSlots
  <2>2. Filled(i)' <=> Filled(i)
    BY <1>1, <1>2, <2>1, TicketSlot DEF Filled, TypeOK
  <2>3. storage'[idx(i)] = storage[idx(i)]
    BY <1>1
  <2>4. \A u \in Threads : Filling(u) /\ ticket[u] = i =>
          Filling(u)' /\ ticket'[u] = i /\ item'[u] = item[u]
    BY <1>1, <1>2, <1>4, <1>10 DEF Filling, TypeOK
  <2> QED
    BY <1>1, <1>2, <1>10, <2>2, <2>3, <2>4, EntryStays
<1> DEFINE n == k - tail + 1
<1>11. n \in 1 .. (head - tail) /\ tail + n - 1 = k
  BY <1>4, <1>5, <1>6, <1>7
<1>12. Fifo = [m \in 1 .. (head - tail) |-> Entry(tail + m - 1)]
  BY FifoIs
<1>13. Fifo[n] = [val |-> item[t], ready |-> FALSE]
  BY <1>8, <1>11, <1>12
<1>14. Fifo' = [Fifo EXCEPT ![n] = [val |-> item[t], ready |-> TRUE]]
  <2>1. Fifo' = [m \in 1 .. (head - tail) |-> Entry(tail + m - 1)']
    BY <1>1 DEF Fifo, Entry
  <2>2. ASSUME NEW m \in 1 .. (head - tail)
        PROVE  Entry(tail + m - 1)' =
                 IF m = n THEN [val |-> item[t], ready |-> TRUE] ELSE Fifo[m]
    <3>1. PICK i \in Nat : i = tail + m - 1
      BY <1>5
    <3>2. tail <= i /\ i < head /\ (i = k <=> m = n)
      BY <1>4, <1>5, <3>1
    <3>3. Fifo[m] = Entry(i)
      BY <1>12, <3>1
    <3>4. Entry(tail + m - 1)' = Entry(i)'
      BY <1>1, <3>1
    <3>5. CASE i = k
      BY <1>9, <3>2, <3>4, <3>5
    <3>6. CASE i # k
      BY <1>10, <3>2, <3>3, <3>4, <3>6
    <3> QED
      BY <3>5, <3>6
  <2> HIDE DEF n
  <2> QED
    BY <1>11, <1>12, <2>1, <2>2
<1>15. Holding' = Holding
  BY <1>1, <1>2 DEF Holding, idx, TypeOK
<1>16. n \in DOMAIN Fifo
  BY <1>11, <1>12
<1> HIDE DEF n
<1>17. /\ Fifo[n].ready = FALSE
       /\ [Fifo[n] EXCEPT !.ready = TRUE] = [val |-> item[t], ready |-> TRUE]
  <2> DEFINE r == [Fifo[n] EXCEPT !.ready = TRUE]
  <2>1. r = [[val |-> item[t], ready |-> FALSE] EXCEPT !.ready = TRUE]
    BY <1>13
  <2>2. r = [val |-> item[t], ready |-> TRUE]
    <3> HIDE DEF r
    <3> QED
      BY <2>1, MadeReady
  <2> QED
    BY <1>13, <2>2
<1>18. Fifo' = [Fifo EXCEPT ![n].ready = TRUE]
  BY <1>14, <1>17
<1> QED
  BY <1>15, <1>16, <1>17, <1>18 DEF Queue!MakeAvailable

\* Moving the item out of the slot leaves it with the thread that holds it.
LEMMA MoveUnseen ==
  ASSUME Sound, Sound', NEW t \in Threads, Move(t)
  PROVE  UNCHANGED <<Fifo, Holding>>
<1>1. /\ pc[t] = "move" /\ pc' = [pc EXCEPT ![t] = "vacate"]
      /\ item' = [item EXCEPT ![t] = storage[idx(ticket[t])]]
      /\ storage' = [storage EXCEPT ![idx(ticket[t])] = NoValue]
      /\ UNCHANGED <<head, tail, slotTurn, ticket>>
  BY DEF Move, Goto
<1>2. TypeOK /\ SlotExclusive /\ Entries /\ Entries'
  BY EntriesAre, ExclusionIsExclusive, PTL DEF Sound, Exclusion
<1>3. Owns(t) /\ Emptying(t) /\ ~Filling(t) /\ ticket[t] < tail
  BY <1>1 DEF Owns, Filling, Emptying, Sound, Exclusion, TicketsWon
<1>4. Fifo' = Fifo
  <2>1. ASSUME NEW i \in Nat, tail <= i, i < head
        PROVE  storage'[idx(i)] = storage[idx(i)]
    <3>1. i # ticket[t]
      BY <1>2, <1>3, <2>1 DEF TypeOK
    <3> QED
      BY <1>1, <1>2, <1>3, <2>1, <3>1, OthersSlots, TicketSlot DEF TypeOK
  <2>2. \A i \in Nat : Filled(i)' <=> Filled(i)
    BY <1>1 DEF Filled
  <2>3. \A u \in Threads : Filling(u) =>
          Filling(u)' /\ ticket'[u] = ticket[u] /\ item'[u] = item[u]
    BY <1>1, <1>2, <1>3 DEF Filling, TypeOK
  <2> QED
    BY <1>1, <1>2, <2>1, <2>2, <2>3, FifoStays
<1>5. Holding' = Holding
  <2>1. ASSUME NEW u \in Threads \ {t}
        PROVE  /\ pc'[u] = pc[u] /\ item'[u] = item[u]
               /\ pc[u] = "move" => storage'[idx(ticket[u])] = storage[idx(ticket[u])]
    <3>1. pc[u] = "move" => idx(ticket[u]) # idx(ticket[t])
      BY <1>2, <1>3 DEF SlotExclusive, Owns, Emptying
    <3> QED
      BY <1>1, <1>2, <3>1, TicketSlot DEF TypeOK
  <2>2. pc'[t] = "vacate" /\ item'[t] = storage[idx(ticket[t])]
    BY <1>1, <1>2 DEF TypeOK
  <2> QED
    BY <1>1, <2>1, <2>2 DEF Holding, idx
<1> QED
  BY <1>4, <1>5

\* Giving the slot to the next round frees the place.
LEMMA VacateFrees ==
  ASSUME Sound, Sound', NEW t \in Threads, Vacate(t)
  PROVE  Queue!Vacate(t)
<1>1. /\ pc[t] = "vacate" /\ pc' = [pc EXCEPT ![t] = "idle"]
      /\ slotTurn' = [slotTurn EXCEPT ![idx(ticket[t])] = turn(ticket[t]) * 2 + 2]
      /\ UNCHANGED <<head, tail, storage>>
      /\ \A u \in Threads \ {t} : ticket'[u] = ticket[u] /\ item'[u] = item[u]
  BY DEF Vacate, Leave, Goto
<1>2. TypeOK /\ Entries /\ Entries'
  BY EntriesAre, PTL DEF Sound, Exclusion
<1>3. Owns(t) /\ Emptying(t) /\ ~Filling(t) /\ ticket[t] < tail
  BY <1>1 DEF Owns, Filling, Emptying, Sound, Exclusion, TicketsWon
<1>4. Fifo' = Fifo
  <2>1. ASSUME NEW i \in Nat, tail <= i, i < head
        PROVE  Filled(i)' <=> Filled(i)
    <3>1. i # ticket[t]
      BY <1>2, <1>3, <2>1 DEF TypeOK
    <3>2. idx(i) # idx(ticket[t])
      BY <1>3, <2>1, <3>1, OthersSlots
    <3> QED
      BY <1>1, <1>2, <3>2, TicketSlot DEF Filled, TypeOK
  <2>2. \A i \in Nat : storage'[idx(i)] = storage[idx(i)]
    BY <1>1
  <2>3. \A u \in Threads : Filling(u) =>
          Filling(u)' /\ ticket'[u] = ticket[u] /\ item'[u] = item[u]
    BY <1>1, <1>2, <1>3 DEF Filling, TypeOK
  <2> QED
    BY <1>1, <1>2, <2>1, <2>2, <2>3, FifoStays
<1>5. Holding[t] # NoValue
  BY <1>1, HoldingIs DEF Sound, Carried
<1>6. Holding' = [Holding EXCEPT ![t] = NoValue]
  BY <1>1, <1>2 DEF Holding, idx, TypeOK
<1> QED
  BY <1>4, <1>5, <1>6 DEF Queue!Vacate

\* Every step of the queue is a step of the bounded FIFO, or changes nothing
\* in it.
LEMMA FifoStep ==
  ASSUME Sound, Sound', [Next]_vars
  PROVE  [Queue!Next]_<<Fifo, Holding>>
<1> SUFFICES Queue!Next \/ UNCHANGED <<Fifo, Holding>>
  OBVIOUS
<1>1. TypeOK
  BY DEF Sound, Exclusion
<1> USE DEF Goto, Leave
<1>2. ASSUME NEW t \in Producers, NEW v \in Values, PushLoad(t, v)
      PROVE  UNCHANGED <<Fifo, Holding>>
  BY <1>1, <1>2, Unseen DEF PushLoad, Threads, TypeOK, Owns, Filling, Emptying
<1>3. ASSUME NEW t \in Consumers, PopLoad(t) PROVE UNCHANGED <<Fifo, Holding>>
  BY <1>1, <1>3, Unseen DEF PopLoad, Threads, TypeOK, Owns, Filling, Emptying
<1>4. ASSUME NEW t \in Threads, Step(t) PROVE Queue!Next \/ UNCHANGED <<Fifo, Holding>>
  <2> USE DEF TypeOK
  <2>1. CASE PushTest(t)
    BY <1>1, <2>1, Unseen DEF PushTest, Owns, Filling, Emptying
  <2>2. CASE PushCas(t)
    <3>1. CASE head = ticket[t]
      BY <2>2, <3>1, PushWins DEF Queue!Next
    <3>2. CASE head # ticket[t]
      BY <1>1, <2>2, <3>2, Unseen DEF PushCas, Owns, Filling, Emptying
    <3> QED
      BY <3>1, <3>2
  <2>3. CASE PushReload(t)
    BY <1>1, <2>3, Unseen DEF PushReload, Owns, Filling, Emptying
  <2>4. CASE Construct(t) BY <2>4, ConstructUnseen
  <2>5. CASE Publish(t) BY <2>5, PublishShows DEF Queue!Next
  <2>6. CASE PopTest(t)
    BY <1>1, <2>6, Unseen DEF PopTest, Owns, Filling, Emptying
  <2>7. CASE PopCas(t)
    <3>1. CASE tail = ticket[t]
      BY <2>7, <3>1, PopWins DEF Queue!Next
    <3>2. CASE tail # ticket[t]
      BY <1>1, <2>7, <3>2, Unseen DEF PopCas, Owns, Filling, Emptying
    <3> QED
      BY <3>1, <3>2
  <2>8. CASE PopReload(t)
    BY <1>1, <2>8, Unseen DEF PopReload, Owns, Filling, Emptying
  <2>9. CASE Move(t) BY <2>9, MoveUnseen
  <2>10. CASE Vacate(t) BY <2>10, VacateFrees DEF Queue!Next
  <2> QED
    BY <1>4, <2>1, <2>2, <2>3, <2>4, <2>5, <2>6, <2>7, <2>8, <2>9, <2>10 DEF Step
<1>5. CASE UNCHANGED vars
  BY <1>5 DEF vars, Fifo, Holding, Filled, Filling, idx, turn
<1> QED
  BY <1>2, <1>3, <1>4, <1>5 DEF Next

\* The queue implements the bounded FIFO: winning a compare-and-swap accepts or
\* takes an item, the stores of the turn make it available and free its place,
\* and no other step shows.
THEOREM RefinesFifo == Spec => ImplementsBoundedFifo
<1>1. Init => Queue!Init
  <2> SUFFICES ASSUME Init PROVE Queue!Init
    OBVIOUS
  <2>1. Fifo = <<>>
    BY DEF Init, Fifo
  <2>2. Holding = [t \in Threads |-> NoValue]
    BY DEF Init, Holding
  <2> QED
    BY <2>1, <2>2 DEF Queue!Init
<1> QED
  BY <1>1, SoundInvariant, FifoStep, PTL DEF Spec, ImplementsBoundedFifo, Queue!Spec

=============================================================================
