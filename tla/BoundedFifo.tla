---------------------------- MODULE BoundedFifo -----------------------------
(***************************************************************************)
(* What the queue behind SRingBuffer promises to the threads that call     *)
(* push and pop.  An accepted item takes its place in the order at once    *)
(* and becomes available a moment later.  Items are handed out in that     *)
(* order, each one once, to one thread, and only when available.  An item  *)
(* occupies one of Capacity places from its acceptance until the thread    *)
(* that took it has emptied the place.                                     *)
(***************************************************************************)
EXTENDS Naturals, Sequences, FiniteSets

CONSTANTS
  Threads,   \* the threads that use the queue
  Values,    \* the items
  NoValue,   \* not an item
  Capacity   \* the number of places

VARIABLES
  fifo,      \* the accepted items, the oldest first
  holding    \* per thread: the item it is taking out of its place

Entry == [val : Values, ready : BOOLEAN]

Holders == {t \in Threads : holding[t] # NoValue}

Init ==
  /\ fifo = <<>>
  /\ holding = [t \in Threads |-> NoValue]

Accept(v) ==
  /\ Len(fifo) + Cardinality(Holders) < Capacity
  /\ fifo' = Append(fifo, [val |-> v, ready |-> FALSE])
  /\ UNCHANGED holding

MakeAvailable(i) ==
  /\ ~fifo[i].ready
  /\ fifo' = [fifo EXCEPT ![i].ready = TRUE]
  /\ UNCHANGED holding

Take(t) ==
  /\ fifo # <<>>
  /\ Head(fifo).ready
  /\ holding[t] = NoValue
  /\ fifo' = Tail(fifo)
  /\ holding' = [holding EXCEPT ![t] = Head(fifo).val]

Vacate(t) ==
  /\ holding[t] # NoValue
  /\ holding' = [holding EXCEPT ![t] = NoValue]
  /\ UNCHANGED fifo

Next ==
  \/ \E v \in Values : Accept(v)
  \/ \E i \in DOMAIN fifo : MakeAvailable(i)
  \/ \E t \in Threads : Take(t) \/ Vacate(t)

Spec == Init /\ [][Next]_<<fifo, holding>>

=============================================================================
