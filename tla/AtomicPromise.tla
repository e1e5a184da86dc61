--------------------------- MODULE AtomicPromise ----------------------------
(***************************************************************************)
(* What a TaskPromise promises its callers: every operation takes effect   *)
(* at one instant.  At that instant it either finds a state it may leave,  *)
(* installs its target and reports success, or finds any other state,      *)
(* changes nothing and reports failure.  No other step changes the state.  *)
(***************************************************************************)
EXTENDS PromiseState

CONSTANTS Callers

VARIABLES
  state,     \* the state of the promise
  outcome    \* per caller: the outcome of the operation it is leaving

None == [op |-> "none", ok |-> FALSE]
Outcome == [op : Operation, ok : BOOLEAN] \union {None}

Init ==
  /\ state = "Queuing"
  /\ outcome = [c \in Callers |-> None]

\* Operation o of caller c succeeds.
Succeed(c, o) ==
  /\ outcome[c] = None
  /\ state \in Leaves(o)
  /\ state' = Installs(o)
  /\ outcome' = [outcome EXCEPT ![c] = [op |-> o, ok |-> TRUE]]

\* Operation o of caller c finds a state it may not leave.
Fail(c, o) ==
  /\ outcome[c] = None
  /\ state \notin Leaves(o)
  /\ outcome' = [outcome EXCEPT ![c] = [op |-> o, ok |-> FALSE]]
  /\ UNCHANGED state

\* Caller c returns from its operation.
Leave(c) ==
  /\ outcome[c] # None
  /\ outcome' = [outcome EXCEPT ![c] = None]
  /\ UNCHANGED state

Next ==
  \E c \in Callers :
    \/ Leave(c)
    \/ \E o \in Operation : Succeed(c, o) \/ Fail(c, o)

Spec == Init /\ [][Next]_<<state, outcome>>

=============================================================================
