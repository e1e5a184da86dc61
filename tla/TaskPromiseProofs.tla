------------------------- MODULE TaskPromiseProofs --------------------------
(***************************************************************************)
(* Type correctness, no lost notification, the final state that wait()     *)
(* reports, and the implementation of AtomicPromise, proved for any number *)
(* of callers.                                                             *)
(***************************************************************************)
EXTENDS TaskPromise, TLAPS

-----------------------------------------------------------------------------
(* The inductive invariant.                                                *)

\* A caller is either in a loop of one of the operations or in wait(), and a
\* swap is only attempted from a state the operation may leave.
CallsSound ==
  \A c \in Callers :
    /\ pc[c] \in {"cas", "notify"} => op[c] \in Offered
    /\ pc[c] = "cas" => seen[c] \in Leaves(op[c])
    /\ pc[c] \in InWait => op[c] = "wait"

Sound == TypeOK /\ CallsSound

LEMMA OperationsKnown ==
  /\ Offered \subseteq Operation
  /\ "wait" \notin Operation /\ "none" \notin Operation
  /\ \A o \in Operation : Leaves(o) \subseteq TaskState /\ Installs(o) \in TaskState
BY OfferedAssumption DEF Operation, Leaves, Installs, TaskState

LEMMA SoundInit == Init => Sound
BY DEF Init, Sound, TypeOK, CallsSound, TaskState, Location, InWait, Asleep

\* WakeAll moves sleepers back into wait() and touches nobody else.
LEMMA WakeAllWakes ==
  ASSUME TypeOK, NEW d \in Callers
  PROVE  /\ WakeAll(pc)[d] \in Location
         /\ pc[d] \in Asleep =>
              WakeAll(pc)[d] \in {"waitQueuing", "waitRunning"} /\ pc[d] \in InWait
         /\ pc[d] \notin Asleep => WakeAll(pc)[d] = pc[d]
BY DEF TypeOK, WakeAll, Location, InWait, Asleep

\* Everything Next lets one caller do leaves the other callers where they
\* are, except that notifyAll wakes the sleepers.
LEMMA SoundStep == Sound /\ [Next]_vars => Sound'
<1> SUFFICES ASSUME Sound, [Next]_vars PROVE Sound'
  OBVIOUS
<1> USE OperationsKnown DEF Sound, TypeOK, CallsSound, Location, InWait, Asleep
<1>1. ASSUME NEW c \in Callers, NEW o \in Offered, Load(c, o) PROVE Sound'
  BY <1>1 DEF Load, Weigh
<1>2. ASSUME NEW c \in Callers, CallWait(c) PROVE Sound'
  BY <1>2 DEF CallWait
<1>3. ASSUME NEW c \in Callers, LookAgain(c) PROVE Sound'
  BY <1>3 DEF LookAgain, Goto
<1>4. ASSUME NEW c \in Callers, Step(c) PROVE Sound'
  <2>1. CASE CasSucceeds(c) BY <2>1 DEF CasSucceeds
  <2>2. CASE CasFails(c) BY <2>2 DEF CasFails, Weigh
  <2>3. CASE NotifyAll(c) BY <2>3, WakeAllWakes DEF NotifyAll, WakeAll
  <2>4. CASE Return(c) BY <2>4 DEF Return, TaskState
  <2>5. CASE TestQueuing(c) BY <2>5 DEF TestQueuing, Goto
  <2>6. CASE TestRunning(c) BY <2>6 DEF TestRunning, Goto
  <2>7. CASE WaitQueuing(c) BY <2>7 DEF WaitQueuing, Goto
  <2>8. CASE WaitRunning(c) BY <2>8 DEF WaitRunning, Goto
  <2>9. CASE LeaveWait(c) BY <2>9 DEF LeaveWait
  <2> QED
    BY <1>4, <2>1, <2>2, <2>3, <2>4, <2>5, <2>6, <2>7, <2>8, <2>9 DEF Step
<1>5. CASE UNCHANGED vars
  BY <1>5 DEF vars
<1> QED
  BY <1>1, <1>2, <1>3, <1>4, <1>5 DEF Next

LEMMA SoundInvariant == Spec => []Sound
<1> QED
  BY SoundInit, SoundStep, PTL DEF Spec

\* The state and every caller's locals keep their types.
THEOREM TypeCorrect == Spec => []TypeOK
<1>1. Sound => TypeOK
  BY DEF Sound
<1> QED
  BY <1>1, SoundInvariant, PTL

-----------------------------------------------------------------------------
(* No lost notification.                                                   *)

LEMMA NotifierStep ==
  Sound /\ NoSleeperLeftBehind /\ [Next]_vars => NoSleeperLeftBehind'
<1> SUFFICES ASSUME Sound, NoSleeperLeftBehind, [Next]_vars
             PROVE  NoSleeperLeftBehind'
  OBVIOUS
<1> USE DEF NoSleeperLeftBehind, Sound, TypeOK, CallsSound, Asleep, Pending
<1>1. ASSUME NEW c \in Callers, NEW o \in Offered, Load(c, o)
      PROVE  NoSleeperLeftBehind'
  BY <1>1 DEF Load, Weigh
<1>2. ASSUME NEW c \in Callers, CallWait(c) PROVE NoSleeperLeftBehind'
  BY <1>2 DEF CallWait
<1>3. ASSUME NEW c \in Callers, LookAgain(c) PROVE NoSleeperLeftBehind'
  BY <1>3 DEF LookAgain, Goto
<1>4. ASSUME NEW c \in Callers, Step(c) PROVE NoSleeperLeftBehind'
  <2>1. CASE CasSucceeds(c)
    \* An operation either notifies or installs a state that wait() waits for.
    <3>1. Notifies(op[c]) \/ Installs(op[c]) \in Pending
      BY <2>1, OperationsKnown DEF CasSucceeds, Notifies, Installs, Operation
    <3> QED
      BY <2>1, <3>1 DEF CasSucceeds
  <2>2. CASE CasFails(c) BY <2>2 DEF CasFails, Weigh
  <2>3. CASE NotifyAll(c)
    \* Nobody is asleep after a notifyAll.
    <3>1. \A d \in Callers : pc'[d] \notin Asleep
      BY <2>3, WakeAllWakes DEF NotifyAll, WakeAll
    <3> QED
      BY <3>1
  <2>4. CASE Return(c) BY <2>4 DEF Return
  <2>5. CASE TestQueuing(c) BY <2>5 DEF TestQueuing, Goto
  <2>6. CASE TestRunning(c) BY <2>6 DEF TestRunning, Goto
  <2>7. CASE WaitQueuing(c) BY <2>7 DEF WaitQueuing, Goto
  <2>8. CASE WaitRunning(c) BY <2>8 DEF WaitRunning, Goto
  <2>9. CASE LeaveWait(c) BY <2>9 DEF LeaveWait
  <2> QED
    BY <1>4, <2>1, <2>2, <2>3, <2>4, <2>5, <2>6, <2>7, <2>8, <2>9 DEF Step
<1>5. CASE UNCHANGED vars
  BY <1>5 DEF vars
<1> QED
  BY <1>1, <1>2, <1>3, <1>4, <1>5 DEF Next

\* No thread sleeps in wait() over a promise that has left Queuing and Running
\* unless the thread that made it leave them is about to call notifyAll().
THEOREM NoLostNotification == Spec => []NoSleeperLeftBehind
<1>1. Init => NoSleeperLeftBehind
  BY DEF Init, NoSleeperLeftBehind, Pending
<1> QED
  BY <1>1, NotifierStep, SoundInvariant, PTL DEF Spec

-----------------------------------------------------------------------------
(* The state wait() reports.                                               *)

\* A promise that is never reset goes from Queuing to Running to a final
\* state and never back, so each test of wait() rules its state out for good.
Forward ==
  /\ mState # "DependsUnfinish"
  /\ \A c \in Callers :
       /\ pc[c] = "testRunning" => mState # "Queuing"
       /\ pc[c] = "exit" => mState \in {"Done", "Cancelled"}

LEMMA ForwardStep ==
  ASSUME Offered \subseteq {"cancel", "start", "done"},
         Sound, Forward, WaitReturnsFinal, [Next]_vars
  PROVE  Forward' /\ WaitReturnsFinal'
<1> DEFINE Good == Forward /\ WaitReturnsFinal
<1> SUFFICES Good'
  OBVIOUS
<1> USE DEF Forward, WaitReturnsFinal, Sound, TypeOK, CallsSound, InWait, TaskState
<1>1. ASSUME NEW c \in Callers, NEW o \in Offered, Load(c, o) PROVE Good'
  BY <1>1, OperationsKnown DEF Load, Weigh
<1>2. ASSUME NEW c \in Callers, CallWait(c) PROVE Good'
  BY <1>2 DEF CallWait
<1>3. ASSUME NEW c \in Callers, LookAgain(c) PROVE Good'
  BY <1>3 DEF LookAgain, Goto
<1>4. ASSUME NEW c \in Callers, Step(c) PROVE Good'
  <2>1. CASE CasSucceeds(c)
    <3>1. \/ mState = "Queuing" /\ mState' \in {"Running", "Cancelled"}
          \/ mState = "Running" /\ mState' = "Done"
      BY <2>1 DEF CasSucceeds, Leaves, Installs
    <3> QED
      BY <2>1, <3>1, OperationsKnown DEF CasSucceeds
  <2>2. CASE CasFails(c) BY <2>2, OperationsKnown DEF CasFails, Weigh
  <2>3. CASE NotifyAll(c)
    <3>1. op[c] # "wait" /\ pc'[c] = "return"
      BY <2>3, OperationsKnown DEF NotifyAll, WakeAll
    <3>2. ASSUME NEW d \in Callers \ {c}
          PROVE  pc'[d] \in {"waitQueuing", "waitRunning"} \/ pc'[d] = pc[d]
      BY <2>3, WakeAllWakes DEF NotifyAll, WakeAll
    <3> QED
      BY <2>3, <3>1, <3>2 DEF NotifyAll
  <2>4. CASE Return(c) BY <2>4 DEF Return
  <2>5. CASE TestQueuing(c) BY <2>5 DEF TestQueuing, Goto
  <2>6. CASE TestRunning(c) BY <2>6 DEF TestRunning, Goto
  <2>7. CASE WaitQueuing(c) BY <2>7 DEF WaitQueuing, Goto
  <2>8. CASE WaitRunning(c) BY <2>8 DEF WaitRunning, Goto
  <2>9. CASE LeaveWait(c) BY <2>9 DEF LeaveWait
  <2> QED
    BY <1>4, <2>1, <2>2, <2>3, <2>4, <2>5, <2>6, <2>7, <2>8, <2>9 DEF Step
<1>5. CASE UNCHANGED vars
  BY <1>5 DEF vars
<1> QED
  BY <1>1, <1>2, <1>3, <1>4, <1>5 DEF Next

\* On a promise that no ThreadPool resets, wait() returns Done or Cancelled,
\* although it tests the state with two loads and returns a third.
THEOREM WaitReportsFinalState ==
  ASSUME Offered \subseteq {"cancel", "start", "done"}
  PROVE  Spec => []WaitReturnsFinal
<1>1. Init => Forward /\ WaitReturnsFinal
  BY DEF Init, Forward, WaitReturnsFinal
<1>2. Sound /\ Forward /\ WaitReturnsFinal /\ [Next]_vars => (Forward /\ WaitReturnsFinal)'
  BY ForwardStep
<1> QED
  BY <1>1, <1>2, SoundInvariant, PTL DEF Spec

-----------------------------------------------------------------------------
(* TaskPromise implements AtomicPromise.                                   *)

LEMMA AtomicInit == Init => Atomic!Init
BY DEF Init, Atomic!Init, Atomic!None, OutcomeOf

\* The outcome of every caller but c stays what it was, and that of c becomes
\* o: the abstract assignment of outcome.
LEMMA OutcomeUpdate ==
  ASSUME NEW c \in Callers, NEW o,
         \A d \in Callers \ {c} : OutcomeOf(d)' = OutcomeOf(d),
         OutcomeOf(c)' = o
  PROVE  [d \in Callers |-> OutcomeOf(d)]'
           = [[d \in Callers |-> OutcomeOf(d)] EXCEPT ![c] = o]
OBVIOUS

\* The instance's copies of the operations are the operations.
LEMMA AtomicOperations ==
  /\ Atomic!Operation = Operation
  /\ \A o \in Operation : Atomic!Leaves(o) = Leaves(o) /\ Atomic!Installs(o) = Installs(o)
BY DEF Atomic!Operation, Operation, Atomic!Leaves, Leaves, Atomic!Installs, Installs,
       Atomic!TaskState, TaskState

LEMMA AtomicStep ==
  Sound /\ [Next]_vars => [Atomic!Next]_<<mState, [c \in Callers |-> OutcomeOf(c)]>>
<1> DEFINE outcome == [c \in Callers |-> OutcomeOf(c)]
           Refined == [Atomic!Next]_<<mState, outcome>>
<1> SUFFICES ASSUME Sound, [Next]_vars PROVE Refined
  OBVIOUS
<1> USE OperationsKnown, AtomicOperations DEF Sound, TypeOK, CallsSound
\* The four ways in which a step is refined.
<1>1. ASSUME mState' = mState, \A d \in Callers : OutcomeOf(d)' = OutcomeOf(d)
      PROVE  Refined
  <2>1. outcome' = outcome
    BY <1>1
  <2> QED
    BY <1>1, <2>1
<1>2. ASSUME NEW c \in Callers, NEW o \in Operation, OutcomeOf(c) = Atomic!None,
             \A d \in Callers \ {c} : OutcomeOf(d)' = OutcomeOf(d),
             mState \in Leaves(o), mState' = Installs(o),
             OutcomeOf(c)' = [op |-> o, ok |-> TRUE]
      PROVE  Refined
  <2>1. Atomic!Succeed(c, o)
    BY <1>2, OutcomeUpdate DEF Atomic!Succeed
  <2> QED
    BY <2>1 DEF Atomic!Next
<1>3. ASSUME NEW c \in Callers, NEW o \in Operation, OutcomeOf(c) = Atomic!None,
             \A d \in Callers \ {c} : OutcomeOf(d)' = OutcomeOf(d),
             mState \notin Leaves(o), mState' = mState,
             OutcomeOf(c)' = [op |-> o, ok |-> FALSE]
      PROVE  Refined
  <2>1. Atomic!Fail(c, o)
    BY <1>3, OutcomeUpdate DEF Atomic!Fail
  <2> QED
    BY <2>1 DEF Atomic!Next
<1>4. ASSUME NEW c \in Callers, OutcomeOf(c) # Atomic!None, mState' = mState,
             \A d \in Callers \ {c} : OutcomeOf(d)' = OutcomeOf(d),
             OutcomeOf(c)' = Atomic!None
      PROVE  Refined
  <2>1. Atomic!Leave(c)
    BY <1>4, OutcomeUpdate DEF Atomic!Leave
  <2> QED
    BY <2>1 DEF Atomic!Next
\* The steps of the detailed specification.
<1> USE DEF OutcomeOf, Atomic!None
<1>5. ASSUME NEW c \in Callers, NEW o \in Offered, Load(c, o) PROVE Refined
  <2>1. CASE mState \in Leaves(o) BY <1>1, <1>5, <2>1 DEF Load, Weigh
  <2>2. CASE mState \notin Leaves(o) BY <1>3, <1>5, <2>2 DEF Load, Weigh
  <2> QED BY <2>1, <2>2
<1>6. ASSUME NEW c \in Callers, CallWait(c) PROVE Refined
  BY <1>1, <1>6 DEF CallWait
<1>7. ASSUME NEW c \in Callers, LookAgain(c) PROVE Refined
  BY <1>1, <1>7 DEF LookAgain, Goto
<1>8. ASSUME NEW c \in Callers, Step(c) PROVE Refined
  <2>1. CASE CasSucceeds(c)
    <3>1. op[c] \in Operation /\ mState \in Leaves(op[c]) /\ mState' = Installs(op[c])
      BY <2>1 DEF CasSucceeds
    <3>2. OutcomeOf(c) = Atomic!None /\ OutcomeOf(c)' = [op |-> op[c], ok |-> TRUE]
      BY <2>1, <3>1 DEF CasSucceeds
    <3>3. \A d \in Callers \ {c} : OutcomeOf(d)' = OutcomeOf(d)
      BY <2>1 DEF CasSucceeds
    <3> QED
      BY <1>2, <3>1, <3>2, <3>3
  <2>2. CASE CasFails(c)
    <3>1. CASE mState \in Leaves(op[c]) BY <1>1, <2>2, <3>1 DEF CasFails, Weigh
    <3>2. CASE mState \notin Leaves(op[c])
      <4>1. op[c] \in Operation /\ OutcomeOf(c) = Atomic!None
        BY <2>2 DEF CasFails
      <4>2. OutcomeOf(c)' = [op |-> op[c], ok |-> FALSE]
        BY <2>2, <3>2, <4>1 DEF CasFails, Weigh
      <4>3. \A d \in Callers \ {c} : OutcomeOf(d)' = OutcomeOf(d)
        BY <2>2 DEF CasFails, Weigh
      <4> QED
        BY <1>3, <2>2, <3>2, <4>1, <4>2, <4>3 DEF CasFails
    <3> QED BY <3>1, <3>2
  <2>3. CASE NotifyAll(c) BY <1>1, <2>3, WakeAllWakes DEF NotifyAll, Asleep
  <2>4. CASE Return(c)
    <3>1. CASE op[c] = "wait" BY <1>1, <2>4, <3>1 DEF Return
    <3>2. CASE op[c] # "wait"
      <4>1. op[c] \in Operation
        BY <3>2
      <4>2. OutcomeOf(c) # Atomic!None /\ OutcomeOf(c)' = Atomic!None
        BY <2>4, <3>2, <4>1 DEF Return
      <4> QED
        BY <1>4, <2>4, <4>2 DEF Return
    <3> QED BY <3>1, <3>2
  <2>5. CASE TestQueuing(c) BY <1>1, <2>5 DEF TestQueuing, Goto
  <2>6. CASE TestRunning(c) BY <1>1, <2>6 DEF TestRunning, Goto
  <2>7. CASE WaitQueuing(c) BY <1>1, <2>7 DEF WaitQueuing, Goto
  <2>8. CASE WaitRunning(c) BY <1>1, <2>8 DEF WaitRunning, Goto
  <2>9. CASE LeaveWait(c) BY <1>1, <2>9 DEF LeaveWait, InWait
  <2> QED
    BY <1>8, <2>1, <2>2, <2>3, <2>4, <2>5, <2>6, <2>7, <2>8, <2>9 DEF Step
<1>9. CASE UNCHANGED vars
  BY <1>1, <1>9 DEF vars
<1> QED
  BY <1>5, <1>6, <1>7, <1>8, <1>9 DEF Next

\* Each call of cancel, changeState, resetState, done and of the loop that
\* starts a task takes effect, or fails, at one instant.
THEOREM Linearizable == Spec => ImplementsAtomicPromise
<1> QED
  BY AtomicInit, AtomicStep, SoundInvariant, PTL
  DEF Spec, ImplementsAtomicPromise, Atomic!Spec

=============================================================================
