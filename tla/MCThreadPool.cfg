SPECIFICATION Spec
CONSTANTS
  t1 = t1
  t2 = t2
  t3 = t3
  t4 = t4
  Tasks = {t1, t2, t4}
  NoTask = NoTask
  Owner = Owner
  NumWorkers = 2
  Capacity = 2
  RetryLimit = 0
  WorkStealing = TRUE
  dependencies <- Chain
  specifyWorkerId <- LastOnNone
  Waited = {t1}
  Unwanted = {}
  OwnerCalls = {"start", "exitAll", "destroy"}
CHECK_DEADLOCK FALSE
INVARIANTS
  TypeOK
  HeldOnce
  NothingLost
  StrandedWereMoved
  WaitReturnsFinalIndependent
  AddReturnsUnlessTooLate
PROPERTIES
  ImplementsTaskGraph
