SPECIFICATION Spec
CONSTANTS
  t1 = t1
  t2 = t2
  t3 = t3
  t4 = t4
  Tasks = {t1, t2, t3}
  NoTask = NoTask
  Owner = Owner
  NumWorkers = 2
  Capacity = 2
  RetryLimit = 0
  WorkStealing = TRUE
  dependencies <- Fan
  specifyWorkerId <- FirstAndLast
  Waited = {}
  Unwanted = {t2}
  OwnerCalls = {"start", "exitAll"}
INVARIANTS
  HeldOnce
  NothingLost
  StrandedWereMoved
  StopAndWaitAllRunsIndependent
PROPERTY
  ImplementsTaskGraph
