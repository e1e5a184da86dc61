SPECIFICATION FairSpec
CONSTANTS
  t1 = t1
  t2 = t2
  t3 = t3
  t4 = t4
  Tasks = {t1, t2, t3}
  NoTask = NoTask
  Owner = Owner
  NumWorkers = 2
  Capacity = 2
  RetryLimit = 0
  WorkStealing = TRUE
  dependencies <- Chain
  specifyWorkerId <- BothOnLast
  Waited = {}
  Unwanted = {}
  OwnerCalls = {"start", "exit", "exitAll", "destroy"}
CHECK_DEADLOCK FALSE
PROPERTIES
  AddedIsHandled
  StopReturns
