SPECIFICATION Spec
CONSTANTS
  t1 = t1
  t2 = t2
  t3 = t3
  t4 = t4
  Tasks = {t1, t2}
  NoTask = NoTask
  Owner = Owner
  NumWorkers = 2
  Capacity = 2
  RetryLimit = 0
  WorkStealing = FALSE
  dependencies <- Chain
  specifyWorkerId <- AnyWorker
  Waited = {t2}
  Unwanted = {t1, t2}
  OwnerCalls = {"start", "exit", "exitAll"}
INVARIANTS
  WaitReturnsFinal
