SPECIFICATION FairSpec
CONSTANTS
  Tasks = {t1}
  NoTask = NoTask
  WorkerId = 0
  Capacity = 1
  MaxIdle = 0
  MaxStarts = 1
PROPERTY
  WaitForExitReturns
