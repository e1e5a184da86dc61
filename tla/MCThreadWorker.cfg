SPECIFICATION FairSpec
CONSTANTS
  Tasks = {t1, t2}
  NoTask = NoTask
  WorkerId = 0
  Capacity = 1
  MaxIdle <- ShortIdle
  MaxStarts = 2
INVARIANTS
  TypeOK
  ReportsWhatRan
  NothingLeftBehind
  ExitAfterRunsAll
PROPERTIES
  CancelIsFinal
  UsesBoundedFifo
  OnlySleepDelays
