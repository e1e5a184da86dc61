SPECIFICATION Spec
CONSTANTS
  Objects = {o1, o2}
  Ids = {i1, i2}
  Null = Null
  Empty = Empty
CHECK_DEADLOCK FALSE
SYMMETRY Symmetry
INVARIANTS
  TypeOK
  IsRunningIsTrue
  FindsItself
  NoDeadMetaObject
  NotUsedWhenGone
