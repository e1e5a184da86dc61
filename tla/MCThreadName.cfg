SPECIFICATION Spec
CONSTANTS
  Objects = {o1}
  Ids = {i1}
  Null = Null
  Empty = Empty
CHECK_DEADLOCK FALSE
INVARIANTS
  NamedWhenRun
