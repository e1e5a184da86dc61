SPECIFICATION FairSpec
CONSTANTS
  Callers = {c1, c2, c3}
  Offered <- PoolOperations
INVARIANTS
  TypeOK
  NoSleeperLeftBehind
PROPERTIES
  ImplementsAtomicPromise
  WaitReturns
