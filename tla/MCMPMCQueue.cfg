SPECIFICATION FairSpec
CONSTANTS
  t1 = t1
  t2 = t2
  t3 = t3
  Producers <- Pushing
  Consumers <- Popping
  Values = {a, b}
  NoValue = NoValue
  Capacity = 2
  Lively = {t1}
  MaxTickets = 5
INVARIANTS
  TypeOK
  SlotExclusive
  StorageLifetime
  FailureJustified
PROPERTIES
  ImplementsBoundedFifo
  LivelyReturn
