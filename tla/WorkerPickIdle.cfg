SPECIFICATION Spec
CONSTANTS
  NumWorkers = 2
  Capacity = 2
  MaxTickets = 2
  MaxIdle = 2
  Undefined = Undefined
  NoResult = NoResult
  NoLoad = NoLoad
INVARIANT
  HighIsMostIdle
