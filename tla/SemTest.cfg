CONSTANTS
  Env = {m, c1, c2, c3}
  NULL = NULL
  Name = {shop, depend}
  NoName = NoName
  MAX_SEMAPHORES = 2
  InitialValue = {0, 1, 2}
  MaxValue = 6
  master = m
  shop = shop
  depend = depend
  Capacity = 2
  Residence = {TRUE, FALSE}
SPECIFICATION TestSpec
INVARIANTS CapacityKept FinalValues SleepsWhereItWaited
PROPERTIES EveryoneExits
CHECK_DEADLOCK FALSE
