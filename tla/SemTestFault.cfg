CONSTANTS
  Env = {m, c1, c2, c3}
  NULL = NULL
  Name = {shop, depend}
  NoName = NoName
  MAX_SEMAPHORES = 2
  InitialValue = {0, 1, 2}
  MaxValue = 3
  master = m
  shop = shop
  depend = depend
  Capacity = 1
  Residence = {FALSE}
SPECIFICATION TestSpec
INVARIANT CapacityRespected
CHECK_DEADLOCK FALSE
