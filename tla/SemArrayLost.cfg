CONSTANTS
  Env = {e1, e2}
  NULL = NULL
  Name = {n1, n2}
  NoName = NoName
  MAX_SEMAPHORES = 1
  InitialValue = {1}
  MaxValue = 1
SPECIFICATION Spec
PROPERTY SemaphoresPersist
