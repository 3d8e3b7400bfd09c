CONSTANTS
  Env = {e1, e2, e3}
  NULL = NULL
  Name = {n1, n2}
  NoName = NoName
  MAX_SEMAPHORES = 2
  InitialValue = {0, 1}
  MaxValue = 2
SYMMETRY Symmetry
SPECIFICATION Spec
INVARIANTS SchedulerSound QueueLengthMatchesValue BlockedExactlyInOneQueue NamesUnique
PROPERTIES ImplementsFifo
