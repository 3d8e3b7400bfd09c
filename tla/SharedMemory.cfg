CONSTANTS
  Env = {e1, e2}
  NULL = NULL
  Name = {x, y}
  MAX_SHARES = 2
  Frame = {f1, f2, f3}
  USER_HEAP_START = 1
  USER_HEAP_MAX = 4
  Sizes = {1, 2}
  Outgrows = FALSE
SYMMETRY Symmetry
SPECIFICATION Spec
INVARIANTS HoldersShare ReferencesCountHolders FramesExclusive NothingStaysMapped MappedInsideOwnBlock
CHECK_DEADLOCK FALSE
