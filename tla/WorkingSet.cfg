CONSTANTS
  Image = {0}
  Heap = {1, 2}
  Stack = {4, 5}
  Unloaded = {}
  NPTENTRIES = 2
  page_WS_max_size = 2
  PageFileFrames = 4
  Data = {0, 1}
  Junk = Junk
  NULL = NULL
  MaxFrees = 1
SPECIFICATION Spec
INVARIANTS Coherent TablesFollowPages KilledOnlyIfInvalid ResidentIsWorkingSet
PROPERTIES FirstInFirstOut
CHECK_DEADLOCK FALSE
