CONSTANTS
  Image = {0}
  Heap = {1, 2, 3}
  Stack = {4}
  Unloaded = {}
  NPTENTRIES = 2
  page_WS_max_size = 3
  PageFileFrames = 5
  Data = {0}
  Junk = Junk
  NULL = NULL
  MaxFrees = 2
SPECIFICATION Spec
INVARIANT FreedIsUnmapped
CHECK_DEADLOCK FALSE
