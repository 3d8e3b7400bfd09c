CONSTANTS
  KERNEL_HEAP_START = 3
  KERNEL_HEAP_MAX = 9
  ArrayPages = 1
  Frames = 6
  Sizes = {1, 2, 3}
  Regimes = {{"FIRSTFIT", "NEXTFIT"}, {"CONTALLOC", "BESTFIT"}}
SPECIFICATION FrameSpec
INVARIANTS NoOverlap MappedIsTaken FreeListIsExact TranslationsInverse
PROPERTIES KeepsPromise
CHECK_DEADLOCK FALSE
