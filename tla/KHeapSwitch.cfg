CONSTANTS
  KERNEL_HEAP_START = 3
  KERNEL_HEAP_MAX = 11
  ArrayPages = 1
  Frames = 6
  Sizes = {1, 2}
  Regimes = {{"CONTALLOC", "FIRSTFIT"}}
SPECIFICATION Spec
INVARIANT NoOverlap
