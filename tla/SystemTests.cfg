CONSTANTS
  KERNEL_HEAP_START = 1007616
  KERNEL_HEAP_MAX = 1048575
  ArrayPages = 2
  Frames = 41000
  Sizes = {1}
  Regimes = {{"CONTALLOC"}, {"FIRSTFIT"}}
  \* Not "nextfit": the first kfree of that test crashes the kernel.
  Tests = {"kmalloc", "firstfit1", "firstfit2", "kfree", "physical", "virtual"}
  NULL = NULL
  Junk = Junk
  CONSBUFSIZE = 4
  CRT_ROWS = 2
  CRT_COLS = 7
  PromptLength = 2
  BUFLEN = 7
  HISTORY_MAX = 1
  KbdBytes = 4
  Letters = {32, 97}
  MemorySize = 5
  Numbers <- MCNumbers
  MAX_ARGUMENTS = 3
  Sessions <- MCSessions
  CMOS <- MCMemories
  Images <- MCImages
  userPrograms <- MCPrograms
  Storage = Storage
SPECIFICATION SystemSpec
INVARIANTS
  KernelTestsPass ProgramTestsPass TypedIsRead LineIsShown LibraryRight
  KernelBooted ProgramsLoaded SpaceRight
