SPECIFICATION AppSpec
CONSTANTS
  Thread = {master, s1, s2, s3, s4}
  Master = master
  Sem <- MCSem
  Initial = {0}
  None = None
  Clerk = {s1, s2}
  Customer = {s3, s4}
  Mixes <- MCMixes
  Tickets <- MCTickets
  QuickSlave = s1
  MergeSlave = s2
  StatsSlave = s3
  Sizes = {1, 2, 3, 4, 6}
  ProcessA = s1
  ProcessB = s2
  X0 = 5
  Entrant = {s1, s2, s3}
  LoneSizes = {1, 2, 3, 4, 6}
  MaxRounds = 2
  Envs = {1, 2}
  Storage = Storage
  Frames <- MCFrames
  HeapPages <- MCHeapPages
  Pages = {0, 1}
  WSPage = 2
  NPTENTRIES = 2
  page_WS_max_size = 1
  MaxReleases = 1
  MaxLost = 0
  Junk = Junk
  NULL = NULL
INVARIANTS SynchronisedRight SortedRight MemoryAccounted ProgramsApart
PROPERTY EveryoneEnds
CHECK_DEADLOCK FALSE
