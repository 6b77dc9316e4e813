SPECIFICATION PagingSpec
CONSTANTS
  PAGE_SIZE = 2
  PTRS = 2
  MaxPages = 11
  KernelMap = 7
  LowPages = 5
  BRK_PAGES = 6
  Layouts <- TwoRegions
  NPTRS = 6
  EARLY_FREE_PAGES = 4
  TextOffset = 1
  ImagePages = 2
  Machines <- SomeMachines
  Memory = {0, 1, 2, 5, 6, 7, 13}
  Touched = {0, 1, 7, 13, 20}
  TlbSize = 1
  NrCpus = 2
INVARIANTS OnlyMemory AllMapped LargestPages
INVARIANTS EarlyTranslates EarlyPagesReused ShadowAgrees ModesAgree
PROPERTY FaultResolved
CHECK_DEADLOCK FALSE
