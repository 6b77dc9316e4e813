SPECIFICATION Spec
CONSTANTS
  NR_REGIONS = 6
  PAGE_SIZE = 1
  MaxAddr = 4
  Nodes = {0}
  Aligns = {1, 2}
  Windows <- KernelWindows
  MaxRemoves = 0
  BeyondMayMatch = FALSE
INVARIANTS AllocFailsOnlyWhenFull
CHECK_DEADLOCK FALSE
