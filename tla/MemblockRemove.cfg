SPECIFICATION Spec
CONSTANTS
  NR_REGIONS = 4
  PAGE_SIZE = 1
  MaxAddr = 3
  Nodes = {0}
  Aligns = {1}
  Windows <- KernelWindows
  MaxRemoves = 1
  BeyondMayMatch = TRUE
PROPERTIES NeverWrong
CHECK_DEADLOCK FALSE
