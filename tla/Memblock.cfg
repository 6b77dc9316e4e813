SPECIFICATION Spec
CONSTANTS
  NR_REGIONS = 3
  PAGE_SIZE = 1
  MaxAddr = 4
  Nodes = {0}
  Aligns = {2}
  Windows <- KernelWindows
  MaxRemoves = 0
  BeyondMayMatch = FALSE
INVARIANTS TypeOK Sorted Merged NoFault SizeIsCoverage IsolationExact IsolateHasRoom
PROPERTIES ImplementsAbs
CHECK_DEADLOCK FALSE
