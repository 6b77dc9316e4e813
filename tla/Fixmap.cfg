SPECIFICATION Spec
CONSTANTS
  T = 4
  PAGE_SIZE = 2
  PhysAddrs = {4, 7}
  Sizes = {0, 1, 3, 9}
  Permanent = {1}
  Beyond <- FreeOrRange
INVARIANTS Translates TlbCoherent NoSlotLost
PROPERTIES Terminates
CHECK_DEADLOCK FALSE
