SPECIFICATION Spec
CONSTANTS
  Keys = {k1, k2, k3}
  NoKey = NoKey
  Window = 2
  Max = 2
  MaxKeys = 2
  MaxTime = 6
INVARIANTS TypeOK Bounded
PROPERTIES ImplementsSlidingWindow
CHECK_DEADLOCK FALSE
