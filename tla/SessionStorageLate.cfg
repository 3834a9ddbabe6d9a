CONSTANTS
  Process = {p, q}
  None = None
  MaxHandles = 2
  MaxEvents = 2
  MaxCrashes = 0
  LateCalls = TRUE
CHECK_DEADLOCK FALSE
SPECIFICATION Spec
INVARIANT LogContiguous
