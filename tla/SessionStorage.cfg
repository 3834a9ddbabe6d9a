CONSTANTS
  Process = {p, q}
  None = None
  MaxHandles = 2
  MaxEvents = 2
  MaxCrashes = 1
  LateCalls = FALSE
CHECK_DEADLOCK FALSE
SPECIFICATION Spec
INVARIANTS LogContiguous WriterHoldsLock AckedDurable BufferExact SomeoneWillDrain
