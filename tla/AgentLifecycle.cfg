CONSTANTS
  Clients = {c}
CHECK_DEADLOCK FALSE
SPECIFICATION FairSpec
INVARIANT NothingLeft
PROPERTY WaitsEnd
