CONSTANTS
  Owner = {o1}
  Waiter = {w1, w2}
  None = None
  MaxJobs = 2
  Limit = 1
CHECK_DEADLOCK FALSE
SPECIFICATION FairSpec
INVARIANTS TypeOK NoticesExact ActiveBound NothingLeftBehind
PROPERTY TeardownEnds
