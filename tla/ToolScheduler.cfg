CONSTANTS
  Calls = 4
  MaxParallel = 2
CHECK_DEADLOCK FALSE
SPECIFICATION FairSpec
INVARIANTS TypeOK ResultsOrdered AllAnswered PoolBound Barriers Quiescent
PROPERTIES NoStartAfterAbort FailureStops SchedulerReturns
