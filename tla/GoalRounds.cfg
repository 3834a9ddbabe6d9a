CONSTANTS
  MaxRounds = 2
  MaxChanges = 3
  MaxHumans = 1
  MaxCancels = 1
  MaxRuns = 4
  LateChanges = FALSE
CHECK_DEADLOCK FALSE
SPECIFICATION FairSpec
INVARIANTS GoalReplays
PROPERTIES ReservedDurable CancelStops UnloadStops RoundsContinue
