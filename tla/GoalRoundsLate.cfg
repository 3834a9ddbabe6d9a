CONSTANTS
  MaxRounds = 2
  MaxChanges = 3
  MaxHumans = 1
  MaxCancels = 1
  MaxRuns = 4
  LateChanges = TRUE
CHECK_DEADLOCK FALSE
SPECIFICATION Spec
INVARIANT GoalReplays
