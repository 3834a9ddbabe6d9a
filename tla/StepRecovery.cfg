CONSTANTS
  Calls = 2
  MaxParallel = 2
  MaxRounds = 2
  MaxCrashes = 2
  ScanLength = 6
CHECK_DEADLOCK FALSE
SPECIFICATION RecoverySpec
INVARIANTS RepairedLogBalanced NotStartedIsTrue RepairStable
