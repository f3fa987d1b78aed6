SPECIFICATION Spec
CONSTANTS
  Total = 1
  MaxAttempts = 0
  MaxRuns = 1
  MaxDisturbances = 1
INVARIANT EveryFailureIsTold
CHECK_DEADLOCK FALSE
