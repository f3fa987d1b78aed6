SPECIFICATION Spec
CONSTANTS
  Total = 1
  MaxAttempts = 0
  MaxRuns = 1
  MaxDisturbances = 0
INVARIANT FailureStaysVisible
CHECK_DEADLOCK FALSE
