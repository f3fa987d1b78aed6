SPECIFICATION Spec
CONSTANTS
  Total = 2
  MaxAttempts = 0
  MaxRuns = 2
  MaxDisturbances = 1
PROPERTY ActualBytes
CHECK_DEADLOCK FALSE
