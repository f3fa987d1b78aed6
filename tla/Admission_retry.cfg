SPECIFICATION Spec
CONSTANTS
  ModelKey = {k1}
  k1 = k1

  MaxConcurrent = 1
  MaxStarts = 2
  MaxSidecars = 0
  MaxControls = 1
  MaxRetries = 1
  MaxReconciles = 1
  MaxRestores = 0
  MaxKills = 0
  MaxCleanups = 0
  MaxBacklog = 2
INVARIANT WorkConserving
CHECK_DEADLOCK FALSE
