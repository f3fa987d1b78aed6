SPECIFICATION Spec
CONSTANTS
  ModelKey = {k1, k2}
  k1 = k1
  k2 = k2
  MaxConcurrent = 2
  MaxStarts = 2
  MaxSidecars = 0
  MaxControls = 0
  MaxRetries = 0
  MaxReconciles = 0
  MaxRestores = 1
  MaxKills = 0
  MaxCleanups = 0
  MaxBacklog = 2
CHECK_DEADLOCK FALSE
INVARIANT WorkConserving
