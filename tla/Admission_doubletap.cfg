SPECIFICATION Spec
CONSTANTS
  ModelKey = {k1}
  k1 = k1
  MaxConcurrent = 1
  MaxStarts = 2
  MaxSidecars = 0
  MaxControls = 3
  MaxRetries = 0
  MaxReconciles = 0
  MaxRestores = 0
  MaxKills = 0
  MaxCleanups = 0
  MaxBacklog = 1
INVARIANT NeverHoldsMore
CHECK_DEADLOCK FALSE
