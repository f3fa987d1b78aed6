SPECIFICATION Spec
CONSTANTS
  ModelKey = {k1}
  k1 = k1
  MaxConcurrent = 1
  MaxStarts = 2
  MaxSidecars = 1
  MaxControls = 0
  MaxRetries = 0
  MaxReconciles = 0
  MaxRestores = 1
  MaxKills = 1
  MaxCleanups = 1
  MaxBacklog = 2
INVARIANT CapOnAdmission
CHECK_DEADLOCK FALSE
