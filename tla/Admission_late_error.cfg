SPECIFICATION Spec
CONSTANTS
  ModelKey = {k1}
  k1 = k1
  MaxConcurrent = 1
  MaxStarts = 2
  MaxSidecars = 0
  MaxControls = 0
  MaxRetries = 1
  MaxReconciles = 0
  MaxRestores = 0
  MaxKills = 0
  MaxCleanups = 0
  MaxBacklog = 2
INVARIANT EveryTransferCounted
CHECK_DEADLOCK FALSE
