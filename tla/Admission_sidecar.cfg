SPECIFICATION Spec
CONSTANTS
  ModelKey = {k1}
  k1 = k1
  MaxConcurrent = 1
  MaxStarts = 2
  MaxSidecars = 1
  MaxControls = 2
  MaxRetries = 0
  MaxReconciles = 0
  MaxRestores = 0
  MaxKills = 0
  MaxCleanups = 0
  MaxBacklog = 2
INVARIANT SidecarRidesFree
CHECK_DEADLOCK FALSE
