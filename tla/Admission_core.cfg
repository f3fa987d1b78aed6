SPECIFICATION FairSpec
CONSTANTS
  ModelKey = {k1, k2}
  k1 = k1
  k2 = k2
  MaxConcurrent = 1
  MaxStarts = 3
  MaxSidecars = 0
  MaxControls = 3
  MaxRetries = 0
  MaxReconciles = 0
  MaxRestores = 0
  MaxKills = 0
  MaxCleanups = 0
  MaxBacklog = 1
INVARIANT NativeLoadWithinCap
INVARIANT EveryTransferCounted
INVARIANT NoLeakedSlot
PROPERTY QueueDrains
PROPERTY FirstComeFirstServed
CHECK_DEADLOCK FALSE
