SPECIFICATION Spec
CONSTANTS
  MaxSessions = 2
  MaxMounts = 1
  MaxPresses = 1
  MaxUnloads = 0
CHECK_DEADLOCK FALSE
INVARIANT NoGhost
