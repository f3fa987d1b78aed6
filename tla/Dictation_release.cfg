SPECIFICATION Spec
CONSTANTS
  MaxSessions = 1
  MaxMounts = 1
  MaxPresses = 1
  MaxUnloads = 1
CHECK_DEADLOCK FALSE
PROPERTY ReleaseWaits
