SPECIFICATION FairSpec
CONSTANTS
  MaxSessions = 1
  MaxMounts = 2
  MaxPresses = 1
  MaxUnloads = 1
CHECK_DEADLOCK FALSE
INVARIANT TypeOK
INVARIANT StopsOnce
INVARIANT HandedBack
INVARIANT CancelledNotTyped
PROPERTY UnwantedCloses
PROPERTY StopReaches
