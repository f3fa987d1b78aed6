SPECIFICATION FairSpec
CONSTANTS
  Vision = {TRUE, FALSE}
  MaxWatches = 3
  MaxTurns = 2
INVARIANT TypeOK
INVARIANT ListedIsOnDisk
INVARIANT VisionKept
PROPERTY NeverDowngraded
PROPERTY Settles
CHECK_DEADLOCK FALSE
