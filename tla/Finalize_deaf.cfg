SPECIFICATION FairSpec
CONSTANTS
  Vision = {TRUE}
  MaxWatches = 2
  MaxTurns = 0
PROPERTY FailedProjectorDoesNotHold
CHECK_DEADLOCK FALSE
