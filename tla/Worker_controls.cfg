SPECIFICATION FairSpec
CONSTANTS
  Total = 2
  MaxAttempts = 1
  MaxRuns = 3
  MaxDisturbances = 1
INVARIANT TypeOK
INVARIANT SequentialRunsKeepTheFile
INVARIANT LiveRowHasWork
INVARIANT FailureIsTold
PROPERTY Ends
CHECK_DEADLOCK FALSE
