SPECIFICATION FairSpec
CONSTANTS
  Requests = {p, q}
  None = None
  Routes = {"local"}
  MaxCancels = 1
INVARIANT NoImageAfterStop
CHECK_DEADLOCK FALSE
