SPECIFICATION FairSpec
CONSTANTS
  Requests = {p, q}
  None = None
  Routes = {"local", "remote"}
  MaxCancels = 2
INVARIANT StopIsKept
INVARIANT AloneIsShown
PROPERTY CardGoes
CHECK_DEADLOCK FALSE
