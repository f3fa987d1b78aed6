SPECIFICATION FairSpec
CONSTANTS
  p = p
  q = q
  r = r
  c = c
  d = d
  Turns = {p, q}
  Convs = {c,d}
  ConvOf <- MCTwoChats
  ToolTurns = {q}
  Presses = {x1}
  MaxSteps = 1
  MaxRetries = 1
  MaxRoutes = 1
  ContextFills = FALSE
  Fails = TRUE
  Images = FALSE
  MayLeave = FALSE
INVARIANT OneNativeRun
INVARIANT NoStrandedQueue
PROPERTY TurnsEnd
