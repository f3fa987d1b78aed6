SPECIFICATION Spec
CONSTANTS
  p = p
  q = q
  r = r
  c = c
  d = d
  Turns = {p, q, r}
  Convs = {c,d}
  ConvOf <- MCTwoAndOne
  ToolTurns = {}
  Presses = {}
  MaxSteps = 1
  MaxRetries = 1
  MaxRoutes = 0
  ContextFills = FALSE
  Fails = FALSE
  Images = FALSE
  MayLeave = FALSE
INVARIANT OwnChat
