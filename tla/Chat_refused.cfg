SPECIFICATION Spec
CONSTANTS
  p = p
  q = q
  r = r
  c = c
  d = d
  Turns = {p, q}
  Convs = {c}
  ConvOf <- MCOneChat
  ToolTurns = {}
  Presses = {}
  MaxSteps = 1
  MaxRetries = 1
  MaxRoutes = 0
  ContextFills = FALSE
  Fails = FALSE
  Images = FALSE
  MayLeave = FALSE
INVARIANT NoneRefused
