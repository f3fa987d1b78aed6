SPECIFICATION Spec
CONSTANTS
  p = p
  q = q
  r = r
  c = c
  d = d
  Turns = {p, q}
  Convs = {c,d}
  ConvOf <- MCTwoChats
  ToolTurns = {}
  Presses = {x1,x2}
  MaxSteps = 1
  MaxRetries = 1
  MaxRoutes = 0
  ContextFills = TRUE
  Fails = TRUE
  Images = TRUE
  MayLeave = TRUE
PROPERTY SlotSpec
