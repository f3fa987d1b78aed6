SPECIFICATION Spec
CONSTANTS
  small = small
  big = big
  picture = picture
  TextModels <- MCTextModels
  ImageModels <- MCImageModels
  Size <- MCSize
  Engine <- MCEngine
  Policies <- MCPolicies
  Budget <- MCBudget
  Free <- MCFree
  Tight = TRUE
  MaxAsks = 3
  MaxSelects = 1
  MaxLate = 0
  MaxFailures = 0
  MaxAborts = 0
INVARIANT OneTextEngine
CHECK_DEADLOCK FALSE
