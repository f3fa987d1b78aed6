SPECIFICATION FairSpec
CONSTANTS
  small = small
  big = big
  picture = picture
  TextModels <- MCTextModels
  ImageModels <- MCImageModels
  Size <- MCSize
  Engine <- MCEngine
  Policies <- MCPolicies
  Budget <- MCBudget
  Free <- MCFree
  Tight = TRUE
  MaxAsks = 3
  MaxSelects = 1
  MaxLate = 1
  MaxFailures = 1
  MaxAborts = 1
INVARIANT AdmissionsFit
INVARIANT Counted
PROPERTY SidecarsYield
PROPERTY Served
CHECK_DEADLOCK FALSE
