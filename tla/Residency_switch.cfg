SPECIFICATION Spec
CONSTANTS
  small = small
  big = big
  picture = picture
  TextModels <- MCTextModels
  ImageModels <- MCImageModels
  Size <- MCSize
  Engine <- MCLlamaOnly
  Policies <- MCOnePolicy
  Budget <- MCOneBudget
  Free <- MCFree
  Tight = TRUE
  MaxAsks = 3
  MaxSelects = 0
  MaxLate = 0
  MaxFailures = 0
  MaxAborts = 0
INVARIANT WithinBudget
CHECK_DEADLOCK FALSE
