SPECIFICATION Spec
CONSTANTS
  Engines = {"llama"}
  MaxTools = 2
  MaxBatch = 2
  MaxAttempts = 2
  History = 2
INVARIANT NothingForgotten
