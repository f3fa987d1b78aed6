SPECIFICATION Spec
CONSTANTS
  Engines = {"litert"}
  MaxTools = 2
  MaxBatch = 2
  MaxAttempts = 2
  History = 1
INVARIANT OneLimit
