SPECIFICATION FairSpec
CONSTANTS
  Engines = {"llama", "litert", "remote"}
  MaxTools = 3
  MaxBatch = 2
  MaxAttempts = 3
  History = 2
INVARIANT EveryCallAnswered
INVARIANT CallsWithinLimit
INVARIANT OneAnswer
PROPERTY StopStartsNothing
PROPERTY TurnEnds
