SPECIFICATION FairSpec
CONSTANTS
  NReqs = 3
  None = None
  MaxSeqs = 2
  Worlds <- AllWorlds
  MaxTokens = 2
  OomTries = 1
  CorruptTries = 1
  OverflowTries = 1
  MaxStepFaults = 2
INVARIANTS OnePlace RunningHasRow NoGhostRow AnsweredOnce NothingLeft SerialRetry StoreBound
PROPERTY EveryRequestEnds
