SPECIFICATION Spec
CONSTANTS
  NReqs = 2
  None = None
  MaxSeqs = 2
  Worlds <- OneReset
  MaxTokens = 2
  OomTries = 1
  CorruptTries = 1
  OverflowTries = 1
  MaxStepFaults = 1
INVARIANT DocSlotNotReused
