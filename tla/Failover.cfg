SPECIFICATION FairSpec
CONSTANTS
  Reqs = {r1, r2}
  Streams = {r1}
  Keeper = Keeper
  None = None
  Q3Settings <- Both
  MaxResumes = 2
  MaxTokens = 2
  MaxKids = 4
  MaxLosses = 1
  MaxFaults = 1
INVARIANTS SameText OneChild
PROPERTIES SwitchIdle EveryResponseEnds
CHECK_DEADLOCK FALSE
