SPECIFICATION FairSpec
CONSTANTS
  Tokens = {"a", "b"}
  None = None
  Slots = {s1, s2}
  First = s1
  Prompt <- TwoTokens
  MaxPos = 3
  MaxDrafts = 1
  ResumeTries = 1
  MaxAttempts = 1
  MaxFaults = 2
INVARIANTS RowsOfText Rebuildable
PROPERTIES EveryStepEnds SessionsEnd
