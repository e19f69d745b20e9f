SPECIFICATION FairSpec
CONSTANTS
  None = None
  Starts = {2, 5}
  Ring = 2
  Prime = 4
  MinCtx = 5
  MaxRows = 3
  MaxPos = 9
  PfClear = 2
  RingRetries = 2
  MaxLost = 1
  MaxRingFails = 1
  MaxToggles = 1
INVARIANTS DraftsFromWholeRing MacRingWhole NeverRefused RingsAgree
PROPERTY EveryBlockEnds
CHECK_DEADLOCK FALSE
