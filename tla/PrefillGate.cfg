SPECIFICATION FairSpec
CONSTANTS
  Threads = {t1, t2, t3}
  None = None
  TokenCounts = {1, 2}
  BypassTokens = 1
  FlagLimits = {2}
  MaxWork = 2
  ShareNum = 1
  ShareDen = 2
INVARIANTS Exclusive SuspendedAlone ShareSlack
PROPERTIES ArrivalOrder EveryPrefillRuns
