SPECIFICATION FairSpec
CONSTANTS
  Conns = {c1, c2, c3}
  None = None
  Loop = Loop
  Jobs <- AllJobs
  MaxPoints = 2
  MaxRequests = 1
  PipeCap = 2
INVARIANTS NoJobLost RanksAgree StepsFirst
PROPERTY EveryJobAnswered
