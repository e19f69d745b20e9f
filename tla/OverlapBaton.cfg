SPECIFICATION OverlapFair
CONSTANTS
  MaxRounds = 4
  Segs = 2
  Lag = 2
  Chunks <- SomeChunks
INVARIANTS StableReads CollectivesInOrder HalvesApart
PROPERTIES ImplementsAllReduce EveryChunkEnds
CHECK_DEADLOCK FALSE
