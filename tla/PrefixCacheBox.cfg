SPECIFICATION Spec
CONSTANTS
  Prompts <- MCPrompts
  Grid = 3
  MinResume = 1
  GridTail = 2
  Budget = 3
  NBlocks = 3
  NKeys = 5
  MaxFaults = 1
INVARIANTS Restorable RestoreSafe SkippedOnlyIfFailed GridOrder NoLeak
CHECK_DEADLOCK FALSE
