SPECIFICATION Spec
CONSTANTS
  Prompts <- MCPrompts
  Grid = 3
  MinResume = 1
  GridTail = 2
  Budget = 3
  NBlocks = 2
  NKeys = 3
  MaxFaults = 1
INVARIANT DocBlocksDeleted
CHECK_DEADLOCK FALSE
