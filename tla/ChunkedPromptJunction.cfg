CONSTANTS
  Block = 4
  HashUnit = 2
  Tile = 2
  EagleUnit = 2
  MaxExports = 4
  KdaModes = {TRUE}
  ReplayOn = TRUE
  MaxPrompt = 17
  MaxReplay = 0
  Budget = 13
  Junctions = TRUE
SPECIFICATION Spec
INVARIANTS JunctionKept
CHECK_DEADLOCK FALSE
