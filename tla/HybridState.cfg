CONSTANTS
  Block = 4
  HashUnit = 2
  Tile = 2
  EagleUnit = 2
  MaxExports = 4
  KdaModes = {TRUE, FALSE}
  ReplayOn = TRUE
  MaxPrompt = 17
  MaxReplay = 3
  Budget = 13
  Junctions = TRUE
  SpecTokens = 1
  MaxOut = 6
SPECIFICATION HybridSpec
INVARIANTS LabelsTrue RunningTrue StatesCached OffersHonoured
CHECK_DEADLOCK FALSE
