SPECIFICATION MCSpec
CONSTANTS
  Ids = {i1}
  Readers = {r1, r2}
  Skips = {0, 2}
  MaxItems = 2
  Nobody = Nobody
  MaxPieces = 1
  MaxBatch = 1
PROPERTIES TerminalEndsReader
CHECK_DEADLOCK FALSE
