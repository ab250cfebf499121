SPECIFICATION MCSpec
CONSTANTS
  Ids = {i1}
  Readers = {r1, r2}
  Skips = {0, 3}
  MaxItems = 2
  Nobody = Nobody
  MaxPieces = 6
  MaxBatch = 4
INVARIANTS NoLostWakeup NothingLost ClientAgrees KeptTrue
PROPERTIES ImplementsVerdicts ClientsAnswered
CHECK_DEADLOCK FALSE
