CONSTANTS
  Scenarios <- MCScenarios
  Party = {0, 1, 2, 3}
  Window = 1
  Buffers = 2
  Stages <- MCStages
  AllocStage = 2
  CompareStage = 3
  ConnectStage = 4
  RaisesAtOnce = FALSE
  Caught = {}
SPECIFICATION RuntimeSpec
INVARIANTS OutputRight BuffersIntact RingShared
PROPERTIES LockstepSpec CallsReturn
CHECK_DEADLOCK FALSE
