CONSTANTS
  Scenarios <- MCScenarios
  SeqMod = 8
  Stages <- MCStages
  AllocStage = 3
  CompareStage = 4
  ConnectStage = 5
  RaisesAtOnce = TRUE
  Caught = {2, 3, 4, 5}
SPECIFICATION RuntimeSpec
INVARIANTS OutputRight NoQuietLoss DoorbellSuffices AllOrNone NobodyStuck
PROPERTIES KeepsLockstep
CHECK_DEADLOCK FALSE
