CONSTANTS
  r1 = r1
  r2 = r2
  Request = {r1, r2}
  BaseK = 2
  TopK = 4
  Required = 2
  MaxK = 4
  Captured = {1, 2, 3, 4}
  ForcedK = 1
  Warmup = 1
  ProbeEvery = 2
  Confirm = 2
  Content <- MCContent
  FirstContent <- MCFirst
  MaxWrites = 3
  Solo = r1
  Scenarios = {"growth", "ema", "reload"}
SPECIFICATION BridgeSpec
INVARIANTS FailureWithdraws PollReadsTheFile
PROPERTIES GrowthEarned DepthConfirmed OverrideSettles NotLockedLow
