CONSTANTS
  r1 = r1
  r2 = r2
  r3 = r3
  Request <- MCRequest
  Thinking <- MCThinking
  Selectors <- MCSelectors
  Block = 2
  K = 1
  DraftSlots = 1
  MaxScheduled = 7
  MaxBatched = 9
  MaxDecoders = 2
  Caps = {0, 4}
  Spans <- MCSpans
SPECIFICATION MCSpec
SYMMETRY Symmetry
INVARIANTS
  NoDoubleWithhold
  FirstTurnBeforePrefill
  RepayOncePerWave
  BurstBounded
  LongBypassBounded
