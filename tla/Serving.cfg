CONSTANTS
  long = long
  mid = mid
  short = short
  Request = {long, mid, short}
  Prompt <- MCPrompt
  MaxOut <- MCMaxOut
  MaxModelLen = 29
  Cached = {mid}
  Stream = {short}
  Impatient = {long, mid, short}
  MaxSeqs = 3
  KVBlocks = 10
  Watermark = 1
  Cap = 8
  LowCap = 4
  AdaptiveAt = 2
  KChoices = {1, 2}
  Block = 4
  HashUnit = 2
  Tile = 2
  EagleUnit = 2
  MaxExports = 4
  KdaCkpt = TRUE
  ReplayOn = TRUE
  K = 2
  DraftSlots = 1
  MaxScheduled = 10
  MaxBatched = 16
  Selectors <- MCSelectors
  Thinking = {}
SPECIFICATION Spec
INVARIANTS NothingMislaid DecodersServed PrefillsHeldBack
PROPERTIES ImplementsLifecycle Completes
CHECK_DEADLOCK FALSE
