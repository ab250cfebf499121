CONSTANTS
  k1 = k1
  k2 = k2
  g1 = g1
  g2 = g2
  b1 = b1
  b2 = b2
  b3 = b3
  Key = {k1, k2}
  Group = {g1}
  BlockId = {b1, b2, b3}
  Cap = 1
  None = None
  MaxEpoch = 3
  MaxNative = 1
SYMMETRY RegistrySymmetry
SPECIFICATION Spec
INVARIANT NativeKept
