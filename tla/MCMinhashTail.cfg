\* minhash_lsh_hit_ref with band lengths that are not a multiple of 8:
\* 4 bytes (16 / 4) and 12 bytes (24 / 2), which the "rest" switch was
\* written for.
CONSTANTS
  Fns = {"minhash"}
  Values = {0}
  MaxSize = 0
  Shapes <- MCUnalignedShapes
  MaxDiffs = 2
  RabitqShapes <- MCRabitqShapes
  RabitqBits = {0}
  Ns = {}
  UserQbs = {}
  NsqS = {2}
  NTotal2s = {}
  SelSets = {}
  FloatVals = {0, 1, 2, 3}
  Big = 2
  Huge = 3
  NaN = NaN
  MaxNy = 0
  EVals = {0}
  PVals = {0}
  U8Vals = {0}
  Bf16Of <- MCBf16Of
  KDims = {}
  KNys = {}
  MaskDs = {}
  MaskBits = {}
  DMetrics = {}
SPECIFICATION Spec
INVARIANT
  HitIffEqualBand
\* the call returns in pc = "done" or reads out of bounds
CHECK_DEADLOCK FALSE
