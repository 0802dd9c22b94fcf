\* pq4 fast scan for a batch of n = 24 queries, the largest
\* pq4_preferred_qbs accepts: nbit = 32 and 1 << 32 overflows int.
CONSTANTS
  Fns = {"pq4"}
  Values = {0}
  MaxSize = 0
  Shapes <- MCAlignedShapes
  MaxDiffs = 0
  RabitqShapes <- MCRabitqShapes
  RabitqBits = {0}
  Ns = {24}
  UserQbs = {}
  NsqS = {2}
  NTotal2s = {64}
  SelSets = {{}}
  FloatVals = {0, 1, 2, 3}
  Big = 2
  Huge = 3
  NaN = NaN
  MaxNy = 0
  EVals = {0}
  PVals = {0}
  U8Vals = {0}
  Bf16Of <- MCBf16Of
  KDims = {}
  KNys = {}
  MaskDs = {}
  MaskBits = {}
  DMetrics = {}
SPECIFICATION Spec
INVARIANT
  QueriesHandled
\* the call returns in qpc = "done" or throws
CHECK_DEADLOCK FALSE
