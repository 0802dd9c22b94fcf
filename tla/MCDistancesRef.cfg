\* Every kernel: sorted arrays of up to four values from {0, 1, 2} searched
\* for every value by both binary searches; minhash bands of aligned length
\* with y differing from x in up to two bytes; rabitq with bits set at
\* positions in the first byte, the second byte, the last byte of the
\* 64-bit load and the leftover byte; pq4 fast scan over two full blocks
\* (ntotal2 = 64) or, for accumulate_to_mem, an unpadded 40, with 2 or 4
\* sub-quantizers; argmin loops over up to three values among 0, 1, 1e20
\* (2), HUGE_VALF (3) and NaN; every vector kernel on vectors of up to two
\* elements (up to two vectors for ny and transposed, with d_offset = ny or
\* ny + 1), the masked sum on d = 8 and 9 with bits 0, 7 and 8, and every
\* DiskANN element type and metric, one outside the supported three.
CONSTANTS
  Fns = {"eq", "ge", "minhash", "rabitq", "pq4", "argmin", "kernels"}
  Values = {0, 1, 2}
  MaxSize = 4
  Shapes <- MCAlignedShapes
  MaxDiffs = 2
  RabitqShapes <- MCRabitqShapes
  RabitqBits = {0, 9, 63, 64, 70}
  Ns <- MCNs
  UserQbs <- MCUserQbs
  NsqS = {2, 4}
  NTotal2s = {64, 40}
  SelSets <- MCSelSets
  FloatVals = {0, 1, 2, 3}
  Big = 2
  Huge = 3
  NaN = NaN
  MaxNy = 3
  EVals <- MCEVals
  PVals <- MCPVals
  U8Vals = {0, 2}
  Bf16Of <- MCBf16Of
  KDims = {0, 1, 2}
  KNys = {0, 1, 2}
  MaskDs = {8, 9}
  MaskBits = {0, 7, 8}
  DMetrics = {"L2", "INNER_PRODUCT", "COSINE", "OTHER"}
SPECIFICATION Spec
INVARIANTS
  ReturnsFirstMatch
  HitIffEqualBand
  RabitqDotExact
  QueriesHandled
  FirstArgmin
  KernelsExact
PROPERTIES
  Terminates
\* every call ends in a returned state
CHECK_DEADLOCK FALSE
