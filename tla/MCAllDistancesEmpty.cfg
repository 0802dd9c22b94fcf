\* GetAllDistances called with an empty query as well.
CONSTANTS
  Dims <- MCDims
  Vals <- MCVals
  Quantized = TRUE
  QMin = 0
  QMax = 2
  NDocs = 3
  QVals <- MCQVals
  QueryRows <- MCQueryRowsWithEmpty
  Ks <- MCKs
  Modes <- MCModes
  Bitsets <- MCBitsets
  NaN = NaN
SPECIFICATION Spec
INVARIANT
  AllDistancesExact
\* a Search ends in pc = "done"
CHECK_DEADLOCK FALSE
