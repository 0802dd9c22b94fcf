CONSTANTS
  Dims <- MCDims
  Vals <- MCVals
  Quantized = TRUE
  QMin = 0
  QMax = 2
  NDocs = 3
  QVals <- MCQVals
  Ks <- MCKs
  Modes <- MCModes
  Bitsets <- MCBitsets
  NaN = NaN
SPECIFICATION Spec
INVARIANTS
  TypeOK
  EngineEquivalence
  TopKExact
  AllDistancesExact
\* a Search ends in pc = "done"
CHECK_DEADLOCK FALSE
