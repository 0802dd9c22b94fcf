CONSTANTS
  Dims <- MCDims
  Vals <- MCVals
  Quantized = TRUE
  QMin = 0
  QMax = 2
  NDocs = 3
  QVals = {2}
  Ks <- MCKsOne
  Modes <- MCModesExact
  Bitsets <- MCBitsetsOne
  NaN = NaN
SPECIFICATION Spec
PROPERTIES
  Terminates
\* a Search ends in pc = "done"
CHECK_DEADLOCK FALSE
