CONSTANTS
  Dims <- MCDims
  Vals <- MCVals
  Quantized = TRUE
  QMin = 0
  QMax = 2
  UseWand = TRUE
  BM25 = FALSE
  Bm25P <- MCBm25P
  BatchMax = 2
  DSize = 4
  QSize = 1
  ViewSize = 16
INIT Init
NEXT Next
INVARIANTS
  TypeOK
  CapacityRespected
  MatchesHeapLoad
\* the instance ends destroyed
CHECK_DEADLOCK FALSE
