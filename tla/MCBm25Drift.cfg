\* BM25 WAND index searched with the avgdl of a collection that has grown
\* since the index was built: the bounds are not refreshed.
CONSTANTS
  Dims <- MCDims
  Vals <- MCVals
  Quantized = TRUE
  QMin = 0
  QMax = 2
  UseWand = TRUE
  BM25 = TRUE
  MaxRows = 3
  BatchMax = 2
  Bm25P <- MCBm25P
  SearchCfgs <- MCDriftedAvgdl
INIT Init
NEXT Next
INVARIANTS
  SearchScoresWithinBound
