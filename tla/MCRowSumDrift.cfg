\* A BM25 WAND index whose term frequency 3 saturates to 2, saved and
\* reloaded: the loaded row_sums, and so the BM25 distances, differ.
CONSTANTS
  Dims <- MCDims
  Vals <- MCVals
  Quantized = TRUE
  QMin = 0
  QMax = 2
  UseWand = TRUE
  BM25 = TRUE
  Bm25P <- MCBm25P
  SearchCfgs <- MCSameAvgdl
  MaxRows = 3
  BatchMax = 2
INIT Init
NEXT Next
INVARIANT
  Bm25RoundTrip
\* the scenario ends once dst has loaded and src is full
CHECK_DEADLOCK FALSE
