\* A BM25 WAND index ingested, saved and reloaded: row-store refinement of
\* the ingested index, the column bounds of both, and the round trip.
CONSTANTS
  Dims <- MCDims
  Vals <- MCVals
  Quantized = TRUE
  QMin = 0
  QMax = 2
  UseWand = TRUE
  BM25 = TRUE
  Bm25P <- MCBm25P
  SearchCfgs <- MCSameAvgdl
  MaxRows = 3
  BatchMax = 2
INIT Init
NEXT Next
INVARIANTS
  TypeOK
  WandBoundValid
  SearchScoresWithinBound
  SaveLoadRoundTrip
PROPERTIES
  SrcRefinesRowStore
\* the scenario ends once dst has loaded and src is full
CHECK_DEADLOCK FALSE
