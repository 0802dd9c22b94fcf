\* Range-search post-processing of two queries, filtering in any order.
CONSTANTS
  NQ = 2
  Results <- MCResults
  TopKs = {1, 2}
  Ranges <- MCRanges
  FltMax = FltMax
SPECIFICATION Spec
INVARIANTS
  TypeOK
  RangeTopKCorrect
\* ReGenRangeSearchResult returns after the last query
CHECK_DEADLOCK FALSE
