--------------------------- MODULE MCPersistence ---------------------------
(* Persistence of a BM25 WAND index with two raw dimensions and term      *)
(* frequencies 0 (skipped, but counted in the row sum), 1 and 3 (saturates *)
(* to QMax = 2), built with k1 = 1.2, b = 0.75, avgdl = 2.                *)
EXTENDS Persistence

MCDims == {0, 1}
MCVals == {0, 1, 3}

MCBm25P == [ k1 |-> [num |-> 6, den |-> 5], b |-> [num |-> 3, den |-> 4],
             avgdl |-> [num |-> 2, den |-> 1],
             max_score_ratio |-> [num |-> 1, den |-> 1] ]

\* Search configs with the build-time avgdl: metric unset, BM25 or IP; k1
\* and b unset, equal to the build values, or different (k1 = 2, b = 1).
MCSameAvgdl ==
  [ metric : {"", "BM25", "IP"},
    has_k1 : BOOLEAN, k1 : {MCBm25P.k1, [num |-> 2, den |-> 1]},
    has_b  : BOOLEAN, b  : {MCBm25P.b, [num |-> 1, den |-> 1]},
    has_avgdl : BOOLEAN, avgdl : {MCBm25P.avgdl} ]
=============================================================================
