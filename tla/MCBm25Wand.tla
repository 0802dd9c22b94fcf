----------------------------- MODULE MCBm25Wand -----------------------------
(* A BM25 WAND index over two raw dimensions with term frequencies 0       *)
(* (skipped, but counted in the row sum), 1 and 3 (saturates to 2), built  *)
(* with k1 = 1.2, b = 0.75, avgdl = 2, max_score_ratio = 1.                *)
EXTENDS Bm25Wand

MCDims == {0, 1}
MCVals == {0, 1, 3}

MCBm25P == [ k1 |-> [num |-> 6, den |-> 5], b |-> [num |-> 3, den |-> 4],
             avgdl |-> [num |-> 2, den |-> 1],
             max_score_ratio |-> [num |-> 1, den |-> 1] ]

\* Search configs: metric unset, BM25 or IP; avgdl missing or given; k1 and
\* b unset, equal to the build values, or different (k1 = 2, b = 1).
CfgsWithAvgdl(avgdls) ==
  [ metric : {"", "BM25", "IP"},
    has_k1 : BOOLEAN, k1 : {MCBm25P.k1, [num |-> 2, den |-> 1]},
    has_b  : BOOLEAN, b  : {MCBm25P.b, [num |-> 1, den |-> 1]},
    has_avgdl : BOOLEAN, avgdl : avgdls ]

\* The collection's avgdl at search time equals the build-time one.
MCSameAvgdl == CfgsWithAvgdl({MCBm25P.avgdl})

\* The collection has grown: avgdl at search time is 3 or 4.
MCDriftedAvgdl == CfgsWithAvgdl({MCBm25P.avgdl, [num |-> 3, den |-> 1], [num |-> 4, den |-> 1]})
=============================================================================
