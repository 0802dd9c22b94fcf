---------------------------- MODULE MCMmapLoad ----------------------------
(* mmap Load of every Save of an index of at most two rows over two       *)
(* dimensions; -1 saturates to a stored 0 (QType unsigned), 3 to 2.       *)
EXTENDS MmapLoad

MCDims == {0, 1}
MCVals == {-1, 0, 1, 3}

\* SetBM25Params(k1 = 1.2, b = 0.75, avgdl = 2, max_score_ratio = 1); unused
\* while BM25 = FALSE.
MCBm25P == [ k1 |-> [num |-> 6, den |-> 5], b |-> [num |-> 3, den |-> 4],
             avgdl |-> [num |-> 2, den |-> 1],
             max_score_ratio |-> [num |-> 1, den |-> 1] ]
=============================================================================
