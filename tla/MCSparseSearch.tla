-------------------------- MODULE MCSparseSearch --------------------------
(* Search over every index of three documents on two dimensions with      *)
(* values 0 (skipped), 1 and 3 (saturated to 2 by a uint8-like QType, so   *)
(* max_score_in_dim_ exceeds the stored value), for positive queries.      *)
EXTENDS SparseSearch

MCDims    == {0, 1}
MCVals    == {0, 1, 3}
MCQVals   == {1, 2}
\* a query with a negative weight
MCQValsSigned == {-1, 1}
MCKs      == {1, 2}
\* drop_ratio 0 (refine_factor forced to 1) and drop_ratio 0.5 with
\* refine_factor 2
MCModes   == { << 0, 1, 1 >>, << 1, 2, 2 >> }
MCBitsets == { {}, {0}, {2}, {0, 1} }
\* smaller inputs for the liveness run
MCKsOne      == {1}
MCBitsetsOne == { {} }
MCModesExact == { << 0, 1, 1 >> }
\* queries that may also be empty
MCQueryRowsWithEmpty ==
  { [ j \in 1..2 |-> << j - 1, f[j - 1] >> ] : f \in [MCDims -> MCQVals] } \cup { << >> }
=============================================================================
