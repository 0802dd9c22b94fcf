---------------------------- MODULE SparseIndex ----------------------------
(***************************************************************************)
(* One heap-backed InvertedIndex<DType, QType, use_wand, bm25, false>     *)
(* (src/src/index/sparse/sparse_inverted_index.h).                        *)
(*                                                                         *)
(* The variable `index` is the instance: a record whose fields are the     *)
(* class members (dim_map_, inverted_index_ids_, ...).  Column c of the    *)
(* code (0-based) is element c+1 of the TLA+ sequences.  `buffer` is the   *)
(* MemoryIOWriter / MemoryIOReader byte stream, modelled as the sequence   *)
(* of the POD fields written in order (every field is one element; the    *)
(* mmap loader, which computes byte sizes, gives fields their widths).     *)
(*                                                                         *)
(* DType values are integers (the test data and the stored QType are       *)
(* integral); the saturating cast of get_quant_val is modelled exactly.    *)
(***************************************************************************)
EXTENDS Integers, Sequences, FiniteSets, TLC
LOCAL INSTANCE FiniteSetsExt

CONSTANTS
  Dims,        \* raw dimension ids (table_t) a row may use
  Vals,        \* DType values a row entry may carry
  Quantized,   \* TRUE iff QType differs from DType
  QMin, QMax,  \* numeric_limits<QType>::min() / max()
  UseWand,     \* template flag use_wand
  BM25,        \* template flag bm25
  MaxRows,     \* bound on n_rows_internal_
  BatchMax,    \* bound on the rows of one Add call
  Bm25P        \* SetBM25Params(k1, b, avgdl, max_score_ratio) at construction

ASSUME Dims \subseteq Nat /\ Vals \subseteq Int
ASSUME QMin \in Int /\ QMax \in Int /\ QMin < QMax
ASSUME MaxRows \in Nat /\ BatchMax \in Nat \ {0}
ASSUME \A f \in {"k1", "b", "avgdl", "max_score_ratio"} :
         Bm25P[f].num \in Nat /\ Bm25P[f].den \in Nat \ {0}

VARIABLES index, buffer

-----------------------------------------------------------------------------
(* Inputs: a SparseRow is a sequence of <<idx, val>> with distinct idx.    *)

Entries == Dims \X Vals

SparseRows ==
  { r \in UNION { [1..n -> Entries] : n \in 0..Cardinality(Dims) } :
      \A i, j \in DOMAIN r : i # j => r[i][1] # r[j][1] }

\* Add's `dim` argument: the width of the batch (largest idx + 1).
BatchDim(rows) ==
  LET ids == UNION { { rows[i][j][1] : j \in DOMAIN rows[i] } : i \in DOMAIN rows }
  IN IF ids = {} THEN 0 ELSE Max(ids) + 1

-----------------------------------------------------------------------------
(* Float scores (max_score_in_dim_, BM25 scores) are exact fractions       *)
(* [num, den] with den > 0; rounding is not modelled.                      *)

Frac(n) == [num |-> n, den |-> 1]

FAdd(x, y) == [num |-> x.num * y.den + y.num * x.den, den |-> x.den * y.den]

FScale(x, n) == [num |-> x.num * n, den |-> x.den]

FLeq(x, y) == x.num * y.den <= y.num * x.den

\* GetDocValueBM25Computer(k1, b, avgdl) applied to (tf, doc_len):
\*   tf * (k1 + 1) / (tf + k1 * (1 - b + b * doc_len / avgdl))
\* with every fraction cleared into one numerator and one denominator.
Bm25Score(k1, b, avgdl, tf, dl) ==
  LET num == tf * (k1.num + k1.den) * b.den * avgdl.num * avgdl.den
      den == tf * k1.den * b.den * avgdl.num * avgdl.den
             + k1.num * ((b.den - b.num) * avgdl.num * avgdl.den
                         + b.num * dl * avgdl.den * avgdl.den)
  IN IF den < 0 THEN [num |-> -num, den |-> -den] ELSE [num |-> num, den |-> den]

\* A DocValueComputer: the original one (the stored value) or BM25 with
\* the given k1, b and avgdl.
OriginalComputer == [bm25 |-> FALSE, k1 |-> Frac(0), b |-> Frac(0), avgdl |-> Frac(1)]

Bm25Computer(k1, b, avgdl) == [bm25 |-> TRUE, k1 |-> k1, b |-> b, avgdl |-> avgdl]

ComputeScore(computer, val, dl) ==
  IF computer.bm25 THEN Bm25Score(computer.k1, computer.b, computer.avgdl, val, dl)
  ELSE Frac(val)

\* BM25Params::wand_max_score_computer, built from the construction-time
\* k1, b and avgdl.
WandMaxScoreComputer == Bm25Computer(Bm25P.k1, Bm25P.b, Bm25P.avgdl)

-----------------------------------------------------------------------------
(* State of one instance.                                                  *)

EmptyIndex ==
  [ dim_map_            |-> <<>>,   \* raw idx -> column (a function)
    inverted_index_ids_ |-> <<>>,   \* column -> ascending doc ids
    inverted_index_vals_|-> <<>>,   \* column -> quantized values
    max_score_in_dim_   |-> <<>>,   \* column -> running max (WAND only)
    row_sums            |-> <<>>,   \* doc -> sum of raw values (BM25 only)
    n_rows_internal_    |-> 0,
    max_dim_            |-> 0,
    next_dim_id_        |-> 0 ]

NCols(ix) == Len(ix.inverted_index_ids_)

\* get_quant_val: saturating cast to QType, identity when QType = DType.
GetQuantVal(val) ==
  IF ~Quantized THEN val
  ELSE IF val >= QMax THEN QMax
  ELSE IF val <= QMin THEN QMin
  ELSE val

MaxOfLast(a, b) == b      \* seeded fault: the running max overwritten

\* std::max of two scores.
MaxOf(a, b) == IF FLeq(b, a) THEN a ELSE b

\* Seeded fault: next_dim_id_ not incremented for a new column.
OpenColumnNoNextDim(ix, idx) ==
  IF idx \in DOMAIN ix.dim_map_ THEN ix
  ELSE [ix EXCEPT
          !.dim_map_ = [d \in DOMAIN @ \cup {idx} |->
                          IF d = idx THEN ix.next_dim_id_ ELSE @[d]],
          !.inverted_index_ids_ = Append(@, <<>>),
          !.inverted_index_vals_ = Append(@, <<>>),
          !.max_score_in_dim_ = IF UseWand THEN Append(@, Frac(0)) ELSE @]

\* First sight of idx: map it to column next_dim_id_++, append empty
\* posting lists and (WAND) a zero max score.
OpenColumn(ix, idx) ==
  IF idx \in DOMAIN ix.dim_map_ THEN ix
  ELSE [ix EXCEPT
          !.dim_map_ = [d \in DOMAIN @ \cup {idx} |->
                          IF d = idx THEN ix.next_dim_id_ ELSE @[d]],
          !.next_dim_id_ = @ + 1,
          !.inverted_index_ids_ = Append(@, <<>>),
          !.inverted_index_vals_ = Append(@, <<>>),
          !.max_score_in_dim_ = IF UseWand THEN Append(@, Frac(0)) ELSE @]

\* The WAND score of one entry: the unquantized value, or with BM25
\* max_score_ratio * wand_max_score_computer(val, row_sum) where row_sum
\* is the sum of the row's values up to and including this one.
WandScoreOf(val, row_sum) ==
  IF BM25
  THEN LET s == ComputeScore(WandMaxScoreComputer, val, row_sum)
       IN [num |-> Bm25P.max_score_ratio.num * s.num,
           den |-> Bm25P.max_score_ratio.den * s.den]
  ELSE Frac(val)

\* One loop iteration of add_row_to_index for entry <<idx, val>>, with the
\* row sum already including val: zero values are skipped after the sum.
AddEntry(ix, vec_id, idx, val, row_sum) ==
  IF val = 0 THEN ix
  ELSE
    LET ix1 == OpenColumn(ix, idx)
        c   == ix1.dim_map_[idx] + 1
    IN [ix1 EXCEPT
          !.inverted_index_ids_[c]  = Append(@, vec_id),
          !.inverted_index_vals_[c] = Append(@, GetQuantVal(val)),
          !.max_score_in_dim_ =
              IF UseWand THEN [@ EXCEPT ![c] = MaxOf(@, WandScoreOf(val, row_sum))]
              ELSE @]

\* The running row_sum after the first i entries of row.
PartialSum(row, i) ==
  LET S[j \in 0..i] == IF j = 0 THEN 0 ELSE S[j-1] + row[j][2]
  IN S[i]

\* Seeded fault: the BM25 row sum is never recorded.
AddRowToIndexNoRowSum(ix, row, vec_id) ==
  LET Step[i \in 0..Len(row)] ==
        IF i = 0 THEN ix
        ELSE AddEntry(Step[i-1], vec_id, row[i][1], row[i][2], PartialSum(row, i))
  IN Step[Len(row)]

\* add_row_to_index: every entry in row order, then the row sum (BM25).
AddRowToIndex(ix, row, vec_id) ==
  LET Step[i \in 0..Len(row)] ==
        IF i = 0 THEN ix
        ELSE AddEntry(Step[i-1], vec_id, row[i][1], row[i][2], PartialSum(row, i))
      ix1 == Step[Len(row)]
  IN IF BM25 THEN [ix1 EXCEPT !.row_sums = Append(@, PartialSum(row, Len(row)))]
     ELSE ix1

\* Seeded fault of Add: ids restart at 0 (current_rows not added).
AddRowsFromZero(ix, rows, dim) ==
  LET ix0 == [ix EXCEPT !.max_dim_ = IF dim > @ THEN dim ELSE @]
      Step[i \in 0..Len(rows)] ==
        IF i = 0 THEN ix0 ELSE AddRowToIndex(Step[i-1], rows[i], i - 1)
  IN [Step[Len(rows)] EXCEPT !.n_rows_internal_ = ix.n_rows_internal_ + Len(rows)]

\* Add (heap mode): rows get ids n_rows_internal_ + i.
AddRows(ix, rows, dim) ==
  LET cur == ix.n_rows_internal_
      ix0 == [ix EXCEPT !.max_dim_ = IF dim > @ THEN dim ELSE @]
      Step[i \in 0..Len(rows)] ==
        IF i = 0 THEN ix0 ELSE AddRowToIndex(Step[i-1], rows[i], cur + (i - 1))
  IN [Step[Len(rows)] EXCEPT !.n_rows_internal_ = cur + Len(rows)]

-----------------------------------------------------------------------------
(* Save: rows are rebuilt by one cursor per column driven in lock-step.    *)

\* dim_map_reverse[c]: the raw idx mapped to column c (1-based here).
DimOfCol(ix, c) == CHOOSE d \in DOMAIN ix.dim_map_ : ix.dim_map_[d] = c - 1

\* Cursor::cur_vec_id_ of column c at position loc (0-based), no filter.
CurVecId(ix, c, loc) ==
  IF loc >= Len(ix.inverted_index_ids_[c]) THEN ix.n_rows_internal_
  ELSE ix.inverted_index_ids_[c][loc + 1]

\* Seeded fault of Save: the cursors are not advanced (next() dropped).
SaveRowStepStuck(ix, vec_id, locs) ==
  LET at  == SelectSeq([c \in 1..NCols(ix) |-> c],
                       LAMBDA c : CurVecId(ix, c, locs[c]) = vec_id)
  IN [ row  |-> [j \in DOMAIN at |->
                   << DimOfCol(ix, at[j]),
                      ix.inverted_index_vals_[at[j]][locs[at[j]] + 1] >>],
       locs |-> locs ]

\* The entries of document vec_id: every column whose cursor is at vec_id,
\* in column order, as <<raw idx, value>>; and the advanced cursors.
SaveRowStep(ix, vec_id, locs) ==
  LET at  == SelectSeq([c \in 1..NCols(ix) |-> c],
                       LAMBDA c : CurVecId(ix, c, locs[c]) = vec_id)
  IN [ row  |-> [j \in DOMAIN at |->
                   << DimOfCol(ix, at[j]),
                      ix.inverted_index_vals_[at[j]][locs[at[j]] + 1] >>],
       locs |-> [c \in 1..NCols(ix) |->
                   IF CurVecId(ix, c, locs[c]) = vec_id THEN locs[c] + 1
                   ELSE locs[c]] ]

\* The fields of one row: size_t len, then len (table_t idx, DType val).
RowFields(row) ==
  LET F[j \in 0..Len(row)] ==
        IF j = 0 THEN << Len(row) >> ELSE F[j-1] \o << row[j][1], row[j][2] >>
  IN F[Len(row)]

\* Save: header (rows, cols, deprecated value threshold 0), then the rows.
SaveStream(ix) ==
  LET S[v \in 0..ix.n_rows_internal_] ==
        IF v = 0
        THEN [ out  |-> << ix.n_rows_internal_, ix.max_dim_, 0 >>,
               locs |-> [c \in 1..NCols(ix) |-> 0] ]
        ELSE LET st == SaveRowStep(ix, v - 1, S[v-1].locs)
             IN [ out |-> S[v-1].out \o RowFields(st.row), locs |-> st.locs ]
  IN S[ix.n_rows_internal_].out

-----------------------------------------------------------------------------
(* Load (heap mode): every row read is funnelled through add_row_to_index. *)

Abs(x) == IF x < 0 THEN -x ELSE x

\* The SparseRow stored at field position pos (its len field) of stream.
RowAt(stream, pos) ==
  [j \in 1..stream[pos] |-> << stream[pos + 2*j - 1], stream[pos + 2*j] >>]

LoadStream(ix, stream) ==
  LET rows == Abs(stream[1])
      ix0  == [ix EXCEPT !.max_dim_ = stream[2]]
      L[i \in 0..rows] ==
        IF i = 0 THEN [ix |-> ix0, pos |-> 4]
        ELSE LET row == RowAt(stream, L[i-1].pos)
             IN [ ix  |-> AddRowToIndex(L[i-1].ix, row, i - 1),
                  pos |-> L[i-1].pos + 1 + 2 * Len(row) ]
  IN [L[rows].ix EXCEPT !.n_rows_internal_ = rows]

-----------------------------------------------------------------------------
(* Read-only queries used by the properties.                               *)

\* Seeded fault: the WAND branch lets search-time k1/b override the build
\* values, as the brute-force branch does.
GetDocValueComputerOverrides(cfg) ==
  CASE ~BM25 -> [status |-> "success", computer |-> OriginalComputer]
    [] cfg.metric # "" /\ cfg.metric # "BM25" ->
         [status |-> "invalid_metric_type", computer |-> OriginalComputer]
    [] ~cfg.has_avgdl -> [status |-> "invalid_args", computer |-> OriginalComputer]
    [] OTHER ->
         [status |-> "success",
          computer |-> Bm25Computer(IF cfg.has_k1 THEN cfg.k1 ELSE Bm25P.k1,
                                    IF cfg.has_b THEN cfg.b ELSE Bm25P.b,
                                    cfg.avgdl)]

\* GetDocValueComputer for a SparseInvertedIndexConfig cfg: the metric type
\* ("" when unset), and each optional BM25 parameter as has_x / x.
GetDocValueComputer(cfg) ==
  CASE ~BM25 ->
         IF cfg.metric # "" /\ cfg.metric # "IP"
         THEN [status |-> "invalid_metric_type", computer |-> OriginalComputer]
         ELSE [status |-> "success", computer |-> OriginalComputer]
    [] cfg.metric # "" /\ cfg.metric # "BM25" ->
         [status |-> "invalid_metric_type", computer |-> OriginalComputer]
    [] ~cfg.has_avgdl ->
         [status |-> "invalid_args", computer |-> OriginalComputer]
    [] UseWand ->
         IF (cfg.has_k1 /\ cfg.k1 # Bm25P.k1) \/ (cfg.has_b /\ cfg.b # Bm25P.b)
         THEN [status |-> "invalid_args", computer |-> OriginalComputer]
         ELSE [status |-> "success",
               computer |-> Bm25Computer(Bm25P.k1, Bm25P.b, cfg.avgdl)]
    [] OTHER ->
         [status |-> "success",
          computer |-> Bm25Computer(IF cfg.has_k1 THEN cfg.k1 ELSE Bm25P.k1,
                                    IF cfg.has_b THEN cfg.b ELSE Bm25P.b,
                                    cfg.avgdl)]

\* The score a computer gives the value stored at position p of column c,
\* with the document's row sum as its length.
StoredScore(ix, computer, c, p) ==
  ComputeScore(computer, ix.inverted_index_vals_[c][p],
               IF BM25 THEN ix.row_sums[ix.inverted_index_ids_[c][p] + 1] ELSE 0)

\* Every stored entry of every column scores at most the column's
\* max_score_in_dim_ under computer.
WithinBounds(ix, computer) ==
  \A c \in 1..NCols(ix) :
    \A p \in DOMAIN ix.inverted_index_vals_[c] :
      FLeq(StoredScore(ix, computer, c, p), ix.max_score_in_dim_[c])

\* n_rows() and n_cols(): the row count and the width max_dim_ (not the
\* number of columns, which is NCols).
n_rows(ix) == ix.n_rows_internal_

n_cols(ix) == ix.max_dim_

\* GetRawDistance: per query entry, std::lower_bound of vec_id in the
\* column's ids; a hit adds val * computer(stored, row_sums[vec_id]) (the
\* row sum only with BM25).  The result is an exact fraction.
LowerBound(ids, vec_id) ==
  LET ge == { p \in DOMAIN ids : ids[p] >= vec_id }
  IN IF ge = {} THEN Len(ids) + 1 ELSE Min(ge)

GetRawDistance(ix, vec_id, query, computer) ==
  LET Contrib(i) ==
        LET idx == query[i][1]
        IN IF idx \notin DOMAIN ix.dim_map_ THEN Frac(0)
           ELSE LET c   == ix.dim_map_[idx] + 1
                    ids == ix.inverted_index_ids_[c]
                    p   == LowerBound(ids, vec_id)
                IN IF p <= Len(ids) /\ ids[p] = vec_id
                   THEN FScale(ComputeScore(computer, ix.inverted_index_vals_[c][p],
                                            IF BM25 THEN ix.row_sums[vec_id + 1] ELSE 0),
                               query[i][2])
                   ELSE Frac(0)
      S[i \in 0..Len(query)] == IF i = 0 THEN Frac(0) ELSE FAdd(S[i-1], Contrib(i))
  IN S[Len(query)]

\* The logical rows the column store holds: document r (0-based) maps each
\* raw idx whose posting list contains r to the value stored for it.
Rows(ix) ==
  [ r \in 1..ix.n_rows_internal_ |->
      LET cols == { d \in DOMAIN ix.dim_map_ :
                      \E p \in DOMAIN ix.inverted_index_ids_[ix.dim_map_[d] + 1] :
                        ix.inverted_index_ids_[ix.dim_map_[d] + 1][p] = r - 1 }
          at(d) == CHOOSE p \in DOMAIN ix.inverted_index_ids_[ix.dim_map_[d] + 1] :
                     ix.inverted_index_ids_[ix.dim_map_[d] + 1][p] = r - 1
      IN [ d \in cols |-> ix.inverted_index_vals_[ix.dim_map_[d] + 1][at(d)] ] ]

-----------------------------------------------------------------------------
(* The instance as a state machine: Add and Save (Train changes nothing).  *)

Batches == UNION { [1..n -> SparseRows] : n \in 1..BatchMax }

vars == << index, buffer >>

Init ==
  /\ index = EmptyIndex
  /\ buffer = << >>

\* InvertedIndex::Add on a heap-backed index.
Add(rows) ==
  /\ index.n_rows_internal_ + Len(rows) <= MaxRows
  /\ index' = AddRows(index, rows, BatchDim(rows))
  /\ UNCHANGED buffer

\* InvertedIndex::Save into a fresh MemoryIOWriter.
Save ==
  /\ buffer' = SaveStream(index)
  /\ UNCHANGED index

\* InvertedIndex::Load (heap mode) on a freshly constructed instance.
Load ==
  /\ index = EmptyIndex
  /\ buffer # << >>
  /\ index' = LoadStream(index, buffer)
  /\ UNCHANGED buffer

Next ==
  \/ \E rows \in Batches : Add(rows)
  \/ Save

Spec == Init /\ [][Next]_vars

-----------------------------------------------------------------------------
(* Properties.                                                             *)

TypeOK ==
  /\ index.n_rows_internal_ \in 0..MaxRows
  /\ index.next_dim_id_ = NCols(index)
  /\ DOMAIN index.dim_map_ \subseteq Dims
  /\ \A c \in 1..NCols(index) :
       /\ index.inverted_index_ids_[c] \in Seq(0..MaxRows)
       /\ index.inverted_index_vals_[c] \in Seq(Int)
  /\ Len(index.inverted_index_vals_) = NCols(index)
  /\ Len(index.row_sums) = IF BM25 THEN index.n_rows_internal_ ELSE 0
  /\ buffer \in Seq(Int)

\* The column store holds exactly the rows that were added: the n-th row of
\* all Add calls, with its zero entries dropped and its values quantized,
\* is document n-1 (add_row_to_index numbering, dim_map_ columns,
\* get_quant_val).
RS == INSTANCE RowStore WITH rows <- Rows(index), Quant <- GetQuantVal

RowStoreRefinement == RS!Spec

\* WAND pruning is sound only if every stored (quantized) value of a column
\* scores at most max_score_in_dim_ of the column, as add_row_to_index
\* keeps it: the value itself, or with BM25 the build-time computer applied
\* to the value and the document's final row_sums entry (the bound used the
\* row sum only up to the entry).
WandBoundValid ==
  UseWand =>
    WithinBounds(index, IF BM25 THEN WandMaxScoreComputer ELSE OriginalComputer)

=============================================================================
