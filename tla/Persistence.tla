---------------------------- MODULE Persistence ----------------------------
(***************************************************************************)
(* Save / Load between two heap-backed InvertedIndex instances sharing one *)
(* MemoryIO buffer: `src` is ingested and saved, `dst` is a freshly        *)
(* constructed instance that loads the buffer.  `saved` is a history       *)
(* variable: the content of src when the buffer was written (src may keep  *)
(* ingesting afterwards).  Both instances are BM25 WAND indexes when the  *)
(* constants say so (Bm25Wand); the loaded one rebuilds its column bounds  *)
(* through add_row_to_index.                                               *)
(***************************************************************************)
EXTENDS Integers, Sequences, FiniteSets

CONSTANTS Dims, Vals, Quantized, QMin, QMax, UseWand, BM25, MaxRows, BatchMax, Bm25P,
          SearchCfgs

VARIABLES src, dst, buffer, saved

vars == << src, dst, buffer, saved >>

Src == INSTANCE Bm25Wand WITH index <- src
Dst == INSTANCE Bm25Wand WITH index <- dst

Init ==
  /\ Src!Init
  /\ dst = Src!EmptyIndex
  /\ saved = Src!EmptyIndex

SrcAdd(rows) ==
  /\ Src!Add(rows)
  /\ UNCHANGED << dst, saved >>

\* Saving again once dst has loaded would only overwrite the history.
SrcSave ==
  /\ dst = Src!EmptyIndex
  /\ Src!Save
  /\ saved' = src
  /\ UNCHANGED dst

DstLoad ==
  /\ Dst!Load
  /\ UNCHANGED << src, saved >>

Next ==
  \/ \E rows \in Src!Batches : SrcAdd(rows)
  \/ SrcSave
  \/ DstLoad

Spec == Init /\ [][Next]_vars

TypeOK == Src!TypeOK /\ Dst!TypeOK

\* Round trip (Save then Load into a fresh instance): the loaded index has
\* the saved row count and width and stores the saved value of every
\* document in every dimension (GetRawDistance with the original computer,
\* val * stored, for every single-dimension query); this exercises Save's
\* lock-step cursors and dim_map_ reversal, the re-quantization of saved
\* values and the zero skip of the reloaded entries.
Queries == { << << d, 1 >> >> : d \in Dims }

SaveLoadRoundTrip ==
  dst # Src!EmptyIndex =>
    /\ Src!n_rows(dst) = Src!n_rows(saved)
    /\ Src!n_cols(dst) = Src!n_cols(saved)
    /\ \A v \in 0..saved.n_rows_internal_ - 1, q \in Queries :
         Src!GetRawDistance(dst, v, q, Src!OriginalComputer)
           = Src!GetRawDistance(saved, v, q, Src!OriginalComputer)

\* The BM25 distances survive the round trip: every computer a Search may
\* obtain gives each document the same GetRawDistance (value and row_sums
\* length) in the loaded index as in the saved one.  Load rebuilds
\* row_sums from the saved, quantized values (line 750), not from the raw
\* ones Add summed, so this fails when a value saturated.
Bm25RoundTrip ==
  dst # Src!EmptyIndex =>
    \A v \in 0..saved.n_rows_internal_ - 1, q \in Queries, cfg \in SearchCfgs :
      LET r == Src!GetDocValueComputer(cfg)
          Eq(x, y) == x.num * y.den = y.num * x.den
      IN  r.status = "success" =>
            Eq(Src!GetRawDistance(dst, v, q, r.computer),
               Src!GetRawDistance(saved, v, q, r.computer))

\* Add of the source index, read row by row, is an append-only row store
\* (SparseIndex!RowStoreRefinement under Save and Load steps as well).
SrcRefinesRowStore == Src!RowStoreRefinement

\* Both the ingested and the reloaded index keep every stored value within
\* its column's max_score_in_dim_ (with BM25, the build-time score).
WandBoundValid == Src!WandBoundValid /\ Dst!WandBoundValid

\* Every computer a Search with the build-time avgdl may obtain scores the
\* entries of the ingested and of the reloaded index within their bounds.
SearchScoresWithinBound == Src!SearchScoresWithinBound /\ Dst!SearchScoresWithinBound
=============================================================================
