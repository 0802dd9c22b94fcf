------------------------------ MODULE Bm25Wand ------------------------------
(***************************************************************************)
(* A BM25 index with WAND (bm25 = use_wand = true): the per-column bounds  *)
(* add_row_to_index precomputes with the construction-time BM25Params, and *)
(* the DocValueComputer a later Search obtains from GetDocValueComputer    *)
(* for a SparseInvertedIndexConfig.                                        *)
(*                                                                         *)
(* search_wand prunes a document only if the column bounds of its query    *)
(* entries add up to no more than the heap threshold, and it then scores    *)
(* documents with the search-time computer.  Pruning is therefore exact    *)
(* only while that computer scores every stored entry within its column's  *)
(* max_score_in_dim_.                                                      *)
(***************************************************************************)
EXTENDS SparseIndex

CONSTANTS
  SearchCfgs   \* SparseInvertedIndexConfig values a Search may pass

ASSUME \A cfg \in SearchCfgs :
         cfg.metric \in {"", "IP", "BM25"} /\ cfg.has_avgdl \in BOOLEAN

-----------------------------------------------------------------------------
(* Properties.                                                             *)

\* Every DocValueComputer that GetDocValueComputer hands to a WAND Search
\* scores every stored entry within the bound add_row_to_index computed
\* for its column, so the pruning of search_wand drops no document a full
\* scoring would keep.  GetDocValueComputer rejects a k1 or b that differs
\* from the build-time one; this is the guarantee that check is for.
SearchScoresWithinBound ==
  UseWand =>
    \A cfg \in SearchCfgs :
      LET r == GetDocValueComputer(cfg)
      IN r.status = "success" => WithinBounds(index, r.computer)

=============================================================================
