---------------------------- MODULE SparseSearch ----------------------------
(***************************************************************************)
(* InvertedIndex::Search on a WAND index (use_wand = true, plain inner     *)
(* product), one loop iteration of search_wand per step, and the          *)
(* brute-force engine (compute_all_distances, search_brute_force) as the   *)
(* operator the WAND result is compared with.                              *)
(*                                                                         *)
(* The index is built in Init by InvertedIndex::Add from NDocs rows; the   *)
(* query, k, drop_ratio_search, refine_factor and the BitsetView are the   *)
(* Search arguments.  Scores are integers, so the order in which the       *)
(* engines add contributions does not matter.                              *)
(*                                                                         *)
(* MaxMinHeap and DocIdFilterByVector live outside src/: they are          *)
(* modelled from their use here and from the spec (a min-heap of capacity  *)
(* cap that replaces its top only by a strictly larger value; an allow     *)
(* list whose empty() is "no ids").                                         *)
(***************************************************************************)
EXTENDS Integers, Sequences, FiniteSets, TLC
LOCAL INSTANCE SequencesExt

CONSTANTS
  Dims, Vals, Quantized, QMin, QMax,  \* as in SparseIndex
  NDocs,        \* rows ingested before the search
  QVals,        \* query values
  Ks,           \* values of k
  Modes,        \* <<drop_ratio numerator, denominator, refine_factor>>
  Bitsets,      \* sets of filtered-out doc ids (BitsetView)
  NaN           \* model value: the not-a-number distance

VARIABLES
  ix,           \* the InvertedIndex searched (fixed during a Search)
  query, k, drop, rf, bitset,   \* Search arguments (rf: as adjusted)
  q_threshold,  \* threshold of the current search_* pass
  pass,         \* 1: thresholded pass, 2: refine_and_collect pass
  filter,       \* DocIdFilter of the pass: [allow |-> BOOLEAN, ids |-> set]
  heap, cap,    \* MaxMinHeap of the pass: set of <<id, score>>, capacity
  cursors,      \* search_wand cursors: [col, loc, max_score, q_value]
  pc,           \* "begin" | "loop" | "end" | "done"
  out           \* labels/distances: sequence of k <<label, distance>>

vars == << ix, query, k, drop, rf, bitset, q_threshold, pass, filter, heap,
           cap, cursors, pc, out >>

Ix == INSTANCE SparseIndex
        WITH index <- ix, buffer <- << >>,
             UseWand <- TRUE, BM25 <- FALSE, MaxRows <- NDocs, BatchMax <- NDocs,
             Bm25P <- [f \in {"k1", "b", "avgdl", "max_score_ratio"} |-> [num |-> 1, den |-> 1]]

Abs(x) == Ix!Abs(x)

-----------------------------------------------------------------------------
(* MaxMinHeap (spec-modelled).                                             *)

HeapTop(h) ==
  CHOOSE e \in h : \A f \in h : e[2] <= f[2]

HeapPush(h, c, id, val) ==
  IF Cardinality(h) < c THEN h \cup { << id, val >> }
  ELSE IF val > HeapTop(h)[2] THEN (h \ { HeapTop(h) }) \cup { << id, val >> }
  ELSE h

HeapFull(h, c) == Cardinality(h) >= c

\* collect_result: drain the heap weakest first into slots cnt-1 .. 0;
\* the k slots start as <<-1, NaN>> (Search's std::fill).
RECURSIVE Drain(_)
Drain(h) ==
  IF h = {} THEN << >> ELSE Drain(h \ { HeapTop(h) }) \o << HeapTop(h) >>

\* Seeded faults: the slots left unfilled with label 0 (labels not
\* reset to -1); the heap drained best first into slot 0.
CollectResultNoFill(h, kk) ==
  LET d == Drain(h)
  IN [ i \in 1..kk |-> IF i <= Len(d) THEN d[i] ELSE << 0, NaN >> ]

CollectResultReversed(h, kk) ==
  LET d == Reverse(Drain(h))
  IN [ i \in 1..kk |-> IF i <= Len(d) THEN d[i] ELSE << -1, NaN >> ]

CollectResult(h, kk) ==
  LET d == Drain(h)
  IN [ i \in 1..kk |-> IF i <= Len(d) THEN d[i] ELSE << -1, NaN >> ]

-----------------------------------------------------------------------------
(* Document filters: BitsetView (filtered ids) and DocIdFilterByVector     *)
(* (allowed ids, spec-modelled).                                           *)

FilterEmpty(f) == f.ids = {}
FilterTest(f, id) == IF f.allow THEN id \notin f.ids ELSE id \in f.ids

-----------------------------------------------------------------------------
(* get_threshold: the value at rank drop_count of the query magnitudes.    *)

GetThreshold(q, num, den) ==
  LET vals      == [ i \in DOMAIN q |-> Abs(q[i][2]) ]
      dropCount == (num * Len(q)) \div den
      sorted    == SortSeq(vals, LAMBDA a, b : a < b)
  IN IF dropCount = 0 THEN 0 ELSE sorted[dropCount + 1]

-----------------------------------------------------------------------------
(* Cursor over column c (1-based) of ix.                                   *)

Ids(c) == ix.inverted_index_ids_[c]

\* skip_filtered_ids from position loc.
SkipFiltered(c, f, loc) ==
  LET stop == { p \in loc..Len(Ids(c)) :
                  p >= Len(Ids(c)) \/ FilterEmpty(f) \/ ~FilterTest(f, Ids(c)[p + 1]) }
  IN Min(stop)

CurVecId(cur) ==
  IF cur.loc >= Len(Ids(cur.col)) THEN ix.n_rows_internal_ ELSE Ids(cur.col)[cur.loc + 1]

Exhausted(cur) == cur.loc >= Len(Ids(cur.col))

CurVecVal(cur) == ix.inverted_index_vals_[cur.col][cur.loc + 1]

\* Seeded fault: next() without ++loc_.
CursorNextStuck(cur, f) == [cur EXCEPT !.loc = SkipFiltered(cur.col, f, @)]

CursorNext(cur, f) == [cur EXCEPT !.loc = SkipFiltered(cur.col, f, @ + 1)]

\* Seeded fault: seek() stops past vec_id (<= instead of <).
CursorSeekPast(cur, f, v) ==
  LET past == { p \in cur.loc..Len(Ids(cur.col)) :
                  p >= Len(Ids(cur.col)) \/ Ids(cur.col)[p + 1] > v }
  IN [cur EXCEPT !.loc = SkipFiltered(cur.col, f, Min(past))]

\* Seeded fault: seek() stops one entry short of vec_id (never before loc).
CursorSeekShort(cur, f, v) ==
  LET past == { p \in cur.loc..Len(Ids(cur.col)) :
                  p >= Len(Ids(cur.col)) \/ Ids(cur.col)[p + 1] >= v }
  IN [cur EXCEPT !.loc = SkipFiltered(cur.col, f, Max({cur.loc, Min(past) - 1}))]

CursorSeek(cur, f, v) ==
  LET past == { p \in cur.loc..Len(Ids(cur.col)) :
                  p >= Len(Ids(cur.col)) \/ Ids(cur.col)[p + 1] >= v }
  IN [cur EXCEPT !.loc = SkipFiltered(cur.col, f, Min(past))]

\* std::sort by cur_vec_id_: not stable, so any order of equal ids.
Sorts(cs) ==
  LET n == Len(cs)
      perms == { p \in [1..n -> 1..n] : \A i, j \in 1..n : i # j => p[i] # p[j] }
  IN { s \in { [i \in 1..n |-> cs[p[i]]] : p \in perms } :
         \A i \in 1..n - 1 : CurVecId(s[i]) <= CurVecId(s[i + 1]) }

-----------------------------------------------------------------------------
(* The brute-force engine.                                                 *)

\* compute_all_distances: a query entry counts unless v < q_threshold (the
\* signed value) or its idx >= max_dim_ or idx is unknown.
ComputeAllDistances(q, thr) ==
  [ d \in 0..ix.n_rows_internal_ - 1 |->
      LET Contrib(i) ==
            LET idx == q[i][1]
                v   == q[i][2]
            IN IF v < thr \/ idx >= ix.max_dim_ \/ idx \notin DOMAIN ix.dim_map_ THEN 0
               ELSE LET c == ix.dim_map_[idx] + 1
                    IN MapThenSumSet(LAMBDA p : v * ix.inverted_index_vals_[c][p],
                                     { p \in DOMAIN Ids(c) : Ids(c)[p] = d })
          S[i \in 0..Len(q)] == IF i = 0 THEN 0 ELSE S[i-1] + Contrib(i)
      IN S[Len(q)] ]

\* search_brute_force: push every unfiltered doc with a nonzero score.
SearchBruteForce(q, thr, h, c, f) ==
  LET scores == ComputeAllDistances(q, thr)
      H[i \in 0..ix.n_rows_internal_] ==
        IF i = 0 THEN h
        ELSE IF (FilterEmpty(f) \/ ~FilterTest(f, i - 1)) /\ scores[i - 1] # 0
             THEN HeapPush(H[i-1], c, i - 1, scores[i - 1])
             ELSE H[i-1]
  IN H[ix.n_rows_internal_]

\* Search with use_wand = false, including refine_and_collect.
BruteForceSearch(q, kk, num, den, refine, bs) ==
  LET thr   == GetThreshold(q, num, den)
      r     == IF num = 0 THEN 1 ELSE refine
      h1    == SearchBruteForce(q, thr, {}, kk * r, [allow |-> FALSE, ids |-> bs])
      allow == [allow |-> TRUE, ids |-> { e[1] : e \in h1 }]
  IN IF r = 1 THEN CollectResult(h1, kk)
     ELSE CollectResult(SearchBruteForce(q, 0, {}, kk, allow), kk)

\* Seeded fault: the BitsetView is not applied to the distances.
GetAllDistancesUnmasked(q, num, den, bs) ==
  IF Len(q) = 0 THEN << >>
  ELSE ComputeAllDistances(q, GetThreshold(q, num, den))

\* GetAllDistances: nothing for an empty query; otherwise the brute-force
\* scores under the query's threshold, with filtered documents set to 0.
GetAllDistances(q, num, den, bs) ==
  IF Len(q) = 0 THEN << >>
  ELSE LET d == ComputeAllDistances(q, GetThreshold(q, num, den))
       IN IF bs = {} THEN d
          ELSE [ i \in DOMAIN d |-> IF i \in bs THEN 0 ELSE d[i] ]

-----------------------------------------------------------------------------
(* Inputs.                                                                 *)

\* Document rows for Add: one entry per dimension, in dimension order.
DocRows ==
  LET order == SortSeq(SetToSeq(Dims), LAMBDA a, b : a < b)
  IN { [ j \in DOMAIN order |-> << order[j], f[order[j]] >> ] : f \in [Dims -> Vals] }

\* Queries: one entry per dimension, in dimension order.
QueryRows ==
  LET order == SortSeq(SetToSeq(Dims), LAMBDA a, b : a < b)
  IN { [ j \in DOMAIN order |-> << order[j], f[order[j]] >> ] : f \in [Dims -> QVals] }

-----------------------------------------------------------------------------
(* Search: the prelude, then search_wand step by step.                     *)

Init ==
  /\ \E rows \in [1..NDocs -> DocRows] :
       ix = Ix!AddRows(Ix!EmptyIndex, rows, Ix!BatchDim(rows))
  /\ query \in QueryRows
  /\ k \in Ks
  /\ bitset \in Bitsets
  /\ \E m \in Modes :
       /\ drop = << m[1], m[2] >>
       \* "if no data was dropped during search, no refinement is needed"
       /\ rf = IF m[1] = 0 THEN 1 ELSE m[3]
  /\ q_threshold = GetThreshold(query, drop[1], drop[2])
  /\ pass = 1
  /\ filter = [allow |-> FALSE, ids |-> bitset]
  /\ heap = {}
  /\ cap = k * rf
  /\ cursors = << >>
  /\ pc = IF query = << >> THEN "done" ELSE "begin"   \* empty query: return
  /\ out = [ i \in 1..k |-> << -1, NaN >> ]

\* search_wand entry: one cursor per query entry that is indexed and not
\* below the threshold (|val|), positioned past filtered ids, then sorted.
WandBegin ==
  /\ pc = "begin"
  /\ LET valid == SelectSeq(query, LAMBDA e : e[1] \in DOMAIN ix.dim_map_
                                              /\ ~(Abs(e[2]) < q_threshold))
         cs == [ i \in DOMAIN valid |->
                   LET c == ix.dim_map_[valid[i][1]] + 1
                   IN [ col |-> c, loc |-> SkipFiltered(c, filter, 0),
                        max_score |-> Ix!FScale(ix.max_score_in_dim_[c], valid[i][2]),
                        q_value |-> valid[i][2] ] ]
     IN IF cs = << >> THEN pc' = "end" /\ UNCHANGED cursors
        ELSE \E sorted \in Sorts(cs) : cursors' = sorted /\ pc' = "loop"
  /\ UNCHANGED << ix, query, k, drop, rf, bitset, q_threshold, pass, filter,
                  heap, cap, out >>

\* The pivot selection of one loop iteration.
Threshold == IF HeapFull(heap, cap) THEN HeapTop(heap)[2] ELSE 0

PrefixBound(p) ==
  LET S[j \in 0..p] == IF j = 0 THEN Ix!Frac(0) ELSE Ix!FAdd(S[j-1], cursors[j].max_score)
  IN S[p]

PivotCandidates ==
  LET firstExhausted == Min({ p \in 1..Len(cursors) : Exhausted(cursors[p]) }
                            \cup { Len(cursors) + 1 })
  IN { p \in 1..firstExhausted - 1 : ~Ix!FLeq(PrefixBound(p), Ix!Frac(Threshold)) }

Pivot == Min(PivotCandidates)

PivotId == CurVecId(cursors[Pivot])

\* No pivot: the loop breaks and search_wand returns.
WandBreak ==
  /\ pc = "loop"
  /\ PivotCandidates = {}
  /\ pc' = "end"
  /\ UNCHANGED << ix, query, k, drop, rf, bitset, q_threshold, pass, filter,
                  heap, cap, cursors, out >>

\* The first cursor is at the pivot's doc: score it from the leading cursors
\* at that doc, advance them, push, re-sort.
WandScore ==
  /\ pc = "loop"
  /\ PivotCandidates # {}
  /\ PivotId = CurVecId(cursors[1])
  /\ LET at     == { j \in 1..Len(cursors) :
                       \A i \in 1..j : CurVecId(cursors[i]) = PivotId }
         score  == MapThenSumSet(LAMBDA j : cursors[j].q_value * CurVecVal(cursors[j]), at)
         moved  == [ j \in 1..Len(cursors) |->
                       IF j \in at THEN CursorNext(cursors[j], filter) ELSE cursors[j] ]
     IN /\ heap' = HeapPush(heap, cap, PivotId, score)
        /\ cursors' \in Sorts(moved)
  /\ UNCHANGED << ix, query, k, drop, rf, bitset, q_threshold, pass, filter,
                  cap, pc, out >>

\* Restore ascending order after cursor i-1 moved: swap it forward.
RECURSIVE Bubble(_, _)
Bubble(cs, i) ==
  IF i > Len(cs) \/ CurVecId(cs[i]) >= CurVecId(cs[i - 1]) THEN cs
  ELSE Bubble([cs EXCEPT ![i] = cs[i - 1], ![i - 1] = cs[i]], i + 1)

\* Otherwise seek the last cursor before the pivot not yet at the pivot's
\* doc to that doc, and bubble it into place.
WandSkip ==
  /\ pc = "loop"
  /\ PivotCandidates # {}
  /\ PivotId # CurVecId(cursors[1])
  /\ LET nextList == Max({ j \in 1..Pivot : CurVecId(cursors[j]) # PivotId })
         seeked   == [cursors EXCEPT ![nextList] = CursorSeek(@, filter, PivotId)]
     IN cursors' = Bubble(seeked, nextList + 1)
  /\ UNCHANGED << ix, query, k, drop, rf, bitset, q_threshold, pass, filter,
                  heap, cap, pc, out >>

\* refine_and_collect: the candidates of the thresholded pass become an
\* allow list for an exact (threshold 0) pass into a heap of capacity k.
RefineBegin ==
  /\ pc = "end"
  /\ pass = 1
  /\ rf # 1
  /\ filter' = [allow |-> TRUE, ids |-> { e[1] : e \in heap }]
  /\ heap' = {}
  /\ cap' = k
  /\ q_threshold' = 0
  /\ pass' = 2
  /\ cursors' = << >>
  /\ pc' = "begin"
  /\ UNCHANGED << ix, query, k, drop, rf, bitset, out >>

\* collect_result into the k output slots.
Collect ==
  /\ pc = "end"
  /\ pass = 2 \/ rf = 1
  /\ out' = CollectResult(heap, k)
  /\ pc' = "done"
  /\ UNCHANGED << ix, query, k, drop, rf, bitset, q_threshold, pass, filter,
                  heap, cap, cursors >>

Next ==
  \/ WandBegin
  \/ WandBreak
  \/ WandScore
  \/ WandSkip
  \/ RefineBegin
  \/ Collect

\* Search runs to completion: nothing else runs on its thread.
Spec == Init /\ [][Next]_vars /\ WF_vars(Next)

-----------------------------------------------------------------------------
(* Properties.                                                             *)

TypeOK ==
  /\ pc \in { "begin", "loop", "end", "done" }
  /\ pass \in { 1, 2 }
  /\ \A e \in heap : e[1] \in 0..ix.n_rows_internal_ - 1 /\ e[2] \in Int
  /\ Cardinality(heap) <= cap
  /\ \A j \in DOMAIN cursors : cursors[j].loc \in 0..Len(Ids(cursors[j].col))
  /\ out \in [ 1..k -> ((0..NDocs - 1) \X Int) \cup { << -1, NaN >> } ]

\* Engine equivalence: for the same index and arguments, the WAND engine
\* returns exactly the labels and distances of the brute-force engine
\* (pruning by max_score_in_dim_ bounds, skip-seek, tie order of the
\* unstable cursor sort, filtering and the refine pass all included).
EngineEquivalence ==
  pc = "done" => out = BruteForceSearch(query, k, drop[1], drop[2], rf, bitset)

\* With nothing dropped, the WAND result is the exact top k: each returned
\* label is an unfiltered document with its GetRawDistance score, no other
\* unfiltered document with a nonzero score scores higher, slots are filled
\* best first and only as many as there are such documents.
Raw(d) ==
  LET f == Ix!GetRawDistance(ix, d, query, Ix!OriginalComputer) IN f.num \div f.den

TopKExact ==
  (pc = "done" /\ drop[1] = 0) =>
    LET filled == { i \in 1..k : out[i][1] # -1 }
        cand   == { d \in 0..ix.n_rows_internal_ - 1 : d \notin bitset /\ Raw(d) # 0 }
    IN /\ \A i \in filled : out[i][1] \in cand /\ out[i][2] = Raw(out[i][1])
       /\ Cardinality(filled) = Min({ k, Cardinality(cand) })
       /\ filled = 1..Cardinality(filled)
       /\ \A i, j \in filled : i < j => out[i][2] >= out[j][2]
       /\ \A d \in cand, i \in filled :
            (\A j \in filled : out[j][1] # d) => Raw(d) <= out[i][2]

\* GetAllDistances with drop ratio 0 returns one distance per document:
\* 0 for a document the BitsetView filters out, and otherwise exactly
\* GetRawDistance, although compute_all_distances walks whole posting lists
\* and GetRawDistance binary-searches them.
AllDistancesExact ==
  LET d == GetAllDistances(query, 0, 1, bitset)
  IN /\ DOMAIN d = 0..ix.n_rows_internal_ - 1
     /\ \A doc \in DOMAIN d : d[doc] = IF doc \in bitset THEN 0 ELSE Raw(doc)

\* A document the BitsetView filters out is never returned, also when the
\* refine pass runs over the thresholded pass's candidates.
FilteredNeverReturned ==
  pc = "done" => \A i \in 1..k : out[i][1] \notin bitset

\* Every Search returns.
Terminates == <>(pc = "done")

=============================================================================
