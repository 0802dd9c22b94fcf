------------------------------ MODULE RangeUtil ------------------------------
(***************************************************************************)
(* Range-search result handling (src/src/common/range_util.cc):            *)
(*   FilterRangeSearchResultForOneNq  - keep the results of one query whose *)
(*                                      distance is in range, in order;    *)
(*   GetRangeSearchResult             - lims prefix sums and the results   *)
(*                                      of all queries laid end to end;    *)
(*   ReGenRangeSearchResult           - per query, the best topk results   *)
(*                                      by a std::priority_queue, written  *)
(*                                      best first into topk slots.        *)
(*                                                                         *)
(* A result is a <<distance, label>> pair (ResultPair); the distances and  *)
(* labels arrays, always of equal size and copied over the same ranges,    *)
(* are kept as one sequence of pairs.  Query i of the code is query i      *)
(* here (0-based); position j of a flat array is element j+1.              *)
(*                                                                         *)
(* distance_in_range is defined outside src/; it is modelled from the      *)
(* range diagram of ReGenRangeSearchResult:                                *)
(* IP keeps radius < d <= range_filter, L2 keeps range_filter <= d < radius.*)
(***************************************************************************)
EXTENDS Integers, Sequences, FiniteSets, TLC
LOCAL INSTANCE SequencesExt

CONSTANTS
  NQ,         \* number of queries
  Results,    \* per-query raw results an index search may produce
  TopKs,      \* values of topk
  Ranges,     \* <<is_ip, radius, range_filter>> triples
  FltMax      \* model value: std::numeric_limits<float>::max()

ASSUME NQ \in Nat \ {0} /\ TopKs \subseteq Nat \ {0}

VARIABLES
  isIp, radius, rangeFilter, topk,  \* the call's arguments
  res,        \* per query: its (distances, labels) vectors
  filtered,   \* queries FilterRangeSearchResultForOneNq has processed
  lims, flat, \* GetRangeSearchResult outputs
  q, j, pq,   \* ReGenRangeSearchResult: query, position, priority_queue
  out,        \* p_dist / p_id: topk * nq pairs
  pc,         \* "filter" | "regen" | "done"
  input       \* history: the results before filtering

vars == << isIp, radius, rangeFilter, topk, res, filtered, lims, flat, q, j,
           pq, out, pc, input >>

-----------------------------------------------------------------------------

\* distance_in_range (spec-modelled).
DistanceInRange(d, r, f, ip) ==
  IF ip THEN r < d /\ d <= f ELSE f <= d /\ d < r

\* FilterRangeSearchResultForOneNq: compaction by valid_cnt keeps the
\* in-range results in their order, then resizes both vectors.
FilterRangeSearchResultForOneNq(v, r, f, ip) ==
  SelectSeq(v, LAMBDA e : DistanceInRange(e[1], r, f, ip))

\* Seeded fault: lims[0] left at 1.
LimsFromOne(rs) ==
  LET L[i \in 0..NQ] == IF i = 0 THEN 1 ELSE L[i-1] + Len(rs[i-1])
  IN L

\* lims[0] = 0, lims[i+1] = lims[i] + size of query i's results.
Lims(rs) ==
  LET L[i \in 0..NQ] == IF i = 0 THEN 0 ELSE L[i-1] + Len(rs[i-1])
  IN L

\* GetRangeSearchResult: lims, then each query's results copied to
\* [lims[i], lims[i+1]).
GetRangeSearchResult(rs) ==
  [ lims |-> Lims(rs),
    flat |-> FlattenSeq([ i \in 1..NQ |-> rs[i-1] ]) ]

\* std::pair comparison, and cmp: std::less for L2, std::greater for IP.
PairLess(a, b) == a[1] < b[1] \/ (a[1] = b[1] /\ a[2] < b[2])

Cmp(a, b) == IF isIp THEN PairLess(b, a) ELSE PairLess(a, b)

\* priority_queue<.., cmp>::top(): the element no other one is cmp-after.
Top(h) == CHOOSE e \in h : \A f \in h : ~Cmp(e, f)

Capacity(i) == IF lims[i+1] - lims[i] < topk THEN lims[i+1] - lims[i] ELSE topk

\* Seeded fault: a full queue is never updated (the else-if branch lost).
RegenPushNoReplace(h, cap, curr) ==
  IF Cardinality(h) < cap THEN h \cup {curr} ELSE h

\* One iteration of the inner loop: push while below capacity, otherwise
\* replace the top when curr compares before it.
RegenPush(h, cap, curr) ==
  IF Cardinality(h) < cap THEN h \cup {curr}
  ELSE IF Cmp(curr, Top(h)) THEN (h \ {Top(h)}) \cup {curr}
  ELSE h

\* The pop loop: slot capacity-1 gets the top, and so on down to slot 0.
RECURSIVE PopAll(_)
PopAll(h) == IF h = {} THEN << >> ELSE PopAll(h \ {Top(h)}) \o << Top(h) >>

-----------------------------------------------------------------------------

Init ==
  /\ \E rg \in Ranges :
       isIp = rg[1] /\ radius = rg[2] /\ rangeFilter = rg[3]
  /\ topk \in TopKs
  /\ res \in [0..NQ-1 -> Results]
  /\ input = res
  /\ filtered = {}
  /\ lims = [i \in 0..NQ |-> 0]
  /\ flat = << >>
  /\ q = 0 /\ j = 0 /\ pq = {}
  /\ out = << >>
  /\ pc = "filter"

\* The index's worker for query i filters its own results (the workers of
\* different queries may finish in any order).
FilterOne(i) ==
  /\ pc = "filter"
  /\ i \notin filtered
  /\ res' = [res EXCEPT ![i] = FilterRangeSearchResultForOneNq(@, radius, rangeFilter, isIp)]
  /\ filtered' = filtered \cup {i}
  /\ UNCHANGED << isIp, radius, rangeFilter, topk, lims, flat, q, j, pq, out, pc, input >>

\* All queries are filtered: GetRangeSearchResult builds lims and the flat
\* arrays, and ReGenRangeSearchResult starts with p_id = -1 and
\* p_dist = FLT_MAX in every slot.
Gather ==
  /\ pc = "filter"
  /\ filtered = 0..NQ-1
  /\ LET g == GetRangeSearchResult(res)
     IN /\ lims' = g.lims
        /\ flat' = g.flat
        /\ j' = g.lims[0]
  /\ out' = [s \in 1..NQ * topk |-> << FltMax, -1 >>]
  /\ pc' = "regen"
  /\ UNCHANGED << isIp, radius, rangeFilter, topk, res, filtered, q, pq, input >>

\* for (j = lims[q]; j < lims[q+1]; j++): one push or replace.
RegenStep ==
  /\ pc = "regen"
  /\ j < lims[q+1]
  /\ pq' = RegenPush(pq, Capacity(q), flat[j+1])
  /\ j' = j + 1
  /\ UNCHANGED << isIp, radius, rangeFilter, topk, res, filtered, lims, flat, q, out, pc, input >>

\* The pop loop of query q, then the next query.
RegenCollect ==
  /\ pc = "regen"
  /\ j = lims[q+1]
  /\ LET popped == PopAll(pq)
     IN out' = [s \in 1..NQ * topk |->
                  IF s > q * topk /\ s <= q * topk + Len(popped)
                  THEN popped[s - q * topk] ELSE out[s]]
  /\ pq' = {}
  /\ q' = q + 1
  /\ pc' = IF q + 1 = NQ THEN "done" ELSE "regen"
  /\ UNCHANGED << isIp, radius, rangeFilter, topk, res, filtered, lims, flat, j, input >>

Next ==
  \/ \E i \in 0..NQ-1 : FilterOne(i)
  \/ Gather
  \/ RegenStep
  \/ RegenCollect

Spec == Init /\ [][Next]_vars

-----------------------------------------------------------------------------
(* Properties.                                                             *)

TypeOK ==
  /\ pc \in {"filter", "regen", "done"}
  /\ filtered \subseteq 0..NQ-1
  /\ q \in 0..NQ
  /\ Cardinality(pq) <= topk
  /\ Len(flat) = lims[NQ]

\* The raw results of query i that distance_in_range accepts, best first
\* (descending for IP, ascending for L2; ties by label as std::pair does).
\* This is the reference for the whole pipeline.
RangeReference(raw, i) ==
  SortSeq(SelectSeq(raw[i], LAMBDA e : DistanceInRange(e[1], radius, rangeFilter, isIp)),
          Cmp)

\* After the pipeline, the topk slots of every query hold its best
\* min(topk, in-range count) in-range results best first, and every other
\* slot keeps label -1 and distance FLT_MAX: filtering, the lims offsets
\* and the priority_queue replacement and pop order together give the
\* sorted top k of the range.
RangeTopKCorrect ==
  pc = "done" =>
    \A i \in 0..NQ-1 :
      LET ref == RangeReference(input, i)
      IN \A s \in 1..topk :
           out[i * topk + s] = IF s <= Len(ref) THEN ref[s] ELSE << FltMax, -1 >>

=============================================================================
