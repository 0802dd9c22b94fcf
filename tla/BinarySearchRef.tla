--------------------------- MODULE BinarySearchRef ---------------------------
(***************************************************************************)
(* u64_binary_search_eq_ref and u64_binary_search_ge_ref                   *)
(* (src/src/simd/distances_ref.cc): one loop iteration per step over a     *)
(* sorted array data[0..size-1].  Position p of the code is element p+1.   *)
(* left, right, mid and result are C ints; right starts at                 *)
(* static_cast<int>(size) - 1, which is -1 for an empty array.             *)
(***************************************************************************)
EXTENDS Integers, Sequences, FiniteSets

CONSTANTS
  Values,     \* uint64_t values stored and searched for
  MaxSize     \* bound on size

VARIABLES fn, data, target, left, right, result, pc

vars == << fn, data, target, left, right, result, pc >>

\* Arrays a caller may pass: ascending (equal values allowed).
SortedArrays ==
  { s \in UNION { [1..n -> Values] : n \in 0..MaxSize } :
      \A p \in 1..Len(s) - 1 : s[p] <= s[p+1] }

Mid(l, r) == l + (r - l) \div 2

\* Seeded fault: on a match the search continues to the right.
EqStepRight(d, t, l, r, res) ==
  LET m == Mid(l, r)
  IN CASE d[m+1] < t -> [l |-> m + 1, r |-> r, res |-> res]
       [] t < d[m+1] -> [l |-> l, r |-> m - 1, res |-> res]
       [] OTHER      -> [l |-> m + 1, r |-> r, res |-> m]

\* One iteration of u64_binary_search_eq_ref: a match is recorded and the
\* search continues to the left of it.
EqStep(d, t, l, r, res) ==
  LET m == Mid(l, r)
  IN CASE d[m+1] < t -> [l |-> m + 1, r |-> r, res |-> res]
       [] t < d[m+1] -> [l |-> l, r |-> m - 1, res |-> res]
       [] OTHER      -> [l |-> l, r |-> m - 1, res |-> m]

\* Seeded fault: right = mid instead of mid - 1.
GeStepNoShrink(d, t, l, r, res) ==
  LET m == Mid(l, r)
  IN IF d[m+1] >= t THEN [l |-> l, r |-> m, res |-> m]
     ELSE [l |-> m + 1, r |-> r, res |-> res]

\* One iteration of u64_binary_search_ge_ref.
GeStep(d, t, l, r, res) ==
  LET m == Mid(l, r)
  IN IF d[m+1] >= t THEN [l |-> l, r |-> m - 1, res |-> m]
     ELSE [l |-> m + 1, r |-> r, res |-> res]

Init ==
  /\ fn \in {"eq", "ge"}
  /\ data \in SortedArrays
  /\ target \in Values
  /\ left = 0
  /\ right = Len(data) - 1
  /\ result = -1
  /\ pc = "loop"

\* while (left <= right): one iteration.
Step ==
  /\ pc = "loop"
  /\ left <= right
  /\ LET s == IF fn = "eq" THEN EqStep(data, target, left, right, result)
              ELSE GeStep(data, target, left, right, result)
     IN left' = s.l /\ right' = s.r /\ result' = s.res
  /\ UNCHANGED << fn, data, target, pc >>

\* The loop exits and the function returns result.
Return ==
  /\ pc = "loop"
  /\ left > right
  /\ pc' = "done"
  /\ UNCHANGED << fn, data, target, left, right, result >>

Next == Step \/ Return

\* A call runs on its caller's thread to completion.
Spec == Init /\ [][Next]_vars /\ WF_vars(Next)

-----------------------------------------------------------------------------
(* Properties.                                                             *)

\* The first position whose value satisfies test, or -1.
FirstWhere(test(_)) ==
  LET ps == { p \in 1..Len(data) : test(data[p]) }
  IN IF ps = {} THEN -1 ELSE CHOOSE p \in ps : \A p2 \in ps : p <= p2

\* On return, the eq search gives the first position holding target (the
\* leftmost of equal values) or -1, and the ge search the first position
\* holding a value >= target (the lower bound) or -1 when there is none.
ReturnsFirstMatch ==
  pc = "done" =>
    result = IF fn = "eq"
             THEN LET p == FirstWhere(LAMBDA v : v = target) IN IF p = -1 THEN -1 ELSE p - 1
             ELSE LET p == FirstWhere(LAMBDA v : v >= target) IN IF p = -1 THEN -1 ELSE p - 1

\* Every search returns: each iteration narrows [left, right].
Terminates == <>(pc = "done")

=============================================================================
