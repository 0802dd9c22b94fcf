----------------------------- MODULE ArgminRef -----------------------------
(***************************************************************************)
(* The selection loops of src/src/simd/distances_ref.cc:                   *)
(* fvec_L2sqr_ny_nearest_ref and fvec_L2sqr_ny_nearest_y_transposed_ref    *)
(* (kind "nearest": min_dis = HUGE_VALF, nearest_idx = 0) and              *)
(* fvec_madd_and_argmin_ref (kind "madd": vmin = 1e20, imin = -1), one     *)
(* loop iteration per step.                                                *)
(*                                                                         *)
(* The float each iteration compares (distances_tmp_buffer[i] from         *)
(* fvec_L2sqr_ny_ref / _transposed_ref, or c[i] = a[i] + bf * b[i]) is an *)
(* input: a value of an ordered set of integers standing for floats, with  *)
(* Big for 1e20 and Huge for HUGE_VALF (+inf) as its two largest elements, *)
(* or the model value NaN, which compares false with everything.           *)
(***************************************************************************)
EXTENDS Integers, Sequences, FiniteSets

CONSTANTS
  FloatVals,  \* ordered float values, Big and Huge among them
  Big, Huge,  \* 1e20 and HUGE_VALF
  NaN,        \* a NaN float
  MaxNy       \* bound on ny (n)

ASSUME Big \in FloatVals /\ Huge \in FloatVals /\ Big < Huge
ASSUME \A v \in FloatVals : v <= Huge

VARIABLES kind, dis, ai, vmin, imin, pc

vars == << kind, dis, ai, vmin, imin, pc >>

\* a < b on floats: false when either is NaN.
FLess(a, b) == a # NaN /\ b # NaN /\ a < b

\* The initial minimum and index of each loop.
InitMin(kd) == IF kd = "nearest" THEN Huge ELSE Big
InitIdx(kd) == IF kd = "nearest" THEN 0 ELSE -1

Init ==
  /\ kind \in {"nearest", "madd"}
  /\ dis \in UNION { [1..m -> FloatVals \cup {NaN}] : m \in 0..MaxNy }
  /\ ai = 0
  /\ vmin = InitMin(kind)
  /\ imin = InitIdx(kind)
  /\ pc = "loop"

\* Seeded fault: <= in place of <, so a later equal value wins.
StepLastTie ==
  /\ pc = "loop"
  /\ ai < Len(dis)
  /\ IF dis[ai + 1] # NaN /\ vmin # NaN /\ dis[ai + 1] <= vmin
     THEN vmin' = dis[ai + 1] /\ imin' = ai
     ELSE UNCHANGED << vmin, imin >>
  /\ ai' = ai + 1
  /\ UNCHANGED << kind, dis, pc >>

\* One iteration: if (dis[i] < min) { min = dis[i]; idx = i; }
Step ==
  /\ pc = "loop"
  /\ ai < Len(dis)
  /\ IF FLess(dis[ai + 1], vmin)
     THEN vmin' = dis[ai + 1] /\ imin' = ai
     ELSE UNCHANGED << vmin, imin >>
  /\ ai' = ai + 1
  /\ UNCHANGED << kind, dis, pc >>

\* The loop ends at i = ny and the index is returned.
Return ==
  /\ pc = "loop"
  /\ ai = Len(dis)
  /\ pc' = "done"
  /\ UNCHANGED << kind, dis, ai, vmin, imin >>

Next == Step \/ Return

Spec == Init /\ [][Next]_vars /\ WF_vars(Next)

-----------------------------------------------------------------------------
(* Properties.                                                             *)

\* The returned index is the first position of the least value below the
\* initial minimum, NaNs never selected; with no such value (ny = 0, or
\* every value NaN or at least HUGE_VALF / 1e20) it is the initial index:
\* 0 for the nearest search ("return 0 if ny == 0"), -1 for
\* fvec_madd_and_argmin_ref.  The strict < is what makes ties go to the
\* first position.
FirstArgmin ==
  pc = "done" =>
    LET Cand == { p \in 0..Len(dis) - 1 : FLess(dis[p + 1], InitMin(kind)) }
        Best == { p \in Cand : \A q \in Cand : ~FLess(dis[q + 1], dis[p + 1]) }
    IN  imin = IF Cand = {} THEN InitIdx(kind)
               ELSE CHOOSE p \in Best : \A q \in Best : p <= q
=============================================================================
