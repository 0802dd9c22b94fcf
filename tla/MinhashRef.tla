----------------------------- MODULE MinhashRef -----------------------------
(***************************************************************************)
(* minhash_lsh_hit_ref (src/src/simd/distances_ref.cc): x and y are dim    *)
(* bytes split into mh_lsh_band bands of r = dim / mh_lsh_band bytes; the  *)
(* result is 1.0 as soon as one band of x equals the same band of y.      *)
(* Each band is compared 8 bytes at a time (one uint64_t load per loop    *)
(* iteration) while j, the bytes left, is non-zero, and the switch on j    *)
(* compares the remaining bytes.                                           *)
(*                                                                         *)
(* Only byte equality matters, so x is all zero bytes and y is given by    *)
(* the set diff of byte positions where it differs from x.  j is a size_t: *)
(* j -= 8 below 8 wraps to 2^64 - (8 - j), kept here as the negative       *)
(* number j - 8, for which the unsigned test j > 0 is j # 0.  Reading past *)
(* the dim bytes of x or y (undefined behaviour) ends in pc = "oob".       *)
(***************************************************************************)
EXTENDS Integers, FiniteSets

CONSTANTS
  Shapes,     \* <<dim, mh_lsh_band>> pairs a caller may pass
  MaxDiffs    \* bound on the bytes in which y differs from x

ASSUME \A s \in Shapes : s[1] \in Nat /\ s[2] \in Nat \ {0}

VARIABLES dim, band, diff, r, i, j, off, eq, pc, hit

vars == << dim, band, diff, r, i, j, off, eq, pc, hit >>

\* The bytes [from, from + n) of x and y differ somewhere.
BytesDiffer(from, n) == \E p \in diff : from <= p /\ p < from + n

\* Seeded fault: x_b and y_b are not advanced.
AdvanceNoShift(j0, off0) == [j |-> j0 - 8, off |-> off0]

\* j -= 8; x_b += 8; y_b += 8.
Advance(j0, off0) == [j |-> j0 - 8, off |-> off0 + 8]

Init ==
  /\ \E s \in Shapes : dim = s[1] /\ band = s[2]
  /\ diff \in { D \in SUBSET (0..dim - 1) : Cardinality(D) <= MaxDiffs }
  /\ r = dim \div band
  /\ i = 0 /\ j = 0 /\ off = 0 /\ eq = TRUE
  /\ pc = "band"
  /\ hit = 0

\* for (i = 0; i < mh_lsh_band; i++): x_b = x + r * i, j = r, eq = true.
BandBegin ==
  /\ pc = "band"
  /\ i < band
  /\ off' = r * i /\ j' = r /\ eq' = TRUE
  /\ pc' = "loop"
  /\ UNCHANGED << dim, band, diff, r, i, hit >>

\* No band matched: return 0.0.
NoHit ==
  /\ pc = "band"
  /\ i = band
  /\ pc' = "done" /\ hit' = 0
  /\ UNCHANGED << dim, band, diff, r, i, j, off, eq >>

\* while (j > 0): one uint64_t load of 8 bytes at x_b and at y_b.  A load
\* past the dim bytes ends the model; loads that differ goto next_band;
\* equal loads advance.
LoopIteration ==
  /\ pc = "loop"
  /\ j # 0
  /\ CASE off + 8 > dim ->
           pc' = "oob" /\ UNCHANGED << i, j, off >>
       [] BytesDiffer(off, 8) ->
           i' = i + 1 /\ pc' = "band" /\ UNCHANGED << j, off >>
       [] OTHER ->
           LET a == Advance(j, off) IN j' = a.j /\ off' = a.off /\ UNCHANGED << i, pc >>
  /\ UNCHANGED << dim, band, diff, r, eq, hit >>

\* The loop has ended (j = 0): the fall-through switch compares bytes
\* j-1 .. 0 at x_b, then a band with eq still true returns 1.0.
Tail ==
  /\ pc = "loop"
  /\ j = 0
  /\ eq' = (eq /\ ~BytesDiffer(off, j))
  /\ IF eq' THEN pc' = "done" /\ hit' = 1 /\ UNCHANGED i
     ELSE pc' = "band" /\ i' = i + 1 /\ UNCHANGED hit
  /\ UNCHANGED << dim, band, diff, r, j, off >>

Next ==
  \/ BandBegin
  \/ NoHit
  \/ LoopIteration
  \/ Tail

Spec == Init /\ [][Next]_vars

-----------------------------------------------------------------------------
(* Properties.                                                             *)

\* The call reads only the dim bytes of x and y, and returns 1.0 exactly
\* when some band b, bytes [r * b, r * b + r), is equal in x and y.
HitIffEqualBand ==
  pc \in {"done", "oob"} =>
    /\ pc = "done"
    /\ hit = IF \E b \in 0..band - 1 : ~BytesDiffer(r * b, r) THEN 1 ELSE 0

=============================================================================
