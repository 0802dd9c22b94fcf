---------------------------- MODULE DistancesRef ----------------------------
(***************************************************************************)
(* One call of an integer reference kernel of src/src/simd/distances_ref.cc *)
(* on its caller's thread: u64_binary_search_eq_ref / _ge_ref              *)
(* (BinarySearchRef), minhash_lsh_hit_ref (MinhashRef) or                   *)
(* rabitq_dp_popcnt_ref (defined here), or, from faiss's fast scan, the    *)
(* query-blocking loops of pq4_fast_scan_search_qbs.cpp (PQ4FastScan), or  *)
(* the argmin loops of the nearest-vector kernels (ArgminRef), or a vector *)
(* kernel, a DiskANN distance or norm (VecKernelsRef).                     *)
(* fn names the kernel called; the state of the kernels not called stays   *)
(* idle.                                                                   *)
(*                                                                         *)
(* rabitq_dp_popcnt_ref: x is a bit-packed vector of d bits, q holds nb    *)
(* bit planes of the query, each (d + 7) / 8 bytes long, one after the     *)
(* other.  A byte or uint64_t is the set of its bit positions (bit b of    *)
(* byte k is position 8k + b), so & is \cap and popcount is Cardinality.  *)
(***************************************************************************)
EXTENDS Integers, Sequences, FiniteSets
LOCAL INSTANCE FiniteSetsExt

CONSTANTS
  Fns,          \* kernels a caller may call: "eq", "ge", "minhash", "rabitq"
  Values, MaxSize,    \* binary search inputs (BinarySearchRef)
  Shapes, MaxDiffs,   \* minhash inputs (MinhashRef)
  RabitqShapes, \* <<d, nb>> pairs a caller may pass
  RabitqBits,   \* bit positions that may be set in x and in a query plane
  Ns, UserQbs, NsqS, NTotal2s, SelSets, \* fast scan inputs (PQ4FastScan)
  FloatVals, Big, Huge, NaN, MaxNy,      \* argmin inputs (ArgminRef)
  EVals, PVals, U8Vals, Bf16Of, KDims, KNys, MaskDs, MaskBits, DMetrics \* VecKernelsRef

ASSUME Fns \subseteq {"eq", "ge", "minhash", "rabitq", "pq4", "argmin", "kernels"}
ASSUME \A s \in RabitqShapes : s[1] \in Nat \ {0} /\ s[2] \in Nat \ {0}

VARIABLES
  fn,
  data, target, left, right, result, bpc,        \* binary search
  dim, band, diff, r, i, j, off, eq, mpc, hit,   \* minhash
  rd, rnb, rx, planes, dot, rpc,                  \* rabitq
  entry, n, qbs, nsq, ntotal2, hasSel, sel, j0, qi, i0, lut, codes, calls, qpc, \* pq4
  kind, dis, ai, vmin, imin, apc,                 \* argmin
  call, out, kpc                                  \* vector kernels

bsVars == << data, target, left, right, result, bpc >>
mhVars == << dim, band, diff, r, i, j, off, eq, mpc, hit >>
rqVars == << rd, rnb, rx, planes, dot, rpc >>
pqVars == << entry, n, qbs, nsq, ntotal2, hasSel, sel, j0, qi, i0, lut, codes, calls, qpc >>
amVars == << kind, dis, ai, vmin, imin, apc >>
vkVars == << call, out, kpc >>
vars == << fn, bsVars, mhVars, rqVars, pqVars, amVars, vkVars >>

BS == INSTANCE BinarySearchRef WITH pc <- bpc
MH == INSTANCE MinhashRef WITH pc <- mpc
PQ == INSTANCE PQ4FastScan WITH pc <- qpc
AM == INSTANCE ArgminRef WITH pc <- apc
VK == INSTANCE VecKernelsRef WITH pc <- kpc

-----------------------------------------------------------------------------
(* rabitq_dp_popcnt_ref.                                                   *)

\* di_8b = (d + 7) / 8: the bytes of one bit plane.
Di8b(d) == (d + 7) \div 8

\* Seeded fault: the byte count of the 64-bit part not scaled back by 8.
Di64bNoScale(d) == Di8b(d) \div 8

\* di_64b = (di_8b / 8) * 8: the bytes covered by whole uint64_t loads.
Di64b(d) == (Di8b(d) \div 8) * 8

\* The cnt bytes at byte offset o of buffer mem, as positions relative to o.
Load(mem, o, cnt) == { p - 8 * o : p \in { p \in mem : 8 * o <= p /\ p < 8 * (o + cnt) } }

\* The query buffer: plane jj occupies bytes [jj * di_8b, (jj + 1) * di_8b).
QMem(pl, d) == UNION { { 8 * Di8b(d) * jj + p : p \in pl[jj] } : jj \in DOMAIN pl }

\* count_dot of plane jj: popcounts of the uint64_t loads at i = 0, 8, ...
\* below di_64b, then of the single bytes from di_64b to di_8b.
CountDot(q, x, d, jj) ==
  LET qj == jj * Di8b(d)
  IN  MapThenSumSet(LAMBDA k : Cardinality(Load(q, qj + k, 8) \cap Load(x, k, 8)),
                    { k \in 0..Di64b(d) - 1 : k % 8 = 0 })
    + MapThenSumSet(LAMBDA k : Cardinality(Load(q, qj + k, 1) \cap Load(x, k, 1)),
                    Di64b(d)..Di8b(d) - 1)

\* dot += count_dot << j for every plane j.
RabitqDpPopcnt(q, x, d, nb) ==
  MapThenSumSet(LAMBDA jj : CountDot(q, x, d, jj) * 2^jj, 0..nb - 1)

-----------------------------------------------------------------------------

BSIdle == data = << >> /\ target = 0 /\ left = 0 /\ right = -1 /\ result = -1 /\ bpc = "idle"
MHIdle == dim = 0 /\ band = 1 /\ diff = {} /\ r = 0 /\ i = 0 /\ j = 0 /\ off = 0
          /\ eq = TRUE /\ mpc = "idle" /\ hit = 0
AMIdle == kind = "none" /\ dis = << >> /\ ai = 0 /\ vmin = 0 /\ imin = 0 /\ apc = "idle"
RQIdle == rd = 0 /\ rnb = 0 /\ rx = {} /\ planes = << >> /\ dot = 0 /\ rpc = "idle"

\* A rabitq call: the set bits of x and of each query plane lie below d
\* (the padding bits of the last byte are zero).
RQInit ==
  /\ \E s \in RabitqShapes : rd = s[1] /\ rnb = s[2]
  /\ rx \in SUBSET { p \in RabitqBits : p < rd }
  /\ planes \in [0..rnb - 1 -> SUBSET { p \in RabitqBits : p < rd }]
  /\ dot = 0
  /\ rpc = "call"

Init ==
  \/ BS!Init /\ fn \in Fns /\ MHIdle /\ RQIdle /\ PQ!Idle /\ AMIdle /\ VK!Idle
  \/ fn = "minhash" /\ fn \in Fns /\ MH!Init /\ BSIdle /\ RQIdle /\ PQ!Idle /\ AMIdle /\ VK!Idle
  \/ fn = "rabitq" /\ fn \in Fns /\ RQInit /\ BSIdle /\ MHIdle /\ PQ!Idle /\ AMIdle /\ VK!Idle
  \/ fn = "pq4" /\ fn \in Fns /\ PQ!Init /\ BSIdle /\ MHIdle /\ RQIdle /\ AMIdle /\ VK!Idle
  \/ fn = "argmin" /\ fn \in Fns /\ AM!Init /\ BSIdle /\ MHIdle /\ RQIdle /\ PQ!Idle /\ VK!Idle
  \/ fn = "kernels" /\ fn \in Fns /\ VK!Init /\ BSIdle /\ MHIdle /\ RQIdle /\ PQ!Idle /\ AMIdle

\* rabitq_dp_popcnt_ref runs to its return.
RabitqCall ==
  /\ rpc = "call"
  /\ dot' = RabitqDpPopcnt(QMem(planes, rd), rx, rd, rnb)
  /\ rpc' = "done"
  /\ UNCHANGED << fn, bsVars, mhVars, rd, rnb, rx, planes, pqVars, amVars, vkVars >>

Next ==
  \/ BS!Next /\ UNCHANGED << fn, mhVars, rqVars, pqVars, amVars, vkVars >>
  \/ MH!Next /\ UNCHANGED << fn, bsVars, rqVars, pqVars, amVars, vkVars >>
  \/ RabitqCall
  \/ PQ!Next /\ UNCHANGED << fn, bsVars, mhVars, rqVars, amVars, vkVars >>
  \/ AM!Next /\ UNCHANGED << fn, bsVars, mhVars, rqVars, pqVars, vkVars >>
  \/ VK!Next /\ UNCHANGED << fn, bsVars, mhVars, rqVars, pqVars, amVars >>

\* A call runs on its caller's thread to completion.
Spec == Init /\ [][Next]_vars /\ WF_vars(Next)

-----------------------------------------------------------------------------
(* Properties.                                                             *)

\* The binary searches return the leftmost match or lower bound.
ReturnsFirstMatch == BS!ReturnsFirstMatch

\* minhash_lsh_hit_ref reads only its input and hits exactly on an equal band.
HitIffEqualBand == MH!HitIffEqualBand

\* rabitq_dp_popcnt_ref returns sum over the set bits i of x of the query
\* code sum_j q_j[i] * 2^j: the 64-bit loads and the byte loop together
\* cover every byte of each plane once, and plane j is read at j * di_8b.
RabitqDotExact ==
  rpc = "done" =>
    dot = MapThenSumSet(LAMBDA p : MapThenSumSet(LAMBDA jj : IF p \in planes[jj] THEN 2^jj ELSE 0,
                                                 0..rnb - 1),
                        rx)

\* Every pq4 fast scan call computes each of its n queries exactly once per
\* block the filter keeps, at the LUT and codes offsets of that query group
\* and block, or throws on an input it rejects (PQ4FastScan).
QueriesHandled == PQ!QueriesHandled

\* The nearest-vector kernels and fvec_madd_and_argmin_ref return the first
\* position of the least non-NaN value below their initial minimum, or
\* their initial index when there is none (ArgminRef).
FirstArgmin == AM!FirstArgmin

\* Every vector kernel returns the metric of x and each y its caller laid
\* out, batch, ny and transposed layouts included, and every DiskANN
\* distance functor the distance faiss's metric kind calls for
\* (VecKernelsRef).
KernelsExact == VK!KernelsExact

\* Every call returns or throws.
Terminates == <>(bpc = "done" \/ mpc = "done" \/ rpc = "done" \/ qpc \in {"done", "error"} \/ apc = "done"
             \/ kpc \in {"done", "threw"})

=============================================================================
