---------------------------- MODULE VecKernelsRef ----------------------------
(***************************************************************************)
(* The vector kernels of src/src/simd/distances_ref.cc (single, batch_4,   *)
(* ny, transposed, madd, masked sum, jaccard), DiskANN's distance          *)
(* selection (src/thirdparty/DiskANN/src/distance.cpp) and faiss's         *)
(* is_similarity_metric (MetricType.h).  A call runs to its return in one  *)
(* step; each kernel is an operator that follows the code's loop, index    *)
(* arithmetic and accumulators.                                            *)
(*                                                                         *)
(* Element values are small integers: every product and sum the kernels   *)
(* form stays below 2^24, so float, double and int32 arithmetic is exact   *)
(* on them, and (float) of an fp16, bf16, int8 or uint8 element is the     *)
(* element itself.  The fp16, bf16 and int8 kernels (int32 accumulators,  *)
(* which overflow only for d > 131072) are the float loops on such values; *)
(* what is left distinct is the bf16_float rounding of y in the bf16 patch *)
(* kernels.                                                                *)
(* A vector is a sequence; code index i is position i + 1.                 *)
(***************************************************************************)
EXTENDS Integers, Sequences, FiniteSets
LOCAL INSTANCE SequencesExt

CONSTANTS
  EVals,     \* element values of float, fp16, bf16 and int8 vectors
  PVals,     \* float values of y in the bf16 patch kernels
  U8Vals,    \* element values of uint8 vectors
  Bf16Of,    \* bf16_float on PVals (knowhere/operands.h, not in the repository)
  KDims,     \* values of d (element_length for jaccard)
  KNys,      \* values of ny
  MaskDs,    \* values of d for fvec_masked_sum_ref
  MaskBits,  \* bit positions that may be set in its x
  DMetrics,  \* diskann::Metric values ("OTHER" for any further enumerator)
  NaN        \* the float NaN

VARIABLES call, out, pc

vars == << call, out, pc >>

At(v, i) == v[i + 1]

\* for (size_t i = 0; i < n; i++) r = op(r, i), from r = base.
Loop(op(_, _), base, n) == FoldLeft(op, base, [k \in 1..n |-> k - 1])

Abs(v) == IF v < 0 THEN -v ELSE v

\* y[i] as the kernel reads it: bf16_float(y[i]) in the bf16 patch kernels.
YVal(ty, v) == IF ty = "bf16_patch" THEN Bf16Of[v] ELSE v

-----------------------------------------------------------------------------
(* Single-vector kernels.                                                  *)

InnerProduct(ty, x, y, d) == Loop(LAMBDA r, i : r + At(x, i) * YVal(ty, At(y, i)), 0, d)

L2sqr(ty, x, y, d) == Loop(LAMBDA r, i : r + (At(x, i) - YVal(ty, At(y, i)))^2, 0, d)

L1(x, y, d) == Loop(LAMBDA r, i : r + Abs(At(x, i) - At(y, i)), 0, d)

\* res = fmax(res, fabs(x[i] - y[i])), from res = 0.
Linf(x, y, d) == Loop(LAMBDA r, i : IF Abs(At(x, i) - At(y, i)) > r THEN Abs(At(x, i) - At(y, i)) ELSE r, 0, d)

NormL2sqr(x, d) == Loop(LAMBDA r, i : r + At(x, i) * At(x, i), 0, d)

\* The batch_4 kernels: one loop, four accumulators d0..d3, one per y.
InnerProductBatch4(ty, x, ys, d) ==
  Loop(LAMBDA r, i : [k \in 1..4 |-> r[k] + At(x, i) * YVal(ty, At(ys[k], i))], <<0, 0, 0, 0>>, d)

L2sqrBatch4(ty, x, ys, d) ==
  Loop(LAMBDA r, i : [k \in 1..4 |-> r[k] + (At(x, i) - YVal(ty, At(ys[k], i)))^2], <<0, 0, 0, 0>>, d)

-----------------------------------------------------------------------------
(* Kernels over several y vectors.                                         *)

\* dis[i] = kernel(x, y, d); y += d.
L2sqrNy(x, y, d, ny) == [p \in 1..ny |-> L2sqr("float", x, SubSeq(y, (p - 1) * d + 1, p * d), d)]
InnerProductsNy(x, y, d, ny) == [p \in 1..ny |-> InnerProduct("float", x, SubSeq(y, (p - 1) * d + 1, p * d), d)]

\* Seeded fault: y read row-major, y[i * d_offset + j].
L2sqrNyTransposedRowMajor(x, y, sqlen, d, off, ny) ==
  LET xs == NormL2sqr(x, d)
      dp(i) == Loop(LAMBDA r, j : r + At(x, j) * At(y, i * off + j), 0, d)
  IN  [p \in 1..ny |-> xs + sqlen[p] - 2 * dp(p - 1)]

\* x_sqlen, then dis[i] = x_sqlen + y_sqlen[i] - 2 * dp with component j of
\* vector i at y[i + j * d_offset].
L2sqrNyTransposed(x, y, sqlen, d, off, ny) ==
  LET xs == NormL2sqr(x, d)
      dp(i) == Loop(LAMBDA r, j : r + At(x, j) * At(y, i + j * off), 0, d)
  IN  [p \in 1..ny |-> xs + sqlen[p] - 2 * dp(p - 1)]

\* c[i] = a[i] + bf * b[i].
Madd(a, bf, b, n) == [p \in 1..n |-> a[p] + bf * b[p]]

\* x is a set of bit positions (bit b of byte k is 8k + b); the bits of
\* byte k, as positions within it.
ByteAt(xb, k) == { p - 8 * k : p \in { p \in xb : 8 * k <= p /\ p < 8 * k + 8 } }

\* sum += ((x[i / 8] & (1 << (i % 8))) == masker) ? q[i] : 0.
MaskedSum(q, xb, d) == Loop(LAMBDA r, i : r + IF (i % 8) \in ByteAt(xb, i \div 8) THEN At(q, i) ELSE 0, 0, d)

\* res / element_length as a float: the quotient <<res, len>>; 0.0 / 0 is NaN.
FDiv(a, b) == IF b = 0 THEN NaN ELSE << a, b >>

\* res += (x[i] == y[i]) over the uint32_t or uint64_t elements.
JaccardDistance(x, y, len) ==
  FDiv(Loop(LAMBDA r, i : r + IF At(x, i) = At(y, i) THEN 1 ELSE 0, 0, len), len)

JaccardDistanceBatch4(x, ys, len) ==
  LET c == Loop(LAMBDA r, i : [k \in 1..4 |-> r[k] + IF At(x, i) = At(ys[k], i) THEN 1 ELSE 0],
                << 0, 0, 0, 0 >>, len)
  IN  [k \in 1..4 |-> FDiv(c[k], len)]

-----------------------------------------------------------------------------
(* DiskANN distances and faiss metric kinds.                               *)

\* The generic template (instantiated for uint8_t and int8_t): an L2 lambda,
\* and one negated inner-product lambda for INNER_PRODUCT or COSINE.
GenericDistanceFunction(m) ==
  CASE m = "L2"                              -> "l2"
    [] m \in {"INNER_PRODUCT", "COSINE"}     -> "neg_ip"
    [] OTHER                                 -> "throw"

\* Seeded fault: a specialisation without its COSINE branch.
SpecialisedDistanceFunctionNoCosine(m) ==
  CASE m = "L2"                  -> "l2"
    [] m = "INNER_PRODUCT"       -> "neg_ip"
    [] OTHER                     -> "throw"

\* The float, fp16 and bf16 specialisations: faiss's L2sqr kernel of the
\* type for L2, and separate INNER_PRODUCT and COSINE branches that each
\* negate the type's inner-product kernel; any other metric throws.
SpecialisedDistanceFunction(m) ==
  CASE m = "L2"                  -> "l2"
    [] m = "INNER_PRODUCT"       -> "neg_ip"
    [] m = "COSINE"              -> "neg_ip"
    [] OTHER                     -> "throw"

\* get_distance_function<T>: the specialisation for float, fp16 and bf16,
\* the generic template otherwise.
GetDistanceFunction(ty, m) ==
  IF ty \in {"float", "fp16", "bf16"} THEN SpecialisedDistanceFunction(m)
  ELSE GenericDistanceFunction(m)

ApplyDistance(f, x, y, d) ==
  IF f = "l2" THEN L2sqr("float", x, y, d) ELSE -InnerProduct("float", x, y, d)

\* norm_l2sqr: the element type's squared norm, res += a[i] * a[i].
norm_l2sqr(x, d) == NormL2sqr(x, d)

is_similarity_metric(mt) == mt \in {"METRIC_INNER_PRODUCT", "METRIC_Jaccard"}

-----------------------------------------------------------------------------
(* Calls.  The inputs of a call are what its caller can pass: vectors of  *)
(* the element type, laid out the way the kernel reads them.               *)

Vec(S, d) == [1..d -> S]

SingleKernels == ({"ip", "l2"} \X {"float", "bf16_patch"})
                   \cup {<<"l1", "float">>, <<"linf", "float">>, <<"norm", "float">>}
BatchKernels == {"ip4", "l24"} \X {"float", "bf16_patch"}
YSet(ty) == IF ty = "bf16_patch" THEN PVals ELSE EVals
DiskannTypes == {"float", "uint8", "int8", "fp16", "bf16"}
DVals(ty) == IF ty = "uint8" THEN U8Vals ELSE EVals

\* y vectors stored as the columns of d rows of d_offset floats; the
\* columns from ny on belong to other data (pad).
Strided(ys, d, off, ny, pad) ==
  [p \in 1..d * off |-> IF (p - 1) % off < ny THEN ys[((p - 1) % off) + 1][((p - 1) \div off) + 1] ELSE pad]

SingleArgs ==
  \E k \in SingleKernels, d \in KDims :
    \E x \in Vec(EVals, d), y \in Vec(YSet(k[2]), d) :
      call = [fn |-> k[1], ty |-> k[2], d |-> d, x |-> x, ys |-> <<y>>]

BatchArgs ==
  \E k \in BatchKernels, d \in KDims :
    \E x \in Vec(EVals, d), ys \in [1..4 -> Vec(YSet(k[2]), d)] :
      call = [fn |-> k[1], ty |-> k[2], d |-> d, x |-> x, ys |-> ys]

\* fvec_L2sqr_ny_ref / fvec_inner_products_ny_ref: y holds the ny vectors
\* one after the other; the transposed kernel gets the strided layout and
\* y_sqlen, the squared norms of the columns.
NyArgs ==
  \E fn \in {"l2_ny", "ip_ny", "l2_t"}, d \in KDims, ny \in KNys :
    \E x \in Vec(EVals, d), ys \in [1..ny -> Vec(EVals, d)] :
      \/ fn # "l2_t" /\ call = [fn |-> fn, d |-> d, ny |-> ny, x |-> x, ys |-> ys, y |-> FlattenSeq(ys)]
      \/ fn = "l2_t" /\ \E off \in {ny, ny + 1}, pad \in EVals :
           call = [fn |-> fn, d |-> d, ny |-> ny, x |-> x, ys |-> ys, off |-> off,
                   y |-> Strided(ys, d, off, ny, pad),
                   sqlen |-> [p \in 1..ny |-> NormL2sqr(ys[p], d)]]

MaddArgs ==
  \E d \in KDims, bf \in EVals : \E a, b \in Vec(EVals, d) :
    call = [fn |-> "madd", d |-> d, x |-> a, bf |-> bf, ys |-> <<b>>]

\* q has weights 2^i, so the sum tells which positions were taken.
MaskedArgs ==
  \E d \in MaskDs : \E xb \in SUBSET { p \in MaskBits : p < d } :
    call = [fn |-> "masked", d |-> d, q |-> [p \in 1..d |-> 2^(p - 1)], xb |-> xb]

JaccardArgs ==
  \E fn \in {"jac", "jac4"}, ty \in {"u32", "u64"}, len \in KDims :
    \E x \in Vec(EVals, len), ys \in [1..(IF fn = "jac" THEN 1 ELSE 4) -> Vec(EVals, len)] :
      call = [fn |-> fn, ty |-> ty, d |-> len, x |-> x, ys |-> ys]

DiskannArgs ==
  \E ty \in DiskannTypes, m \in DMetrics, d \in KDims :
    \E x \in Vec(DVals(ty), d), ys \in [1..2 -> Vec(DVals(ty), d)] :
      call = [fn |-> "diskann", ty |-> ty, m |-> m, d |-> d, x |-> x, ys |-> ys]

Init ==
  /\ out = << >>
  /\ pc = "call"
  /\ \/ SingleArgs \/ BatchArgs \/ NyArgs \/ MaddArgs \/ MaskedArgs \/ JaccardArgs \/ DiskannArgs

Idle == call = [fn |-> "none"] /\ out = << >> /\ pc = "idle"

-----------------------------------------------------------------------------
(* One step per call: the kernel runs to its return.                       *)

Return(v) == out' = v /\ pc' = "done" /\ UNCHANGED call

SingleCall ==
  /\ pc = "call"
  /\ call.fn \in {"ip", "l2", "l1", "linf", "norm"}
  /\ Return(<< CASE call.fn = "ip"   -> InnerProduct(call.ty, call.x, call.ys[1], call.d)
                 [] call.fn = "l2"   -> L2sqr(call.ty, call.x, call.ys[1], call.d)
                 [] call.fn = "l1"   -> L1(call.x, call.ys[1], call.d)
                 [] call.fn = "linf" -> Linf(call.x, call.ys[1], call.d)
                 [] call.fn = "norm" -> NormL2sqr(call.x, call.d) >>)

BatchCall ==
  /\ pc = "call"
  /\ call.fn \in {"ip4", "l24"}
  /\ Return(IF call.fn = "ip4" THEN InnerProductBatch4(call.ty, call.x, call.ys, call.d)
                               ELSE L2sqrBatch4(call.ty, call.x, call.ys, call.d))

NyCall ==
  /\ pc = "call"
  /\ call.fn \in {"l2_ny", "ip_ny"}
  /\ Return(IF call.fn = "l2_ny" THEN L2sqrNy(call.x, call.y, call.d, call.ny)
                                 ELSE InnerProductsNy(call.x, call.y, call.d, call.ny))

TransposedCall ==
  /\ pc = "call"
  /\ call.fn = "l2_t"
  /\ Return(L2sqrNyTransposed(call.x, call.y, call.sqlen, call.d, call.off, call.ny))

MaddCall ==
  /\ pc = "call"
  /\ call.fn = "madd"
  /\ Return(Madd(call.x, call.bf, call.ys[1], call.d))

MaskedSumCall ==
  /\ pc = "call"
  /\ call.fn = "masked"
  /\ Return(<< MaskedSum(call.q, call.xb, call.d) >>)

JaccardCall ==
  /\ pc = "call"
  /\ call.fn \in {"jac", "jac4"}
  /\ Return(IF call.fn = "jac" THEN << JaccardDistance(call.x, call.ys[1], call.d) >>
                               ELSE JaccardDistanceBatch4(call.x, call.ys, call.d))

\* The caller gets the distance function, then applies it to two vectors,
\* and takes the squared norm of x.
DiskannCall ==
  /\ pc = "call"
  /\ call.fn = "diskann"
  /\ LET f == GetDistanceFunction(call.ty, call.m)
     IN \/ f = "throw" /\ pc' = "threw" /\ UNCHANGED << call, out >>
        \/ f # "throw" /\ Return(<< ApplyDistance(f, call.x, call.ys[1], call.d),
                                   ApplyDistance(f, call.x, call.ys[2], call.d),
                                   norm_l2sqr(call.x, call.d) >>)

Next == SingleCall \/ BatchCall \/ NyCall \/ TransposedCall \/ MaddCall
          \/ MaskedSumCall \/ JaccardCall \/ DiskannCall

Spec == Init /\ [][Next]_vars /\ WF_vars(Next)

-----------------------------------------------------------------------------
(* Reference definitions: the metrics as sums over positions.              *)

RefIP(ty, x, y) == MapThenSumSet(LAMBDA p : x[p] * YVal(ty, y[p]), DOMAIN x)
RefL2(ty, x, y) == MapThenSumSet(LAMBDA p : (x[p] - YVal(ty, y[p]))^2, DOMAIN x)
RefL1(x, y) == MapThenSumSet(LAMBDA p : Abs(x[p] - y[p]), DOMAIN x)
RefLinf(x, y) == Max({0} \cup { Abs(x[p] - y[p]) : p \in DOMAIN x })
RefMatch(x, y) == Cardinality({ p \in DOMAIN x : x[p] = y[p] })

\* DiskANN returns smaller distances for better matches: the negated inner
\* product for the metrics faiss ranks as similarities (is_similarity_metric
\* of the corresponding faiss metric), the squared L2 distance otherwise.
FaissMetric(m) == IF m = "L2" THEN "METRIC_L2" ELSE "METRIC_INNER_PRODUCT"

DiskannRef(m, x, y) ==
  IF is_similarity_metric(FaissMetric(m)) THEN -RefIP("float", x, y) ELSE RefL2("float", x, y)

\* What a call must return (its outputs in order), from the vectors its
\* caller means (ys).
Expected(c) ==
  CASE c.fn = "ip"     -> << RefIP(c.ty, c.x, c.ys[1]) >>
    [] c.fn = "l2"     -> << RefL2(c.ty, c.x, c.ys[1]) >>
    [] c.fn = "l1"     -> << RefL1(c.x, c.ys[1]) >>
    [] c.fn = "linf"   -> << RefLinf(c.x, c.ys[1]) >>
    [] c.fn = "norm"   -> << RefIP("float", c.x, c.x) >>
    [] c.fn = "ip4"    -> [k \in 1..4 |-> RefIP(c.ty, c.x, c.ys[k])]
    [] c.fn = "l24"    -> [k \in 1..4 |-> RefL2(c.ty, c.x, c.ys[k])]
    [] c.fn = "ip_ny"  -> [k \in DOMAIN c.ys |-> RefIP("float", c.x, c.ys[k])]
    [] c.fn \in {"l2_ny", "l2_t"} -> [k \in DOMAIN c.ys |-> RefL2("float", c.x, c.ys[k])]
    [] c.fn = "madd"   -> [p \in DOMAIN c.x |-> c.x[p] + c.bf * c.ys[1][p]]
    [] c.fn = "masked" -> << MapThenSumSet(LAMBDA p : c.q[p + 1], { p \in c.xb : p < c.d }) >>
    [] c.fn \in {"jac", "jac4"} -> [k \in DOMAIN c.ys |-> FDiv(RefMatch(c.x, c.ys[k]), c.d)]
    [] c.fn = "diskann" -> [k \in 1..2 |-> DiskannRef(c.m, c.x, c.ys[k])] \o << RefIP("float", c.x, c.x) >>

-----------------------------------------------------------------------------
(* Properties.                                                             *)

\* Every kernel returns the metric of x and each y vector its caller laid
\* out: the batch_4 accumulator k reads y_k; the ny kernels advance y by d;
\* the transposed kernel's x_sqlen + y_sqlen[i] - 2 * dp, with y read at
\* i + j * d_offset, is the squared distance to column i whatever d_offset;
\* the masked sum takes exactly the bits of x[i / 8] at i % 8 below d; the
\* jaccard kernels return the share of equal elements, NaN when
\* element_length is 0; the bf16 patch kernels use bf16_float(y[i]).  The
\* distance functor DiskANN's get_distance_function selects, in the generic
\* template and in every specialisation, returns the distance faiss's
\* metric kind calls for (L2, INNER_PRODUCT and COSINE), and a throw
\* happens only for a metric it does not support.
KernelsExact ==
  /\ pc = "done" => out = Expected(call)
  /\ pc = "threw" => call.fn = "diskann" /\ call.m \notin {"L2", "INNER_PRODUCT", "COSINE"}

\* Every call returns or throws.
KernelReturns == <>(pc \in {"done", "threw"})

====
