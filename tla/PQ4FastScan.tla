---------------------------- MODULE PQ4FastScan ----------------------------
(***************************************************************************)
(* The query-blocking loops of faiss's 4-bit PQ fast scan                   *)
(* (src/thirdparty/faiss/faiss/impl/pq4_fast_scan_search_qbs.cpp), as a    *)
(* caller reaches them: pq4_accumulate_loop_qbs with qbs =                 *)
(* pq4_preferred_qbs(n) or a qbs the caller chose, or accumulate_to_mem    *)
(* with nq queries.                                                        *)
(*                                                                         *)
(* qbs packs the query groups one per hex digit, lowest first: group k     *)
(* holds nibble k queries.  The database is scanned in blocks of 32 codes. *)
(* A kernel_accumulate_block<NQ> call is recorded as the query row i0 and  *)
(* block j0 of its result origin, its NQ, and the byte offsets of the LUT  *)
(* and codes it reads from; the SIMD arithmetic inside the kernel is not   *)
(* modelled.                                                               *)
(***************************************************************************)
EXTENDS Integers, FiniteSets

CONSTANTS
  Ns,          \* query counts n a caller passes to pq4_preferred_qbs
  UserQbs,     \* qbs values a caller sets itself
  NsqS,        \* sub-quantizer counts (even)
  NTotal2s,    \* database sizes ntotal2
  SelSets      \* id sets an IDSelector may accept

ASSUME NsqS \subseteq {k \in Nat \ {0} : k % 2 = 0}

VARIABLES
  entry,    \* "qbs": pq4_accumulate_loop_qbs, "mem": accumulate_to_mem
  n, qbs, nsq, ntotal2,
  hasSel, sel,  \* res.sel != nullptr, and the ids it accepts
  j0, qi, i0, lut, codes,
  calls,    \* the kernel_accumulate_block calls made so far
  pc

pqVars == << entry, n, qbs, nsq, ntotal2, hasSel, sel, j0, qi, i0, lut, codes, calls, pc >>

Min2(a, b) == IF a < b THEN a ELSE b

\* Hex digit k of x (x >> 4k & 15).
Nibble(x, k) == (x \div 16^k) % 16

-----------------------------------------------------------------------------
(* Packing functions.                                                      *)

\* pq4_qbs_to_nq: the sum of the nibbles.
RECURSIVE QbsToNq(_)
QbsToNq(qb) == IF qb = 0 THEN 0 ELSE (qb % 16) + QbsToNq(qb \div 16)

PreferredMap == << 0, 1, 2, 3, 19, 35, 51, 547, 563, 819, 8755, 9011 >>

\* pq4_preferred_qbs(n) for 0 <= n: the values it may return (empty: it
\* throws).  For 12 <= n <= 24, nbit = 4 * (n / 3) and
\* qbs = (0x33333333 & ((1 << nbit) - 1)) | (n % 3) << nbit.  At n = 24,
\* nbit = 32 and 1 << 32 overflows int: the shift count is masked to 0 by
\* x86 SHL and AArch64 LSL (mask 0, qbs = 0), or the shift is done wide
\* (mask all ones, qbs = 0x33333333).
PreferredQbs(nn) ==
  LET nbit == 4 * (nn \div 3)
  IN  IF nn <= 11 THEN { PreferredMap[nn + 1] }
      ELSE IF nn <= 24
      THEN IF nbit < 32 THEN { (858993459 % 2^nbit) + (nn % 3) * 2^nbit }
                        ELSE { 0, 858993459 }
      ELSE {}

\* The qbs values pq4_accumulate_loop_qbs_fixed_scaler dispatches to
\* accumulate_q_4step<QBS>.
FourStepQbs ==
  { 13107, 9011, 8755, 819, 8739, 563, 4643, 547, 52, 307, 6, 51, 291, 546,
    35, 5, 19, 34, 4, 3, 33, 2, 1 }

-----------------------------------------------------------------------------

\* kernel_accumulate_block<NQ>(nsq, codes, LUT, res) at result origin
\* (row, block): it reads nsq / 2 32-byte code vectors from codes and, per
\* pair of sub-quantizers, 32 LUT bytes per query, and hands each query q
\* to res.handle(q, 0, ...).
KernelCall(row, block, nq, l, c) == [i0 |-> row, j0 |-> block, nq |-> nq, lut |-> l, codes |-> c]

\* res.adjust_id(0, jj) is id j0 + jj; the block is skipped only when the
\* filter accepts none of its min(32, ntotal2 - j0) ids.
BlockLive(j) == ~hasSel \/ \E jj \in 0..Min2(32, ntotal2 - j) - 1 : j + jj \in sel

Idle ==
  /\ entry = "none" /\ n = 0 /\ qbs = 0 /\ nsq = 0 /\ ntotal2 = 0
  /\ hasSel = FALSE /\ sel = {} /\ j0 = 0 /\ qi = 0 /\ i0 = 0 /\ lut = 0
  /\ codes = 0 /\ calls = {} /\ pc = "idle"

\* pq4_accumulate_loop_qbs (through Run_pq4_accumulate_loop_qbs, with or
\* without a scaler): qbs = pq4_preferred_qbs(n), which throws above 24, or
\* a qbs the caller chose for its pq4_qbs_to_nq(qbs) queries.  The code
\* vectors are padded to blocks of 32.
QbsCall ==
  /\ entry = "qbs" /\ hasSel \in BOOLEAN /\ sel \in SelSets
  /\ ntotal2 \in { t \in NTotal2s : t % 32 = 0 }
  /\ \/ /\ n \in Ns
        /\ \/ qbs \in PreferredQbs(n) /\ pc = "dispatch"
           \/ PreferredQbs(n) = {} /\ qbs = 0 /\ pc = "error"
     \/ \E qb \in UserQbs : qbs = qb /\ n = QbsToNq(qb) /\ pc = "dispatch"

\* accumulate_to_mem(nq, ntotal2, ...): FAISS_THROW_IF_NOT(ntotal2 % 32 == 0),
\* then accumulate into a StoreResultHandler (no filter).
MemCall ==
  /\ entry = "mem" /\ ntotal2 \in NTotal2s /\ n \in Ns /\ qbs = 0
  /\ hasSel = FALSE /\ sel = {}
  /\ pc = IF ntotal2 % 32 = 0 THEN "accumulate" ELSE "error"

Init ==
  /\ nsq \in NsqS
  /\ j0 = 0 /\ qi = 0 /\ i0 = 0 /\ lut = 0 /\ codes = 0 /\ calls = {}
  /\ QbsCall \/ MemCall

\* The switch on qbs: a compiled 4-step variant or the generic loop.
Dispatch ==
  /\ pc = "dispatch"
  /\ pc' = IF qbs \in FourStepQbs THEN "4step" ELSE "loop"
  /\ UNCHANGED << entry, n, qbs, nsq, ntotal2, hasSel, sel, j0, qi, i0, lut, codes, calls >>

\* Seeded fault: codes advanced at the end of the loop body, so a skipped
\* block leaves it behind.
FourStepAdvanceLiveOnly ==
  /\ j0' = j0 + 32
  /\ codes' = IF BlockLive(j0) THEN codes + (32 * nsq) \div 2 ELSE codes

\* The increment of accumulate_q_4step's j0 loop, which a `continue` runs
\* as well: j0 += 32, codes += 32 * nsq / 2.
FourStepAdvance ==
  /\ j0' = j0 + 32
  /\ codes' = codes + (32 * nsq) \div 2

\* One iteration of the j0 loop of accumulate_q_4step<QBS>: unless the
\* filter rejects the whole block, kernel<Qk> runs for each non-zero digit
\* Qk into res2 at row Q1 + ... + Q(k-1), with the LUT advanced by
\* Qk * nsq * 16 after each; res2 is copied to res at (0, j0).  The loop
\* increment advances codes on a skipped block too.
FourStepBlock ==
  /\ pc = "4step"
  /\ j0 < ntotal2
  /\ LET Pre(k) == IF k = 0 THEN 0 ELSE Nibble(qbs, 0) + (IF k > 1 THEN Nibble(qbs, 1) ELSE 0)
                                         + (IF k > 2 THEN Nibble(qbs, 2) ELSE 0)
     IN calls' = IF BlockLive(j0)
                 THEN calls \cup { KernelCall(Pre(k), j0, Nibble(qbs, k), Pre(k) * nsq * 16, codes) :
                                   k \in { k \in 0..3 : k = 0 \/ Nibble(qbs, k) > 0 } }
                 ELSE calls
  /\ FourStepAdvance
  /\ UNCHANGED << entry, n, qbs, nsq, ntotal2, hasSel, sel, qi, i0, lut, pc >>

\* The generic loop, j0 iteration start: LUT = LUT0, qi = qbs, i0 = 0.
LoopBlockBegin ==
  /\ pc = "loop"
  /\ j0 < ntotal2
  /\ lut' = 0 /\ qi' = qbs /\ i0' = 0
  /\ pc' = "nibble"
  /\ UNCHANGED << entry, n, qbs, nsq, ntotal2, hasSel, sel, j0, codes, calls >>

\* One iteration of while (qi): nq = qi & 15, qi >>= 4, origin (i0, j0),
\* kernel<nq> for nq in 1..4, otherwise FAISS_THROW; i0 += nq and
\* LUT += nq * nsq * 16.
LoopNibble ==
  /\ pc = "nibble"
  /\ qi # 0
  /\ LET nq == qi % 16
     IN  IF nq \in 1..4
         THEN /\ calls' = calls \cup { KernelCall(i0, j0, nq, lut, codes) }
              /\ i0' = i0 + nq
              /\ lut' = lut + nq * nsq * 16
              /\ qi' = qi \div 16
              /\ UNCHANGED pc
         ELSE /\ pc' = "error"
              /\ UNCHANGED << calls, i0, lut, qi >>
  /\ UNCHANGED << entry, n, qbs, nsq, ntotal2, hasSel, sel, j0, codes >>

\* End of the block: codes += 32 * nsq / 2, next j0.
LoopBlockEnd ==
  /\ pc = "nibble"
  /\ qi = 0
  /\ codes' = codes + (32 * nsq) \div 2
  /\ j0' = j0 + 32
  /\ pc' = "loop"
  /\ UNCHANGED << entry, n, qbs, nsq, ntotal2, hasSel, sel, qi, i0, lut, calls >>

\* accumulate(nq, ...): the switch over nq = 1..4, otherwise FAISS_THROW.
Accumulate ==
  /\ pc = "accumulate"
  /\ pc' = IF n \in 1..4 THEN "blockloop" ELSE "error"
  /\ UNCHANGED << entry, n, qbs, nsq, ntotal2, hasSel, sel, j0, qi, i0, lut, codes, calls >>

\* kernel_accumulate_block_loop<NQ>: origin (0, j0), kernel on the codes
\* at j0 * nsq / 2 with the whole LUT.
BlockLoopStep ==
  /\ pc = "blockloop"
  /\ j0 < ntotal2
  /\ calls' = calls \cup { KernelCall(0, j0, n, 0, (j0 * nsq) \div 2) }
  /\ j0' = j0 + 32
  /\ UNCHANGED << entry, n, qbs, nsq, ntotal2, hasSel, sel, qi, i0, lut, codes, pc >>

\* Every loop over j0 ends once j0 reaches ntotal2.
LoopsDone ==
  /\ pc \in {"4step", "loop", "blockloop"}
  /\ j0 >= ntotal2
  /\ pc' = "done"
  /\ UNCHANGED << entry, n, qbs, nsq, ntotal2, hasSel, sel, j0, qi, i0, lut, codes, calls >>

Next ==
  \/ Dispatch \/ FourStepBlock \/ LoopBlockBegin \/ LoopNibble \/ LoopBlockEnd
  \/ Accumulate \/ BlockLoopStep \/ LoopsDone

Spec == Init /\ [][Next]_pqVars /\ WF_pqVars(Next)

-----------------------------------------------------------------------------
(* Properties.                                                             *)

\* A call that returns has computed, for every block of 32 codes the filter
\* does not reject entirely and for every query 0..n-1, exactly one kernel
\* row, reading that block's codes at j0 * nsq / 2 and the query's group of
\* the LUT at i0 * nsq * 16; no kernel row lies outside the n queries or
\* the database.  A call throws only on an n above 24, a qbs digit with no
\* kernel, an nq outside 1..4 or an unpadded ntotal2.  This is what
\* pq4_preferred_qbs ("all first stages with 3 steps then 1 stage with the
\* rest") and the loops' pointer arithmetic must agree on.
QueriesHandled ==
  /\ pc = "done" =>
       /\ \A c \in calls : c.j0 < ntotal2 /\ c.i0 + c.nq <= n
                          /\ c.lut = c.i0 * nsq * 16 /\ c.codes = (c.j0 * nsq) \div 2
       /\ \A j \in { j \in 0..ntotal2 - 1 : j % 32 = 0 } : BlockLive(j) =>
            \A q \in 0..n - 1 :
              Cardinality({ c \in calls : c.j0 = j /\ c.i0 <= q /\ q < c.i0 + c.nq }) = 1
  /\ pc = "error" =>
       \/ n > 24
       \/ entry = "qbs" /\ qbs \notin FourStepQbs /\ \E k \in 0..7 : qbs \div 16^k # 0 /\ Nibble(qbs, k) \notin 1..4
       \/ entry = "mem" /\ (n \notin 1..4 \/ ntotal2 % 32 # 0)
=============================================================================
