---------------------------- MODULE MCDistancesRef ----------------------------
(* Inputs of the integer reference kernels.                                *)
EXTENDS DistancesRef

\* minhash <<dim, mh_lsh_band>> with band lengths r that are multiples of
\* 8: one band of 8 or 16 bytes, two bands of 8 bytes, three bands of 8.
MCAlignedShapes == { <<8, 1>>, <<16, 1>>, <<16, 2>>, <<24, 3>> }

\* Band lengths that are not: 4 bytes (16 / 4) and 12 bytes (24 / 2).
MCUnalignedShapes == { <<16, 4>>, <<24, 2>> }

\* rabitq <<d, nb>>: d = 10 has two bytes per plane and no 64-bit load;
\* d = 71 has nine, the first eight by one uint64_t load and the ninth by
\* the byte loop; one or two query planes.
MCRabitqShapes == { <<10, 1>>, <<10, 2>>, <<71, 1>>, <<71, 2>> }

\* pq4 fast scan: every n pq4_preferred_qbs maps below 24 (the 4-step
\* variants and the generic loop), and 25 (it throws).
MCNs == (0..23) \cup {25}

\* qbs set by a caller: 0x6 (4-step, one group of 6), 0x15 (generic loop,
\* a group of 5 it has no kernel for), 0x1234 (generic loop, groups of 4,
\* 3, 2, 1) and 0x303 (a zero digit below the top one).
MCUserQbs == { 6, 21, 4660, 771 }

\* Filters: none accepted, one id of the second block, one of the first.
MCSelSets == { {}, {40}, {0} }

\* Vector kernels: element values -1 and 2 (exact in float, fp16, bf16
\* and int8); the bf16 patch kernels' y also takes 257, which bf16_float
\* ((u32 + 0x8000) & 0xFFFF0000 on the float's bits) rounds to 258.
MCEVals == {-1, 2}
MCPVals == {-1, 257}
MCBf16Of == [v \in MCPVals |-> IF v = 257 THEN 258 ELSE v]
=============================================================================
