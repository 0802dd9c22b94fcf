# TLA+ models of the knowhere sparse inverted index

This directory models `src/src/index/sparse/sparse_inverted_index.h`, the
`InvertedIndex<DType, QType, use_wand, bm25, mmapped>` class, the range-search
post-processing of `src/src/common/range_util.cc`, the reference
kernels of `src/src/simd/distances_ref.cc`, DiskANN's distance selection
(`src/thirdparty/DiskANN/src/distance.cpp`) with faiss's metric kinds
(`MetricType.h`), and the query-blocking loops of
the vendored faiss 4-bit PQ fast scan
(`src/thirdparty/faiss/faiss/impl/pq4_fast_scan_search_qbs.cpp`). The models are
written from the C++ source. Line numbers below refer to that file unless a
different file is named.

## The system

| Part | Code | What it does |
|---|---|---|
| Dimension map and posting lists | `dim_map_`, `inverted_index_ids_/vals_`, `add_row_to_index` 744-782 | Maps a raw dimension id to a column. A column holds ascending doc ids and quantized values. Zero values are skipped. |
| Quantizer | `get_quant_val` 784-798 | Saturating cast from DType to QType. |
| WAND bound | `max_score_in_dim_`, 771-777 | Running maximum of each column's unquantized values. Search uses it as an upper bound. |
| BM25 block | `SetBM25Params` 107-110, `BM25Params` 819-834, `row_sums` | Per-document sum of raw values; the WAND bound of an entry is `max_score_ratio` times the BM25 score computed with the build-time k1, b, avgdl and the partial row sum. |
| Computer selection | `GetDocValueComputer` 112-149 | Picks the scoring function of a Search from its config: IP, or BM25 with a required avgdl; with WAND a k1 or b differing from the build values is refused. |
| GetAllDistances | 436-457 | Brute-force scores of every document, with filtered documents set to 0. |
| Range post-processing | `range_util.cc` 25-157 | Filters each query's range results, concatenates them with `lims` offsets, and keeps each query's top k with a `std::priority_queue`. |
| Reference kernels | `distances_ref.cc` 572-649 | `minhash_lsh_hit_ref` (band-wise byte comparison, 8 bytes at a time) and the two `u64` binary searches. |
| Vector kernels | `distances_ref.cc` 21-209, 460-537, 656-719 | The float reference kernels: IP, L2, L1, Linf, norm, the batch-of-4 forms, the `_ny` and transposed forms, `fvec_madd`, the masked int8 sum, the Jaccard distances; fp16/bf16/int8 copies of the same loops. |
| DiskANN distances | `distance.cpp` 5-133, `MetricType.h` 54-57 | `get_distance_function` picks L2 or negated IP per metric (COSINE uses negated IP over normalised data) and throws otherwise; faiss's `is_similarity_metric` says which metrics rank larger-is-better. |
| PQ4 fast scan (faiss) | `pq4_fast_scan_search_qbs.cpp` 36-375 | `pq4_preferred_qbs` packs a batch of n queries into groups of at most 4, one per hex digit of `qbs`; `pq4_accumulate_loop_qbs` scans the codes in blocks of 32 and runs `kernel_accumulate_block<NQ>` per group, through a compiled 4-step variant (with a filter skip) or a generic digit loop; `accumulate_to_mem` runs one group of 1..4. |
| Add / Train | 371-400 | Heap mode: rows get ids `n_rows_internal_ + i`. Mmap mode: both throw. |
| Save | 151-206 | Writes a header, then each row. Rows are rebuilt by one cursor per column, driven in lock-step. |
| Load (heap) | 207-246 | Reads the header, then passes every row through `add_row_to_index`. |
| Load (mmap) | 219-225, `PrepareMmap` 249-367 | Pass 1 counts entries per dimension. Then it creates, resizes, opens, unlinks and maps a temp file, lays out the column slices in it, and pass 2 fills them. |
| Destructor | 86-102 | munmap if `map_ != nullptr`, close if `map_fd_ != -1`. |
| Search | 402-434 | Fills the outputs, computes the threshold (`get_threshold` 522-533), then runs the WAND or brute-force engine. With a refine factor it also runs `refine_and_collect`. Finally `collect_result`. |
| WAND engine | `Cursor` 561-622, `search_wand` 640-710 | Document-at-a-time pruning by prefix upper bounds. |
| Brute-force engine | `compute_all_distances` 535-559, `search_brute_force` 627-637 | Scores every document. |
| GetRawDistance | 459-480 | Exact score of one document. |

How the parts interact:

- Add and Load fill the column store. Save reads it back out as rows.
- Search reads the column store and the WAND bounds, and writes only to its own heap.
- An mmap-backed instance owns a file and a mapping for its whole lifetime.
- With BM25 and WAND, the bounds Add builds depend on the BM25 parameters of
  construction, and a Search scores with the parameters of its own config.
- A range search's per-query results go through the three `range_util`
  functions in turn; the per-query filters may run in any order.

The index runs synchronously on the caller's thread; the class has no locks
and no threads. The hard behaviours are therefore:

- the order in which the WAND loop visits cursors, including the tie order of
  the unstable `std::sort`;
- the interplay of pruning, filtering and the refine pass;
- the two-pass mmap layout;
- which system call fails during an mmap Load, and what the destructor then
  does.

Out of scope:

- Not part of the index, and not modelled:
  - `MaxMinHeap`, `DocIdFilterByVector`, `BitsetView` and `GrowableVectorView` (all defined outside `src/`; the first three are modelled from their use and from the spec).
  - `GetDocValueBM25Computer` (defined outside `src/`; modelled from the standard BM25 formula) and `distance_in_range` (modelled from the range diagram in `range_util.cc`).
  - the index factory, the mocks, the tests and `thirdparty/` other than the PQ4 fast scan loops, DiskANN's `distance.cpp` and faiss's `MetricType.h`.
- See PROJECT.json `components` for the reason for each.

## Modules

| Module | Models | State | Actions |
|---|---|---|---|
| `SparseIndex` | a heap-backed instance | `index` (a record of the class members), `buffer` (the MemoryIO stream as a sequence of POD fields) | `Add(rows)`, `Save`, `Load` |
| `RowStore` | abstract spec: what the index stores | `rows`: one logical row per doc id | `AddBatch(n)` |
| `Persistence` | Save on one instance, Load into a fresh one; both are `Bm25Wand` instances | `src`, `dst`, `buffer`, history `saved` | `SrcAdd`, `SrcSave`, `DstLoad` |
| `SparseSearch` | one Search call on a WAND index; brute force as operators | Search arguments, heap, filter, cursors, pass, `pc` | `WandBegin`, `WandBreak`, `WandScore`, `WandSkip`, `RefineBegin`, `Collect` |
| `MmapLoad` | an mmap-backed instance | index, slice capacities, stream, `named`/`fdOpen`/`map`, `status`, `fault` | `Load` (one step; the outcome depends on the failing step), `Destroy` |
| `Bm25Wand` | a BM25 WAND index and the computers Search may obtain | `SparseIndex` state; constant `SearchCfgs` | those of `SparseIndex` |
| `RangeUtil` | range-search post-processing | arguments, per-query results, `lims`, flat arrays, loop indices, priority queue, output slots | `FilterOne(i)`, `Gather`, `RegenStep`, `RegenCollect` |
| `DistancesRef` | one call of one kernel of `distances_ref.cc`, of DiskANN's distance functor or of the PQ4 fast scan, composing the five below; `rabitq_dp_popcnt_ref` | `fn`, the state of each kernel (idle unless called), rabitq's `d`, `nb`, `x`, query planes and `dot` | those of the two below, `RabitqCall` |
| `BinarySearchRef` | `u64_binary_search_eq_ref` / `_ge_ref` | which function, `data`, `target`, `left`, `right`, `result` | `Step` (one loop iteration), `Return` |
| `MinhashRef` | `minhash_lsh_hit_ref` | band, `j`, offset, bytes that differ, `eq` | `BandBegin`, `LoopIteration`, `Tail`, `NoHit` |
| `ArgminRef` | the selection loops of `fvec_L2sqr_ny_nearest_ref`, `_y_transposed_ref` and `fvec_madd_and_argmin_ref` | kind, the compared values, `i`, the running minimum and index | `Step` (one iteration), `Return` |
| `VecKernelsRef` | one call of a vector kernel of `distances_ref.cc` or of a DiskANN distance functor; every kernel as an operator | `call` (function and arguments), `out`, `pc` | `SingleCall`, `BatchCall`, `NyCall`, `TransposedCall`, `MaddCall`, `MaskedSumCall`, `JaccardCall`, `DiskannCall` |
| `PQ4FastScan` | one `pq4_accumulate_loop_qbs` or `accumulate_to_mem` call; `pq4_preferred_qbs`, `pq4_qbs_to_nq` as operators | entry, `n`, `qbs`, `nsq`, `ntotal2`, the filter, `j0`, `qi`, `i0`, LUT and codes offsets, the kernel calls made, `pc` | `Dispatch`, `FourStepBlock`, `LoopBlockBegin`, `LoopNibble`, `LoopBlockEnd`, `Accumulate`, `BlockLoopStep`, `LoopsDone` |

Correspondence with the code:

- **Index state.** Column `c` of the code is element `c+1` of a TLA+ sequence.
- **Index operators.**
  - `AddEntry` is one iteration of the `add_row_to_index` loop; `OpenColumn` is its new-dimension branch.
  - `SaveRowStep` is one iteration of Save's row loop over the cursors.
  - `LoadStream` is heap-mode Load.
- **Search steps.**
  - `WandBegin` is the cursor setup and first sort.
  - `WandBreak`, `WandScore` and `WandSkip` are the three ways one iteration of the `while (true)` loop can go.
  - `RefineBegin` starts `refine_and_collect`'s exact pass.
  - `Collect` is `collect_result`.
- **Tie order.** `Sorts(cs)` is every sorted permutation, so an action picks any tie order of `std::sort`.
- **Mmap layout.** In `MmapLoad`, the unordered iteration order of `idx_counts` is a nondeterministic bijection `order`. The three layout loops use the same order, as they do in the code.
- **Mmap failure.** `Faults` names the step that fails:
  - creating the temp file;
  - `resize_file`, which throws;
  - `open`;
  - `mmap`.

  A zero-length `mmap` always fails (Linux returns EINVAL).

- **Scores.** Scores are exact fractions `[num, den]` (`Frac`, `FAdd`,
  `FScale`, `FLeq`), so the WAND bound comparisons are exact. A computer is a
  record `[bm25, k1, b, avgdl]`; `ComputeScore` applies it to a value and a
  row sum. `WandScoreOf` is the bound add_row_to_index folds in with `MaxOf`
  (the `std::max`).
- **GetAllDistances.** An operator in `SparseSearch`; a query with no entries
  makes `Init` start in `done`, the early return of Search.
- **Range utilities.** Distances and labels are one sequence of pairs. The
  priority queue is a set (labels are distinct) and `Top` is its
  `cmp`-greatest element.
- **minhash.** The bytes of `x` are zeros and `diff` is the set of byte
  positions where `y` differs; `BytesDiffer` is the 8-byte load comparison.
  `j` is an integer that may go negative, standing for the wrapped size_t, so
  `while (j > 0)` is `j # 0`. An 8-byte load past `dim` is undefined
  behaviour; the model stops there in `pc = "oob"`.
- **Argmin loops.** The floats the loops compare (the distances
  `fvec_L2sqr_ny_ref` writes, or `c[i] = a[i] + bf * b[i]`) are inputs: small
  ordered integers standing for floats, with 1e20 and HUGE_VALF (+inf) as the
  two largest, and a model value NaN for which `<` is false.
- **GetRawDistance.** It takes the computer: `val * computer(stored,
  row_sum)` per query entry, the row sum only with BM25. Search uses the
  original computer (IP).
- **DiskANN selection.** The generic template and the float/fp16/bf16
  specialisations are separate operators; `GetDistanceFunction` picks one by
  element type.
- **Vector kernels.** Element values are small integers, so every float,
  double and int32 sum of the kernels is exact and the model's integer
  arithmetic is the code's. A loop is `Loop`, a fold over `0..n-1`; index
  `i` is sequence position `i+1`. The bf16 rounding of the `_patch` kernels
  is a constant function `Bf16Of` (the conversion is outside the repository);
  the model maps 257 to 258, a value bf16 cannot hold. The `_ny` kernels read
  `y` as `ny` rows of `d`; the transposed one reads `y[i + j*d_offset]` with
  the caller's `y_sqlen`. Jaccard's float division is a pair, and 0/0 is a
  model value NaN. A kernel's result is always a sequence in `out`; a DiskANN
  `get_distance_function` throw is `pc = "threw"`.
- **PQ4 fast scan.** Pointers are byte offsets from `LUT0` and `codes`. A
  `kernel_accumulate_block<NQ>` call is a record of its result origin
  (`i0`, `j0`), `NQ` and the two offsets it reads from; its SIMD arithmetic is
  not modelled. A 4-step block is one step (its kernels run back to back);
  the generic loop takes one step per digit. `pq4_preferred_qbs` returns the
  set of values the build can produce: at n = 24 it shifts an int by 32,
  undefined behaviour that x86 and AArch64 execute with the count masked
  (qbs = 0), and a wide shift would give 0x33333333. `res.adjust_id(0, jj)`
  is taken as `j0 + jj` (the result handlers are not in the repository).

Every mapped definition, and the source lines it stands for, is in PROJECT.json `map`.

## Runs

| Run (cfg) | Checks | Result |
|---|---|---|
| `MCPersistence.cfg` | `TypeOK`, `WandBoundValid`, `SearchScoresWithinBound`, `SaveLoadRoundTrip`, `SrcRefinesRowStore` | pass: 17,662 states |
| `MCSparseSearch.cfg` | `TypeOK`, `EngineEquivalence`, `TopKExact`, `AllDistancesExact` | pass: 558,898 states |
| `MCSearchTermination.cfg` | `Terminates` (with weak fairness) | pass: 6,771 states |
| `MCMmapLoad.cfg` | `TypeOK`, `CapacityRespected`, `MatchesHeapLoad` | pass: 6,276 states |
| `MCSearchFilterRefine.cfg` | `FilteredNeverReturned` | violation |
| `MCMmapLeak.cfg` | `NoLeakedBackingFile` | violation |
| `MCMmapUnmap.cfg` | `NoInvalidUnmap` | violation |
| `MCRangeUtil.cfg` | `TypeOK`, `RangeTopKCorrect` | pass: 154,624 states |
| `MCDistancesRef.cfg` | `ReturnsFirstMatch`, `HitIffEqualBand` (band lengths multiple of 8), `RabitqDotExact`, `QueriesHandled`, `FirstArgmin`, `KernelsExact`, `Terminates` (with weak fairness) | pass: 94,219 states |
| `MCBm25Drift.cfg` | `SearchScoresWithinBound` with search avgdl 3 or 4 | violation |
| `MCMinhashTail.cfg` | `HitIffEqualBand` with band lengths 4 and 12 | violation |
| `MCPq4Qbs.cfg` | `QueriesHandled` with n = 24 | violation |

What the passing runs show:

- **`SrcRefinesRowStore`** (`SparseIndex!RowStoreRefinement` of the saved index). Checked on a BM25 WAND index. Under every sequence of Add calls, and across its Save, the column store read as rows (`Rows`) implements `RowStore`:
  - rows are appended under consecutive ids;
  - earlier rows never change;
  - each stored row is the zero-dropped, quantized form of some possible input row. The abstract spec does not see the Add arguments, so it does not tie a row to its own input.
- **`WandBoundValid`.** In the ingested index and in the reloaded one, every stored value of a column, scored by the build-time computer, is at most the column's `max_score_in_dim_`. This is the soundness condition for WAND pruning. The run uses BM25, where the score of an entry depends on its row's full sum while the bound was taken at a partial sum; plain IP indexes are built by the search runs.
- **`SaveLoadRoundTrip`.** A fresh instance that loads a saved stream has the saved instance's:
  - row count;
  - width;
  - stored value of every document in every dimension (`GetRawDistance`
    with the original computer). The BM25 distances are not the same: see
    the row-sum drift below.
- **`EngineEquivalence`.** For every index of three documents, every positive query, k, bitset, drop ratio and refine factor, the WAND engine returns exactly the brute-force engine's labels and distances, under every tie order of the cursor sort.
- **`TopKExact`.** With nothing dropped, the result is the exact top k by `GetRawDistance`, best first.
- **`Terminates`.** Every Search reaches `done`. With k = 1 and three
  documents the heap fills after the first scored document, the pivot moves
  past the first cursor, and the seek-and-bubble branch (lines 697-707) runs,
  so the check covers a seek that fails to advance as well as a `next()`.
- **`CapacityRespected`.** A successful mmap Load never writes past the slices pass 1 sized.
- **`MatchesHeapLoad`.** A successful mmap Load holds the same logical rows and WAND bounds as a heap Load of the same stream.
- **`AllDistancesExact`.** `GetAllDistances` gives `GetRawDistance` for every unfiltered document and 0 for a filtered one.
- **`SearchScoresWithinBound`.** Every computer `GetDocValueComputer` accepts for a WAND Search, at the build-time avgdl, scores every stored entry of the ingested and of the reloaded index within its column bound; its k1/b check is what makes this hold.
- **`RangeTopKCorrect`.** After all three range utilities, each query's topk slots hold its best in-range results, best first, and the rest keep -1 / FLT_MAX, for IP and L2 and for every order in which the filters finish.
- **`ReturnsFirstMatch`.** Both binary searches return the leftmost equal (or not-less) position, or -1, on every sorted array of up to four elements with duplicates.
- **`RabitqDotExact`.** `rabitq_dp_popcnt_ref` returns the sum, over the set bits of `x`, of the query code `sum_j q_j[i] * 2^j`: the uint64_t loads and the byte loop cover each byte of a plane exactly once, and plane `j` is read at `j * di_8b`.
- **`QueriesHandled`.** A fast scan call that returns has run exactly one kernel row for every query 0..n-1 in every block the filter keeps, reading the block's codes at `j0 * nsq / 2` and the query's group of the LUT at `i0 * nsq * 16`. This holds for every n from 0 to 23 and for the caller-chosen qbs values 0x6 and 0x1234, through both the 4-step variants and the generic loop, with and without a filter. A call throws only on input it rejects: n = 25, the qbs values 0x15 and 0x303 (a digit with no kernel), or `accumulate_to_mem` with an unpadded `ntotal2` of 40.
- **`FirstArgmin`.** The nearest-vector kernels and `fvec_madd_and_argmin_ref` return the first position of the least non-NaN value below their initial minimum. When there is none they return their initial index: 0 for the nearest kernels (including every distance NaN or +inf, not only `ny == 0` as their comment says), and -1 for `fvec_madd_and_argmin_ref` (including every value at least 1e20).
- **`KernelsExact`.** Every vector kernel returns its reference definition
  (sum over `i` of the products, squared differences, absolute differences,
  the maximum; Jaccard as the pair of popcounts): each of the 4 batch
  accumulators reads its own `y`, the `_ny` kernels read row `p` at
  `p*d`, the transposed one reads column `p` with stride `d_offset` and adds
  the caller's `y_sqlen[p]`, the `_patch` kernels round only `y`, and the
  masked sum takes byte `i/8`, bit `i%8`, including the partial last byte.
  The functor DiskANN's `get_distance_function` selects, in the generic
  template (uint8, int8) and in each of the float, fp16 and bf16
  specialisations, returns the negated inner product for the metrics faiss's
  `is_similarity_metric` ranks as similarities and the squared L2 distance
  otherwise; `norm_l2sqr` is the squared norm; only an unsupported metric
  throws.
- **`Terminates`** (kernels). Every kernel call returns or throws.
- **`HitIffEqualBand`.** For band lengths that are multiples of 8, `minhash_lsh_hit_ref` reads only its input and returns 1.0 exactly when some band is equal.

Each violation run is a finding, described in PROJECT.json `findings`:

1. **Refine pass ignores the bitset.** If the thresholded pass returns no candidates, `refine_and_collect` builds an empty `DocIdFilterByVector`. `empty()` means "no filter", so the exact pass returns documents the caller's `BitsetView` filtered out.
2. **Temp file leaks.** If `resize_file` throws or `open` fails, the temp file is never removed.
3. **Destructor unmaps a failed mapping.** If `mmap` fails, `map_` is `MAP_FAILED`, not `nullptr`, and the destructor munmaps it.
4. **BM25 avgdl drift.** The WAND bounds use the avgdl of construction, and `GetDocValueComputer` checks k1 and b but not avgdl. With a larger search-time avgdl a one-entry document scores above its column bound, so WAND may prune a true top-k document.
5. **minhash unaligned bands.** When the band length is not a multiple of 8, `j -= 8` wraps the size_t `j`, the loop reads past the band and then past the input, and the "rest 8 element" switch is never reached with a non-zero `j`.
6. **pq4_preferred_qbs(24) blocks zero queries.** The function accepts n <= 24, but at n = 24 `nbit = 32` and `1 << nbit` shifts an int by its width. On x86 and AArch64 the count is masked to 0, so the mask is 0, qbs = 0, and the fast scan returns having computed none of the 24 queries.

Four more disagreements turned up while modelling. The project's run list
is kept to its main questions, so they are not runs, but the cfgs that show
them are kept here and each one gives a counterexample with
`tlc -config <cfg> <module>`:

- **Engines disagree on negative weights** (`MCSearchNegQuery.cfg`,
  `MCSparseSearch`, `EngineEquivalence`). `compute_all_distances` compares
  the signed query value with the threshold (line 541), so with drop ratio 0
  it ignores negative weights that WAND keeps.
- **Empty index fails to mmap-load** (`MCMmapEmpty.cfg`, `MCMmapLoad`,
  `LoadFailsOnlyOnDiskFault`). A saved index with no entries needs a map of
  size 0, so the mmap Load fails with `disk_file_error`.
- **GetAllDistances on an empty query** (`MCAllDistancesEmpty.cfg`,
  `MCSparseSearch`, `AllDistancesExact`) returns an empty vector, not one
  distance per document.
- **BM25 row sums drift across Save and Load** (`MCRowSumDrift.cfg`,
  `MCPersistence`, `Bm25RoundTrip`). Save writes the quantized values; Load
  passes them through `add_row_to_index`, which sums them into `row_sums`
  (line 750). A term frequency 3 stored as 2 gives a row sum 3 before and 2
  after, so the document's BM25 distances and WAND bounds change.

Each property of a passing run has a seeded fault: a plausible bug in the operator that models the code (see PROJECT.json `mutants`). The property fails when the fault is swapped in.

## Bounds and why they are enough

- **Dimensions.** Two dimensions, `{0, 1}`. One query or row entry per dimension is enough to produce all of these:
  - cursors that tie;
  - cursors that pass each other;
  - a pivot beyond the first cursor, which is what `WandSkip` needs.
- **Values.**
  - `-1` saturates to 0 under an unsigned QType (the search and mmap runs).
  - `0` is skipped.
  - `1` is stored exactly.
  - `3` saturates to 2, so the WAND bound exceeds the stored value.
- **Rows.** At most three rows, in batches of at most two, so Add is called more than once.
- **Search inputs.** Three documents, and k in {1, 2}, which covers both a full heap and a heap that is not full. Four bitsets. Drop ratio 0 or 0.5 with refine factor 2, so the refine pass runs.
- **Termination run.** Three documents, k = 1, no bitset, drop ratio 0 and the query weight 2 on both dimensions, because liveness checking is slower. k = 1 makes the heap full after the first scored document, so the threshold rises and the seek branch runs (with two documents or k = 2 it never does). The column bounds still differ, since the stored values do (1 and the saturated 3). The refine pass, whose loop is the same, runs in the engine run.
- **BM25.** k1 = 6/5, b = 3/4, avgdl 2, max_score_ratio 1; term frequencies
  {0, 1, 3} (0 skipped but counted in the row sum, 3 saturating to 2), up to three rows. Search configs vary the metric,
  each optional field, k1 in {build, 2} and b in {build, 1}. The drift run adds
  avgdl 3 and 4. The save/load run uses term frequencies {0, 1, 3}, as BM25
  requires non-negative ones; the search and mmap runs use plain IP, which
  also takes the negative value -1 (with a negative value the BM25
  denominator has no meaning). A ratio below 1 would only shrink the bounds.
- **Range utilities.** Two queries, up to two results each over distances
  {1, 2, 3} and distinct labels, topk in {1, 2}, one IP and one L2 range:
  queries with fewer, equal and more in-range results than topk, ties in
  distance, and results outside the range on both sides.
- **Binary search.** Sorted arrays of 0..4 elements over {0, 1, 2} and
  targets in that set: empty arrays, duplicates, targets absent, first and last.
- **rabitq.** d = 10 (two bytes per plane, no 64-bit load) and d = 71 (nine
  bytes: one 64-bit load and one leftover byte), one or two query planes, with
  bits possibly set at positions 0, 9, 63, 64 and 70: in the first and second
  byte, the last byte of the load and the leftover byte. A split that is off
  by a byte, or a plane read at the wrong offset, changes the sum for some
  choice of these bits.
- **minhash.** dim up to 24 with 1 to 4 bands and up to one differing byte:
  every band equal, a difference in any band, and the aligned and unaligned
  band lengths.
- **Argmin.** Up to three values from {0, 1, 1e20, +inf, NaN}: ties, NaN
  before, between and after numbers, and all values at or above the
  initial minimum.
- **Vector kernels.** Values `{-1, 2}` (and `{-1, 257}` for the bf16
  kernels, `{0, 2}` for uint8), d up to 2, ny up to 2, `d_offset` in
  `{ny, ny+1}` so a stride error shows; masked sums with d = 8 and 9 and bits
  at positions 0, 7 and 8 (first, last bit of a byte, and the partial byte);
  Jaccard with zero popcounts (0/0). DiskANN: metrics L2, INNER_PRODUCT,
  COSINE and an unsupported one, over the five vector types. A kernel is a
  loop with one accumulator per output, so larger d repeats the same step.
- **PQ4 fast scan.** n from 0 to 23 covers the fixed map (n <= 11), the
  3-digit packing of every remainder (12..23) and the 4-step and generic
  paths; 25 covers the throw. ntotal2 = 64 gives two blocks, so a skipped
  block can be followed by a kept one (filter `{40}`) and the generic loop
  must reset the LUT between blocks; `nsq` in {2, 4} separates the LUT and
  codes strides. The offsets are linear in `nsq`, so larger values add nothing.

## Fairness

Search is a sequential loop on the caller's thread, and nothing can preempt it for good. `Spec` in `SparseSearch` therefore has weak fairness on `Next`; `Terminates` is checked under that assumption. The binary searches are plain loops on one thread too, and `DistancesRef` (one kernel call, including a vector kernel, which returns in one step) has the same weak fairness. The other modules check safety only.

## Not modelled

- **`size()`.** Byte accounting over `sizeof` and `std::vector::capacity()`,
  whose growth the standard leaves to the library; nothing it returns feeds
  back into the index. `n_rows()` and `n_cols()` are modelled.
- **Float rounding of the vector kernels.** They are modelled over small
  integers, where float arithmetic is exact; rounding and summation order
  over large or fractional values are outside TLC's integers. The fp16,
  bf16 and int8 copies of each loop are the same loop over another element
  type and are stood for by the float one. The int8 kernels accumulate in
  int32, which stays in range for d up to 33,025; a wrap needs 2^31, beyond
  TLC's integers. The hash kernel calls external XXH3 code.
- **The SIMD arithmetic inside `kernel_accumulate_block`.** It adds 8-bit
  LUT entries in uint16 lanes; whether a distance can exceed 65535 depends
  on the LUT quantization, which callers outside the repository do.
- **The index factory, the mocks and the tests.** Glue and
  registration with no state of their own. `index_factory.h` is a registry
  filled at static initialisation (the spec places the global registries out
  of scope), and `io.h` declares interfaces only.
- **The BM25 float formula.** Modelled exactly over fractions, from the
  standard definition, because `GetDocValueBM25Computer` is outside `src/`.

Still open for later work: composing `MmapLoad` with `SparseSearch` (the
extra empty columns of the mmap layout under search), and `topk = 0` in
`ReGenRangeSearchResult` (a `pq.top()` on an empty queue).
