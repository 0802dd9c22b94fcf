------------------------------ MODULE MmapLoad ------------------------------
(***************************************************************************)
(* An mmap-backed InvertedIndex (mmapped = true): Load with PrepareMmap,   *)
(* the calls a read-only instance refuses (Train, Add), and the            *)
(* destructor.  Everything runs on the caller's thread, so Load is one     *)
(* atomic step whose outcome is decided by which system call fails.        *)
(*                                                                         *)
(* The stream loaded is the output of Save of a heap-backed index built by *)
(* Add.  The backing file is tracked by three facts: its name exists in   *)
(* the filesystem (`named`), the descriptor map_fd_ is open (`fdOpen`),    *)
(* and map_ is nullptr, MAP_FAILED or a valid mapping (`map`).  The        *)
(* GrowableVectorView slices (outside src/) are modelled by their          *)
(* capacity, fixed by PrepareMmap, and their length.                       *)
(***************************************************************************)
EXTENDS Integers, Sequences, FiniteSets
LOCAL INSTANCE Functions

CONSTANTS Dims, Vals, Quantized, QMin, QMax, UseWand, BM25, BatchMax, Bm25P,
          DSize,     \* sizeof(DType)
          QSize,     \* sizeof(QType)
          ViewSize   \* sizeof(GrowableVectorView<...>)

VARIABLES
  ix,        \* the index members (as in SparseIndex)
  caps,      \* column -> capacity of its id / value slices
  stream,    \* the MemoryIOReader content (fields, as written by Save)
  named,     \* supplement_target_filename exists in the filesystem
  fdOpen,    \* map_fd_ != -1
  map,       \* "null" | "failed" (MAP_FAILED) | "valid"
  status,    \* "none" before Load, then its Status or "exception"
  fault,     \* the disk step that failed ("none" if none did)
  alive,     \* the instance has not been destroyed
  badUnmap   \* munmap was called on MAP_FAILED

vars == << ix, caps, stream, named, fdOpen, map, status, fault, alive, badUnmap >>

SI == INSTANCE SparseIndex WITH index <- ix, buffer <- stream, MaxRows <- BatchMax

-----------------------------------------------------------------------------
(* The stream as rows (field positions as in Load's loop).                 *)

NRows(s) == SI!Abs(s[1])

StreamRows(s) ==
  LET P[i \in 0..NRows(s)] ==
        IF i = 0 THEN 4 ELSE P[i-1] + 1 + 2 * s[P[i-1]]
  IN [ i \in 1..NRows(s) |-> SI!RowAt(s, P[i-1]) ]

\* Pass 1: idx_counts counts every stored entry of its idx, zero values
\* included (the value is skipped unread).
IdxCountsSkipLast(s) ==   \* seeded fault: the last row not counted
  LET rs   == StreamRows(s)
      occ  == { <<i, j>> \in (1..Len(rs) - 1) \X (1..Cardinality(Dims)) : j \in DOMAIN rs[i] }
      keys == { rs[o[1]][o[2]][1] : o \in occ }
  IN [ d \in keys |-> Cardinality({ o \in occ : rs[o[1]][o[2]][1] = d }) ]

IdxCounts(s) ==
  LET rs   == StreamRows(s)
      occ  == { <<i, j>> \in (DOMAIN rs) \X (1..Cardinality(Dims)) : j \in DOMAIN rs[i] }
      keys == { rs[o[1]][o[2]][1] : o \in occ }
  IN [ d \in keys |-> Cardinality({ o \in occ : rs[o[1]][o[2]][1] = d }) ]

\* nnz = (reader.remaining() - rows * sizeof(size_t)) / element_size(),
\* with the reader at the first row and ending with the last one.
Nnz(s) ==
  LET rs == StreamRows(s)
      B[i \in 0..Len(rs)] ==
        IF i = 0 THEN 0 ELSE B[i-1] + 8 + (4 + DSize) * Len(rs[i])
  IN (B[Len(rs)] - Len(rs) * 8) \div (4 + DSize)

\* map_byte_size_: the column headers, both posting slices, and the WAND
\* and BM25 arrays.
MapByteSize(s) ==
  LET ncols == Cardinality(DOMAIN IdxCounts(s))
  IN 2 * ncols * ViewSize + Nnz(s) * (4 + QSize)
     + (IF UseWand THEN ncols * 4 ELSE 0)
     + (IF BM25 THEN NRows(s) * 4 ELSE 0)

-----------------------------------------------------------------------------
(* Pass 2 over the mapped region.                                          *)

\* The layout loops walk idx_counts in its (unspecified) iteration order:
\* column j gets the j-th key, its slices get that key's count.
\* Seeded fault: next_dim_id_ left at 0 ("should never be used").
LayoutNoNextDim(counts, order) ==
  [ ix   |-> [ SI!EmptyIndex EXCEPT
                 !.dim_map_ = [ d \in DOMAIN counts |-> order[d] - 1 ],
                 !.inverted_index_ids_  = [ j \in 1..Cardinality(DOMAIN counts) |-> << >> ],
                 !.inverted_index_vals_ = [ j \in 1..Cardinality(DOMAIN counts) |-> << >> ],
                 !.max_score_in_dim_ =
                     IF UseWand THEN [ j \in 1..Cardinality(DOMAIN counts) |-> SI!Frac(0) ] ELSE << >> ],
    caps |-> [ j \in 1..Cardinality(DOMAIN counts) |->
                 counts[CHOOSE d \in DOMAIN counts : order[d] = j] ] ]

Layout(counts, order) ==
  [ ix   |-> [ SI!EmptyIndex EXCEPT
                 !.dim_map_ = [ d \in DOMAIN counts |-> order[d] - 1 ],
                 !.inverted_index_ids_  = [ j \in 1..Cardinality(DOMAIN counts) |-> << >> ],
                 !.inverted_index_vals_ = [ j \in 1..Cardinality(DOMAIN counts) |-> << >> ],
                 !.max_score_in_dim_ =
                     IF UseWand THEN [ j \in 1..Cardinality(DOMAIN counts) |-> SI!Frac(0) ] ELSE << >>,
                 !.next_dim_id_ = Cardinality(DOMAIN counts) ],
    caps |-> [ j \in 1..Cardinality(DOMAIN counts) |->
                 counts[CHOOSE d \in DOMAIN counts : order[d] = j] ] ]

\* add_row_to_index with mmapped = true: an idx outside dim_map_ throws.
Unseen(x, s) ==
  LET rs == StreamRows(s)
  IN UNION { { rs[i][j][1] : j \in { j \in DOMAIN rs[i] : rs[i][j][2] # 0 } } : i \in DOMAIN rs }
       \ DOMAIN x.dim_map_

\* Load's row loop after PrepareMmap, then n_rows_internal_.
PopulateShifted(x, s) ==   \* seeded fault: row i gets id i
  LET rs == StreamRows(s)
      Step[i \in 0..Len(rs)] ==
        IF i = 0 THEN x ELSE SI!AddRowToIndex(Step[i-1], rs[i], i)
  IN [ Step[Len(rs)] EXCEPT !.n_rows_internal_ = Len(rs) ]

Populate(x, s) ==
  LET rs == StreamRows(s)
      Step[i \in 0..Len(rs)] ==
        IF i = 0 THEN x ELSE SI!AddRowToIndex(Step[i-1], rs[i], i - 1)
  IN [ Step[Len(rs)] EXCEPT !.n_rows_internal_ = Len(rs) ]

-----------------------------------------------------------------------------
(* The instance.                                                           *)

\* Indexes a Save may come from: a fresh one, or one after one Add call.
Sources ==
  { SI!EmptyIndex } \cup
  { SI!AddRows(SI!EmptyIndex, rows, SI!BatchDim(rows)) : rows \in SI!Batches }

Init ==
  /\ ix = SI!EmptyIndex
  /\ caps = << >>
  /\ stream \in { SI!SaveStream(x) : x \in Sources }
  /\ named = FALSE
  /\ fdOpen = FALSE
  /\ map = "null"
  /\ status = "none"
  /\ fault = "none"
  /\ alive = TRUE
  /\ badUnmap = FALSE

\* The disk steps of PrepareMmap that can fail: creating the temp file,
\* resize_file (throws), open, mmap.  madvise failing only logs.
Faults == { "none", "create", "resize", "open", "mmap" }

\* Load: read the header, PrepareMmap, then the row loop.  A failing step
\* returns (or throws) at once, leaving what the earlier steps did.
Load ==
  /\ alive
  /\ status = "none"
  /\ LET s      == stream
         counts == IdxCounts(s)
         header == [SI!EmptyIndex EXCEPT !.max_dim_ = s[2]]
     IN \E f \in Faults :
          /\ fault' = f
          /\ \/ /\ f = "create"                    \* ofstream fails
                /\ status' = "disk_file_error"
                /\ ix' = header
                /\ UNCHANGED << caps, named, fdOpen, map >>
             \/ /\ f \in { "resize", "open" }      \* file created, kept
                /\ named' = TRUE
                /\ status' = IF f = "resize" THEN "exception" ELSE "disk_file_error"
                /\ ix' = header
                /\ UNCHANGED << caps, fdOpen, map >>
             \/ /\ f \in { "none", "mmap" }        \* opened and removed
                /\ named' = FALSE
                /\ fdOpen' = TRUE
                /\ IF f = "mmap" \/ MapByteSize(s) = 0   \* mmap of length 0 fails
                   THEN /\ map' = "failed"
                        /\ status' = "disk_file_error"
                        /\ ix' = header
                        /\ UNCHANGED caps
                   ELSE \E order \in Bijection(DOMAIN counts, 1..Cardinality(DOMAIN counts)) :
                          LET L  == Layout(counts, order)
                              x0 == [L.ix EXCEPT !.max_dim_ = s[2]]
                          IN /\ map' = "valid"
                             /\ caps' = L.caps
                             /\ IF Unseen(x0, s) # {}
                                THEN status' = "exception" /\ ix' = x0
                                ELSE status' = "success" /\ ix' = Populate(x0, s)
  /\ UNCHANGED << stream, alive, badUnmap >>

\* ~InvertedIndex: munmap if map_ != nullptr, close if map_fd_ != -1.
Destroy ==
  /\ alive
  /\ alive' = FALSE
  /\ badUnmap' = (badUnmap \/ map = "failed")
  /\ map' = "null"
  /\ fdOpen' = FALSE
  /\ UNCHANGED << ix, caps, stream, named, status, fault >>

Next == Load \/ Destroy

Spec == Init /\ [][Next]_vars

-----------------------------------------------------------------------------
(* Properties.                                                             *)

TypeOK ==
  /\ map \in { "null", "failed", "valid" }
  /\ status \in { "none", "success", "disk_file_error", "exception" }
  /\ fault \in Faults
  /\ caps \in Seq(Nat)
  /\ ix.next_dim_id_ = SI!NCols(ix)
  /\ named \in BOOLEAN /\ fdOpen \in BOOLEAN /\ alive \in BOOLEAN

\* Pass 2 never outgrows the slices pass 1 sized: after a successful Load
\* every column's id and value slices hold at most their capacity, and the
\* columns are exactly the idx_counts keys, laid out by the same iteration
\* order the slice loops used.
CapacityRespected ==
  status = "success" =>
    /\ Len(caps) = SI!NCols(ix)
    /\ \A c \in 1..SI!NCols(ix) :
         /\ Len(ix.inverted_index_ids_[c]) <= caps[c]
         /\ Len(ix.inverted_index_vals_[c]) <= caps[c]

\* A successful mmap Load holds the same index as a heap Load of the same
\* stream: the same logical rows, row count and width, and the same WAND
\* bound for every dimension both have (the mmap layout may order columns
\* differently and keeps columns whose stored values are all zero).
MatchesHeapLoad ==
  status = "success" =>
    LET h == SI!LoadStream(SI!EmptyIndex, stream)
    IN /\ SI!Rows(ix) = SI!Rows(h)
       /\ ix.n_rows_internal_ = h.n_rows_internal_
       /\ ix.max_dim_ = h.max_dim_
       /\ UseWand =>
            \A d \in DOMAIN h.dim_map_ :
              ix.max_score_in_dim_[ix.dim_map_[d] + 1] = h.max_score_in_dim_[h.dim_map_[d] + 1]

\* The backing file never outlives the instance: once it is destroyed, no
\* file named supplement_target_filename is left behind, whichever step of
\* PrepareMmap failed.
NoLeakedBackingFile ==
  ~alive => ~named

\* The destructor never unmaps a mapping that does not exist ("a failed
\* instance must not attempt to unmap").
NoInvalidUnmap ==
  ~badUnmap

\* Load of a stream Save produced fails only when the disk does: a
\* disk_file_error always comes from a failing system call.
LoadFailsOnlyOnDiskFault ==
  status = "disk_file_error" => fault # "none"

=============================================================================
