------------------------------ MODULE RowStore ------------------------------
(***************************************************************************)
(* What the inverted index promises about its content: a sequence of       *)
(* logical rows, one per document id in ingestion order, each a function   *)
(* from raw dimension id to the value retained for it (zero entries are    *)
(* not retained, the others are quantized).  Add appends rows and never   *)
(* changes the rows already stored.                                        *)
(***************************************************************************)
EXTENDS Integers, Sequences, FiniteSets

CONSTANTS Dims, Vals, MaxRows, BatchMax
CONSTANT Quant(_)   \* the quantizer applied to a retained value

VARIABLE rows

\* The logical content of one SparseRow <<idx, val>>... .
Logical(row) ==
  LET kept == { j \in DOMAIN row : row[j][2] # 0 }
  IN [ d \in { row[j][1] : j \in kept } |->
         Quant(row[CHOOSE j \in kept : row[j][1] = d][2]) ]

InRows ==
  { r \in UNION { [1..n -> Dims \X Vals] : n \in 0..Cardinality(Dims) } :
      \A i, j \in DOMAIN r : i # j => r[i][1] # r[j][1] }

\* Every logical row some SparseRow can produce.
LogicalRows == { Logical(r) : r \in InRows }

Init == rows = << >>

\* Add: n new logical rows get the next document ids; the rows already
\* stored are unchanged.
AddBatch(n) ==
  /\ Len(rows) + n <= MaxRows
  /\ Len(rows') = Len(rows) + n
  /\ SubSeq(rows', 1, Len(rows)) = rows
  /\ \A i \in Len(rows) + 1 .. Len(rows') : rows'[i] \in LogicalRows

Next == \E n \in 1..BatchMax : AddBatch(n)

Spec == Init /\ [][Next]_rows

=============================================================================
