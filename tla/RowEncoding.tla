----------------------------- MODULE RowEncoding -----------------------------
(***************************************************************************)
(* sqltypes.Value and sqltypes.Row, and Row.ToProto: a row of nullable     *)
(* values becomes the pair (lengths, values) of query.Row, -1 for NULL and *)
(* len(v) otherwise, with the non-NULL values concatenated in order.       *)
(* MakeRow builds a Row from [][]byte.                                     *)
(***************************************************************************)
EXTENDS Integers, Sequences, SequencesExt

CONSTANTS
    Bytes,        \* the byte values a column may hold
    NULL,         \* a nil sqltypes.Value
    MaxCols,      \* bound: columns of a row
    MaxLen        \* bound: bytes of one value

ASSUME MaxCols \in Nat /\ MaxLen \in Nat

\* sqltypes.Value: nil is NULL, []byte{} is the empty string.
Value == {NULL} \cup BoundedSeq(Bytes, MaxLen)

\* sqltypes.Row: its Values.
Row == BoundedSeq(Value, MaxCols)

\* Value.IsNull
IsNull(v) == v = NULL

\* MakeRow treating an empty slice as nil.
MakeRowEmptyAsNull(values) ==
    [k \in DOMAIN values |-> IF values[k] = NULL \/ values[k] = <<>> THEN NULL
                             ELSE values[k]]

\* MakeRow([][]byte): a nil entry becomes a NULL Value, any other entry
\* (the empty slice included) the Value with its bytes.
MakeRow(values) ==
    [k \in DOMAIN values |-> IF values[k] = NULL THEN NULL ELSE values[k]]

\* The length Row.ToProto records for one value.
EncodedLength(v) == IF IsNull(v) THEN -1 ELSE Len(v)

\* Row.ToProto: the lengths, and the non-NULL values concatenated in order.
ToProto(r) ==
    [lengths |-> [k \in 1..Len(r) |-> EncodedLength(r[k])],
     values  |-> FlattenSeq(SelectSeq(r, LAMBDA v : ~IsNull(v)))]

=============================================================================
