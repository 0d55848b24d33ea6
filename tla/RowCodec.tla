------------------------------ MODULE RowCodec ------------------------------
(***************************************************************************)
(* The NULL-safe row encoding of package sqltypes.                         *)
(*                                                                         *)
(* Row.ToProto turns a row of nullable values into the pair                *)
(* (lengths, values) of query.Row: -1 for NULL, len(v) otherwise, and the  *)
(* non-NULL values concatenated.  RowFromProto walks the lengths with an   *)
(* offset into the concatenation.  The encoder is an operator of module    *)
(* RowEncoding; the decoder is the loop of RowFromProto, one action per    *)
(* arm of its switch, so that its behaviour on a query.Row received from a *)
(* peer (any lengths, any bytes) is explored as well as its behaviour on   *)
(* what ToProto produced.                                                  *)
(*                                                                         *)
(* A Go slice expression a[lo:hi] panics unless 0 <= lo <= hi <= cap(a),   *)
(* and reads cap(a)-len(a) bytes past the end of the data when hi > len(a).*)
(* A bytes field unmarshalled by protobuf is built by append, so its       *)
(* capacity is rounded up to an allocation size class and the spare bytes  *)
(* are zeroed: cap is chosen in len..len+CapSlack, the spare bytes read as *)
(* ZeroByte.                                                               *)
(***************************************************************************)
EXTENDS RowEncoding

CONSTANTS
    ZeroByte,     \* the byte a freshly allocated buffer holds
    WIRE,         \* marks a query.Row that did not come from Row.ToProto
    WireLengths,  \* the int64 lengths a peer may declare in query.Row.lengths
    MaxWireBytes, \* bound: bytes of query.Row.values sent by a peer
    CapSlack      \* bound: spare capacity of an unmarshalled values buffer

ASSUME ZeroByte \in Bytes
ASSUME WireLengths \subseteq Int /\ CapSlack \in Nat

\* A query.Row as a peer may send it.
WireRow == [lengths : BoundedSeq(WireLengths, MaxCols),
            values  : BoundedSeq(Bytes, MaxWireBytes)]

-----------------------------------------------------------------------------
VARIABLES
    pr,      \* the query.Row being decoded
    cap,     \* cap(pr.Values)
    src,     \* the [][]byte MakeRow built the encoded row from, or WIRE
    i,       \* the loop index into pr.Lengths
    offset,  \* the loop's offset into pr.Values
    values,  \* the Values decoded so far
    status   \* "decoding", "done" (RowFromProto returned) or "panicked"

vars == <<pr, cap, src, i, offset, values, status>>

TypeOK ==
    /\ pr \in [lengths : Seq(Int), values : Seq(Bytes)]
    /\ cap \in Nat /\ cap >= Len(pr.values)
    /\ src \in Row \cup {WIRE}
    /\ i \in 1..Len(pr.lengths) + 1
    /\ offset \in 0..cap
    /\ values \in Seq({NULL} \cup Seq(Bytes))
    /\ status \in {"decoding", "done", "panicked"}

\* pr.Values[lo:hi] for 0 <= lo <= hi <= cap: bytes past len(pr.Values)
\* are the zeroed spare capacity of the buffer.
Slice(lo, hi) ==
    [k \in 1..hi - lo |-> IF lo + k <= Len(pr.values)
                            THEN pr.values[lo + k] ELSE ZeroByte]

\* The capacities protobuf can give a bytes field of n bytes: an empty
\* field stays nil, append of n > 0 bytes rounds the allocation up.
UnmarshalledCap(n) == IF n = 0 THEN {0} ELSE n..n + CapSlack

\* The input: either what Row.ToProto made of a row (its buffer has
\* exactly the capacity ToProto allocated), or any query.Row a peer sends.
Init ==
    /\ \/ \E vs \in Row :
            /\ pr = ToProto(MakeRow(vs))
            /\ cap = Len(ToProto(MakeRow(vs)).values)
            /\ src = vs
       \/ \E w \in WireRow :
            /\ pr = w
            /\ cap \in UnmarshalledCap(Len(w.values))
            /\ src = WIRE
    /\ i = 1
    /\ offset = 0
    /\ values = <<>>
    /\ status = "decoding"

\* The length the loop is at.
Length == pr.lengths[i]

Decoding == status = "decoding" /\ i <= Len(pr.lengths)

\* case -1: values[i] = nil
DecodeNull ==
    /\ Decoding
    /\ Length = -1
    /\ values' = Append(values, NULL)
    /\ i' = i + 1
    /\ UNCHANGED <<pr, cap, src, offset, status>>

\* A decoder that lets case 0 fall into the NULL arm, as a nil slice.
DecodeEmptyAsNil ==
    /\ Decoding
    /\ Length = 0
    /\ values' = Append(values, NULL)
    /\ i' = i + 1
    /\ UNCHANGED <<pr, cap, src, offset, status>>

\* case 0: values[i] = []byte{}, the empty string and not NULL
DecodeEmpty ==
    /\ Decoding
    /\ Length = 0
    /\ values' = Append(values, <<>>)
    /\ i' = i + 1
    /\ UNCHANGED <<pr, cap, src, offset, status>>

\* A bounds check that forgets the upper bound of the buffer.
SliceInBoundsNoCap == offset <= offset + Length

\* The bounds a[offset : offset+length] must satisfy not to panic.
SliceInBounds == offset <= offset + Length /\ offset + Length <= cap

\* default: values[i] = pr.Values[offset : offset+length]; offset += length
DecodeSlice ==
    /\ Decoding
    /\ Length \notin {-1, 0}
    /\ SliceInBounds
    /\ values' = Append(values, Slice(offset, offset + Length))
    /\ offset' = offset + Length
    /\ i' = i + 1
    /\ UNCHANGED <<pr, cap, src, status>>

\* default, out of bounds: the slice expression panics.
SlicePanic ==
    /\ Decoding
    /\ Length \notin {-1, 0}
    /\ ~SliceInBounds
    /\ status' = "panicked"
    /\ UNCHANGED <<pr, cap, src, i, offset, values>>

\* The loop ends: return &Row{Values: values}.
ReturnRow ==
    /\ status = "decoding"
    /\ i > Len(pr.lengths)
    /\ status' = "done"
    /\ UNCHANGED <<pr, cap, src, i, offset, values>>

Next == DecodeNull \/ DecodeEmpty \/ DecodeSlice \/ SlicePanic \/ ReturnRow

Spec == Init /\ [][Next]_vars

-----------------------------------------------------------------------------
(***************************************************************************)
(* Properties.                                                             *)
(***************************************************************************)

\* The bytes the lengths of a query.Row declare.
DeclaredBytes(ls) == FoldLeft(LAMBDA acc, l : acc + (IF l > 0 THEN l ELSE 0), 0, ls)

\* Round trip (ToProto, then RowFromProto): decoding what Row.ToProto made
\* of a row never panics, every value decoded so far is the value at that
\* column of the original row, NULL staying NULL and the empty string
\* staying empty, and the row returned is the original row.
EncodedRowsDecodeExactly ==
    src # WIRE =>
        /\ status # "panicked"
        /\ values = SubSeq(src, 1, Len(values))
        /\ status = "done" => values = src

\* RowFromProto on a query.Row whose lengths run past its bytes fails in a
\* way the caller can see, never by crashing the process (the spec, 4.2:
\* "must fail deterministically (signaled, not crashed)").
DecodeNeverPanics == status # "panicked"

\* RowFromProto returns a row only when the lengths it declares fit in the
\* bytes it carries: an overrun is never returned as data.
OverrunNeverReturned ==
    status = "done" => DeclaredBytes(pr.lengths) <= Len(pr.values)

=============================================================================
