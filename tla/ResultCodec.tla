----------------------------- MODULE ResultCodec -----------------------------
(***************************************************************************)
(* sqltypes.Result across the gRPC boundary: Result.ToProto in the pooler, *)
(* ResultFromProto in the gateway.  Both convert the rows (Row.ToProto,    *)
(* RowFromProto) and the notices (PgDiagnosticToProto/FromProto) element   *)
(* by element, into slices of the same length, and pass Fields,            *)
(* RowsAffected and CommandTag through.  A nil *Row or *PgDiagnostic in a  *)
(* slice converts to nil.  Between the two the QueryResult is marshalled  *)
(* and unmarshalled: a nil element of a repeated message field is written  *)
(* as an empty message and arrives as one, so it is not nil on the far     *)
(* side; an absent QueryResult stays absent.                               *)
(***************************************************************************)
EXTENDS RowEncoding, PgDiagnostic

CONSTANTS
    NilRow,        \* a nil *Row (and a nil *query.Row)
    NilResult,     \* a nil *Result (and a nil *query.QueryResult)
    Rows,          \* the rows a result may hold, NilRow included
    Notices,       \* the notices a result may hold, NilDiag included
    FieldLists,    \* the Fields a result may carry (passed by reference)
    Tags,          \* command tags
    MaxRows,       \* bound: rows of a result
    MaxNotices     \* bound: notices of a result

ASSUME Rows \subseteq Row \cup {NilRow} /\ NilDiag \in Notices

\* (*Row).ToProto: a nil row gives a nil query.Row.
RowPtrToProto(r) == IF r = NilRow THEN NilRow ELSE ToProto(r)

\* RowFromProto over lengths ls from offset off: -1 is NULL, 0 is an empty
\* value, any other length takes the next bytes.
RECURSIVE DecodeValues(_, _, _)
DecodeValues(ls, bytes, off) ==
    IF ls = <<>> THEN <<>>
    ELSE LET l == Head(ls) IN
         CASE l = -1 -> <<NULL>> \o DecodeValues(Tail(ls), bytes, off)
           [] l = 0  -> << <<>> >> \o DecodeValues(Tail(ls), bytes, off)
           [] OTHER  -> <<SubSeq(bytes, off + 1, off + l)>>
                          \o DecodeValues(Tail(ls), bytes, off + l)

\* RowFromProto: a nil query.Row gives a nil row.
RowPtrFromProto(pr) == IF pr = NilRow THEN NilRow ELSE DecodeValues(pr.lengths, pr.values, 0)

\* A conversion that leaves the nil rows out of the slice.
ResultToProtoSkipNilRows(r) ==
    IF r = NilResult THEN NilResult
    ELSE LET kept == SelectSeq(r.rows, LAMBDA x : x # NilRow) IN
         [fields |-> r.fields, rowsAffected |-> r.rowsAffected,
          rows |-> [k \in 1..Len(kept) |-> RowPtrToProto(kept[k])],
          commandTag |-> r.commandTag,
          notices |-> [k \in 1..Len(r.notices) |-> PgDiagnosticToProto(r.notices[k])]]

\* Result.ToProto
ResultToProto(r) ==
    IF r = NilResult THEN NilResult
    ELSE [fields |-> r.fields, rowsAffected |-> r.rowsAffected,
          rows |-> [k \in 1..Len(r.rows) |-> RowPtrToProto(r.rows[k])],
          commandTag |-> r.commandTag,
          notices |-> [k \in 1..Len(r.notices) |-> PgDiagnosticToProto(r.notices[k])]]

\* ResultFromProto
ResultFromProto(pr) ==
    IF pr = NilResult THEN NilResult
    ELSE [fields |-> pr.fields, rowsAffected |-> pr.rowsAffected,
          rows |-> [k \in 1..Len(pr.rows) |-> RowPtrFromProto(pr.rows[k])],
          commandTag |-> pr.commandTag,
          notices |-> [k \in 1..Len(pr.notices) |-> PgDiagnosticFromProto(pr.notices[k])]]

\* The results a query may return.
Results ==
    [fields : FieldLists, rowsAffected : 0..1, rows : BoundedSeq(Rows, MaxRows),
     commandTag : Tags, notices : BoundedSeq(Notices, MaxNotices)]

\* The empty query.Row and query.PgDiagnostic messages: every field at its
\* zero value.
EmptyProtoRow == [lengths |-> <<>>, values |-> <<>>]

EmptyProtoDiag ==
    [p \in ProtoFields |->
        IF p \in {"MessageType", "Position", "InternalPosition"} THEN 0
        ELSE IF p = "Code" THEN <<>> ELSE ""]

\* proto.Marshal then proto.Unmarshal of a QueryResult: nil elements of the
\* repeated rows and notices become empty messages.
Transmit(pr) ==
    IF pr = NilResult THEN NilResult
    ELSE [pr EXCEPT
            !.rows = [k \in DOMAIN @ |-> IF @[k] = NilRow THEN EmptyProtoRow ELSE @[k]],
            !.notices = [k \in DOMAIN @ |-> IF @[k] = NilDiag THEN EmptyProtoDiag ELSE @[k]]]

-----------------------------------------------------------------------------
VARIABLES
    phase,  \* "idle", "sent" (a QueryResult on the wire) or "received"
    res,    \* the Result the pooler returned, or NilResult
    msg,    \* the QueryResult on the wire
    got     \* the Result the gateway rebuilt

vars == <<phase, res, msg, got>>

Init ==
    /\ phase = "idle"
    /\ res = NilResult
    /\ msg = NilResult
    /\ got = NilResult

\* The pooler answers a query with a result (or nil) and converts it.
Send ==
    /\ phase = "idle"
    /\ \E r \in Results \cup {NilResult} :
         /\ res' = r
         /\ msg' = ResultToProto(r)
    /\ phase' = "sent"
    /\ UNCHANGED got

\* The gateway unmarshals the QueryResult and converts it.
Receive ==
    /\ phase = "sent"
    /\ got' = ResultFromProto(Transmit(msg))
    /\ phase' = "received"
    /\ UNCHANGED <<res, msg>>

\* The request is done; the next one starts afresh.
NextQuery ==
    /\ phase = "received"
    /\ phase' = "idle"
    /\ res' = NilResult
    /\ msg' = NilResult
    /\ got' = NilResult

Next == Send \/ Receive \/ NextQuery

Spec == Init /\ [][Next]_vars

-----------------------------------------------------------------------------
(***************************************************************************)
(* Properties.                                                             *)
(***************************************************************************)

\* The gateway rebuilds the Result the pooler returned, index for index:
\* as many rows and notices, each non-nil row value for value (NULL kept
\* apart from empty) and each non-nil notice field for field, in their
\* places, and the other fields unchanged.  A nil element is not claimed:
\* it crosses the wire as an empty message.
ResultRoundTrip ==
    phase = "received" =>
        \/ res = NilResult /\ got = NilResult
        \/ /\ res # NilResult /\ got # NilResult
           /\ got.fields = res.fields /\ got.rowsAffected = res.rowsAffected
           /\ got.commandTag = res.commandTag
           /\ Len(got.rows) = Len(res.rows) /\ Len(got.notices) = Len(res.notices)
           /\ \A k \in DOMAIN res.rows : res.rows[k] # NilRow => got.rows[k] = res.rows[k]
           /\ \A k \in DOMAIN res.notices :
                 res.notices[k] # NilDiag => got.notices[k] = res.notices[k]

=============================================================================
