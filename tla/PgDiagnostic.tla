---------------------------- MODULE PgDiagnostic ----------------------------
(***************************************************************************)
(* sqltypes.PgDiagnostic, the one type for a PostgreSQL ErrorResponse or   *)
(* NoticeResponse, with its predicates, its lenient Validate and its       *)
(* conversion to and from query.PgDiagnostic (the gRPC form).              *)
(*                                                                         *)
(* A diagnostic is a record with the 15 fields of the Go struct; a nil     *)
(* *PgDiagnostic is NilDiag.  Text fields are opaque strings, except Code, *)
(* which is a sequence of characters because SQLSTATEClass takes its first *)
(* two.  MessageType is the protocol byte as a number.                     *)
(***************************************************************************)
EXTENDS Integers, Sequences, TLC

CONSTANT NilDiag   \* a nil *PgDiagnostic (and a nil *query.PgDiagnostic)

MsgErrorResponse  == 69   \* 'E'
MsgNoticeResponse == 78   \* 'N'

\* The fields of sqltypes.PgDiagnostic.
DiagFields == {"MessageType", "Severity", "Code", "Message", "Detail", "Hint",
               "Position", "InternalPosition", "InternalQuery", "Where",
               "Schema", "Table", "Column", "DataType", "Constraint"}

\* PgDiagnosticToProto / PgDiagnosticFromProto: the query.PgDiagnostic field
\* that carries each field; the five object names are renamed on the wire.
ProtoField ==
    ("Schema" :> "SchemaName" @@ "Table" :> "TableName" @@
     "Column" :> "ColumnName" @@ "DataType" :> "DataTypeName" @@
     "Constraint" :> "ConstraintName") @@ [f \in DiagFields |-> f]

ProtoFields == {ProtoField[f] : f \in DiagFields}

\* IsError / IsNotice: the protocol message type, not the severity.
IsError(d)  == d.MessageType = MsgErrorResponse
IsNotice(d) == d.MessageType = MsgNoticeResponse

\* SQLSTATEClass: the first two characters of Code, "" when shorter.
SQLSTATEClass(d) == IF Len(d.Code) < 2 THEN <<>> ELSE SubSeq(d.Code, 1, 2)

\* IsClass(class)
IsClass(d, class) == SQLSTATEClass(d) = class

\* IsFatal: FATAL and PANIC end the session; ERROR does not.
IsFatal(d) == d.Severity \in {"FATAL", "PANIC"}

\* Error(): "SEVERITY: message"; a nil diagnostic renders as
\* "ERROR: unknown error".  A rendering is kept as its parts.
ErrorText(d) ==
    IF d = NilDiag THEN <<"ERROR", "unknown error">>
    ELSE <<d.Severity, d.Message>>

\* FullError(): "SEVERITY: message (SQLSTATE code)"; nil gives code 00000.
FullErrorText(d) ==
    IF d = NilDiag THEN <<"ERROR", "unknown error", <<"0", "0", "0", "0", "0">>>>
    ELSE <<d.Severity, d.Message, d.Code>>

\* Validate: the list of problems found, empty when there are none.
Validate(d) ==
    IF d = NilDiag THEN <<"diagnostic is nil">>
    ELSE SelectSeq(
           << IF d.MessageType = 0 THEN "MessageType is unset"
              ELSE IF d.MessageType \notin {MsgErrorResponse, MsgNoticeResponse}
                   THEN "invalid MessageType" ELSE "",
              IF d.Severity = "" THEN "Severity is empty" ELSE "",
              IF d.Code = <<>> THEN "Code (SQLSTATE) is empty" ELSE "",
              IF d.Message = "" THEN "Message is empty" ELSE "" >>,
           LAMBDA issue : issue # "")

\* PgDiagnosticToProto: field for field; int32(d.MessageType) keeps the byte.
PgDiagnosticToProto(d) ==
    IF d = NilDiag THEN NilDiag
    ELSE [p \in ProtoFields |-> d[CHOOSE f \in DiagFields : ProtoField[f] = p]]

\* A conversion that carries Table in ColumnName and Column in TableName.
PgDiagnosticFromProtoSwapped(pd) ==
    IF pd = NilDiag THEN NilDiag
    ELSE [f \in DiagFields |->
            CASE f = "Table"       -> pd["ColumnName"]
              [] f = "Column"      -> pd["TableName"]
              [] f = "MessageType" -> pd["MessageType"] % 256
              [] OTHER             -> pd[ProtoField[f]]]

\* PgDiagnosticFromProto: field for field; byte(pd.MessageType) keeps the
\* low eight bits of the int32.
PgDiagnosticFromProto(pd) ==
    IF pd = NilDiag THEN NilDiag
    ELSE [f \in DiagFields |->
            IF f = "MessageType" THEN pd["MessageType"] % 256
            ELSE pd[ProtoField[f]]]

=============================================================================
