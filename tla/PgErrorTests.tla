----------------------------- MODULE PgErrorTests -----------------------------
(***************************************************************************)
(* The unit tests of mterrors.PgError, each an assertion on the operators  *)
(* of PgErrorChain over the diagnostics the tests build.  MCPgErrorTests   *)
(* runs them as go test does, so TLC checks the model against the          *)
(* repository's own tests.  A Go string "S: m" is the pair <<S, m>>; a     *)
(* SQLSTATE is the sequence of its characters.                             *)
(***************************************************************************)
EXTENDS PgErrorChain

\* A diagnostic with every field at its zero value.
Blank ==
    [f \in DiagFields |->
        IF f \in {"MessageType", "Position", "InternalPosition"} THEN 0
        ELSE IF f = "Code" THEN <<>> ELSE ""]

UndefinedTable ==
    [Blank EXCEPT !.MessageType = MsgErrorResponse, !.Severity = "ERROR",
                  !.Code = <<"4", "2", "P", "0", "1">>,
                  !.Message = "relation foo does not exist",
                  !.Detail = "Table not found", !.Hint = "Check the table name",
                  !.Position = 15, !.Schema = "public", !.Table = "foo"]

AuthFailed ==
    [Blank EXCEPT !.MessageType = MsgErrorResponse, !.Severity = "FATAL",
                  !.Code = <<"2", "8", "P", "0", "1">>,
                  !.Message = "password authentication failed"]

InvalidInput ==
    [Blank EXCEPT !.MessageType = MsgErrorResponse, !.Severity = "ERROR",
                  !.Code = <<"2", "2", "P", "0", "2">>,
                  !.Message = "invalid input syntax"]

RelationMissing ==
    [Blank EXCEPT !.MessageType = MsgErrorResponse, !.Severity = "ERROR",
                  !.Code = <<"4", "2", "P", "0", "1">>,
                  !.Message = "relation foo does not exist"]

TestErrorDiag ==
    [Blank EXCEPT !.MessageType = MsgErrorResponse, !.Severity = "ERROR",
                  !.Code = <<"4", "2", "0", "0", "0">>, !.Message = "test error"]

UniqueViolation ==
    [Blank EXCEPT !.MessageType = MsgErrorResponse, !.Severity = "ERROR",
                  !.Code = <<"2", "3", "5", "0", "5">>,
                  !.Message = "duplicate key value violates unique constraint",
                  !.Detail = "Key (id)=(1) already exists.",
                  !.Hint = "Use a different key value.", !.Position = 25,
                  !.InternalPosition = 10, !.InternalQuery = "SELECT internal_func()",
                  !.Where = "SQL function my_func statement 1", !.Schema = "public",
                  !.Table = "users", !.Column = "id", !.DataType = "integer",
                  !.Constraint = "users_pkey"]

Unknown == <<"ERROR", "unknown error">>
UnknownFull == <<"ERROR", "unknown error", <<"0", "0", "0", "0", "0">>>>
NotFound == [ptr |-> NilPgError, ok |-> FALSE]

TestNewPgError ==
    LET p == NewPgError(UndefinedTable, "p")
    IN /\ Error(p) = <<"ERROR", "relation foo does not exist">>
       /\ Diagnostic(p) = UndefinedTable

TestNewPgErrorFromDiagnostic ==
    LET p == NewPgError(AuthFailed, "p")
    IN /\ Error(p) = <<"FATAL", "password authentication failed">>
       /\ Diagnostic(p) = AuthFailed

TestPgErrorErrorCode == ErrorCode(NewPgError(InvalidInput, "p")) = "UNKNOWN"

TestPgErrorWithNilDiagnostic ==
    LET p == NewPgError(NilDiag, "p")
    IN Error(p) = Unknown /\ FullError(p) = UnknownFull /\ Diagnostic(p) = NilDiag

TestPgErrorNilReceiver ==
    /\ Error(NilPgError) = Unknown /\ FullError(NilPgError) = UnknownFull
    /\ Diagnostic(NilPgError) = NilDiag /\ ErrorCode(NilPgError) = "UNKNOWN"

TestPgErrorFullError ==
    LET p == NewPgError(RelationMissing, "p")
    IN /\ Error(p) = <<"ERROR", "relation foo does not exist">>
       /\ FullError(p) = <<"ERROR", "relation foo does not exist", <<"4", "2", "P", "0", "1">>>>

TestIsPgError ==
    LET p == NewPgError(TestErrorDiag, "p")
    IN /\ IsPgError(p) /\ IsPgError(Wrapf(p))
       /\ ~IsPgError(TextError(<<"not a pg error">>)) /\ ~IsPgError(NilError)

TestAsPgError ==
    LET p == NewPgError(TestErrorDiag, "p")
    IN /\ AsPgError(p) = [ptr |-> p, ok |-> TRUE]
       /\ AsPgError(Wrapf(p)) = [ptr |-> p, ok |-> TRUE]
       /\ AsPgError(TextError(<<"not a pg error">>)) = NotFound
       /\ AsPgError(NilError) = NotFound

TestPgErrorUnwrap ==
    LET p == NewPgError(RelationMissing, "p")
    IN \A e \in {p, Wrapf(p), Wrapf(Wrapf(p))} : ErrorsAs(e) = [ptr |-> p, ok |-> TRUE]

TestPgErrorErrorsIs ==
    LET p1 == NewPgError(RelationMissing, "p1")
        p2 == NewPgError(RelationMissing, "p2")
    IN /\ ErrorsIs(p1, p1) /\ ~ErrorsIs(p1, p2)
       /\ ErrorsIs(Wrapf(p1), p1) /\ ~ErrorsIs(Wrapf(p1), p2)

TestPgErrorAllFields == Diagnostic(NewPgError(UniqueViolation, "p")) = UniqueViolation

\* The tests by name, each mapped to whether its assertions hold.
Tests ==
    [TestNewPgError |-> TestNewPgError,
     TestNewPgErrorFromDiagnostic |-> TestNewPgErrorFromDiagnostic,
     TestPgErrorErrorCode |-> TestPgErrorErrorCode,
     TestPgErrorWithNilDiagnostic |-> TestPgErrorWithNilDiagnostic,
     TestPgErrorNilReceiver |-> TestPgErrorNilReceiver,
     TestPgErrorFullError |-> TestPgErrorFullError,
     TestIsPgError |-> TestIsPgError, TestAsPgError |-> TestAsPgError,
     TestPgErrorUnwrap |-> TestPgErrorUnwrap,
     TestPgErrorErrorsIs |-> TestPgErrorErrorsIs,
     TestPgErrorAllFields |-> TestPgErrorAllFields]

=============================================================================
