---------------------------- MODULE MCPgErrorFlow ----------------------------
(* The diagnostics of the PgError tests (PgErrorTests): an undefined-     *)
(* table ERROR with detail, hint, position, schema and table; a FATAL      *)
(* authentication error; the unique-violation ERROR with all fourteen      *)
(* fields set, Table and Column different; and a diagnostic whose message  *)
(* type was never set.                                                     *)
EXTENDS PgErrorFlow, PgErrorTests

Unset == [Blank EXCEPT !.Severity = "ERROR", !.Message = "test error"]

MCDiagnostics == {UndefinedTable, AuthFailed, UniqueViolation, Unset}
=============================================================================
