---------------------------- MODULE PgErrorChain ----------------------------
(***************************************************************************)
(* mterrors.PgError and the Go error values around it, as operators.       *)
(*                                                                         *)
(* An error value is a record.  A *PgError carries its diagnostic (which   *)
(* may be nil: NewPgError accepts a nil pointer) and an identity, because  *)
(* errors.Is compares pointers; a nil *PgError stored in an error          *)
(* interface (a "typed nil") is a value of its own, distinct from the nil  *)
(* interface; fmt.Errorf("...: %w", e) carries the error it wraps.  A      *)
(* method called on the nil interface panics: the result is then Panic.    *)
(* Text is kept as the sequence of its parts.                              *)
(***************************************************************************)
EXTENDS Integers, Sequences, PgDiagnostic

CONSTANT Panic   \* the outcome of a method call on the nil interface

\* The nil error interface.
NilError == [kind |-> "nil"]

\* An error that is not a PostgreSQL error (a dial failure, a timeout),
\* with the text Error() returns.
TextError(text) == [kind |-> "other", text |-> text]

OtherError == TextError(<<"other error">>)

\* A nil *PgError: AsPgError's result when nothing is found, and a value a
\* function declared to return *PgError can hand back as an error.
NilPgError == [kind |-> "nilPgError"]

\* NewPgError / NewPgErrorFromDiagnostic: a fresh *PgError; id stands for
\* its address.
NewPgError(d, id) == [kind |-> "PgError", diag |-> d, id |-> id]

\* A *PgDiagnostic returned as an error: it implements error itself.
DiagnosticAsError(d) == [kind |-> "PgDiagnostic", diag |-> d]

\* fmt.Errorf("...: %w", e)
Wrapf(e) == [kind |-> "wrapped", inner |-> e]

RECURSIVE Depth(_)
Depth(e) == IF e.kind = "wrapped" THEN 1 + Depth(e.inner) ELSE 0

\* An extraction that tests the error itself and never follows Unwrap.
AsPgErrorNoUnwrap(e) ==
    IF e.kind \in {"PgError", "nilPgError"} THEN [ptr |-> e, ok |-> TRUE]
    ELSE [ptr |-> NilPgError, ok |-> FALSE]

\* errors.As(err, &pgErr): false for the nil interface; otherwise test err,
\* whose dynamic type *PgError matches even when the pointer is nil, then
\* follow Unwrap.  A wrapper unwraps to its inner error; PgError.Unwrap
\* returns nil and a *PgDiagnostic has no Unwrap, so the walk ends there.
RECURSIVE ErrorsAs(_)
ErrorsAs(e) ==
    CASE e.kind \in {"PgError", "nilPgError"} -> [ptr |-> e, ok |-> TRUE]
      [] e.kind = "wrapped"                   -> ErrorsAs(e.inner)
      [] OTHER                                -> [ptr |-> NilPgError, ok |-> FALSE]

\* AsPgError: (pgErr, true) when errors.As finds one, (nil, false) else.
AsPgError(e) == ErrorsAs(e)

\* IsPgError
IsPgError(e) == AsPgError(e).ok

\* PgError.Diagnostic(): nil for a nil receiver, else the diagnostic.
Diagnostic(p) == IF p = NilPgError THEN NilDiag ELSE p.diag

ErrorCode(p) == "UNKNOWN"

\* PgError.Error(): "SEVERITY: message", "ERROR: unknown error" for a nil
\* receiver or a nil diagnostic.
Error(p) ==
    IF p = NilPgError \/ p.diag = NilDiag THEN <<"ERROR", "unknown error">>
    ELSE <<p.diag.Severity, p.diag.Message>>

\* PgError.FullError() reporting an empty SQLSTATE when there is no
\* diagnostic.
FullErrorEmptyCode(p) ==
    IF p = NilPgError \/ p.diag = NilDiag THEN <<"ERROR", "unknown error", <<>>>>
    ELSE <<p.diag.Severity, p.diag.Message, p.diag.Code>>

\* PgError.FullError(): Error() and " (SQLSTATE code)", code 00000 for a
\* nil receiver or a nil diagnostic.
FullError(p) ==
    IF p = NilPgError \/ p.diag = NilDiag
    THEN <<"ERROR", "unknown error", <<"0", "0", "0", "0", "0">>>>
    ELSE <<p.diag.Severity, p.diag.Message, p.diag.Code>>

\* err.Error() for any error value: a wrapper prefixes its context; a
\* method call on the nil interface panics.
RECURSIVE ErrorString(_)
ErrorString(e) ==
    CASE e.kind = "wrapped"                   -> <<"context">> \o ErrorString(e.inner)
      [] e.kind \in {"PgError", "nilPgError"} -> Error(e)
      [] e.kind = "PgDiagnostic"              -> ErrorText(e.diag)
      [] e.kind = "other"                     -> e.text
      [] OTHER                                -> Panic  \* nil interface

\* errors.Is as if PgError had an Is method that compared diagnostics.
ErrorsIsByContent(e, t) ==
    LET RECURSIVE Walk(_)
        Walk(x) == \/ x = t
                   \/ x.kind = "PgError" /\ t.kind = "PgError" /\ x.diag = t.diag
                   \/ x.kind = "wrapped" /\ Walk(x.inner)
    IN IF e = NilError \/ t = NilError THEN e = t ELSE Walk(e)

\* errors.Is(err, target): pointers compare by identity, PgError has no Is
\* method and is a leaf, a wrapper is followed to its inner error.
ErrorsIs(e, t) ==
    LET RECURSIVE Walk(_)
        Walk(x) == \/ x = t
                   \/ x.kind = "wrapped" /\ Walk(x.inner)
    IN IF e = NilError \/ t = NilError THEN e = t ELSE Walk(e)

=============================================================================
