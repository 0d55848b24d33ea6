----------------------------- MODULE PgErrorFlow -----------------------------
(***************************************************************************)
(* The path of a backend error to the client, as the package documentation *)
(* of sqltypes draws it:                                                   *)
(*                                                                         *)
(*   ErrorResponse -> *PgDiagnostic -> mterrors.PgError (pooler)           *)
(*     -> gRPC RPCError.pg_diagnostic -> PgError rebuilt (gateway)         *)
(*     -> writePgDiagnosticResponse (all 14 fields to the client)          *)
(*                                                                         *)
(* with any number of fmt.Errorf("...: %w", err) wrappers added on either  *)
(* side.  The error value is a tree of records: a PgError carries its      *)
(* diagnostic and an identity (errors.Is compares pointers); a wrapper     *)
(* carries the error it wraps.  PgError.Unwrap returns nil, so the chain   *)
(* errors.As walks ends at a PgError.  The RPC boundary and the client     *)
(* write are not in this repository: they are modelled from the spec (6): *)
(* the diagnostic a PgError carries crosses the boundary by                *)
(* PgDiagnosticToProto / PgDiagnosticFromProto, any other error as text.   *)
(***************************************************************************)
EXTENDS Integers, Sequences, PgErrorChain

CONSTANTS
    Diagnostics,  \* the diagnostics a backend may send
    MaxWraps      \* bound: fmt.Errorf wrappers around one error

ASSUME MaxWraps \in Nat

\* No PgError is held on this side of the RPC boundary.
NoOrigin == [kind |-> "none"]

-----------------------------------------------------------------------------
VARIABLES
    phase,   \* "idle", "pooler", "gateway" or "delivered"
    err,     \* the error value on its way to the client
    origin,  \* the PgError created on this side of the boundary, or NoOrigin
    raised,  \* the diagnostic the backend sent, NilDiag for another error
    how,     \* how it was returned: "PgError", "nilPgError", "PgDiagnostic"
             \* or "other"
    sent     \* what the client was last sent: a diagnostic or a generic
             \* ErrorResponse with the error's text

vars == <<phase, err, origin, raised, how, sent>>

Phases == {"idle", "pooler", "gateway", "delivered"}

\* The generic ErrorResponse the gateway writes for an error that carries
\* no diagnostic: its message is err.Error().
GenericResponse(text) == [kind |-> "generic", text |-> text]

TypeOK ==
    /\ phase \in Phases
    /\ raised \in Diagnostics \cup {NilDiag}
    /\ how \in {"PgError", "nilPgError", "PgDiagnostic", "other"}
    /\ Depth(err) <= MaxWraps
    /\ \/ sent \in Diagnostics
       \/ /\ DOMAIN sent = {"kind", "text"}
          /\ sent.kind = "generic"
          /\ sent.text \in Seq(STRING)

Init ==
    /\ phase = "idle"
    /\ err = OtherError
    /\ origin = NoOrigin
    /\ raised = NilDiag
    /\ how = "other"
    /\ sent = GenericResponse(<<"other error">>)

\* The pooler turns a backend ErrorResponse into NewPgError(diag); the
\* pointer it passes may be nil.
ReturnPgError ==
    /\ phase = "idle"
    /\ \E d \in Diagnostics \cup {NilDiag} :
         /\ err' = NewPgError(d, "pooler")
         /\ origin' = NewPgError(d, "pooler")
         /\ raised' = d
    /\ how' = "PgError"
    /\ phase' = "pooler"
    /\ UNCHANGED sent

\* The pooler returns a nil *PgError as an error: the interface is not nil.
ReturnNilPgError ==
    /\ phase = "idle"
    /\ err' = NilPgError
    /\ origin' = NilPgError
    /\ raised' = NilDiag
    /\ how' = "nilPgError"
    /\ phase' = "pooler"
    /\ UNCHANGED sent

\* The pooler returns the *PgDiagnostic itself as the error.
ReturnDiagnostic ==
    /\ phase = "idle"
    /\ \E d \in Diagnostics :
         /\ err' = DiagnosticAsError(d)
         /\ raised' = d
    /\ how' = "PgDiagnostic"
    /\ phase' = "pooler"
    /\ UNCHANGED <<origin, sent>>

\* The pooler fails for a reason of its own.
ReturnOther ==
    /\ phase = "idle"
    /\ err' = OtherError
    /\ raised' = NilDiag
    /\ how' = "other"
    /\ phase' = "pooler"
    /\ UNCHANGED <<origin, sent>>

\* A caller adds context: fmt.Errorf("...: %w", err).
AddContext ==
    /\ phase \in {"pooler", "gateway"}
    /\ Depth(err) < MaxWraps
    /\ err' = Wrapf(err)
    /\ UNCHANGED <<phase, origin, raised, how, sent>>

\* The RPC boundary, the error holding a PgError with a diagnostic:
\* RPCError.pg_diagnostic = PgDiagnosticToProto(pgErr.Diagnostic()), and
\* the gateway rebuilds NewPgErrorFromDiagnostic(PgDiagnosticFromProto(..)).
CrossRPCWithDiagnostic ==
    /\ phase = "pooler"
    /\ Diagnostic(AsPgError(err).ptr) # NilDiag
    /\ LET rebuilt == NewPgError(PgDiagnosticFromProto(
                        PgDiagnosticToProto(Diagnostic(AsPgError(err).ptr))), "gateway")
       IN /\ err' = rebuilt
          /\ origin' = rebuilt
    /\ phase' = "gateway"
    /\ UNCHANGED <<raised, how, sent>>

\* The RPC boundary for any other error: only its text, err.Error(),
\* crosses.
CrossRPCAsText ==
    /\ phase = "pooler"
    /\ Diagnostic(AsPgError(err).ptr) = NilDiag
    /\ err' = TextError(ErrorString(err))
    /\ origin' = NoOrigin
    /\ phase' = "gateway"
    /\ UNCHANGED <<raised, how, sent>>

\* The gateway writes the error to the client: every field of the
\* diagnostic when AsPgError finds one, a generic ErrorResponse with the
\* error's text otherwise.
WriteToClient ==
    /\ phase = "gateway"
    /\ sent' = IF Diagnostic(AsPgError(err).ptr) # NilDiag
                 THEN Diagnostic(AsPgError(err).ptr)
                 ELSE GenericResponse(ErrorString(err))
    /\ phase' = "delivered"
    /\ UNCHANGED <<err, origin, raised, how>>

\* The client's next query.
NextQuery ==
    /\ phase = "delivered"
    /\ phase' = "idle"
    /\ err' = OtherError
    /\ origin' = NoOrigin
    /\ UNCHANGED <<raised, how, sent>>

Next ==
    \/ ReturnPgError \/ ReturnNilPgError \/ ReturnDiagnostic \/ ReturnOther
    \/ AddContext
    \/ CrossRPCWithDiagnostic \/ CrossRPCAsText
    \/ WriteToClient \/ NextQuery

Spec == Init /\ [][Next]_vars

-----------------------------------------------------------------------------
(***************************************************************************)
(* Properties.                                                             *)
(***************************************************************************)

\* A diagnostic the pooler returned as a PgError reaches the client field
\* for field (severity, SQLSTATE, message and the eleven optional fields,
\* the protocol message type included), however many fmt.Errorf wrappers
\* were added on either side of the RPC boundary: AsPgError must see
\* through them and the proto conversion must not lose or move a field.
DiagnosticReachesClient ==
    phase = "delivered" /\ how = "PgError" /\ raised # NilDiag => sent = raised

\* The PgError made on either side of the boundary stays extractable by
\* identity through any contextual wrapping (spec 4.1, 7): AsPgError
\* returns that very pointer, errors.Is finds it, and errors.Is does not
\* match another PgError with the same diagnostic (TestPgErrorErrorsIs).
ExtractedByIdentity ==
    phase \in {"pooler", "gateway"} /\ origin # NoOrigin /\ origin # NilPgError =>
        LET twin == NewPgError(origin.diag, "twin")
        IN /\ AsPgError(err).ptr = origin
           /\ ErrorsIs(err, origin)
           /\ ~ErrorsIs(err, twin)

\* Whatever PgError either side holds, nil receiver and nil diagnostic
\* included, its Error() and FullError() render exactly as the
\* *PgDiagnostic it carries would (sqltypes Error and FullError): the same
\* "SEVERITY: message", and "(SQLSTATE 00000)" when there is none (spec
\* 4.1), so logs agree whichever type the caller holds.
RenderingAgrees ==
    phase \in {"pooler", "gateway"} /\ IsPgError(err) =>
        LET p == AsPgError(err).ptr
        IN /\ Error(p) = ErrorText(Diagnostic(p))
           /\ FullError(p) = FullErrorText(Diagnostic(p))

=============================================================================
