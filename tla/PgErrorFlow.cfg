\* A backend error on its way to the client through PgError, fmt.Errorf
\* wrappers and the RPC boundary: diagnostics, identities and texts.
CONSTANTS
    NilDiag = NilDiag
    Panic = Panic
    Diagnostics <- MCDiagnostics
    MaxWraps = 3
SPECIFICATION Spec
INVARIANT TypeOK
INVARIANT DiagnosticReachesClient
INVARIANT ExtractedByIdentity
INVARIANT RenderingAgrees
