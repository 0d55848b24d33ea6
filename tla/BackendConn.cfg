\* BackendConn: its invariants, its liveness and its refinement of
\* ParamForwarding.  A rejected or FATAL-closed connection is final, as is
\* a server that has used up its bounded parameter changes and is idle: no deadlock check.
CONSTANTS
    Params <- MCParams
    Values = {"a", "b"}
    ServerVersion = "server_version"
    GatewayVersion = "gw"
    AuthCodes <- MCAuthCodes
    BodyLengths <- MCBodyLengths
    Nil = Nil
    MaxReports = 2
    MaxWire = 5
SPECIFICATION Spec
INVARIANTS
    ForwardedAtMostOnce
    NoLostUpdate
PROPERTIES
    ClientEventuallyInSync
    ParamForwardingRefined
CHECK_DEADLOCK FALSE
