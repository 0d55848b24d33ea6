\* Round trip of Row.ToProto / RowFromProto, and the decoder's behaviour on
\* every small query.Row a peer may send.
CONSTANTS
    Bytes <- MCBytes
    ZeroByte = 0
    NULL = NULL
    WIRE = WIRE
    MaxCols = 3
    MaxLen = 2
    WireLengths <- MCWireLengths
    MaxWireBytes = 2
    CapSlack = 1
SPECIFICATION Spec

INVARIANT OverrunNeverReturned
\* A RowFromProto call returns or panics: both end the behaviour.
CHECK_DEADLOCK FALSE
