\* Round trip of Result.ToProto / ResultFromProto over every small result.
CONSTANTS
    Bytes = {0, 1}
    NULL = NULL
    MaxCols = 2
    MaxLen = 1
    NilDiag = NilDiag
    NilRow = NilRow
    NilResult = NilResult
    Rows <- MCRows
    Notices <- MCNotices
    FieldLists = {F1}
    Tags = {"SELECT 1"}
    MaxRows = 2
    MaxNotices = 2
SPECIFICATION Spec
INVARIANT ResultRoundTrip
