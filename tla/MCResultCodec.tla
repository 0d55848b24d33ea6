---------------------------- MODULE MCResultCodec ----------------------------
(* Rows: nil, no columns, NULL beside an empty value, a byte beside NULL.  *)
(* Notices: nil, a WARNING with every field set (Table and Column apart),  *)
(* and a NOTICE with only the required fields.                           *)
EXTENDS ResultCodec

MCRows == {NilRow, <<>>, <<NULL, <<>>>>, <<<<1>>, NULL>>}

Blank ==
    [f \in DiagFields |->
        IF f \in {"MessageType", "Position", "InternalPosition"} THEN 0
        ELSE IF f = "Code" THEN <<>> ELSE ""]

Warning ==
    [Blank EXCEPT !.MessageType = MsgNoticeResponse, !.Severity = "WARNING",
                  !.Code = <<"0", "1", "0", "0", "0">>,
                  !.Message = "there is no transaction in progress",
                  !.Detail = "d", !.Hint = "h", !.Position = 3,
                  !.InternalPosition = 1, !.InternalQuery = "q", !.Where = "w",
                  !.Schema = "public", !.Table = "users", !.Column = "id",
                  !.DataType = "integer", !.Constraint = "users_pkey"]

Notice ==
    [Blank EXCEPT !.MessageType = MsgNoticeResponse, !.Severity = "NOTICE",
                  !.Code = <<"0", "0", "0", "0", "0">>,
                  !.Message = "relation already exists, skipping"]

MCNotices == {NilDiag, Warning, Notice}


=============================================================================
