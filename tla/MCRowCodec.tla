----------------------------- MODULE MCRowCodec -----------------------------
(* Bounds for RowCodec: rows of up to three columns, values of up to two    *)
(* bytes over a two-letter alphabet (so NULL, empty, and values of every   *)
(* length occur side by side), and peer-sent rows whose lengths include    *)
(* -1, 0, lengths that fit, lengths that overrun and a negative length     *)
(* other than -1.                                                          *)
EXTENDS RowCodec

MCBytes == {0, 1}
MCWireLengths == {-2, -1, 0, 1, 2, 3}
=============================================================================
