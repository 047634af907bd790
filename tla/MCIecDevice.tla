---------------------------- MODULE MCIecDevice ----------------------------
(* Bytes of four bits; times in units of 40 us, the long ones cut short.     *)
(* The file is the shortest with a byte that is neither its first nor its    *)
(* last; read in pieces, its last byte is also the only one of a piece.      *)
EXTENDS IecDevice

OneName == {<<{0, 3}>>}
OneText == {<<{1, 2}, {0, 2}>>}
OneFile == {<<{0, 1}, {2, 3}, {0, 2}>>}
=============================================================================
