--------------------------- MODULE MCMessageLines ---------------------------
(***************************************************************************)
(* Small instances of MessageLines: a buffer of a few bytes and everything a  *)
(* client may write up to some length.                                       *)
(***************************************************************************)
EXTENDS MessageLines

CONSTANT InputLength

Texts == UNION {[1..n -> Bytes] : n \in 0..InputLength}
=============================================================================
