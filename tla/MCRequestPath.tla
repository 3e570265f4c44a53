--------------------------- MODULE MCRequestPath ---------------------------
(* A small instance of RequestPath for TLC: two metadata keys, so that one *)
(* can be a header and the other a trailer, and chunks and frames that do  *)
(* and do not end with a quantum of base64.                                *)
EXTENDS RequestPath

CONSTANTS m1, m2

MetaKeys == {m1, m2}
=============================================================================
