------------------------------- MODULE MCBTree -------------------------------
(* Model values, sizes and bounds for BTreeSpec. *)
EXTENDS BTreeSpec

CONSTANTS v1, v2

\* each key and each value costs one byte; the sentinel and Nil none
OneByte(k) == IF k = 0 THEN 0 ELSE 1
ValByte(v) == IF v = Nil THEN 0 ELSE 1
=============================================================================
