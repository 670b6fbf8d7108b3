------------------------------ MODULE MCKVStore ------------------------------
(* Model values, sizes and bounds for KVStore. *)
EXTENDS KVStore, TLC

CONSTANTS v1, v2

\* each key and value costs one byte, the sentinel key and Nil none
OneByte(k) == IF k = 0 THEN 0 ELSE 1
ValByte(v) == IF v = Nil THEN 0 ELSE 1
\* Go's map iteration order is unspecified: any order of the freed pages
AnyOrder(S) == SetToSeqs(S)
\* one fixed order, for runs that are not about the order
Ascending(S) == {SetToSortSeq(S, <)}
=============================================================================
