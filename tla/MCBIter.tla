------------------------------- MODULE MCBIter -------------------------------
(* Model values and sizes for BIter: those of MCBTree. *)
EXTENDS BIter, MCBTree

(* The iterator in the view: its positions, and each node of its path  *)
(* by its type and keys.  While an iterator is in use the tree does not *)
(* change, and within one tree no two nodes at one depth hold the same *)
(* keys, so this names the nodes of the path without their page numbers. *)
PathKeys == [i \in DOMAIN path |-> << path[i].type, [j \in DOMAIN path[i].kvs |-> path[i].kvs[j].key] >>]
IterView == << TreeView, live, PathKeys, pos, seen >>
=============================================================================
