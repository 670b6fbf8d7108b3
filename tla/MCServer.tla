------------------------------ MODULE MCServer ------------------------------
(* Server with two users, two keys, two values and two passwords.  The  *)
(* ACL lists of CREATE and MODACL requests are a few records that make   *)
(* shared rights, self-loops, cycles and dangling names among the        *)
(* indirects reachable.                                                  *)
EXTENDS Server, TLC

CONSTANTS u1, u2, k1, k2

NoAcl == [readers |-> {}, writers |-> {}, copyfroms |-> {}, copytos |-> {}, indirects |-> {}]

\* CREATE: no rights, all rights for u2, or rights only through indirects
MCAcls ==
    { NoAcl,
      [NoAcl EXCEPT !.readers = {u2}, !.writers = {u2}, !.copyfroms = {u2}, !.copytos = {u2}],
      [NoAcl EXCEPT !.indirects = {k1, k2}] }

Nil == [readers |-> None, writers |-> None, copyfroms |-> None, copytos |-> None, indirects |-> None]

\* MODACL: widen the writers, point at k1 and add a reader, or cut the
\* indirects and let u1 copy
MCMods ==
    { [Nil EXCEPT !.writers = {u1, u2}],
      [Nil EXCEPT !.readers = {u1}, !.indirects = {k1}],
      [Nil EXCEPT !.copyfroms = {u1}, !.copytos = {u1}, !.indirects = {}] }
\* one ACL for each request, for the runs about sessions and stores
MCAclsOne == {[NoAcl EXCEPT !.writers = {u1, u2}, !.indirects = {k1}]}
MCModsOne == {[Nil EXCEPT !.writers = {u2}]}
\* passwords and values are only compared for equality (bcrypt compare,
\* copies and writes), so renaming them maps behaviours to behaviours
MCSymmetry == Permutations(Pw) \cup Permutations(Vals)
=============================================================================
