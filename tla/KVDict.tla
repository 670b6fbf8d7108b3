------------------------------- MODULE KVDict -------------------------------
(***************************************************************************)
(* What the key/value engine promises its callers (spec.md section 8):    *)
(* a map from keys to values where Insert(k, v) makes Read(k) return v,   *)
(* re-inserting a key only replaces its value, and Delete(k) makes Read(k) *)
(* report not found and returns whether k was present.  last is the call  *)
(* just completed and its result, so a step that changes another key than  *)
(* the one called, or returns the wrong result, is not a step of this     *)
(* specification.                                                          *)
(***************************************************************************)
CONSTANTS Keys, Vals, NoVal

VARIABLES dict, last

Calls == [op : {"none", "insert", "delete"}, key : Keys \cup {NoVal},
          val : Vals \cup {NoVal}, ok : BOOLEAN]

TypeOK == dict \in [Keys -> Vals \cup {NoVal}] /\ last \in Calls

Init == /\ dict = [k \in Keys |-> NoVal]
        /\ last = [op |-> "none", key |-> NoVal, val |-> NoVal, ok |-> FALSE]

Put(k, v) ==
    /\ dict' = [dict EXCEPT ![k] = v]
    /\ last' = [op |-> "insert", key |-> k, val |-> v, ok |-> TRUE]

Remove(k) ==
    /\ dict' = [dict EXCEPT ![k] = NoVal]
    /\ last' = [op |-> "delete", key |-> k, val |-> NoVal, ok |-> dict[k] # NoVal]

Next == \E k \in Keys : Remove(k) \/ \E v \in Vals : Put(k, v)

Spec == Init /\ [][Next]_<< dict, last >>
=============================================================================
