-------------------------------- MODULE BIter --------------------------------
(***************************************************************************)
(* The range iterator of src/types/biter.go over the B-tree of BTreeSpec. *)
(* A BIter holds the path of nodes from the root to a leaf and the        *)
(* position taken at every level; Init, SeekLE, Next and Prev set them,   *)
(* Deref and Valid read them.  Nodes are values, as the byte slices the   *)
(* code keeps; kids are read through the tree's Get callback.             *)
(*                                                                         *)
(* The tree changes only while no iterator is in use: no caller of the    *)
(* code keeps an iterator across a write.                                 *)
(***************************************************************************)
EXTENDS BTreeSpec

VARIABLES
    live,           \* an iterator is in use
    path,           \* BIter.path, root first
    pos,            \* BIter.pos, 0-based slot index per level
    seen            \* ghost of a forward scan: the keys the iterator has stood on

itvars == << live, path, pos, seen >>
allvars == << vars, itvars >>

Get(ptr) == ArenaGet(Store, ptr)
Depth(it) == Len(it.pos)
LeafAt(it) == it.path[Depth(it)]

\* BIter.Valid
Valid(it) == root # 0 /\ Depth(it) > 0
\* BIter.Deref: the key at the leaf position
DerefKey(it) == T!GetKey(LeafAt(it), it.pos[Depth(it)])

RECURSIVE descend(_, _, _, _)
(* The loops of Init (leftmost, key = -1) and SeekLE: from ptr down to a  *)
(* leaf, appending each node and the position taken in it.                *)
descend(it, ptr, key, d) ==
    IF ptr = 0 \/ d = 0 THEN it
    ELSE LET node == Get(ptr)
             idx  == IF key < 0 THEN 0 ELSE T!nodeLookupLE(node, key)
             kid  == IF key < 0 \/ node.type = T!BNODE_NODE THEN T!GetPtr(node, idx) ELSE 0
         IN  descend([path |-> Append(it.path, node), pos |-> Append(it.pos, idx)],
                     kid, key, d - 1)

Empty == [path |-> << >>, pos |-> << >>]

\* the kid at level's position replaces the node below it, at slot 0 (Next)
\* or at its last slot (Prev)
\* mutant: the kid's position is not reset
reloadNextNoReset(it, level) ==
    [it EXCEPT !.path[level + 2] = Get(T!GetPtr(it.path[level + 1], it.pos[level + 1]))]
\* mutant: the kid is not loaded
reloadNextStale(it, level) == it
reloadNext(it, level) ==
    LET kid == Get(T!GetPtr(it.path[level + 1], it.pos[level + 1]))
    IN  [it EXCEPT !.path[level + 2] = kid, !.pos[level + 2] = 0]
\* mutant: the old node below is kept, positioned at its last slot
reloadPrevStale(it, level) ==
    [it EXCEPT !.pos[level + 2] = T!U16(T!Nkeys(it.path[level + 2]) - 1)]
reloadPrev(it, level) ==
    LET kid == Get(T!GetPtr(it.path[level + 1], it.pos[level + 1]))
    IN  [it EXCEPT !.path[level + 2] = kid, !.pos[level + 2] = T!U16(T!Nkeys(kid) - 1)]

RECURSIVE iterNext(_, _)
iterNext(it, level) ==
    LET p == it.pos[level + 1]
        moved == IF p < T!U16(T!Nkeys(it.path[level + 1]) - 1)
                 THEN [it EXCEPT !.pos[level + 1] = p + 1]     \* move within this node
                 ELSE iterNext(it, level - 1)                   \* move to a sibling node
    IN  IF p >= T!U16(T!Nkeys(it.path[level + 1]) - 1) /\ level = 0 THEN it   \* dummy key
        ELSE IF level + 1 < Depth(moved) THEN reloadNext(moved, level)
        ELSE moved

RECURSIVE iterPrev(_, _)
iterPrev(it, level) ==
    LET p == it.pos[level + 1]
        moved == IF p > 0 THEN [it EXCEPT !.pos[level + 1] = p - 1]
                 ELSE iterPrev(it, level - 1)
    IN  IF p = 0 /\ level = 0 THEN it
        ELSE IF level + 1 < Depth(moved) THEN reloadPrev(moved, level)
        ELSE moved

It == [path |-> path, pos |-> pos]

\* the iterator's new state
Move(it) ==
    /\ path' = it.path /\ pos' = it.pos /\ live' = TRUE
    /\ UNCHANGED vars

\* BIter.Init: checkAssertion(Root != 0), then the leftmost path
IterInit ==
    /\ ~panicked
    /\ IF root = 0
       THEN panicked' = TRUE /\ UNCHANGED << root, pages, last, itvars >>
       ELSE Move(descend(Empty, root, -1, MaxDepth))

\* BTree.SeekLE(key), for the sentinel and every user key
SeekLE(key) ==
    /\ ~panicked
    /\ Move(descend(Empty, root, key, MaxDepth))

\* BIter.Next and BIter.Prev on a valid iterator; on an empty path the
\* code indexes pos[-1] and the runtime panics
Step(dir) ==
    /\ ~panicked /\ live
    /\ IF Depth(It) = 0
       THEN panicked' = TRUE /\ UNCHANGED << root, pages, last, itvars >>
       ELSE Move(IF dir = "next" THEN iterNext(It, Depth(It) - 1)
                 ELSE iterPrev(It, Depth(It) - 1))
IterNext == Step("next")
IterPrev == Step("prev")

\* the caller drops the iterator, which Go then collects
Drop == live /\ live' = FALSE /\ path' = << >> /\ pos' = << >> /\ UNCHANGED vars

\* tree calls, with no iterator in use
TreeStep == ~live /\ Next /\ UNCHANGED itvars

\* an empty tree and no iterator
IInit == Init /\ live = FALSE /\ path = << >> /\ pos = << >> /\ seen = {}

\* every call in any order; seen is not tracked
INext == TreeStep \/ IterInit \/ IterNext \/ IterPrev \/ Drop
         \/ \E k \in {T!SENTINEL} \cup Keys : SeekLE(k)
ISpec == IInit /\ [][INext /\ UNCHANGED seen]_allvars

(* A forward scan: the tree is built, then an iterator from Init is     *)
(* moved by Next for as long as the caller keeps scanning.              *)
\* the key the iterator stands on after the step is recorded in seen
Record(A) == A /\ seen' = IF panicked' THEN seen ELSE seen \cup {DerefKey(It')}
ScanNext == TreeStep \/ Record(~live /\ IterInit) \/ Record(IterNext)
ScanSpec == IInit /\ [][ScanNext]_allvars /\ WF_allvars(Record(IterNext))

-----------------------------------------------------------------------------
(* Properties, against ks, the set of keys in the leaves: a key's rank  *)
(* is the number of keys of ks below it.                                *)
LeafKeySet == {s.key : s \in SlotsBelow(root, MaxDepth)}
At(ks, it) == Cardinality({x \in ks : x < DerefKey(it)})
Moved == ~panicked' /\ Valid(It) /\ Valid(It')

(* The path is always the root-to-leaf path its positions name: node 1 *)
(* is the root and each next node is the kid at the position above it, *)
(* every position inside its node, however SeekLE, Init, Next and Prev  *)
(* were interleaved (each Next or Prev that climbs reloads every level  *)
(* below the one that moved).                                           *)
PathConsistent ==
    live /\ Depth(It) > 0 =>
        /\ path[1] = Get(root)
        /\ \A i \in DOMAIN pos : pos[i] < T!Nkeys(path[i])
        /\ \A i \in 1 .. Depth(It) - 1 : path[i + 1] = Get(T!GetPtr(path[i], pos[i]))
        /\ LeafAt(It).type = T!BNODE_LEAF

(* Every iterator step lands where the sorted keys say: Init on the     *)
(* sentinel, SeekLE(k) on the greatest key <= k, and Next and Prev      *)
(* away from the ends on the next and the previous key, whether the     *)
(* step stays in a leaf or climbs to a common ancestor and descends     *)
(* again (iterNext, iterPrev).                                          *)
IterSteps ==
    [][ live' =>
        LET ks == LeafKeySet
            \* the step lands on a key of the tree, of rank r
            lands(r) == DerefKey(It') \in ks /\ At(ks, It') = r
        IN
        /\ IterInit /\ ~panicked' => lands(0)
        /\ \A k \in {T!SENTINEL} \cup Keys :
              SeekLE(k) /\ root # 0 => lands(Cardinality({x \in ks : x <= k}) - 1)
        /\ IterNext /\ Moved /\ At(ks, It) < Cardinality(ks) - 1 => lands(At(ks, It) + 1)
        /\ IterPrev /\ Moved /\ At(ks, It) > 0 => lands(At(ks, It) - 1) ]_allvars

(* A forward scan (Init, then Next for as long as the caller goes on)   *)
(* stands on every key of the tree.                                     *)
ScanVisitsAll == live ~> seen = LeafKeySet

(* spec.md 8: forward iteration yields the keys in ascending order and  *)
(* backward iteration in descending order, so Next never moves to a    *)
(* smaller key and Prev never to a larger one, the ends included       *)
(* (biter.go:43 returns at the root's last slot as at a dummy key).     *)
IterMonotone ==
    [][ /\ IterNext /\ Moved => DerefKey(It') >= DerefKey(It)
        /\ IterPrev /\ Moved => DerefKey(It') <= DerefKey(It) ]_allvars
=============================================================================
