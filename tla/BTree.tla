-------------------------------- MODULE BTree --------------------------------
(***************************************************************************)
(* The copy-on-write B-tree of src/types/btree.go over the node codec of   *)
(* src/types/bnode.go.                                                     *)
(*                                                                         *)
(* A page is a record [type, kvs] where kvs is the sequence of the node's  *)
(* slots [key, ptr, val]: the pointer, offset and key/value arrays of the  *)
(* byte layout, read together.  Indexes are 0-based and uint16 as in the   *)
(* code, so nodeLookupLE's "i - 1" wraps to 65535.  Keys are naturals; 0   *)
(* is the empty key, which sorts before every other key (the sentinel).   *)
(* Byte sizes keep the code's accounting: HEADER bytes, then per slot the  *)
(* SLOT bytes of pointer, offset and length fields plus the key and value  *)
(* lengths, KeyLen and ValLen, supplied by the model.                      *)
(*                                                                         *)
(* The tree reaches its pages only through the callbacks that the Go code  *)
(* keeps in BTree.Get/New/Del; they are constant operators here, given by  *)
(* the module that instantiates this one.  They thread a store value st    *)
(* through the operation; st is a record with a field err, set when a Go   *)
(* assertion or panic fires (after which the process is dead and the rest  *)
(* of the computation is irrelevant).  A callback that would panic in      *)
(* PageGet returns PanicPage.                                              *)
(***************************************************************************)
EXTENDS Integers, Sequences, SequencesExt

CONSTANTS
    PAGE_SIZE,      \* BTREE_PAGE_SIZE, in abstract bytes
    HEADER,         \* HEADER: the bytes of a node that hold no slot
    SLOT,           \* fixed bytes of one slot (8B ptr, 2B offset, 4B lengths)
    KeyLen(_),      \* bytes of a key (0 for the sentinel)
    BTREE_MAX_KEY_SIZE,
    ValLen(_),      \* bytes of a value (0 for Nil)
    Nil,            \* the nil value of an internal node's slots
    PageGet(_, _),  \* PageGet(st, ptr)  : the node at ptr, or PanicPage
    PageNew(_, _),  \* PageNew(st, node) : [st |-> st', ptr |-> ptr]
    PageDel(_, _)   \* PageDel(st, ptr)  : st'

BNODE_NODE == 1
BNODE_LEAF == 2
SENTINEL == 0                       \* the zero-length key of the leftmost leaf
PanicPage == [type |-> -1, kvs |-> <<>>]

U16(x) == x % 65536                 \* uint16 arithmetic on indexes

KV(ptr, key, val) == [key |-> key, ptr |-> ptr, val |-> val]
Nkeys(n) == Len(n.kvs)
GetKey(n, i) == n.kvs[i + 1].key
GetPtr(n, i) == n.kvs[i + 1].ptr
GetVal(n, i) == n.kvs[i + 1].val
SlotBytes(s) == SLOT + KeyLen(s.key) + ValLen(s.val)
\* bytes of the first n slots of a node, after the header
RECURSIVE SlotsBytes(_, _)
SlotsBytes(kvs, n) == IF n = 0 THEN 0 ELSE SlotBytes(kvs[n]) + SlotsBytes(kvs, n - 1)
Nbytes(n) == HEADER + SlotsBytes(n.kvs, Len(n.kvs))

Fail(st) == [st EXCEPT !.err = TRUE]

(* nodeLookupLE: the first slot whose key is >= key; that slot if equal,  *)
(* otherwise the one before it (0 - 1 wraps).                             *)
nodeLookupLE(node, key) ==
    LET ge == {i \in 0 .. Nkeys(node) - 1 : GetKey(node, i) >= key}
        i  == IF ge = {} THEN Nkeys(node)
              ELSE CHOOSE j \in ge : \A l \in ge : j <= l
    IN  IF i < Nkeys(node) /\ GetKey(node, i) = key THEN i ELSE U16(i - 1)

LeafInsert(old, idx, key, val) ==
    [type |-> BNODE_LEAF, kvs |-> InsertAt(old.kvs, idx + 1, KV(0, key, val))]
LeafUpdate(old, idx, key, val) ==
    [type |-> BNODE_LEAF, kvs |-> ReplaceAt(old.kvs, idx + 1, KV(0, key, val))]
leafDelete(old, idx) ==
    [type |-> BNODE_LEAF, kvs |-> RemoveAt(old.kvs, idx + 1)]
nodeMerge(left, right) ==
    [type |-> left.type, kvs |-> left.kvs \o right.kvs]
\* replace the links idx and idx+1 by one link
nodeReplace2Kid(old, idx, ptr, key) ==
    [type |-> BNODE_NODE,
     kvs  |-> SubSeq(old.kvs, 1, idx) \o << KV(ptr, key, Nil) >>
                \o SubSeq(old.kvs, idx + 3, Nkeys(old))]

(* nodeSplit2: start with half the slots on the left, shrink the left   *)
(* until it fits, then grow it until the right half fits.               *)
LeftBytes(old, nleft) == HEADER + SlotsBytes(old.kvs, nleft)
RECURSIVE ShrinkLeft(_, _), GrowLeft(_, _)
ShrinkLeft(old, nleft) ==
    IF LeftBytes(old, nleft) > PAGE_SIZE THEN ShrinkLeft(old, nleft - 1) ELSE nleft
GrowLeft(old, nleft) ==
    IF Nbytes(old) - LeftBytes(old, nleft) + HEADER > PAGE_SIZE
    THEN GrowLeft(old, nleft + 1) ELSE nleft
nodeSplit2(old) ==
    LET nleft == GrowLeft(old, ShrinkLeft(old, Nkeys(old) \div 2))
    IN  << [type |-> old.type, kvs |-> SubSeq(old.kvs, 1, nleft)],
           [type |-> old.type, kvs |-> SubSeq(old.kvs, nleft + 1, Nkeys(old))] >>
\* the assertions nleft >= 1 and nleft < nkeys of nodeSplit2
SplitFits(old) ==
    LET nleft == ShrinkLeft(old, Nkeys(old) \div 2)
    IN  nleft >= 1 /\ GrowLeft(old, nleft) < Nkeys(old)

(* NodeSplit3: 1, 2 or 3 nodes that each fit a page (<<>> when one of   *)
(* nodeSplit2's assertions fails).                                      *)
NodeSplit3(old) ==
    IF Nbytes(old) <= PAGE_SIZE THEN << old >>
    ELSE IF ~SplitFits(old) THEN << >>
    ELSE LET lr == nodeSplit2(old) IN
         IF Nbytes(lr[1]) <= PAGE_SIZE THEN lr
         ELSE IF ~SplitFits(lr[1]) THEN << >>
         ELSE LET ll == nodeSplit2(lr[1]) IN
              IF Nbytes(ll[1]) > PAGE_SIZE THEN << >> ELSE ll \o << lr[2] >>

(* tree.New for every kid in order, giving the links [ptr, first key]. *)
RECURSIVE AllocKids(_, _)
AllocKids(st, kids) ==
    IF kids = << >> THEN [st |-> st, links |-> << >>]
    ELSE IF Nkeys(Head(kids)) = 0 THEN [st |-> Fail(st), links |-> << >>]
    ELSE LET a == PageNew(st, Head(kids))
             r == AllocKids(a.st, Tail(kids))
         IN  [st |-> r.st,
              links |-> << KV(a.ptr, GetKey(Head(kids), 0), Nil) >> \o r.links]

\* mutant: every new link keeps the separator key of the replaced link
NodeReplaceKidNOldKey(st, old, idx, kids) ==
    LET a == AllocKids(st, kids)
    IN  [st   |-> IF kids = << >> THEN Fail(a.st) ELSE a.st,
         node |-> [type |-> BNODE_NODE,
                   kvs  |-> SubSeq(old.kvs, 1, idx)
                               \o [i \in DOMAIN a.links |-> [a.links[i] EXCEPT !.key = GetKey(old, idx)]]
                               \o SubSeq(old.kvs, idx + 2, Nkeys(old))]]
NodeReplaceKidN(st, old, idx, kids) ==
    LET a == AllocKids(st, kids)
    IN  [st   |-> IF kids = << >> THEN Fail(a.st) ELSE a.st,
         node |-> [type |-> BNODE_NODE,
                   kvs  |-> SubSeq(old.kvs, 1, idx) \o a.links
                               \o SubSeq(old.kvs, idx + 2, Nkeys(old))]]

-----------------------------------------------------------------------------
(* treeInsert / nodeInsert: the updated node, possibly bigger than a page. *)
RECURSIVE treeInsert(_, _, _, _), nodeInsert(_, _, _, _, _)
treeInsert(st, node, key, val) ==
    LET idx == nodeLookupLE(node, key) IN
    CASE node.type = BNODE_LEAF ->
            IF idx >= Nkeys(node) THEN [st |-> Fail(st), node |-> node]
            ELSE IF GetKey(node, idx) = key
                 THEN [st |-> st, node |-> LeafUpdate(node, idx, key, val)]
                 ELSE [st |-> st, node |-> LeafInsert(node, U16(idx + 1), key, val)]
      [] node.type = BNODE_NODE -> nodeInsert(st, node, idx, key, val)
      [] OTHER -> [st |-> Fail(st), node |-> node]       \* panic("bad node!")

nodeInsert(st, node, idx, key, val) ==
    IF idx >= Nkeys(node) THEN [st |-> Fail(st), node |-> node]
    ELSE LET kptr == GetPtr(node, idx)
             knode == PageGet(st, kptr)
             r == treeInsert(PageDel(st, kptr), knode, key, val)
         IN  NodeReplaceKidN(r.st, node, idx, NodeSplit3(r.node))

\* mutant: the new root is given the leaf header of the first-root code
SplitRootLeaf(st, kids) ==
    LET a == AllocKids(st, kids)
        b == PageNew(a.st, [type |-> BNODE_LEAF, kvs |-> a.links])
    IN  [st |-> b.st, root |-> b.ptr]
\* the root was split: a new internal root links the 2 or 3 nodes
SplitRoot(st, kids) ==
    LET a == AllocKids(st, kids)
        b == PageNew(a.st, [type |-> BNODE_NODE, kvs |-> a.links])
    IN  [st |-> b.st, root |-> b.ptr]

\* BTree.Insert: the new store and root
Insert(st, root, key, val) ==
    IF root = 0
    THEN LET a == PageNew(st, [type |-> BNODE_LEAF,
                               kvs  |-> << KV(0, SENTINEL, Nil), KV(0, key, val) >>])
         IN  [st |-> a.st, root |-> a.ptr]
    ELSE LET r == treeInsert(PageDel(st, root), PageGet(st, root), key, val)
             split == NodeSplit3(r.node)
         IN  IF split = << >> THEN [st |-> Fail(r.st), root |-> root]
             ELSE IF Len(split) > 1
             THEN SplitRoot(r.st, split)
             ELSE LET a == PageNew(r.st, split[1]) IN [st |-> a.st, root |-> a.ptr]

-----------------------------------------------------------------------------
(* shouldMerge: -1 / +1 to merge the updated kid with its left / right   *)
(* sibling, 0 for no merge.  A sibling read that panics is returned as   *)
(* PanicPage so that the caller fails.                                   *)
shouldMerge(st, node, idx, updated) ==
    LET Fits(sib) == Nbytes(sib) + Nbytes(updated) - HEADER <= PAGE_SIZE
        left  == PageGet(st, GetPtr(node, idx - 1))
        right == PageGet(st, GetPtr(node, idx + 1))
    IN  IF Nbytes(updated) > PAGE_SIZE \div 4 THEN [dir |-> 0, sibling |-> updated]
        ELSE IF idx > 0 /\ (left = PanicPage \/ Fits(left))
             THEN [dir |-> -1, sibling |-> left]
        ELSE IF idx + 1 < Nkeys(node) /\ (right = PanicPage \/ Fits(right))
             THEN [dir |-> 1, sibling |-> right]
        ELSE [dir |-> 0, sibling |-> updated]

NotFound(st) == [st |-> st, node |-> [type |-> 0, kvs |-> << >>], found |-> FALSE]

(* TreeDelete / nodeDelete: [st, node, found]; found = FALSE is the code's *)
(* empty BNode{} ("not found"), which aborts the whole delete.            *)
RECURSIVE TreeDelete(_, _, _), nodeDelete(_, _, _, _)
TreeDelete(st, node, key) ==
    LET idx == nodeLookupLE(node, key) IN
    CASE node.type = BNODE_LEAF ->
            IF idx >= Nkeys(node) THEN NotFound(Fail(st))
            ELSE IF GetKey(node, idx) # key THEN NotFound(st)
            ELSE [st |-> st, node |-> leafDelete(node, idx), found |-> TRUE]
      [] node.type = BNODE_NODE -> nodeDelete(st, node, idx, key)
      [] OTHER -> NotFound(Fail(st))

nodeDelete(st, node, idx, key) ==
    IF idx >= Nkeys(node) THEN NotFound(Fail(st))
    ELSE
    LET kptr == GetPtr(node, idx)
        r == TreeDelete(st, PageGet(st, kptr), key)
        st1 == PageDel(r.st, kptr)
        m == shouldMerge(st1, node, idx, r.node)
        merged == IF m.dir < 0 THEN nodeMerge(m.sibling, r.node)
                               ELSE nodeMerge(r.node, m.sibling)
        sib == IF m.dir < 0 THEN idx - 1 ELSE idx + 1
        a == PageNew(PageDel(st1, GetPtr(node, sib)), merged)
    IN  IF ~r.found THEN r
        ELSE IF m.sibling = PanicPage \/ (m.dir # 0 /\ Nkeys(merged) = 0)
             THEN NotFound(Fail(st1))
        ELSE IF m.dir = 0
             THEN LET n == NodeReplaceKidN(st1, node, idx, << r.node >>)
                  IN  [st |-> n.st, node |-> n.node, found |-> TRUE]
        ELSE [st |-> a.st, found |-> TRUE,
              node |-> nodeReplace2Kid(node, IF m.dir < 0 THEN idx - 1 ELSE idx,
                                       a.ptr, GetKey(merged, 0))]

\* mutant: a delete whose key is absent reports success
DeleteAbsentTrue(st, root, key) ==
    IF key = SENTINEL \/ KeyLen(key) > BTREE_MAX_KEY_SIZE THEN [st |-> Fail(st), root |-> root, deleted |-> FALSE]
    ELSE IF root = 0 THEN [st |-> st, root |-> root, deleted |-> TRUE]
    ELSE LET r == TreeDelete(st, PageGet(st, root), key)
             st1 == PageDel(r.st, root)
             a == PageNew(st1, r.node)
         IN  IF ~r.found THEN [st |-> r.st, root |-> root, deleted |-> TRUE]
             ELSE IF r.node.type = BNODE_NODE /\ Nkeys(r.node) = 1
             THEN [st |-> st1, root |-> GetPtr(r.node, 0), deleted |-> TRUE]
             ELSE [st |-> a.st, root |-> a.ptr, deleted |-> TRUE]
\* mutant: removing a level does not free the old root
DeleteKeepRoot(st, root, key) ==
    IF key = SENTINEL \/ KeyLen(key) > BTREE_MAX_KEY_SIZE THEN [st |-> Fail(st), root |-> root, deleted |-> FALSE]
    ELSE IF root = 0 THEN [st |-> st, root |-> root, deleted |-> FALSE]
    ELSE LET r == TreeDelete(st, PageGet(st, root), key)
             st1 == PageDel(r.st, root)
             a == PageNew(st1, r.node)
         IN  IF ~r.found THEN [st |-> r.st, root |-> root, deleted |-> FALSE]
             ELSE IF r.node.type = BNODE_NODE /\ Nkeys(r.node) = 1
             THEN [st |-> r.st, root |-> GetPtr(r.node, 0), deleted |-> TRUE]
             ELSE [st |-> a.st, root |-> a.ptr, deleted |-> TRUE]
\* BTree.Delete: [st, root, deleted]
Delete(st, root, key) ==
    IF key = SENTINEL \/ KeyLen(key) > BTREE_MAX_KEY_SIZE THEN [st |-> Fail(st), root |-> root, deleted |-> FALSE]
    ELSE IF root = 0 THEN [st |-> st, root |-> root, deleted |-> FALSE]
    ELSE LET r == TreeDelete(st, PageGet(st, root), key)
             st1 == PageDel(r.st, root)
             a == PageNew(st1, r.node)
         IN  IF ~r.found THEN [st |-> r.st, root |-> root, deleted |-> FALSE]
             ELSE IF r.node.type = BNODE_NODE /\ Nkeys(r.node) = 1
             THEN [st |-> st1, root |-> GetPtr(r.node, 0), deleted |-> TRUE]   \* remove a level
             ELSE [st |-> a.st, root |-> a.ptr, deleted |-> TRUE]

-----------------------------------------------------------------------------
(* BTree.Read / TreefindKey: [val, found, panic].  A leaf checks the slot *)
(* found and the next one, in uint16 arithmetic.                          *)
Miss == [val |-> Nil, found |-> FALSE, panic |-> FALSE]
Boom == [val |-> Nil, found |-> FALSE, panic |-> TRUE]
FindAt(node, i, key) ==
    IF i >= Nkeys(node) THEN Boom
    ELSE IF GetKey(node, i) = key
         THEN [val |-> GetVal(node, i), found |-> TRUE, panic |-> FALSE]
         ELSE Miss
\* mutant: the slot found is checked with idx < nkeys - 1
LeafFindLt(node, idx, key) ==
    LET last == U16(Nkeys(node) - 1) IN
    IF idx < last /\ FindAt(node, idx, key) # Miss THEN FindAt(node, idx, key)
    ELSE IF U16(idx + 1) <= last THEN FindAt(node, U16(idx + 1), key)
    ELSE Miss
LeafFind(node, idx, key) ==
    LET last == U16(Nkeys(node) - 1) IN
    IF idx <= last /\ FindAt(node, idx, key) # Miss THEN FindAt(node, idx, key)
    ELSE IF U16(idx + 1) <= last THEN FindAt(node, U16(idx + 1), key)
    ELSE Miss

RECURSIVE TreefindKey(_, _, _)
TreefindKey(st, node, key) ==
    LET idx == nodeLookupLE(node, key) IN
    CASE node = PanicPage -> Boom
      [] node.type = BNODE_LEAF -> LeafFind(node, idx, key)
      [] node.type = BNODE_NODE ->
                IF idx >= Nkeys(node) THEN Boom
                ELSE TreefindKey(st, PageGet(st, GetPtr(node, idx)), key)
          [] OTHER -> Miss

Read(st, root, key) ==
    IF root = 0 THEN [val |-> Nil, found |-> FALSE, panic |-> FALSE]
    ELSE TreefindKey(st, PageGet(st, root), key)
=============================================================================
