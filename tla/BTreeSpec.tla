------------------------------ MODULE BTreeSpec ------------------------------
(***************************************************************************)
(* The B-tree engine alone: BTree.Insert, BTree.Delete and BTree.Read     *)
(* (src/types/btree.go) over an arena of MaxPages pages, the caller-      *)
(* supplied page capability of spec.md 4.2.  The arena frees a page at    *)
(* once and allocates the lowest free page; the page store of the program *)
(* (KV, src/db/kv.go) is modelled in its own module.                      *)
(*                                                                         *)
(* One step is one whole call.  A call whose code hits checkAssertion or  *)
(* panic("bad node!") kills the process: the step sets panicked and       *)
(* leaves the tree as it was, and nothing runs after it.                  *)
(***************************************************************************)
EXTENDS Integers, Sequences, FiniteSets, SequencesExt

CONSTANTS
    Keys,           \* the user keys, naturals >= 1 (0 is the sentinel)
    Vals,           \* values, model values
    NoVal,          \* "not found"
    Nil,            \* nil slot value of internal nodes
    FreePage,       \* content of an unallocated arena page
    MaxPages,       \* arena size
    PAGE_SIZE, HEADER, SLOT, KeyLen(_), ValLen(_), BTREE_MAX_KEY_SIZE

VARIABLES
    root,           \* BTree.Root, 0 for the empty tree
    pages,          \* the arena: page number -> node or FreePage
    panicked,       \* an assertion of the code fired
    last            \* the call just completed and its result

vars == << root, pages, panicked, last >>

PageIds == 1 .. MaxPages
MaxDepth == MaxPages      \* no path of distinct pages is longer

(* The capability handed to the tree: st is [pages, err, full]. *)
ArenaGet(st, ptr) ==
    IF ptr \in PageIds /\ st.pages[ptr] # FreePage THEN st.pages[ptr]
    ELSE [type |-> -1, kvs |-> << >>]
ArenaNew(st, node) ==
    LET free == {p \in PageIds : st.pages[p] = FreePage}
        p == CHOOSE q \in free : \A r \in free : q <= r
    IN  IF free = {} THEN [st |-> [st EXCEPT !.full = TRUE], ptr |-> 0]
        ELSE [st |-> [st EXCEPT !.pages[p] = node], ptr |-> p]
ArenaDel(st, ptr) ==
    IF ptr \in PageIds THEN [st EXCEPT !.pages[ptr] = FreePage] ELSE st

T == INSTANCE BTree WITH PageGet <- ArenaGet, PageNew <- ArenaNew,
                         PageDel <- ArenaDel

Store == [pages |-> pages, err |-> FALSE, full |-> FALSE]

Init ==
    /\ root = 0
    /\ pages = [p \in PageIds |-> FreePage]
    /\ panicked = FALSE
    /\ last = [op |-> "none", key |-> NoVal, val |-> NoVal, ok |-> FALSE]

\* Apply a call's result: a panic stops the process, an arena overflow is
\* outside the model (the step is not taken).
Apply(st, newRoot, call) ==
    /\ ~st.full
    /\ IF st.err
       THEN panicked' = TRUE /\ UNCHANGED << root, pages, last >>
       ELSE /\ root' = newRoot /\ pages' = st.pages /\ last' = call
            /\ UNCHANGED panicked

Insert(k, v) ==
    /\ ~panicked
    /\ LET r == T!Insert(Store, root, k, v) IN
       Apply(r.st, r.root, [op |-> "insert", key |-> k, val |-> v, ok |-> TRUE])

Delete(k) ==
    /\ ~panicked
    /\ LET r == T!Delete(Store, root, k) IN
       Apply(r.st, r.root, [op |-> "delete", key |-> k, val |-> NoVal, ok |-> r.deleted])

Next == \E k \in Keys : Delete(k) \/ \E v \in Vals : Insert(k, v)

Spec == Init /\ [][Next]_vars

-----------------------------------------------------------------------------
(* Views of the tree used by the properties. *)
Node(p) == pages[p]

RECURSIVE Reach(_, _)
\* the pages reachable from ptr, as a sequence in depth-first order
Reach(ptr, d) ==
    IF d = 0 \/ ptr \notin PageIds \/ pages[ptr] = FreePage THEN << >>
    ELSE << ptr >> \o
         IF Node(ptr).type # T!BNODE_NODE THEN << >>
         ELSE LET kids == [i \in 1 .. T!Nkeys(Node(ptr)) |->
                              Reach(Node(ptr).kvs[i].ptr, d - 1)]
              IN  FlattenSeq(kids)

TreePages == IF root = 0 THEN << >> ELSE Reach(root, MaxDepth)
Leaves == SelectSeq(TreePages, LAMBDA p : Node(p).type = T!BNODE_LEAF)
\* every leaf slot, left to right
LeafSlots == FlattenSeq([i \in 1 .. Len(Leaves) |-> Node(Leaves[i]).kvs])
LeafKeys == [i \in 1 .. Len(LeafSlots) |-> LeafSlots[i].key]

\* the key/value map the tree holds
RECURSIVE SlotsBelow(_, _)
\* the slots of the leaves below ptr
SlotsBelow(ptr, d) ==
    IF d = 0 \/ ptr \notin PageIds \/ pages[ptr] = FreePage THEN {}
    ELSE IF Node(ptr).type = T!BNODE_LEAF THEN Range(Node(ptr).kvs)
    ELSE UNION {SlotsBelow(s.ptr, d - 1) : s \in Range(Node(ptr).kvs)}

TreeDict ==
    LET slots == SlotsBelow(root, MaxDepth)
    IN  [k \in Keys |-> IF \E e \in slots : e.key = k
                        THEN (CHOOSE e \in slots : e.key = k).val
                        ELSE NoVal]

RECURSIVE Height(_, _)
\* height of the subtree at ptr; -1 when its leaves are not all at one depth
Height(ptr, d) ==
    IF d = 0 \/ ptr \notin PageIds \/ pages[ptr] = FreePage THEN -1
    ELSE IF Node(ptr).type = T!BNODE_LEAF THEN 1
    ELSE LET hs == {Height(Node(ptr).kvs[i].ptr, d - 1) : i \in 1 .. T!Nkeys(Node(ptr))}
             h  == CHOOSE x \in hs : TRUE
         IN  IF hs # {} /\ Cardinality(hs) = 1 /\ h > 0 THEN h + 1 ELSE -1

\* the user keys stored below ptr
SubtreeKeys(ptr) == {s.key : s \in SlotsBelow(ptr, MaxDepth)} \cap Keys

RECURSIVE Shape(_, _)
\* the tree below ptr with page numbers replaced by the subtrees they name
Shape(ptr, d) ==
    IF d = 0 \/ ptr \notin PageIds \/ pages[ptr] = FreePage THEN << >>
    ELSE IF Node(ptr).type # T!BNODE_NODE THEN Node(ptr)
    ELSE [type |-> T!BNODE_NODE,
          kvs  |-> [i \in DOMAIN Node(ptr).kvs |->
                      [key |-> Node(ptr).kvs[i].key,
                       ptr |-> Shape(Node(ptr).kvs[i].ptr, d - 1)]]]

(* Two states whose trees differ only in page numbers have isomorphic   *)
(* futures: the arena's choice of page is all that differs.  The count  *)
(* of allocated pages keeps a leaked page visible.  last is left out:   *)
(* no step reads it, and the refinement checks it on the step it is set. *)
TreeView == << Shape(root, MaxDepth),
               Cardinality({p \in PageIds : pages[p] # FreePage}), panicked >>

-----------------------------------------------------------------------------
Dict == INSTANCE KVDict WITH dict <- TreeDict

TypeOK ==
    /\ root \in {0} \cup PageIds
    /\ panicked \in BOOLEAN
    /\ last \in Dict!Calls
    /\ \A p \in PageIds :
          \/ pages[p] = FreePage
          \/ /\ pages[p].type = T!BNODE_NODE
             /\ pages[p].kvs \in Seq([key : {T!SENTINEL} \cup Keys,
                                      ptr : PageIds, val : {Nil}])
          \/ /\ pages[p].type = T!BNODE_LEAF
             /\ pages[p].kvs \in Seq([key : {T!SENTINEL} \cup Keys,
                                      ptr : {0}, val : Vals \cup {Nil}])

(* Refinement: every completed BTree.Insert and BTree.Delete, with its   *)
(* copy-on-write descent, splits and merges, changes the map held in the *)
(* leaves exactly as KVDict's Put and Remove of the key called, and      *)
(* Delete returns true exactly when the key was present.                 *)
DictRefinement == Dict!Spec

(* BTree.Read, which descends by the separator keys with nodeLookupLE   *)
(* and checks the slot found and the next one, finds exactly the value  *)
(* the leaves hold for every key, and never panics.                     *)
ReadAgrees ==
    \A k \in Keys :
        LET r == T!Read(Store, root, k) IN
        /\ ~r.panic
        /\ r.found = (TreeDict[k] # NoVal)
        /\ r.found => r.val = TreeDict[k]

(* The tree is a B-tree after any sequence of inserts and deletes: all  *)
(* leaves at one depth, the leaf keys strictly ascending from the       *)
(* sentinel, every node non-empty and within a page, and every key      *)
(* below link i of an internal node at least its separator key and     *)
(* below the separator of link i + 1.                                   *)
BTreeShape ==
    root # 0 =>
    LET keys == LeafKeys IN
    /\ Height(root, MaxDepth) > 0
    /\ keys # << >> /\ keys[1] = T!SENTINEL
    /\ IsSorted(keys, <)
    /\ \A p \in Range(TreePages) :
          /\ 0 < T!Nkeys(Node(p)) /\ T!Nbytes(Node(p)) <= PAGE_SIZE
          /\ Node(p).type = T!BNODE_NODE =>
                \A i \in 1 .. T!Nkeys(Node(p)) :
                   \A k \in SubtreeKeys(Node(p).kvs[i].ptr) :
                      /\ k >= Node(p).kvs[i].key
                      /\ i < T!Nkeys(Node(p)) => k < Node(p).kvs[i + 1].key

(* Copy-on-write frees exactly what it replaces: the allocated pages are *)
(* the pages of the tree, and no page is linked twice.                  *)
PagesExact ==
    /\ Len(TreePages) = Cardinality(Range(TreePages))
    /\ Range(TreePages) = {p \in PageIds : pages[p] # FreePage}

(* No call of Insert or Delete hits an assertion of the code (spec.md 8: *)
(* deleting an absent key returns false).                               *)
NoPanic == ~panicked
=============================================================================
