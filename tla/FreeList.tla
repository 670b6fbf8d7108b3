------------------------------- MODULE FreeList -------------------------------
(***************************************************************************)
(* The free list of src/db/FreeList.go: a linked list of pages, each       *)
(* holding up to FREE_LIST_CAP free page numbers, a next pointer and a     *)
(* running total (meaningful on the head node).  A list node is the record *)
(* [type |-> 3, ptrs, next, total]; the all-zero page reads as an empty    *)
(* node with next 0 and total 0.  A list node has an empty kvs: a B-tree  *)
(* that reads a list page (the tree and the list already share a page)    *)
(* sees an empty node.  The code never checks a page's type, so a list    *)
(* read of a B-tree page decodes its bytes (ListView): size is nkeys,     *)
(* total and next are the first two child pointers, the entries are the   *)
(* pointers from the third on, and a word that starts past the pointer    *)
(* array (offsets, key and value bytes) is JUNK, a number past the mmap.  *)
(*                                                                         *)
(* The list reaches its pages through the callbacks the page store gives   *)
(* it (FreeList.get/new/use); they are constant operators here and thread  *)
(* a store value st with an err field, set when an Assert of the code      *)
(* fires.  FlPut writes a page back where FlGet read it from: the code     *)
(* sets the total on the slice that fl.get returned.  Reading a page that  *)
(* panics (PanicPage, type < 0), JUNK included, sets err.                 *)
(***************************************************************************)
EXTENDS Integers, Sequences

CONSTANTS
    FREE_LIST_CAP,  \* pointers per list node
    FlGet(_, _),    \* FlGet(st, ptr)       : the page at ptr
    FlNew(_, _),    \* FlNew(st, node)      : [st, ptr] of an appended page
    FlUse(_, _, _), \* FlUse(st, ptr, node) : st' with node stored at ptr
    FlPut(_, _, _)  \* FlPut(st, ptr, node) : st' with the page at ptr changed

BNODE_FREE_LIST == 3

FlFail(st) == [st EXCEPT !.err = TRUE]

SENTINEL == 0   \* the empty key, first key of the leftmost node of each level
\* a uint64 read from a B-tree node's offsets and key/value bytes: >= 2^16
JUNK == -1

(* The master page, read through the mmap at page 0 once the page table *)
(* has no entry for it: DB_SIG "BuildYourOwnDB05" gives type "Bu", size   *)
(* "il" (27753 entries, far past the 4096-byte page) and total            *)
(* "dYourOwn", a uint64 beyond any count of the model (BIG).              *)
MASTER_TYPE == 30018
BIG == 2^30

Readable(n) == n.type >= 0
(* A page read through flnSize/flnNext/flnPtr/Total.  A B-tree node of N  *)
(* slots is | type | N | ptr 0 .. ptr N-1 | offsets | kvs |, zero after.  *)
(* Byte 4 (total) is ptr 0, byte 12 (next) ptr 1, byte 20 + 8i ptr i+2.   *)
(* With N = 1, byte 12 holds offset 1 (4 + key and value bytes) and the   *)
(* lengths, so next is 4 when the key is the sentinel, whose node ends at *)
(* byte 18, and JUNK otherwise; with N = 0 the words are zero.            *)
ListView(n) ==
    IF n.type \in {0, BNODE_FREE_LIST} \/ ~Readable(n) THEN n
    ELSE IF n.type = MASTER_TYPE
         THEN [type |-> n.type, kvs |-> n.kvs, total |-> BIG, next |-> JUNK, ptrs |-> << >>]
    ELSE LET N == Len(n.kvs)
             P(i) == n.kvs[i + 1].ptr
             short == N = 1 /\ n.kvs[1].key = SENTINEL   \* node ends at byte 18
         IN  [type |-> n.type, kvs |-> n.kvs,
              total |-> IF N >= 1 THEN P(0) ELSE 0,
              next |-> IF N >= 2 THEN P(1) ELSE IF short THEN 4 ELSE IF N = 1 THEN JUNK ELSE 0,
              ptrs |-> [i \in 1 .. N |-> IF i + 1 < N THEN P(i + 1)
                                         ELSE IF short THEN 0 ELSE JUNK]]
\* flnSetTotal: bytes 4..12 of the page, the first child pointer of a B-tree node
flnSetTotal(n, total) ==
    IF n.type \in {0, BNODE_FREE_LIST} THEN [n EXCEPT !.total = total]
    ELSE IF Len(n.kvs) >= 1 THEN [n EXCEPT !.kvs[1].ptr = total]
    ELSE n
flnSize(n) == Len(n.ptrs)
flnNext(n) == n.next
flnPtr(n, i) == n.ptrs[i + 1]
FlNode(ptrs, next, total) ==
    [type |-> BNODE_FREE_LIST, kvs |-> << >>, ptrs |-> ptrs, next |-> next, total |-> total]

\* FreeList.Total: [st, n], the total stored on the head node
Total(st, head) ==
    LET n == ListView(FlGet(st, head))
    IN  IF Readable(n) THEN [st |-> st, n |-> n.total] ELSE [st |-> FlFail(st), n |-> 0]

(* FreeList.Get(topn): walk the nodes, subtracting their sizes, and take  *)
(* the pointer counted from the end of the node that holds index topn.    *)
RECURSIVE GetIn(_, _, _)
GetIn(st, n, topn) ==
    \* on the master page, flnPtr(node, 27752 - topn) slices past the page
    IF ~Readable(n) \/ n.type = MASTER_TYPE THEN [st |-> FlFail(st), ptr |-> 0]
    ELSE IF flnSize(n) <= topn
         THEN IF flnNext(n) = 0 THEN [st |-> FlFail(st), ptr |-> 0]
              ELSE GetIn(st, ListView(FlGet(st, flnNext(n))), topn - flnSize(n))
    ELSE [st |-> st, ptr |-> flnPtr(n, flnSize(n) - topn - 1)]

Get(st, head, topn) ==
    LET t == Total(st, head)
    IN  IF t.st.err \/ ~(0 <= topn /\ topn < t.n) THEN [st |-> FlFail(st), ptr |-> 0]
        ELSE GetIn(st, ListView(FlGet(st, head)), topn)

(* flPush: prepend nodes of up to FREE_LIST_CAP freed pointers, housing   *)
(* each in a reused page while there are any, else in an appended page;   *)
(* reused pages left over are pushed as free pointers themselves.         *)
RECURSIVE flPush(_, _, _, _)
flPush(st, head, freed, reuse) ==
    LET size == IF Len(freed) > FREE_LIST_CAP THEN FREE_LIST_CAP ELSE Len(freed)
        t    == Total(st, head)
        new  == FlNode(SubSeq(freed, 1, size), head, t.n + size)
        rest == SubSeq(freed, size + 1, Len(freed))
        a    == FlNew(st, new)
        \* one turn of the loop, or the tail call flPush(fl, reuse, nil)
        next == IF freed = << >>
                THEN [st |-> st, head |-> head, freed |-> reuse, reuse |-> << >>]
                ELSE IF reuse # << >>
                THEN [st |-> FlUse(st, Head(reuse), new), head |-> Head(reuse),
                      freed |-> rest, reuse |-> Tail(reuse)]
                ELSE [st |-> a.st, head |-> a.ptr, freed |-> rest, reuse |-> reuse]
    IN  IF freed = << >> /\ reuse = << >> THEN [st |-> st, head |-> head]
        ELSE IF freed # << >> /\ t.st.err THEN [st |-> t.st, head |-> head]
        ELSE flPush(next.st, next.head, next.freed, next.reuse)

(* Phase 2 of Update: take pointers from the end of a partly popped node  *)
(* to house the new nodes while they are too few; [remain, reuse].         *)
RECURSIVE Reclaim(_, _, _, _)
Reclaim(n, remain, nfreed, reuse) ==
    IF remain > 0 /\ Len(reuse) * FREE_LIST_CAP < nfreed + remain
    THEN Reclaim(n, remain - 1, nfreed, Append(reuse, flnPtr(n, remain - 1)))
    ELSE [remain |-> remain, reuse |-> reuse]

(* The loop of Update: while nodes are needed, unlink the head node, free *)
(* its page, pop popn pointers from it, and move what remains to reuse    *)
(* and freed.                                                              *)
RECURSIVE UpdateLoop(_, _, _, _, _, _)
UpdateLoop(st, head, popn, freed, reuse, total) ==
    LET n == ListView(FlGet(st, head))
        freed1 == Append(freed, head)
        r == Reclaim(n, flnSize(n) - popn, Len(freed1), reuse)
        done == [st |-> st, head |-> head, freed |-> freed, reuse |-> reuse, total |-> total]
        \* phase 1 drops the whole node; phase 2 keeps its first r.remain pointers
        next == IF popn >= flnSize(n)
                THEN [popn |-> popn - flnSize(n), freed |-> freed1, reuse |-> reuse]
                ELSE [popn |-> 0, freed |-> freed1 \o SubSeq(n.ptrs, 1, r.remain),
                      reuse |-> r.reuse]
    IN  IF ~(head # 0 /\ Len(reuse) * FREE_LIST_CAP < Len(freed)) THEN done
        ELSE IF ~Readable(n) THEN [done EXCEPT !.st = FlFail(st)]
        ELSE UpdateLoop(st, flnNext(n), next.popn, next.freed, next.reuse, total - flnSize(n))

\* FreeList.Update(popn, freed): [st, head]
Update(st, head, popn, freed) ==
    LET t == Total(st, head)
        l == UpdateLoop(st, head, popn, freed, << >>, t.n)
        p == flPush(l.st, l.head, l.freed, l.reuse)
        h == FlGet(p.st, p.head)
    IN  IF t.st.err \/ popn > t.n THEN [st |-> FlFail(st), head |-> head]
        ELSE IF popn = 0 /\ freed = << >> THEN [st |-> st, head |-> head]
        ELSE IF l.st.err \/ ~(Len(l.reuse) * FREE_LIST_CAP >= Len(l.freed) \/ l.head = 0)
             THEN [st |-> FlFail(l.st), head |-> l.head]
        ELSE IF p.st.err \/ ~Readable(h) THEN [st |-> FlFail(p.st), head |-> p.head]
        ELSE [st |-> FlPut(p.st, p.head, flnSetTotal(h, l.total + Len(l.freed))),
              head |-> p.head]
==============================================================================
