------------------------------- MODULE KVStore -------------------------------
(***************************************************************************)
(* The page store of src/db/kv.go on the path the program uses: KV.Open,  *)
(* KV.Update (Get, the mode check, Set), KV.Del and KV.Close, where Set    *)
(* and Del run the B-tree call and then flushPages.  TxSpec adds tx.go:   *)
(* Begin, Abort (rollbackTX) and Commit between any two of those calls.    *)
(*                                                                         *)
(* Memory: the tree root, free.head, page.flushed, page.nfree,             *)
(* page.nappend and page.updates, a function from page numbers to a page,  *)
(* NilPage (a nil entry, a page to free) or NoPage (no entry).  Disk: the *)
(* file's pages, its size in pages and the master page.  The mmap is       *)
(* shared with the file, so a write through it is a write of the file;     *)
(* the 64MiB initial mapping covers every file this model reaches.        *)
(*                                                                         *)
(* flushPages is two steps: the data phase (free-list update, file growth, *)
(* page copy, fsync) ends the Set or Del action; the master phase          *)
(* (masterStore, fsync) is the step MasterStore.  A crash may come before  *)
(* or after either.  An Assert or panic of the code kills the process.    *)
(***************************************************************************)
EXTENDS Integers, Sequences, FiniteSets, SequencesExt

CONSTANTS
    Keys, Vals, NoVal, Nil,
    PAGE_SIZE, HEADER, SLOT, KeyLen(_), ValLen(_), BTREE_MAX_KEY_SIZE,
    FREE_LIST_CAP,
    MaxPtr,           \* page numbers are 0 .. MaxPtr - 1; a call needing more is not taken
    FreedOrders(_)    \* the orders Go's map iteration can give a set of page numbers

VARIABLES
    status,     \* "down", "up", "dead" (a panic) or "broken" (Open failed)
    pc,         \* "idle", or "master" between the data and master phases
    root, head, flushed, nfree, nappend, updates,   \* KV in memory
    file, fileSize, master,                          \* the file
    durable,    \* the map as of the last master page written
    last,       \* the KV call just completed and its result
    txn         \* the caller's KVTX (tx.go): the root and head Begin saved, or NoTx

mem  == << root, head, flushed, nfree, nappend, updates >>
disk == << file, fileSize, master >>
vars == << status, pc, mem, disk, durable, last, txn >>

Ptrs == 0 .. MaxPtr - 1
(* The page table's keys: the pages, and the page number FreeList reads  *)
(* from a B-tree page's offsets or key bytes (FL!JUNK, -1), which pageNew *)
(* and pageUse store like any other; only the mmap has no page there.     *)
Slots == Ptrs \cup {-1}
Modes == {"upsert", "insert_only", "update_only"}

PanicPage == [type |-> -1, kvs |-> << >>]
NoPage    == [type |-> -2, kvs |-> << >>]
NilPage   == [type |-> -3, kvs |-> << >>]
ZeroPage  == [type |-> 0, kvs |-> << >>, ptrs |-> << >>, next |-> 0, total |-> 0]
NoCall    == [op |-> "none", key |-> NoVal, val |-> NoVal, ok |-> FALSE]
NoMaster  == [sig |-> FALSE, root |-> 0, used |-> 0, head |-> 0]
NoTx      == [root |-> -1, head |-> -1]
\* page 0 of the file once masterStore has written it (FreeList decodes it)
MasterPage == [type |-> 30018, kvs |-> << >>]

(* The page callbacks over a store record st holding the KV's fields. *)
pageGetMapped(st, ptr) ==
    IF ~(ptr \in Ptrs /\ ptr < st.fileSize) THEN PanicPage   \* SIGBUS, bad ptr
    ELSE IF ptr = 0 /\ st.sig THEN MasterPage ELSE st.file[ptr]
pageGet(st, ptr) ==
    IF ptr \notin Slots THEN PanicPage
    ELSE IF st.updates[ptr] = NilPage THEN PanicPage        \* Assert(page != nil)
    ELSE IF st.updates[ptr] # NoPage THEN st.updates[ptr]
    ELSE pageGetMapped(st, ptr)
pageAppend(st, node) ==
    LET ptr == st.flushed + st.nappend
    IN  IF ptr \notin Ptrs THEN [st |-> [st EXCEPT !.full = TRUE], ptr |-> 0]
        ELSE [st |-> [st EXCEPT !.nappend = @ + 1, !.updates[ptr] = node], ptr |-> ptr]
pageUse(st, ptr, node) == [st EXCEPT !.updates[ptr] = node]
pageDel(st, ptr) == IF ptr \in Slots THEN [st EXCEPT !.updates[ptr] = NilPage] ELSE st
\* a write into the slice fl.get returned: the pending page, or the mapped file
pagePut(st, ptr, node) ==
    IF st.updates[ptr] # NoPage THEN [st EXCEPT !.updates[ptr] = node]
    ELSE [st EXCEPT !.file[ptr] = node]

FL == INSTANCE FreeList WITH FlGet <- pageGet, FlNew <- pageAppend,
                             FlUse <- pageUse, FlPut <- pagePut

pageNew(st, node) ==
    LET t == FL!Total(st, st.head)
        g == FL!Get(st, st.head, st.nfree)
    IN  IF t.st.err THEN [st |-> t.st, ptr |-> 0]
        ELSE IF st.nfree < t.n
        THEN [st |-> [g.st EXCEPT !.nfree = @ + 1, !.updates[g.ptr] = node], ptr |-> g.ptr]
        ELSE pageAppend(st, node)

T == INSTANCE BTree WITH PageGet <- pageGet, PageNew <- pageNew, PageDel <- pageDel

Mem == [root |-> root, head |-> head, flushed |-> flushed, nfree |-> nfree,
        nappend |-> nappend, updates |-> updates, file |-> file,
        fileSize |-> fileSize, err |-> FALSE, full |-> FALSE, torn |-> {},
        sig |-> master.sig]
\* the file as Open finds it
Disk == [Mem EXCEPT !.updates = [p \in Slots |-> NoPage], !.head = master.head]

(* extendFile: grow by an eighth of the file, at least one page, until   *)
(* npages fit.                                                            *)
\* mutant: the growth loop stops one page short of npages
RECURSIVE extendFileShort(_, _)
extendFileShort(filePages, npages) ==
    IF filePages >= npages - 1 THEN filePages
    ELSE extendFileShort(filePages + (IF filePages \div 8 < 1 THEN 1 ELSE filePages \div 8), npages)
RECURSIVE extendFile(_, _)
extendFile(filePages, npages) ==
    IF filePages >= npages THEN filePages
    ELSE extendFile(filePages + (IF filePages \div 8 < 1 THEN 1 ELSE filePages \div 8), npages)

(* writePages and the first fsync of syncPages: free the nil entries in  *)
(* order, grow the file, copy every pending page except page 0.           *)
\* the rest of writePages on u, the result of the free list update
writeOut(u) ==
    LET s == [u.st EXCEPT !.head = u.head]
        size == extendFile(s.fileSize, s.flushed + s.nappend)
        copied == {p \in Ptrs \ {0} : s.updates[p] \notin {NoPage, NilPage}}
    IN  IF u.st.err \/ u.st.full THEN u.st
        ELSE IF size > MaxPtr THEN [s EXCEPT !.full = TRUE]
        \* the copy loop panics at the JUNK page, after the pages map order put first
        ELSE IF s.updates[-1] \notin {NoPage, NilPage}
             THEN [s EXCEPT !.err = TRUE, !.fileSize = size, !.torn = copied]
        ELSE [s EXCEPT !.fileSize = size,
                       !.file = [p \in Ptrs |-> IF p \in copied THEN s.updates[p] ELSE s.file[p]]]
writePages(st, order) == writeOut(FL!Update(st, st.head, st.nfree, order))
Freed(st) == {p \in Slots : st.updates[p] = NilPage}

\* masterStore: flushed becomes the number of entries of page.updates
masterStore(st) ==
    [sig |-> TRUE, root |-> st.root, used |-> Cardinality({p \in Slots : st.updates[p] # NoPage}),
     head |-> st.head]

Init ==
    /\ status = "down" /\ pc = "idle"
    /\ root = 0 /\ head = 0 /\ flushed = 0 /\ nfree = 0 /\ nappend = 0
    /\ updates = [p \in Slots |-> NoPage]
    /\ file = [p \in Ptrs |-> ZeroPage] /\ fileSize = 0 /\ master = NoMaster
    /\ durable = [k \in Keys |-> NoVal]
    /\ last = NoCall
    /\ txn = NoTx

(* A panic kills the process.  The file keeps what the call wrote through *)
(* the mmap before it (st.file, st.fileSize), and, when the panic is the  *)
(* copy loop's, any of the pages the loop copied first (st.torn).         *)
Die(st) ==
    /\ status' = "dead"
    /\ \E S \in SUBSET st.torn :
          file' = [p \in Ptrs |-> IF p \in S THEN st.updates[p] ELSE st.file[p]]
    /\ fileSize' = st.fileSize
    /\ UNCHANGED << pc, mem, master, durable, last, txn >>
\* a call's store: a panic kills the process; overflowing MaxPtr is not taken
Apply(st, nextpc, call) ==
    /\ ~st.full
    /\ IF st.err
       THEN Die(st)
       ELSE /\ pc' = nextpc
            /\ root' = st.root /\ head' = st.head /\ flushed' = st.flushed
            /\ nfree' = st.nfree /\ nappend' = st.nappend /\ updates' = st.updates
            /\ file' = st.file /\ fileSize' = st.fileSize /\ last' = call
            /\ UNCHANGED << status, master, durable, txn >>

\* a fresh KV struct, as a new process has it before Open
Fresh ==
    /\ root' = 0 /\ head' = 0 /\ flushed' = 0 /\ nfree' = 0 /\ nappend' = 0
    /\ updates' = [p \in Slots |-> NoPage]

(* KV.Open on the file as it is: a new page table holding page 0;       *)
(* masterLoad (an empty file needs no master page; otherwise loadMeta    *)
(* asserts the signature and checks 1 <= used <= file pages and         *)
(* root < used); then pages 1 .. used - 1 are copied into the table.    *)
(* A failed check goes to Close on the half-open store, whose flush has *)
(* nothing to write and whose masterStore writes root 0 and used 1.     *)
Open ==
    /\ status = "down"
    /\ pc' = "idle" /\ nfree' = 0 /\ nappend' = 0
    /\ UNCHANGED << file, fileSize, last, txn >>
    /\ CASE fileSize = 0 ->
              /\ status' = "up" /\ root' = 0 /\ head' = 0 /\ flushed' = 1
              /\ updates' = [p \in Slots |-> IF p = 0 THEN ZeroPage ELSE NoPage]
              /\ UNCHANGED << master, durable >>
         [] ~master.sig ->
              status' = "dead" /\ UNCHANGED << root, head, flushed, updates, master, durable >>
         [] ~(1 <= master.used /\ master.used <= fileSize /\ master.root < master.used) ->
              /\ status' = "broken"
              /\ root' = 0 /\ head' = 0 /\ flushed' = 1
              /\ updates' = [p \in Slots |-> IF p = 0 THEN ZeroPage ELSE NoPage]
              /\ master' = [sig |-> TRUE, root |-> 0, used |-> 1, head |-> 0]
              /\ durable' = [k \in Keys |-> NoVal]
         [] OTHER ->
              /\ status' = "up"
              /\ root' = master.root /\ head' = master.head /\ flushed' = master.used
              /\ updates' = [p \in Slots |-> IF p = 0 THEN ZeroPage
                                             ELSE IF 0 < p /\ p < master.used THEN file[p] ELSE NoPage]
              /\ UNCHANGED << master, durable >>

RECURSIVE Loops(_, _, _)
(* The tree below ptr links back to a page on the path to it.  Only a   *)
(* corrupt store has such a tree; the recursive descents of btree.go    *)
(* then never end and the Go runtime kills the process.                 *)
Loops(st, ptr, path) ==
    LET n == pageGet(st, ptr) IN
    \/ ptr \in path
    \/ n.type = T!BNODE_NODE /\ \E s \in Range(n.kvs) : Loops(st, s.ptr, path \cup {ptr})
Cyclic(st) == st.root # 0 /\ Loops(st, st.root, {})

\* the data phase of flushPages after a tree call, unless the call panicked
Flush(st, order) == IF st.err THEN st ELSE writePages(st, order)

ModeAllows(mode, found) ==
    ~(found /\ mode = "insert_only") /\ ~(~found /\ mode = "update_only")

(* KV.Update: db.Get, the mode check (a rejected mode returns an error   *)
(* and changes nothing), then Set: BTree.Insert and the data phase.      *)
Update(k, v, mode) ==
    /\ status = "up" /\ pc = "idle"
    /\ IF Cyclic(Mem) THEN Die(Mem)
       ELSE \E g \in {T!Read(Mem, root, k)} :
            IF g.panic THEN Die(Mem)
            ELSE /\ ModeAllows(mode, g.found)
                 /\ \E r \in {T!Insert(Mem, root, k, v)} :
                    \E order \in FreedOrders(Freed(r.st)) :
                       Apply(Flush([r.st EXCEPT !.root = r.root], order), "master",
                              [op |-> "insert", key |-> k, val |-> v, ok |-> TRUE])

\* KV.Del: BTree.Delete and the data phase, whether or not the key was there
Del(k) ==
    /\ status = "up" /\ pc = "idle"
    /\ IF Cyclic(Mem) THEN Die(Mem)
       ELSE \E r \in {T!Delete(Mem, root, k)} :
            \E order \in FreedOrders(Freed(r.st)) :
                   Apply(Flush([r.st EXCEPT !.root = r.root], order), "master",
                          [op |-> "delete", key |-> k, val |-> NoVal, ok |-> r.deleted])

(* The master phase of flushPages (syncPages after its first fsync):    *)
(* masterStore sets flushed to the size of the page table and writes     *)
(* root, flushed and head with one pwrite; then fsync.                   *)
\* the map BTree.Read finds through the page table (a cyclic tree holds none)
MemDict == [k \in Keys |-> LET r == T!Read(Mem, root, k)
                           IN  IF ~Cyclic(Mem) /\ r.found THEN r.val ELSE NoVal]
MasterStore ==
    /\ status = "up" /\ pc = "master"
    /\ master' = masterStore(Mem)
    /\ flushed' = master'.used
    /\ durable' = MemDict
    /\ pc' = "idle"
    /\ UNCHANGED << status, root, head, nfree, nappend, updates, file, fileSize, last, txn >>

(* KV.Close: writePages, syncPages, fsync, masterStore again, unmap.    *)
(* The process then ends, its KV struct as Close left it; a later Open  *)
(* is a new process with a fresh struct.                                *)
Close ==
    /\ status = "up" /\ pc = "idle"
    /\ \E order \in FreedOrders(Freed(Mem)) :
       \E s \in {writePages(Mem, order)} :
         /\ ~s.full
         /\ IF s.err
            THEN Die(s)
            ELSE /\ status' = "down" /\ txn' = NoTx /\ UNCHANGED << mem, last >>
                 /\ file' = s.file /\ fileSize' = s.fileSize
                 /\ master' = masterStore(s)
                 /\ durable' = MemDict
                 /\ UNCHANGED pc

(* The process dies (power loss, kill) between any two steps: memory is *)
(* lost, the file keeps every write made so far.                        *)
Crash ==
    /\ status = "up"
    /\ status' = "down" /\ pc' = "idle" /\ Fresh /\ txn' = NoTx
    /\ UNCHANGED << disk, durable, last >>

(* tx.go.  KV.Begin saves the root and the free-list head in the KVTX.  *)
(* KVTX.Get and KVTX.Seek only read; KVTX.Update calls BTree.InsertEx,  *)
(* which is empty, so none of them is a step.                           *)
Begin ==
    /\ status = "up" /\ pc = "idle"
    /\ txn' = [root |-> root, head |-> head]
    /\ UNCHANGED << status, pc, mem, disk, durable, last >>

\* rollbackTX: the saved root and head back, the page table emptied
rollbackTX ==
    /\ root' = txn.root /\ head' = txn.head
    /\ nfree' = 0 /\ nappend' = 0 /\ updates' = [p \in Slots |-> NoPage]

\* KV.Abort, and the caller's KVTX is done with
Abort ==
    /\ status = "up" /\ pc = "idle" /\ txn # NoTx
    /\ rollbackTX /\ txn' = NoTx
    /\ UNCHANGED << status, pc, flushed, disk, durable, last >>

(* KV.Commit: nothing if the root is the one Begin saved; otherwise      *)
(* writePages and fsync (phase 1), then flushed += nappend and the page *)
(* table, nfree and nappend reset, then masterStore and fsync (phase 2, *)
(* the step MasterStore).  I/O errors, whose path calls rollbackTX, are *)
(* not modelled.                                                        *)
Commit ==
    /\ status = "up" /\ pc = "idle" /\ txn # NoTx
    /\ IF root = txn.root
       THEN txn' = NoTx /\ UNCHANGED << status, pc, mem, disk, durable, last >>
       ELSE \E order \in FreedOrders(Freed(Mem)) :
            \E s \in {writePages(Mem, order)} :
              /\ ~s.full
              /\ IF s.err THEN Die(s)
                 ELSE /\ pc' = "master" /\ txn' = NoTx
                      /\ head' = s.head /\ flushed' = s.flushed + s.nappend
                      /\ nfree' = 0 /\ nappend' = 0 /\ updates' = [p \in Slots |-> NoPage]
                      /\ file' = s.file /\ fileSize' = s.fileSize
                      /\ UNCHANGED << status, root, master, durable, last >>

\* the calls of tx.go: one KVTX at a time, as a caller holds it
TxStep == Begin \/ Abort \/ Commit

Next ==
    \/ Open \/ MasterStore \/ Close \/ Crash
    \/ \E k \in Keys : Del(k) \/ \E v \in Vals, mode \in Modes : Update(k, v, mode)

Spec == Init /\ [][Next]_vars
\* the same store with transactions (tx.go) around the calls
TxSpec == Init /\ [][Next \/ TxStep]_vars

\* durable and last are ghosts no step reads: states that differ only in
\* them have the same futures
StoreView == << status, pc, mem, disk >>

(* The server's use (src/server/server.go:64-65): os.Remove the file,   *)
(* KV.Open on the empty file, then calls until the process ends; the   *)
(* next start removes the file again, so nothing is ever reopened.      *)
SessionNext ==
    \/ Open /\ fileSize = 0 /\ ~master.sig
    \/ MasterStore \/ Close
    \/ \E k \in Keys : Del(k) \/ \E v \in Vals, mode \in Modes : Update(k, v, mode)

SessionSpec == Init /\ [][SessionNext]_vars

-----------------------------------------------------------------------------
(* Views of the store used by the properties. *)
\* the dictionary the tree read from the file through the master page holds
DiskCyclic == Cyclic([Disk EXCEPT !.root = master.root])
DiskRead(k) == T!Read(Disk, master.root, k)
DiskDict == [k \in Keys |-> IF DiskRead(k).found THEN DiskRead(k).val ELSE NoVal]

RECURSIVE TreeReach(_, _, _)
\* the pages of the tree below ptr, read through pageGet
TreeReach(st, ptr, d) ==
    LET n == pageGet(st, ptr) IN
    IF d = 0 \/ n.type \notin {T!BNODE_NODE, T!BNODE_LEAF} THEN {}
    ELSE {ptr} \cup IF n.type = T!BNODE_LEAF THEN {}
                    ELSE UNION {TreeReach(st, s.ptr, d - 1) : s \in Range(n.kvs)}

RECURSIVE ListNodes(_, _, _)
\* the pages of the free list from ptr, head first
ListNodes(st, ptr, d) ==
    IF d = 0 \/ ptr = 0 \/ pageGet(st, ptr).type # FL!BNODE_FREE_LIST THEN << >>
    ELSE << ptr >> \o ListNodes(st, pageGet(st, ptr).next, d - 1)

ListPtrs(st) ==
    LET nodes == ListNodes(st, st.head, MaxPtr)
    IN  FlattenSeq([i \in DOMAIN nodes |-> pageGet(st, nodes[i]).ptrs])

(* No Assert, checkAssertion, panic("bad node!") or fault past the end  *)
(* of the file ever fires, in any interleaving of calls, crashes and    *)
(* reopenings.                                                          *)
NoPanic == status # "dead"

(* KV.Open accepts every file this store wrote: the master page it finds *)
(* after a crash or a Close passes loadMeta's checks.                    *)
OpenSucceeds == status # "broken"

(* Copy-on-write (spec.md 3, 4.5): the data phase never overwrites a     *)
(* page the master page on disk still needs, so the tree reached from    *)
(* the durable master page always reads as the map it was written with, *)
(* before, during and after any later flush, and without a panic.        *)
DurableIntact ==
    master.sig =>
        /\ ~DiskCyclic
        /\ \A k \in Keys : ~DiskRead(k).panic /\ DiskDict[k] = durable[k]

(* The free-list accounting of spec.md 8: between calls, the pointers on *)
(* the list are distinct, none is a page of the tree or of the list,    *)
(* the head's total counts them, and every page in the page table is    *)
(* one of the three (no page leaks).                                    *)
FreeListExact ==
    status = "up" /\ pc = "idle" =>
    LET free  == ListPtrs(Mem)
        nodes == Range(ListNodes(Mem, head, MaxPtr))
        live  == TreeReach(Mem, root, MaxPtr) \cup nodes
    IN  /\ Len(free) = Cardinality(Range(free))
        /\ Range(free) \cap live = {}
        /\ FL!Total(Mem, head).n = Len(free)
        /\ {p \in Ptrs \ {0} : updates[p] # NoPage} \subseteq live \cup Range(free)

(* Every master page this store writes passes loadMeta's range check on *)
(* its page count: masterStore's used (the size of the page table)      *)
(* never exceeds the pages extendFile gave the file, and the free-list  *)
(* head it records lies inside the file, across crashes and reopenings. *)
MasterWithinFile ==
    master.sig => 1 <= master.used /\ master.used <= fileSize /\ master.head < fileSize

Dict == INSTANCE KVDict WITH dict <- MemDict

(* Refinement: in the server's session, every KV.Update and KV.Del,     *)
(* with its B-tree call over pages that pageNew may take back from the  *)
(* free list and the flush that follows, changes the map BTree.Read     *)
(* finds exactly as KVDict's Put and Remove, and Del reports whether    *)
(* the key was present.                                                 *)
DictRefinement == Dict!Spec
====
