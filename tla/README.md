# TLA+ models of the storage engine and its server

This directory holds TLA+ models of the copy-on-write B-tree storage engine in
`src/`, of its range iterator and of the key/value server with its access control, the TLC configurations that check them, and `PROJECT.json`, which lists
the components, runs, mutants, the source lines each definition translates,
the findings and the hazards.

## The system

| Part | Source | What it does |
|---|---|---|
| Page codec | `src/types/bnode.go` | the byte layout of a node: type, key count, pointers, offsets, key/value pairs; lookup, insert, update, split |
| B-tree engine | `src/types/btree.go` | `Insert`, `Delete` and `Read` by copy-on-write descent; pages are reached only through the callbacks `Get`, `New` and `Del` |
| Range iterator | `src/types/biter.go` | a root-to-leaf path with positions; `SeekLE`, `Next`, `Prev` and `Deref` |
| Free list | `src/db/FreeList.go` | a linked list of free page numbers, kept in pages of its own; `Total`, `Get(i)` and `Update(popn, freed)` |
| Page store | `src/db/kv.go`, `src/db/tx.go` | the file, the mmap, the pending page table `page.updates`, the allocation callbacks, `flushPages` (free-list update, page copy, fsync, master page) and `Open`/`Close` |
| Relational layer | `src/db/db.go`, `update.go`, `scaner.go` | tables and records encoded as keys and values of the page store |
| Server and client | `src/server/server.go`, `src/client/client.go` | an authenticated key/value service over the relational layer: REGISTER and LOGIN handshakes, then session requests |
| Access control | `src/server/DAC.go` | per-key owner and reader, writer, copy-from, copy-to and indirect lists; effective rights by a breadth-first walk over indirects |

How they interact: the page store gives the B-tree its page callbacks
(`pageGet`, `pageNew`, `pageDel`) and gives the free list its own
(`pageGet`, `pageAppend`, `pageUse`). `KV.Set` and `KV.Del` each call the tree
and then `flushPages`. `flushPages` collects the pages the tree freed, pushes
them onto the free list, copies the pending pages into the file, fsyncs, and
writes the master page (root, flushed-page count, free-list head). The server
runs every request on one goroutine, so the store has one caller at a time. The
server deletes the database file before it opens it. `tx.go` adds
transactions (`Begin` saves the root and free-list head, `Abort` restores them
and empties the page table, `Commit` writes the pages and the master page), but
nothing in `src/` calls them. `KVTX.Seek` and `scaner.go` call a `BTree.Seek` that
`src/` does not define (only `SeekLE` exists).

The client (`client.go`) and the server run in one process and talk over two
unbuffered channels: `ProcessOp` sends one request and waits for its answer,
and the server's goroutine handles requests one at a time (`receiveThenSend`).
A client without a session sends REGISTER and LOGIN handshakes, which a server
in `INIT` reads. After a LOGIN, both sides hold the session uid and key, and
every request is encrypted under that key and read by a server in `SESSION`.
The client puts its own `sessionUID` into every session request. The server
authorises the request with that `request.Uid`, checked against the DAC. Key
data lives in the db table `key_value` and user passwords in the db table
`shadow`. The server also keeps in-memory copies of both: `kvstore` and `shadow`.

## Modules

- `KVDict`: the abstract specification of the engine: a map from keys to
  values plus `last`, the call just completed and its result. `Put(k, v)` and
  `Remove(k)` are its only steps, and `Remove` returns whether `k` was present.
- `BTree`: pure operators translated from `btree.go` and `bnode.go`.
  - A node is `[type, kvs]`, where `kvs` is the sequence of its slots `[key, ptr, val]`.
  - Indexes are 0-based and uint16 (`U16`), as in the code.
  - Keys are naturals; key 0 is the empty sentinel key.
  - Sizes keep the code's byte accounting: `HEADER`, plus per slot `SLOT + KeyLen(key) + ValLen(val)`. So the split loops of `nodeSplit2` and the quarter-page merge test of `shouldMerge` decide exactly as in the code.
  - The callbacks are constant operators `PageGet`, `PageNew` and `PageDel`. They thread a store value `st` through the call; its field `err` records a `checkAssertion` or `panic("bad node!")`.
  - Every recursive function of the code is a `RECURSIVE` operator of the same name.
- `BTreeSpec`: the B-tree over an arena of `MaxPages` pages, as a caller that
  frees a page at once and allocates the lowest free page.
  - Variables: `root` (`BTree.Root`), `pages` (the arena), `panicked` (an assertion fired, which kills the process), and `last` (the call and its result).
  - Actions: `Insert(k, v)` and `Delete(k)`, each one whole call of `BTree.Insert` or `BTree.Delete`.
  - A call that would need more than `MaxPages` pages is not taken. That is the model's bound.
- `MCBTree`: model values and the key/value length functions for the configurations.

- `FreeList`: `Total`, `Get`, `flPush` and `Update` of `FreeList.go`.
  - They are operators over a store value `st`, reached only through the constant callbacks `FlGet`, `FlNew`, `FlUse` and `FlPut`.
  - A list node is `[type, kvs, ptrs, next, total]`. Its `kvs` is empty, so that a B-tree read that lands on a list page sees a node with no keys instead of failing.
  - The list reads whatever page its head or `next` names. `ListView` decodes a page that is not a list node by its bytes, as `flnSize`, `flnNext` and `flnPtr` do: a B-tree node gives size `nkeys`, total its first pointer and next its second, and its entries are its pointers from the third on. Words past the pointer array are key and value bytes, a number past the mmap (`JUNK`). The master page's signature gives a size of 27753 and a huge total (`MASTER_TYPE`, `BIG`), and `Get` slices past the page and panics. `flnSetTotal` writes into a B-tree node's first pointer.
  - `Update` is its whole function: the pop loop (`UpdateLoop`), the reclaim of pointers from a partly popped node (`Reclaim`), the push (`flPush`, which ends with the tail call `flPush(reuse, nil)`) and the final write of the total into the head node.
  - Each `Assert` of the code sets `st.err`.
- `KVStore`: the page store of `kv.go`, composing `BTree` and `FreeList` through `INSTANCE ... WITH` its callbacks.
  - The B-tree gets `pageGet`, `pageNew` and `pageDel`. The free list gets `pageGet`, `pageAppend`, `pageUse` and `pagePut`.
  - Variables:
    - the process: `status` (`down`, `up`, `dead` after a panic, `broken` after Open rejected the master page) and `pc` (`idle`, or `master` between the data and master phases of `flushPages`);
    - the KV struct: `root`, `head` (`free.headPage`), `flushed`, `nfree`, `nappend` and `updates` (`page.updates`, with `NoPage` for an absent entry and `NilPage` for a freed one);
    - the file: `file` (its pages), `fileSize` and `master` (page 0);
    - two ghosts: `durable`, the map the last master write committed, and `last`, the last call for the refinement.
  - Actions:
    - `Update(k, v, mode)`: `KV.Update`, i.e. `Get`, the mode check, then `Set`, which is `BTree.Insert` and the data phase of `flushPages` (`writePages`: free-list update, `extendFile`, page copy, first fsync).
    - `Del(k)`: `BTree.Delete` and the same data phase.
    - `MasterStore`: the master phase (`masterStore`, second fsync).
    - `Close`: `writePages`, `syncPages` and the process ending.
    - `Open`: `KV.Open`, with `masterLoad` and `loadMeta` on a fresh struct, and the failure path that calls `Close`.
    - `Crash`: the process dies between any two steps.
    - A junk pointer the list hands out becomes a key of `page.updates` (the slot `-1` of `Slots`). `writePages` copies the pages in Go map order and panics when it reaches it (`pageGetMapped`'s `bad ptr`), so `Die` keeps any subset of the pages it had copied (`torn`).
    - Page 0 of the file is the master page: once a master page was written, `pageGetMapped(0)` returns `MasterPage`, which the free list reads after `rollbackTX` or `Commit` left the head at 0.
    - `Begin`, `Abort` (`rollbackTX`) and `Commit` of `tx.go`, with the variable `txn` (the root and head the caller's `KVTX` saved). `Commit`'s phase 2 is the `MasterStore` step. `KVTX.Get` only reads, and `KVTX.Update` calls the empty `InsertEx`, so neither is an action.
  - `Spec` is the program's path. `TxSpec` adds the transaction actions between any two calls.
  - The freed pages reach `FreeList.Update` in Go map order, which is unspecified. `FreedOrders(S)` gives the orders a run enumerates: every order in the session run, ascending in the others.
  - A tree that links back to a page on its own path (`Cyclic`) makes the code recurse forever. The model treats this as the process dying.
  - `SessionSpec` is the server's use (`server.go:63-70`): remove the file, open it once, then calls until the process ends. `Spec` adds crashes and reopenings of the same file.
- `MCKVStore`: model values, one-byte sizes and the two `FreedOrders`.

- `BIter`: the range iterator of `biter.go` over the tree of `BTreeSpec`.
  - Variables: `path` and `pos` (`BIter.path`, `BIter.pos`), `live` (an iterator is in use), and the ghost `seen` of a forward scan.
  - `descend` is the loop of `Init` and `SeekLE`. `iterNext` and `iterPrev` are the code's recursive functions, and `reloadNext`/`reloadPrev` are their reload of the level below.
  - Actions: `IterInit`, `SeekLE(k)`, `IterNext`, `IterPrev`, `Drop` (the caller lets the iterator go) and `TreeStep` (an `Insert` or `Delete` while no iterator is in use, as every caller does).
  - `ISpec` interleaves all of these. `ScanSpec` is a forward scan: build a tree, `Init`, then `Next` for as long as the caller goes on.
- `MCBIter`: the view `IterView` (see Runs).
- `Server`: the client and the server, one step per client operation.
  - Each step covers client `ProcessOp`, the server's `process` and handler, and the client's handling of the answer.
  - `Init` is the state after `server.go:63-70`. `TableNew` gives `shadow` prefix 1 (that of `@meta`) and `key_value` prefix 2 (that of `@table`), so the db table `key_value` starts with the rows `shadow` and `key_value` (`TableKeys`) and `shadow` with `@meta`'s row `next_prefix` (`MetaUsers`), both with a `Foreign` value. REGISTER's and CREATE's `db.Insert` is insert-only and its error is ignored, so such a row is never overwritten.
  - Variables: `clientUID` (the client's `sessionUID`), `serverState` and `sessionUID` (the server's), `shadow` (the in-memory map) and `shadowTable` (the db table), `kvstore` (its key set) and `kvTable` (the db table `key_value`), and `Keys` (the DAC).
  - DAC operators: `isOwner`, `DeleteKey`, `Create`, `Modacl` and `Revacl`. `bfs` is a recursive operator over the queue, the visited set and the principals. `R`, `W`, `Csrc` and `Cdst` are the code's functions.
  - Actions: `Register(u, p)` and `Login(u, p)` compose the client's handshake with `DoPhase2Register` and `DoPhase2Login`; `Logout`; and `SessionOp`, which is one of `doCreate`, `doDelete`, `doCopy`, `doWriteVal`, `doModacl` or `doChangePassword`, with the uid `RequestUid` puts into the request.
  - `doReadVal` and `Revacl` change nothing and are operators.
  - Abstracted: a failed check changes nothing, so it is a stuttering step. A handshake to a server in `SESSION`, or a session request to a server in `INIT`, cannot be decrypted and fails.
- `MCServer`: users, keys and the ACL lists that CREATE and MODACL requests carry.
- `Relational`: the record/table layer of `db.go`, `update.go` and `scaner.go` over the KV store taken at the level of its dictionary (`KVDict`, with `KV.Update`'s mode checks).
  - Byte strings are sequences of naturals below 256. A row's key is `encodeKey`: the 4-byte big-endian prefix, then the escaped, 0-terminated primary key; its value is `encodeValues` of the other columns.
  - Codec operators keep the code's names: `escapeString`, `unEscapeString` (`RECURSIVE`), `encodeValues`, `encodeKey`, `decodeValues` (`RECURSIVE`). Each `Assert` they can hit makes a result's `ok` false.
  - `checkRecord`, `dbGet` (through `dbScan`, `Scanner.Valid` and `Scanner.Deref`), `dbUpdate`, `dbDelete`, `getTableDef` with `getTableDefDB`, and `TableNew` are operators that take the dictionary and return the new one, so each action is one whole call.
  - Variables: `kv` (the dictionary), `tables` (`DB.tables`, the definition cache), `phase` (how many of the server's `TableNew` calls ran), `dead` (an `Assert` or panic ended the process), and the ghost `written` (the last successful write of each row).
  - Actions: `ServerTableNew` (`server.go:68-69`), then `Set(name, rec, mode)` (`DB.Insert`/`Update`/`Upsert`), `Delete(name, rec)` and `Get(name, rec)` on the server's two tables, with records in both column orders, key-only and wrong-column records.
- `MCRelational`: the server's two `TableDef`s and the keys and cells the runs use.

## Runs

| Run | Config | Checks | Shows |
|---|---|---|---|
| btree_iter | `BTree_iter.cfg` | `TypeOK`, `BTreeShape`, `PagesExact`, `ReadAgrees`, `PathConsistent`, `DictRefinement`, `IterSteps` | any interleaving of `Insert`, `Delete` and iterator calls keeps the tree balanced, sorted and correctly separated; copy-on-write frees exactly what it replaces; `Read` finds what the leaves hold; calls refine `KVDict`; the iterator's path is the tree's own and `Init`, `SeekLE`, and `Next`/`Prev` away from the ends land on the right key |
| btree_panic | `BTree_panic.cfg` | `NoPanic` (violation expected) | a delete kills the process, see Findings |
| kv_session | `KV_session.cfg` | `MasterWithinFile`, `DurableIntact`, `DictRefinement` | in the server's one-session use, with the freed pages in every map order, the calls refine `KVDict`, no page copy overwrites a page the durable master needs, including the pages a `writePages` that panics halfway has already copied, and every master page written counts pages and names a list head inside the file |
| kv_freelist | `KV_freelist.cfg` | `FreeListExact` (violation expected) | the free list comes to list its own node page |
| kv_abort | `KV_abort.cfg` | `OpenSucceeds` under `TxSpec` (violation expected) | a Begin and Abort with no call in between make the next Close write a master page counting 0 pages; the next Open rejects it and its Close erases the store |
| kv_cow | `KV_cow.cfg` | `DurableIntact` (violation expected) | after a reopen, an append overwrites the durable root page |
| iter_scan | `Iter_scan.cfg` | `ScanVisitsAll` | a forward scan eventually stands on every key |
| iter_ends | `Iter_ends.cfg` | `IterMonotone` (violation expected) | `Next` at the last key moves back to a smaller key, see Findings |
| server | `Server.cfg` | `BfsReach`, `SessionAgree`, `Authorized` | `bfs` computes the ACL closure over cycles, self-loops and dangling indirects; every store change, ACL change and READ is by the session user with the rights that closure gives; client and server hold the same session |
| server_password | `Server_password.cfg` | `PasswordChanged` (violation expected) | a successful CHANGE_PASS does not change the password LOGIN accepts, see Findings |
| relational | `Relational.cfg` | `ReadYourWrites`, `CodecRoundTrip`, `KeyOrder` | after the server's two `TableNew` calls, every Insert, Update, Upsert, Delete and Get on `shadow` and `key_value` reads back each row as last written, every stored key and value decodes and re-encodes to itself, and the keys of a table sort as their primary keys |
| relational_prefix | `Relational_prefix.cfg` | `TableIsolation` (violation expected) | the first user table shares its prefix with `@meta`, see Findings |

Bounds, and why they are enough:
- `btree_iter` and `btree_panic` use the code's size ratios, scaled down.
  - A page is 8 bytes, a slot costs 1 byte, and a key or value costs 1 byte. The sentinel key and nil values cost 0.
  - So a leaf holds the sentinel and two keys, an internal node holds four links, and a node of 2 bytes or less asks to merge.
  - `BTREE_MAX_KEY_SIZE` is 1, an eighth of a page; the code's is 1000 of 4096.
- Six keys (eight in `btree_panic`) give trees of height three, with splits and merges at both levels and root growth and collapse.
- The runs use one value, so an `Insert` over a present key rewrites it with the same value. No run checks that an update changes a present key's value; two values made the runs too long.
- `MaxPages` (16) is above the pages any reachable tree needs, so the arena bound never cuts a call short.

The B-tree configurations use `VIEW TreeView` (`btree_iter` uses `IterView`, which contains it): the tree with page numbers replaced by
the subtrees they name, plus the number of allocated pages. Two states that
differ only in page numbers have isomorphic futures, because the arena's choice
of page number is the only difference. Every property is invariant under
renaming pages. The allocated-page count keeps a leaked page visible.

The KV runs scale the page the same way: an 8-byte page, 1-byte keys and
values, and `FREE_LIST_CAP` 2 instead of 509, so list nodes fill and chain.
- `MaxPtr` bounds the page numbers, and so the file. A call that would append
  past it is not taken (`st.full`).
- `kv_session` uses three keys and `MaxPtr` 13, the violation runs `MaxPtr` 10. Three
  inserts already split the root, and deletes free pages for reuse. With 13 pages the session reaches the states where the list hands out its own head page or a B-tree page and reads it back as a list (the process then dies, as the code does).

The iterator runs use the byte-accurate B-tree configuration with six keys
(seven in `iter_scan`). That already gives trees of height three, where `Next`
and `Prev` climb two levels and reload both below. `IterView` replaces the
tree by `TreeView` and the path by the node types and keys along it. This is
sound because the tree does not change while an iterator is live, and
`PathConsistent` checks that the path is the tree's own.

The relational run uses the server's two tables, the keys `<<0>>`, `<<1>>` and the bytes of `shadow`, and the cells `<<0>>` and `<<2>>`, with `IntBytes` 2. The keys 0 and 1 are the two bytes `escapeString` rewrites, so every escape code is stored, decoded and compared; the key `shadow` is the name of a table, which is a key of `@table` too. Every key and cell can be written in three modes and deleted, which reaches every branch of `KV.Update` and of `checkRecord`.

The server runs use two users, two keys, two values and two passwords. `server`
offers three CREATE lists and three MODACL lists: no rights, every right for `u2`, and indirects to both
keys. Together they reach shared rights, self-loops, two-key cycles and
indirects naming a deleted key. Two users are the least that can tell the
session user from another. Two keys are the least that give an indirection.
`SYMMETRY` over the passwords and over the values is sound: the code only
compares them for equality, and so do the properties.

Deadlock checking is off (`CHECK_DEADLOCK FALSE`) for one reason: after a panic
the process is dead and no step is enabled (in `Relational`, `dead`). The same holds for a KV
process that panicked, and for a session whose page numbers reached `MaxPtr`, and for the iterator runs once every key is reached.
The server runs check deadlock: LOGOUT or LOGIN is always possible.

Liveness is checked only for the iterator scan, `ScanVisitsAll` under
`WF(Record(IterNext))`. A caller that scans calls `Next` for as long as it
goes on (the loops of `scaner.go` and `tx.go`), so a `Next` that stays enabled
is eventually taken. The engine and the server are otherwise sequential and
driven by their callers, so no other step has a fairness the code would justify.

## Findings

- `btree_panic`: `nodeDelete` (`btree.go:251-273`) has no case for an emptied kid.
  - The trigger: an internal node with one link, next to a sibling too full to merge, loses the last key of its only leaf.
  - `shouldMerge` then finds no sibling, and `NodeReplaceKidN` calls `GetKey(0)` on the empty leaf, so `checkAssertion` panics.
  - The commented-out earlier version (`btree.go:241-243`) handled this case.
  - TLC's trace: 8 inserts, then deletes of 4, 7 and 6. Internal node 4 is then left linking only the leaf `[8]`, and deleting 8 panics.

- `kv_freelist`: `writePages` (`kv.go:334`) collects every nil entry of `page.updates` on every flush.
  - Nothing removes those entries on the `flushPages` path, so a page freed by one call is pushed again by each later flush.
  - The trace: insert, delete, then deletes of absent keys. `FreeList.Update` ends up housing a list node in a page that the list itself holds.
- A crash inside the first flush (not a checked run): the first flush on an empty file grows the file before `masterStore` writes page 0.
  - After a crash in between, the file is non-empty and its master page is zero.
  - `loadMeta` asserts the signature (`kv.go:375`) before it checks it, so every later Open panics. `KVStore`'s `Spec` reaches this in four steps: `Open` of the empty file, a `Del` of an absent key (its flush still grows the file), a `Crash` before the master phase, and `Open` again. No run checks it.
- The reopen after a crash (not a checked run; `kv_abort` checks the same property): `masterStore` sets `flushed` to `len(page.updates)` (`kv.go:148`), not to one past the highest page.
  - `nappend` is never reset, which leaves gaps, so the root can lie at or past that count.
  - After a crash, `loadMeta` rejects the master page. Open's failure path calls `Close`, whose `masterStore` writes root 0, and every key is lost.
- `kv_abort`: `rollbackTX` empties `page.updates` (`tx.go:41`), which drops the entry for page 0 that `Open` put there.
  - `masterStore` takes `len(page.updates)` as the page count (`kv.go:148`), so `Close` after `Begin` and `Abort` writes a master page whose count is 0.
  - The trace is `Open`, `Close`, `Open`, `Begin`, `Abort`, `Close`, `Open`. The last `Open` fails the `1 <= used` check, and its `Close` writes root 0, so every key is lost. spec.md §6 says a rollback restores the pre-transaction state.
  - `Commit` empties the page table in the same way before `masterStore` (`tx.go:65`).
- `kv_cow`: `pageNew` appends at `flushed + nappend` (`kv.go:170`).
  - After a reopen, `nappend` is 0 and `flushed` undercounts, so the append lands on a live page.
  - In the trace, it lands on the durable root, which the data phase of a split overwrites before the master page switches.
  - Within one session, the never-reset `nappend` keeps appends past the used pages, which is why `kv_session` passes.

- `iter_ends`: `iterNext` at the root's last slot returns at once (`biter.go:41`), as at a dummy key.
  - But every lower frame of the recursion still reloads its kid (`biter.go:43-49`).
  - In a tree of height three, `Next` at the last key therefore moves to the first key of the last leaf. In the trace, the position goes from `<<1,2,1>>` to `<<1,2,0>>`.
  - `Prev` at the sentinel likewise moves to the end of the first leaf.
  - `Valid` never turns false, so a scan driven by `Valid` never ends.
  - spec.md section 8 says forward iteration yields keys in ascending order.
- `server_password`: `doChangePassword` (`server.go:320`) stores the new hash only in the in-memory `shadow` map.
  - But `verifyPassword` (`server.go:177`) reads the db table `shadow`.
  - So after a successful CHANGE_PASS from `p1` to `p2`, LOGIN and CHANGE_PASS still accept `p1` and reject `p2`. The comment at `server.go:299-310` says the operation sets the new password.
- `relational_prefix`: `TableNew` starts allocating prefixes at `TABLE_PREFIX_MIN` = 1 (`db.go:13`, `update.go:67`), which is the prefix of `TDEF_META`; `TDEF_TABLE` has 2.
  - On the server's empty file, `shadow` gets prefix 1 and `key_value` prefix 2.
  - So `@meta`'s `next_prefix` row is a row of `shadow`, and each table definition is a row of `key_value`: a READ of the key `shadow` returns its JSON, and a WRITE or DELETE of it rewrites or removes `@table`'s row.
  - The trace is the two `TableNew` calls. The comment on `TableDef.Prefix` (`db.go:65`) says prefixes are assigned to different tables. With `TABLE_PREFIX_MIN` = 3 the same configuration satisfies `TableIsolation`.

## Not modelled

- The byte layout of pages: offsets, little-endian fields and the copy loops of `nodeAppendRange`. Only the slot sequence and its byte count matter to the B-tree's decisions.
- In `Server`, each db table is a map; `Relational` models the tables' encoding into the one KV dictionary separately, as the server drives it.
- Range scans (`DB.Scan` with bounds other than one key, `Scanner.Next`): no code in `src` calls them. `BTree.Seek` and `CmpOK`, which `dbScan` and `Scanner.Valid` call, are not defined in `src` (the `db` package does not compile as it stands), so `Relational` takes the seek from spec.md section 6.
- The INT64 column encoding beyond its bias (`Bias`, `Unbias`): no table has an INT64 column.
- `json.Marshal` of a `TableDef`: reduced to its name and prefix, the fields that differ between the definitions written.
- Cryptography, signatures, bcrypt and the time-of-day replay check of the handshakes. A message is either readable by the server or not, and passwords are compared as values.
- Requests from anything other than the repository's client, which always puts its own `sessionUID` into `request.Uid`.
- DeleteKey leaves other keys' indirects naming the deleted key, so whoever creates that name next grants its lists to those keys. Nothing states what should happen instead, so this is listed as a hazard with no property.
- I/O errors of `Ftruncate`, `Mmap`, `WriteAt` and `Fsync`.
- The mmap chunk list: the first mapping (64 MiB) covers every file size a run reaches, so `pageGetMapped` reads the file directly.
- `KVTX.Seek` (`tx.go`), which calls a `BTree.Seek` that does not exist, and the I/O-error paths of `Commit`, which call `rollbackTX`.
- `BIter.HasNext`, which returns true and changes nothing.
