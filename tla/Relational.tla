----------------------------- MODULE Relational -----------------------------
(***************************************************************************)
(* The record/table layer of src/db (db.go, update.go, scaner.go) over    *)
(* the key-value store.  Tables are stored in the one KV dictionary: a    *)
(* row's key is the table's 4-byte big-endian prefix followed by the      *)
(* order-preserving encoding of its primary-key columns, its value the    *)
(* encoding of the other columns.  Two internal tables hold the prefix    *)
(* allocator (@meta) and the table definitions (@table).                  *)
(*                                                                         *)
(* The KV store is taken at the level of its dictionary (the KVDict       *)
(* abstraction KVStore is shown to refine), with KV.Update's insert-only  *)
(* and update-only checks.  Byte strings are sequences of naturals below  *)
(* 256; column names are strings, compared only for equality.             *)
(***************************************************************************)
EXTENDS Naturals, Integers, Sequences, SequencesExt, FiniteSets, TLC

CONSTANTS
    ServerTables,     \* the table definitions the server creates at start
    PKeys,            \* primary-key strings the callers use
    Cells,            \* strings stored in the other columns
    ModeZero,         \* the mode TableNew passes as 0 (update.go:79, 87)
    IntBytes,         \* width of an encoded INT64, in bytes (8 in the code)
    TABLE_PREFIX_MIN  \* db.go:13

VARIABLES
    kv,       \* the KV store's dictionary: encoded key -> encoded value
    tables,   \* DB.tables, the cache of table definitions by name
    phase,    \* how many of the server's TableNew calls have run
    dead,     \* an Assert or a panic ended the process
    written   \* ghost: the last successful Set or Delete of each row

vars == << kv, tables, phase, dead, written >>

-----------------------------------------------------------------------------
(* Values and records (db.go:14-48). *)
TYPE_ERROR == 0
TYPE_BYTES == 1
TYPE_INT64 == 2

StrVal(s) == [type |-> TYPE_BYTES, i64 |-> 0, str |-> s]
IntVal(n) == [type |-> TYPE_INT64, i64 |-> n, str |-> << >>]
\* the zero Value, which is also what Record.Get returns for a missing column
ErrVal == [type |-> TYPE_ERROR, i64 |-> 0, str |-> << >>]

EmptyRec == [cols |-> << >>, vals |-> << >>]
AddStr(rec, key, val) == [cols |-> Append(rec.cols, key), vals |-> Append(rec.vals, StrVal(val))]
RecGet(rec, key) ==
    LET i == SelectInSeq(rec.cols, LAMBDA c : c = key)
    IN IF i = 0 THEN ErrVal ELSE rec.vals[i]

\* byte strings spelt out in the code
Ascii_next_prefix == << 110, 101, 120, 116, 95, 112, 114, 101, 102, 105, 120 >>
Ascii_meta == << 64, 109, 101, 116, 97 >>
Ascii_table == << 64, 116, 97, 98, 108, 101 >>

TDEF_META == [Name |-> Ascii_meta, Types |-> << TYPE_BYTES, TYPE_BYTES >>,
              Cols |-> << "key", "val" >>, PKeys |-> 1, Prefix |-> 1]
TDEF_TABLE == [Name |-> Ascii_table, Types |-> << TYPE_BYTES, TYPE_BYTES >>,
               Cols |-> << "name", "def" >>, PKeys |-> 1, Prefix |-> 2]

-----------------------------------------------------------------------------
(* The order-preserving codec (db.go:183-297). *)
\* binary.BigEndian.PutUint32/PutUint64 and their inverses
BigEndian(n, w) == [i \in 1 .. w |-> (n \div 2 ^ (8 * (w - i))) % 256]
FromBigEndian(s) == FoldLeft(LAMBDA acc, b : acc * 256 + b, 0, s)

\* uint64(v) + 1<<63 and int64(u - 1<<63), at IntBytes bytes
IntMod == 2 ^ (8 * IntBytes)
IntBias == 2 ^ (8 * IntBytes - 1)
\* mutant: the sign bias left out
BiasNone(v) == v % IntMod
Bias(v) == (v + IntBias) % IntMod
Unbias(u) == LET s == (u - IntBias) % IntMod IN IF s >= IntBias THEN s - IntMod ELSE s

\* bytes 0 and 1 become 0x01 0x01 and 0x01 0x02, so no encoded string holds 0
\* mutant: only the zero bytes counted before the early return
escapeZerosOnly(in) ==
    IF \A i \in DOMAIN in : in[i] > 0 THEN in
    ELSE FlattenSeq([i \in DOMAIN in |-> IF in[i] <= 1 THEN << 1, in[i] + 1 >> ELSE << in[i] >>])
escapeString(in) ==
    IF \A i \in DOMAIN in : in[i] > 1 THEN in
    ELSE FlattenSeq([i \in DOMAIN in |-> IF in[i] <= 1 THEN << 1, in[i] + 1 >> ELSE << in[i] >>])

\* ok is FALSE where Assert(i+1 < len(in)) fails: a lone 0x01 at the end
\* mutant: the two escape sequences read the wrong way round
RECURSIVE unEscapeSwapped(_)
unEscapeSwapped(in) ==
    IF in = << >> THEN [ok |-> TRUE, out |-> << >>]
    ELSE IF Head(in) = 1
         THEN IF Len(in) < 2 THEN [ok |-> FALSE, out |-> << >>]
              ELSE LET r == unEscapeSwapped(SubSeq(in, 3, Len(in)))
                   IN [r EXCEPT !.out = << IF in[2] = 1 THEN 1 ELSE 0 >> \o @]
         ELSE LET r == unEscapeSwapped(Tail(in)) IN [r EXCEPT !.out = << Head(in) >> \o @]
RECURSIVE unEscapeString(_)
unEscapeString(in) ==
    IF in = << >> THEN [ok |-> TRUE, out |-> << >>]
    ELSE IF Head(in) = 1
         THEN IF Len(in) < 2 THEN [ok |-> FALSE, out |-> << >>]
              ELSE LET r == unEscapeString(SubSeq(in, 3, Len(in)))
                   IN [r EXCEPT !.out = << IF in[2] = 1 THEN 0 ELSE 1 >> \o @]
         ELSE LET r == unEscapeString(Tail(in)) IN [r EXCEPT !.out = << Head(in) >> \o @]

\* the default case panics ("what?"): no Value of another type reaches it
encodeValue(v) ==
    CASE v.type = TYPE_INT64 -> BigEndian(Bias(v.i64), IntBytes)
      [] v.type = TYPE_BYTES -> escapeString(v.str) \o << 0 >>
encodeValues(vals) == FlattenSeq([i \in DOMAIN vals |-> encodeValue(vals[i])])
encodeKey(prefix, vals) == BigEndian(prefix, 4) \o encodeValues(vals)

\* decodeValues for columns of the given types; ok is FALSE where one of
\* its Asserts fails (too few bytes for an INT64, no terminator)
RECURSIVE decodeValues(_, _)
decodeBytes(in, types, nul) ==
    IF nul = 0 THEN [ok |-> FALSE, vals |-> << >>]
    ELSE LET u == unEscapeString(SubSeq(in, 1, nul - 1))
             r == decodeValues(SubSeq(in, nul + 1, Len(in)), Tail(types))
         IN [ok |-> u.ok /\ r.ok, vals |-> << StrVal(u.out) >> \o r.vals]
decodeValues(in, types) ==
    IF types = << >> THEN [ok |-> TRUE, vals |-> << >>]
    ELSE IF Head(types) = TYPE_INT64
    THEN IF Len(in) < IntBytes THEN [ok |-> FALSE, vals |-> << >>]
         ELSE LET r == decodeValues(SubSeq(in, IntBytes + 1, Len(in)), Tail(types))
              IN [r EXCEPT !.vals = << IntVal(Unbias(FromBigEndian(SubSeq(in, 1, IntBytes)))) >> \o @]
    ELSE decodeBytes(in, types, SelectInSeq(in, LAMBDA b : b = 0))

-----------------------------------------------------------------------------
(* The key-value store under the tables (kv.go:89-101, and the seek of   *)
(* the interface spec.md section 6 names: tx.go and scaner.go call a     *)
(* GetTree().Seek that src does not define).                             *)
\* bytes.Compare(a, b) < 0, given the positions where a and b differ
BytesLessAt(a, b, diff) ==
    IF diff = {} THEN Len(a) < Len(b) ELSE a[Min(diff)] < b[Min(diff)]
BytesLess(a, b) == BytesLessAt(a, b, {i \in 1 .. Min({Len(a), Len(b)}) : a[i] # b[i]})

KVUpdate(db, key, val, mode) ==
    IF key \in DOMAIN db /\ mode = "insert_only" THEN [ok |-> FALSE, db |-> db]
    ELSE IF key \notin DOMAIN db /\ mode = "update_only" THEN [ok |-> FALSE, db |-> db]
    ELSE [ok |-> TRUE, db |-> (key :> val) @@ db]
KVDel(db, key) == [ok |-> key \in DOMAIN db, db |-> Restrict(db, DOMAIN db \ {key})]

\* Seek(key, CMP_GE): the first stored key at or after key, << >> if none
\* (no encoded key is empty: each starts with a 4-byte prefix)
SeekIn(ge) == IF ge = {} THEN << >> ELSE CHOOSE k \in ge : \A j \in ge : ~BytesLess(j, k)
Seek(db, key) == SeekIn({k \in DOMAIN db : ~BytesLess(k, key)})

-----------------------------------------------------------------------------
(* Rows (db.go:120-170, scaner.go, update.go:12-52). *)
\* the values of the record in the table's column order; ok is FALSE on
\* a bad length or a column of the wrong type or missing (TYPE_ERROR)
checkValues(tdef, n, vs) == [ok |-> \A i \in 1 .. n : vs[i].type = tdef.Types[i], values |-> vs]
\* mutant: the record's values taken in the order the caller added them
checkRecordInOrder(tdef, rec, n) ==
    IF n < tdef.PKeys \/ n > Len(tdef.Cols) \/ n \notin {tdef.PKeys, Len(tdef.Cols)}
    THEN [ok |-> FALSE, values |-> << >>]
    ELSE checkValues(tdef, n, [i \in 1 .. Len(tdef.Cols) |->
                                 IF i <= n /\ i <= Len(rec.vals) THEN rec.vals[i] ELSE ErrVal])
checkRecord(tdef, rec, n) ==
    IF n < tdef.PKeys \/ n > Len(tdef.Cols) \/ n \notin {tdef.PKeys, Len(tdef.Cols)}
    THEN [ok |-> FALSE, values |-> << >>]
    ELSE checkValues(tdef, n, [i \in 1 .. Len(tdef.Cols) |->
                                 IF i <= n THEN RecGet(rec, tdef.Cols[i]) ELSE ErrVal])

PKeyPart(tdef, vs) == SubSeq(vs, 1, tdef.PKeys)
RestPart(tdef, vs) == SubSeq(vs, tdef.PKeys + 1, Len(tdef.Cols))

\* Scanner.Deref: the record with the other columns decoded and appended
Deref(tdef, rec, d) ==
    [err |-> FALSE, found |-> TRUE, ok |-> d.ok,
     rec |-> [cols |-> rec.cols \o RestPart(tdef, tdef.Cols), vals |-> rec.vals \o d.vals]]
\* Scanner.Valid: the iterator stands on a key at most the end key
dbGetAt(db, tdef, rec, key, at) ==
    IF at = << >> \/ BytesLess(key, at)
    THEN [err |-> FALSE, found |-> FALSE, ok |-> TRUE, rec |-> rec]
    ELSE Deref(tdef, rec, decodeValues(db[at], RestPart(tdef, tdef.Types)))
dbGetKey(db, tdef, rec, key) == dbGetAt(db, tdef, rec, key, Seek(db, key))
\* dbGet: dbScan from Key1 (CMP_GE) to Key2 (CMP_LE), both the record.
\* ok is FALSE where decoding asserts.
dbGetChecked(db, tdef, rec, c) ==
    IF ~c.ok THEN [err |-> TRUE, found |-> FALSE, ok |-> TRUE, rec |-> rec]
    ELSE dbGetKey(db, tdef, rec, encodeKey(tdef.Prefix, PKeyPart(tdef, c.values)))
dbGet(db, tdef, rec) == dbGetChecked(db, tdef, rec, checkRecord(tdef, rec, tdef.PKeys))

dbUpdateChecked(db, tdef, c, mode) ==
    IF ~c.ok THEN [ok |-> FALSE, db |-> db]
    ELSE KVUpdate(db, encodeKey(tdef.Prefix, PKeyPart(tdef, c.values)),
                  encodeValues(RestPart(tdef, c.values)), mode)
dbUpdate(db, tdef, rec, mode) == dbUpdateChecked(db, tdef, checkRecord(tdef, rec, Len(tdef.Cols)), mode)

dbDeleteChecked(db, tdef, c) ==
    IF ~c.ok THEN [ok |-> FALSE, db |-> db]
    ELSE KVDel(db, encodeKey(tdef.Prefix, PKeyPart(tdef, c.values)))
dbDelete(db, tdef, rec) == dbDeleteChecked(db, tdef, checkRecord(tdef, rec, tdef.PKeys))

-----------------------------------------------------------------------------
(* Table definitions (db.go:307-332, update.go:54-89). *)
\* json.Marshal of a TableDef, kept to the fields that differ between the
\* definitions written: {Name:Prefix}; the bytes are never 0 or 1
Json(tdef) == << 123 >> \o tdef.Name \o << 58, 48 + tdef.Prefix, 125 >>
JsonDefs == {[d EXCEPT !.Prefix = p] : d \in ToSet(ServerTables),
                                       p \in 0 .. TABLE_PREFIX_MIN + Len(ServerTables)}
\* json.Unmarshal: ok is FALSE on bytes that are not a definition's JSON
UnmarshalIn(ds) == IF ds = {} THEN [ok |-> FALSE, def |-> TDEF_TABLE]
                   ELSE [ok |-> TRUE, def |-> CHOOSE d \in ds : TRUE]
Unmarshal(bytes) == UnmarshalIn({d \in JsonDefs : Json(d) = bytes})

\* getTableDefDB's result, cached when it is a definition; ok is FALSE
\* where decoding or the Assert(err == nil) after Unmarshal fails
TableDefParsed(cache, name, gok, u) ==
    [found |-> TRUE, ok |-> gok /\ u.ok, def |-> u.def,
     cache |-> IF u.ok THEN (name :> u.def) @@ cache ELSE cache]
TableDefRead(cache, name, g) ==
    IF ~g.found THEN [found |-> FALSE, ok |-> TRUE, def |-> TDEF_TABLE, cache |-> cache]
    ELSE TableDefParsed(cache, name, g.ok, Unmarshal(RecGet(g.rec, "def").str))
\* getTableDef: from the cache, else from @table
getTableDef(db, cache, name) ==
    IF name \in DOMAIN cache THEN [found |-> TRUE, ok |-> TRUE, def |-> cache[name], cache |-> cache]
    ELSE TableDefRead(cache, name, dbGet(db, TDEF_TABLE, AddStr(EmptyRec, "name", name)))

\* TableNew refuses a name @table holds, takes the prefix from @meta's
\* next_prefix row (TABLE_PREFIX_MIN if there is none), writes prefix + 1
\* back with mode 0, then stores the definition.  ok is FALSE where the
\* process dies: a decoding Assert, Uint32/PutUint32 on fewer than 4 bytes,
\* or Assert(tdef.Prefix > TABLE_PREFIX_MIN).
TableRec(tdef) == AddStr(EmptyRec, "name", tdef.Name)
MetaKey == AddStr(EmptyRec, "key", Ascii_next_prefix)
TableNewStore(db, tdef, prefix, u1) ==
    IF ~u1.ok THEN [ok |-> TRUE, db |-> db]
    ELSE [ok |-> TRUE,
          db |-> dbUpdate(u1.db, TDEF_TABLE,
                          AddStr(TableRec(tdef), "def", Json([tdef EXCEPT !.Prefix = prefix])),
                          ModeZero).db]
\* PutUint32 overwrites the first 4 bytes of val, or of make([]byte, 4)
TableNewPrefix(db, tdef, m, val, prefix) ==
    IF m.found /\ prefix <= TABLE_PREFIX_MIN THEN [ok |-> FALSE, db |-> db]
    ELSE TableNewStore(db, tdef, prefix,
             dbUpdate(db, TDEF_META,
                      IF m.found
                      THEN [m.rec EXCEPT !.vals[2] = StrVal(BigEndian(prefix + 1, 4) \o SubSeq(val, 5, Len(val)))]
                      ELSE AddStr(MetaKey, "val", BigEndian(prefix + 1, 4)),
                      ModeZero))
TableNewMetaVal(db, tdef, m, val) ==
    IF ~m.ok \/ (m.found /\ Len(val) < 4) THEN [ok |-> FALSE, db |-> db]
    ELSE TableNewPrefix(db, tdef, m, val,
                        IF m.found THEN FromBigEndian(SubSeq(val, 1, 4)) ELSE TABLE_PREFIX_MIN)
TableNewMeta(db, tdef, m) == TableNewMetaVal(db, tdef, m, RecGet(m.rec, "val").str)
TableNewIf(db, tdef, g) ==
    IF g.found THEN [ok |-> g.ok, db |-> db]
    ELSE TableNewMeta(db, tdef, dbGet(db, TDEF_META, MetaKey))
TableNew(db, tdef) == TableNewIf(db, tdef, dbGet(db, TDEF_TABLE, TableRec(tdef)))

-----------------------------------------------------------------------------
(* The server's use (server.go:64-69): the file is removed and opened    *)
(* empty, TableNew runs for each of its tables in turn (errors ignored),  *)
(* then requests call Insert, Update, Delete and Get on those tables.     *)
Modes == {"upsert", "insert_only", "update_only"}
Ready == phase = Len(ServerTables) /\ ~dead
\* ghost entry of a row: present with its other columns, or deleted
Row(vs) == [present |-> TRUE, vals |-> vs]
Gone == [present |-> FALSE, vals |-> << >>]

Init ==
    /\ kv = [k \in {} |-> << >>]
    /\ tables = [n \in {} |-> TDEF_TABLE]
    /\ phase = 0
    /\ dead = FALSE
    /\ written = [r \in {} |-> Gone]

TableNewDone(r) ==
    /\ kv' = r.db
    /\ dead' = ~r.ok
ServerTableNew ==
    /\ phase < Len(ServerTables) /\ ~dead
    /\ TableNewDone(TableNew(kv, ServerTables[phase + 1]))
    /\ phase' = phase + 1
    /\ UNCHANGED << tables, written >>

\* the row a caller means by a record: each column's value by its name
RowOf(tdef, rec) == [i \in 1 .. Len(tdef.Cols) |-> RecGet(rec, tdef.Cols[i])]
\* the write's result; the ghost keeps the row a successful write leaves
Wrote(name, tdef, rec, entry, u) ==
    /\ kv' = u.db
    /\ written' = IF u.ok THEN (<< name, PKeyPart(tdef, RowOf(tdef, rec)) >> :> entry) @@ written
                  ELSE written
\* getTableDef's result, then the write if it found the table
WriteWith(name, g, W(_, _)) ==
    /\ tables' = g.cache
    /\ dead' = ~g.ok
    /\ IF g.ok /\ g.found THEN W(name, g.def) ELSE UNCHANGED << kv, written >>
    /\ UNCHANGED phase

\* DB.Set with a mode: DB.Insert, DB.Update and DB.Upsert
Set(name, rec, mode) ==
    /\ Ready
    /\ WriteWith(name, getTableDef(kv, tables, name),
                 LAMBDA n, d : Wrote(n, d, rec, Row(RestPart(d, RowOf(d, rec))), dbUpdate(kv, d, rec, mode)))

Delete(name, rec) ==
    /\ Ready
    /\ WriteWith(name, getTableDef(kv, tables, name),
                 LAMBDA n, d : Wrote(n, d, rec, Gone, dbDelete(kv, d, rec)))

GetWith(rec, g) ==
    /\ tables' = g.cache
    /\ dead' = ~g.ok \/ (g.found /\ ~dbGet(kv, g.def, rec).ok)
Get(name, rec) ==
    /\ Ready
    /\ GetWith(rec, getTableDef(kv, tables, name))
    /\ UNCHANGED << kv, phase, written >>

\* records a caller builds for a row of d: both column orders, the key
\* alone (a Set of it fails checkRecord), and the key under the wrong column
FullRecs(d, pk, v) ==
    { AddStr(AddStr(EmptyRec, d.Cols[1], pk), d.Cols[2], v),
      AddStr(AddStr(EmptyRec, d.Cols[2], v), d.Cols[1], pk) }
KeyRec(d, pk) == AddStr(EmptyRec, d.Cols[1], pk)
BadKeyRec(d, pk) == AddStr(EmptyRec, d.Cols[2], pk)

Next ==
    \/ ServerTableNew
    \/ \E d \in ToSet(ServerTables), pk \in PKeys :
        \/ \E rec \in {KeyRec(d, pk), BadKeyRec(d, pk)} : Get(d.Name, rec) \/ Delete(d.Name, rec)
        \/ \E v \in Cells, mode \in Modes :
               \E rec \in FullRecs(d, pk, v) \cup {KeyRec(d, pk)} : Set(d.Name, rec, mode)

Spec == Init /\ [][Next]_vars

-----------------------------------------------------------------------------
(* Properties *)
(* A Get of a row returns what the last successful Insert, Update, Upsert *)
(* or Delete of that row left, whatever the column order of the records  *)
(* the callers built (checkRecord's reordering), and through the escaped *)
(* key encoding, the Seek and Valid of dbGet and decodeValues of Deref.  *)
ReadYourWrites ==
    ~dead =>
    \A r \in DOMAIN written :
        LET d == tables[r[1]]
            g == dbGet(kv, d, [cols |-> SubSeq(d.Cols, 1, d.PKeys), vals |-> r[2]])
        IN /\ g.found = written[r].present
           /\ g.found => RestPart(d, g.rec.vals) = written[r].vals

\* the order of rows the encoding must keep: column by column, INT64 by
\* value and BYTES by bytes.Compare of the unescaped strings
ValLess(x, y) == IF x.type = TYPE_INT64 THEN x.i64 < y.i64 ELSE BytesLess(x.str, y.str)
RowLessAt(a, b, diff) == diff # {} /\ ValLess(a[Min(diff)], b[Min(diff)])
RowLess(a, b) == RowLessAt(a, b, {i \in DOMAIN a : a[i] # b[i]})

\* a stored key's prefix, and a table that has it (every table of the
\* program has one BYTES key column and one BYTES value column)
PrefixOf(k) == FromBigEndian(SubSeq(k, 1, 4))
TableAt(p) == CHOOSE d \in {TDEF_META, TDEF_TABLE} \cup {tables[n] : n \in DOMAIN tables} :
                  d.Prefix = p
KeyRow(k) == decodeValues(SubSeq(k, 5, Len(k)), PKeyPart(TableAt(PrefixOf(k)), TableAt(PrefixOf(k)).Types))
ValRow(k) == decodeValues(kv[k], RestPart(TableAt(PrefixOf(k)), TableAt(PrefixOf(k)).Types))

(* Every stored row decodes, key and value, without any Assert of        *)
(* decodeValues or unEscapeString failing, to the values that encode     *)
(* back to exactly its bytes: Deref and getTableDef read back what       *)
(* dbUpdate and TableNew wrote, strings holding the bytes 0 and 1 that   *)
(* escapeString rewrites included.                                       *)
CodecRoundTrip ==
    \A k \in DOMAIN kv :
        /\ KeyRow(k).ok /\ ValRow(k).ok
        /\ encodeKey(PrefixOf(k), KeyRow(k).vals) = k
        /\ encodeValues(ValRow(k).vals) = kv[k]

\* the rows the ghost holds as present, and the key dbUpdate gave each
PresentRows == {r \in DOMAIN written : written[r].present}
KeyOf(r) == encodeKey(tables[r[1]].Prefix, r[2])

(* The encoding keeps order, which the Seek of dbGet and dbScan rely on:  *)
(* of two rows present in one table, the key dbUpdate stored for one     *)
(* sorts before the other's under bytes.Compare exactly when its primary *)
(* key sorts before the other's, whatever escapeString did to the bytes  *)
(* 0 and 1 (so distinct rows never share a key).                         *)
KeyOrder ==
    \A r1, r2 \in PresentRows :
        r1[1] = r2[1] => (BytesLess(KeyOf(r1), KeyOf(r2)) <=> RowLess(r1[2], r2[2]))


(* Prefixes separate the tables: the comment on TableDef.Prefix says they *)
(* are "auto-assigned B-tree key prefixes for different tables", and      *)
(* dbGet, dbUpdate and a dbScan of a server table read only that prefix.  *)
(* So every key stored under the prefix TableNew gave a server table is   *)
(* the key of a row the server itself wrote to that table.                *)
TableIsolation ==
    \A n \in DOMAIN tables :
        \A k \in DOMAIN kv :
            PrefixOf(k) = tables[n].Prefix =>
                \E r \in PresentRows : r[1] = n /\ KeyOf(r) = k

====
