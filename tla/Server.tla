------------------------------- MODULE Server -------------------------------
(***************************************************************************)
(* The key/value server of src/server (server.go, DAC.go) driven by its   *)
(* one client, src/client/client.go.  The client calls ProcessOp and      *)
(* waits on the Requests/Responses channels for the server's answer, so   *)
(* one client operation, with the server's handling of it, is one step.   *)
(*                                                                         *)
(* Cryptography is abstracted to whether a message can be read: a         *)
(* handshake (LOGIN, REGISTER) is read by a server in INIT, a request     *)
(* encrypted under the session key by a server in SESSION, nothing else.  *)
(* Passwords are compared as values (bcrypt hash and compare); a request   *)
(* whose check fails changes nothing and is a stuttering step.            *)
(***************************************************************************)
EXTENDS Naturals, FiniteSets, Sequences, SequencesExt

CONSTANTS
    Users,      \* user ids
    KeyNames,   \* key names
    Vals,       \* string values
    Pw,         \* passwords
    None,       \* "" for a uid, an absent map entry, a nil list
    Acls,       \* the ACL lists a CREATE request may carry
    Mods,       \* the ACL lists a MODACL request may carry (None = nil)
    TableKeys,  \* key names that name a server table ("shadow", "key_value")
    MetaUsers,  \* uids that name a row of @meta ("next_prefix")
    Foreign     \* the bytes of such a row: a table's JSON, a prefix

Lists == {"readers", "writers", "copyfroms", "copytos", "indirects"}

VARIABLES
    clientUID,      \* client.go sessionUID
    serverState,    \* server.go serverState: "INIT" or "SESSION"
    sessionUID,     \* server.go sessionUID
    shadow,         \* server.go shadow: uid -> password, in memory
    shadowTable,    \* the db table "shadow": uid -> password
    kvstore,        \* the key set of server.go kvstore
    kvTable,        \* the db table "key_value": key -> value
    Keys            \* DAC.go Keys: key -> ACL record with its owner

vars == << clientUID, serverState, sessionUID, shadow, shadowTable, kvstore, kvTable, Keys >>

(* TableNew gives shadow prefix 1 and key_value prefix 2 (db.go:13, the  *)
(* relational_prefix run), the prefixes of @meta and @table.  So on the  *)
(* new file key_value already has a row for each table name (its         *)
(* @table row) and shadow one for next_prefix (the @meta row).            *)
Init ==
    /\ clientUID = None
    /\ serverState = "INIT" /\ sessionUID = None
    /\ shadow = [u \in Users |-> None]
    /\ shadowTable = [u \in Users |-> IF u \in MetaUsers THEN Foreign ELSE None]
    /\ kvstore = {} /\ Keys = [k \in KeyNames |-> None]
    /\ kvTable = [k \in KeyNames |-> IF k \in TableKeys THEN Foreign ELSE None]

-----------------------------------------------------------------------------
(* DAC.go *)
isOwner(uid, key) == Keys[key] # None /\ Keys[key].owner = uid

\* DeleteKey, called after isOwner: drops the entry
DeleteKey(uid, key) == IF isOwner(uid, key) THEN [Keys EXCEPT ![key] = None] ELSE Keys

\* Create: fails on an existing key; nil lists were made empty by the caller's input
Create(uid, key, md) ==
    IF Keys[key] # None THEN Keys
    ELSE [Keys EXCEPT ![key] = [a \in Lists \cup {"owner"} |-> IF a = "owner" THEN uid ELSE md[a]]]

\* Modacl: the owner replaces every list the request does not leave nil
Modacl(uid, key, md) ==
    [Keys EXCEPT ![key] = [a \in DOMAIN @ |-> IF a \in Lists /\ md[a] # None THEN md[a] ELSE @[a]]]

RECURSIVE bfsLoop(_, _, _, _)
(* The loop of bfs: take the head of the queue; an unvisited key that    *)
(* exists adds its attr principals and queues its indirects.             *)
bfsLoop(queue, visited, principal, attr) ==
    IF queue = << >> THEN principal
    ELSE LET cur == Head(queue) IN
         IF cur \notin visited /\ Keys[cur] # None
         THEN bfsLoop(Tail(queue) \o SetToSeq(Keys[cur].indirects), visited \cup {cur},
                      principal \cup Keys[cur][attr], attr)
         ELSE bfsLoop(Tail(queue), visited, principal, attr)
\* mutant: the walk starts from the key's indirects, not from the key
bfsSkipStart(key, attr) ==
    IF Keys[key] = None THEN {}
    ELSE bfsLoop(SetToSeq(Keys[key].indirects), {key}, {}, attr)
bfs(key, attr) == bfsLoop(<< key >>, {}, {}, attr)

R(key) == bfs(key, "readers")
W(key) == bfs(key, "writers")
Csrc(key) == bfs(key, "copyfroms")
Cdst(key) == bfs(key, "copytos")

\* Revacl: the owner gets the lists and the effective principal sets
Revacl(uid, key) ==
    IF ~isOwner(uid, key) THEN None
    ELSE [a \in Lists |-> Keys[key][a]] @@ [R |-> R(key), W |-> W(key), Csrc |-> Csrc(key), Cdst |-> Cdst(key)]

-----------------------------------------------------------------------------
(* server.go and client.go *)

\* verifyPassword reads the db table, not the in-memory shadow map
verifyPassword(uid, password) == shadowTable[uid] # None /\ shadowTable[uid] = password

\* client.go ProcessOp: a session request carries the client's sessionUID
\* as its uid, whatever uid the user typed
\* mutant: the client sends the uid the user typed
RequestUidTyped(typed) == typed
RequestUid(typed) == clientUID

\* a request the server decrypts with the session key: the client has a
\* session (validateRequest, client doOp) and the server is in SESSION
InSession == clientUID # None /\ serverState = "SESSION"

\* DoPhase2Register: an unknown uid (in the in-memory map) is stored in
\* the db table (db.Insert: insert-only, its error ignored) and in the map
DoPhase2Register(u, p) ==
    /\ serverState = "INIT"
    /\ shadow[u] = None
    /\ shadowTable' = IF shadowTable[u] = None THEN [shadowTable EXCEPT ![u] = p] ELSE shadowTable
    /\ shadow' = [shadow EXCEPT ![u] = p]
    /\ UNCHANGED << serverState, sessionUID >>

\* client doRegister: only a client without a session sends the handshake
Register(u, p) ==
    /\ clientUID = None
    /\ DoPhase2Register(u, p)
    /\ UNCHANGED << clientUID, kvstore, kvTable, Keys >>

\* DoPhase2Login: the password is checked against the db table and the
\* session opened
DoPhase2Login(u, p) ==
    /\ serverState = "INIT"
    /\ verifyPassword(u, p)
    /\ sessionUID' = u /\ serverState' = "SESSION"

\* client doLogin: a client without a session sends the handshake and
\* takes the uid of the signed OK as its sessionUID
Login(u, p) ==
    /\ clientUID = None
    /\ DoPhase2Login(u, p)
    /\ clientUID' = u
    /\ UNCHANGED << shadow, shadowTable, kvstore, kvTable, Keys >>

\* mutant: doLogout clears the session uid but leaves serverState
LogoutKeepState ==
    /\ clientUID # None
    /\ IF serverState = "SESSION" /\ sessionUID # None
       THEN sessionUID' = None /\ UNCHANGED serverState
       ELSE UNCHANGED << sessionUID, serverState >>
    /\ clientUID' = None
    /\ UNCHANGED << shadow, shadowTable, kvstore, kvTable, Keys >>

\* LOGOUT: the server ends its session; the client forgets its sessionUID
\* whatever the answer
Logout ==
    /\ clientUID # None
    /\ IF serverState = "SESSION" /\ sessionUID # None
       THEN sessionUID' = None /\ serverState' = "INIT"
       ELSE UNCHANGED << sessionUID, serverState >>
    /\ clientUID' = None
    /\ UNCHANGED << shadow, shadowTable, kvstore, kvTable, Keys >>

\* doCreate: kvstore, then db.Insert (insert-only; its error is ignored), then Create
doCreate(uid, key, val, md) ==
    /\ key \notin kvstore
    /\ kvTable' = IF kvTable[key] = None THEN [kvTable EXCEPT ![key] = val] ELSE kvTable
    /\ kvstore' = kvstore \cup {key}
    /\ Keys' = Create(uid, key, md)

\* doDelete: kvstore, isOwner, then kvstore, db.Delete and DeleteKey
doDelete(uid, key) ==
    /\ key \in kvstore /\ isOwner(uid, key)
    /\ kvstore' = kvstore \ {key}
    /\ kvTable' = [kvTable EXCEPT ![key] = None]
    /\ Keys' = DeleteKey(uid, key)

\* doCopy: both keys in the db, uid in Csrc(src) and in Cdst(dst)
doCopy(uid, src, dst) ==
    /\ kvTable[src] # None /\ uid \in Csrc(src)
    /\ kvTable[dst] # None /\ uid \in Cdst(dst)
    /\ kvTable' = [kvTable EXCEPT ![dst] = kvTable[src]]
    /\ UNCHANGED << kvstore, Keys >>

\* doWriteVal: key in the db and uid in W(key); db.Update
doWriteVal(uid, key, val) ==
    /\ kvTable[key] # None /\ uid \in W(key)
    /\ kvTable' = [kvTable EXCEPT ![key] = val]
    /\ UNCHANGED << kvstore, Keys >>

\* doModacl: only the owner
doModacl(uid, key, md) ==
    /\ isOwner(uid, key)
    /\ Keys' = Modacl(uid, key, md)
    /\ UNCHANGED << kvstore, kvTable >>

\* doReadVal: the value, if the key is in the db and uid is in R(key)
doReadVal(uid, key) == IF kvTable[key] # None /\ uid \in R(key) THEN kvTable[key] ELSE None

\* doChangePassword: old password checked against the db; new one stored
\* in the in-memory shadow map
doChangePassword(uid, old, new) ==
    /\ verifyPassword(uid, old)
    /\ shadow' = [shadow EXCEPT ![uid] = new]
    /\ UNCHANGED << shadowTable, kvstore, kvTable, Keys >>

\* the data operations of a session; the session itself is unchanged
DataOp(uid) ==
    \/ \E k \in KeyNames, v \in Vals, md \in Acls : doCreate(uid, k, v, md)
    \/ \E k \in KeyNames : doDelete(uid, k)
    \/ \E s, d \in KeyNames : doCopy(uid, s, d)
    \/ \E k \in KeyNames, v \in Vals : doWriteVal(uid, k, v)
    \/ \E k \in KeyNames, md \in Mods : doModacl(uid, k, md)
SessionOp ==
    /\ InSession
    /\ \E typed \in Users :
          \/ DataOp(RequestUid(typed)) /\ UNCHANGED << shadow, shadowTable >>
          \/ \E o, n \in Pw : doChangePassword(RequestUid(typed), o, n)
    /\ UNCHANGED << clientUID, serverState, sessionUID >>

Next ==
    \/ \E u \in Users, p \in Pw : Register(u, p) \/ Login(u, p)
    \/ Logout
    \/ SessionOp

Spec == Init /\ [][Next]_vars

-----------------------------------------------------------------------------
(* Reference definitions: the keys reachable from key through the       *)
(* indirects of existing keys, and the principals they name.            *)
Live == {k \in KeyNames : Keys[k] # None}
RECURSIVE Closure(_)
\* the least superset of S closed under the indirects of existing keys
Closure(S) ==
    LET N == S \cup UNION {Keys[j].indirects \cap Live : j \in S}
    IN  IF N = S THEN S ELSE Closure(N)
Reach(key) == IF key \in Live THEN Closure({key}) ELSE {}
RefRights(key, attr) == UNION {Keys[j][attr] : j \in Reach(key)}

(* DAC.go bfs computes the ACL closure: for every key, what Revacl      *)
(* reports to its owner as R, W, Csrc and Cdst is the set of principals *)
(* listed by the key or by any key reachable from it through indirects  *)
(* of existing keys, however Create, Modacl and DeleteKey have left     *)
(* cycles, self-loops and dangling names among the indirects.           *)
BfsReach ==
    \A k \in Live :
        LET r == Revacl(Keys[k].owner, k) IN
        /\ r["R"] = RefRights(k, "readers") /\ r["W"] = RefRights(k, "writers")
        /\ r["Csrc"] = RefRights(k, "copyfroms") /\ r["Cdst"] = RefRights(k, "copytos")

(* Only the user the server holds the session for changes the store or  *)
(* reads it, and only with the rights the ACL closure gives: a value    *)
(* changes by a create (the session user becomes the owner), a delete   *)
(* by the owner, a write by a writer or a copy by a copy-to principal   *)
(* from a key it may copy from; an existing ACL changes only by its     *)
(* owner, who stays the owner; a READ answers only a reader.  This is   *)
(* about the uid the client puts in a request (client.go ProcessOp) and *)
(* the one the server checks it against.                                *)
Authorized ==
    [][ /\ \A typed \in Users, k \in KeyNames :
              doReadVal(RequestUid(typed), k) # None => sessionUID \in RefRights(k, "readers")
        /\ \A k \in KeyNames : kvTable'[k] # kvTable[k] =>
              \/ kvTable[k] = None /\ isOwner(sessionUID, k)'
              \/ kvTable'[k] = None /\ isOwner(sessionUID, k)
              \/ sessionUID \in RefRights(k, "writers")
              \/ /\ sessionUID \in RefRights(k, "copytos")
                 /\ \E s \in KeyNames : kvTable[s] = kvTable'[k] /\ sessionUID \in RefRights(s, "copyfroms")
        /\ \A k \in Live \cap {j \in KeyNames : Keys'[j] # None} :
              Keys'[k] # Keys[k] => isOwner(sessionUID, k) /\ Keys'[k].owner = Keys[k].owner ]_vars

(* Client and server agree on the session: the client's sessionUID is   *)
(* the server's, and the server is in SESSION exactly while it has one, *)
(* across LOGIN, failed LOGINs and LOGOUT (which the client applies     *)
(* whatever the server answers).                                        *)
SessionAgree ==
    /\ clientUID = sessionUID
    /\ (serverState = "SESSION") = (sessionUID # None)

(* server.go:299-310: CHANGE_PASS updates the session user's password   *)
(* to new_pass and then requires it as the current password: after a    *)
(* successful CHANGE_PASS the new password is the one LOGIN and          *)
(* CHANGE_PASS accept, and the old one is not.                          *)
PasswordChanged ==
    [][ \A typed \in Users, o, n \in Pw :
          InSession /\ doChangePassword(RequestUid(typed), o, n) /\ o # n =>
              (verifyPassword(clientUID, n) /\ ~verifyPassword(clientUID, o))' ]_vars

=============================================================================
