------------------------------ MODULE KeyCache ------------------------------
(***************************************************************************)
(* API keys: the table, the immutable snapshot authentication reads        *)
(* without a lock, and the writers that replace it (op/apikey.go).  A      *)
(* create, update, delete or refresh holds apiKeyCacheMu from its first    *)
(* read to its publication; the import of a backup inserts rows in a       *)
(* transaction of its own and only then refreshes (op/backup.go,           *)
(* handlers/setting.go).                                                   *)
(*                                                                         *)
(* The stored column is sealed with a random nonce, so the unique index on *)
(* it never sees two equal keys: only the snapshot and the import's        *)
(* preview compare plaintexts.                                             *)
(***************************************************************************)
EXTENDS Naturals, FiniteSets

CONSTANTS
  KeyValues,        \* plaintexts
  KeyAdmins,        \* concurrent admin requests
  NoAdmin,
  ReusePlaintext,   \* whether a plaintext may be given to a key again after it was withdrawn
  MaxKeyId, MaxKeyWrites

ASSUME KeyCacheAssumption == NoAdmin \notin KeyAdmins

VARIABLES
  keyDb,            \* id -> plaintext
  keySnap,          \* the published snapshot: [byID, byKey]
  keyMu,            \* the holder of apiKeyCacheMu
  keyStep,          \* admin -> what it does next
  keyDump,          \* the rows of the last export
  revoked,          \* plaintexts withdrawn and not given back since
  usedValues, nextKey, keyWrites

keyVars == <<keyDb, keySnap, keyMu, keyStep, keyDump, revoked, usedValues, nextKey, keyWrites>>

AtRest == [pc |-> "idle"]
NoRows == [i \in {} |-> 0]
OfRows(rows) == [byID |-> rows,
                 byKey |-> [v \in {rows[i] : i \in DOMAIN rows} |->
                              CHOOSE i \in DOMAIN rows : rows[i] = v
                                /\ \A j \in DOMAIN rows : rows[j] = v => j <= i]]
PutRow(f, x, v) == [y \in DOMAIN f \cup {x} |-> IF y = x THEN v ELSE f[y]]
CutRows(f, S) == [y \in DOMAIN f \ S |-> f[y]]

KeyInit ==
  /\ keyDb = NoRows /\ keySnap = OfRows(NoRows) /\ keyMu = NoAdmin
  /\ keyStep = [a \in KeyAdmins |-> AtRest] /\ keyDump = NoRows
  /\ revoked = {} /\ usedValues = {} /\ nextKey = 1 /\ keyWrites = 0

\* The plaintext may be chosen for a key.
Choosable(v) == ReusePlaintext \/ v \notin usedValues

apiKeyValueTakenSnap(v, i) == v \in DOMAIN keySnap.byKey /\ keySnap.byKey[v] # i

\* An admin request takes the lock and reads the snapshot.
LockFor(a, step) ==
  /\ keyStep[a] = AtRest /\ keyMu = NoAdmin /\ keyMu' = a
  /\ keyWrites < MaxKeyWrites /\ keyWrites' = keyWrites + 1
  /\ keyStep' = [keyStep EXCEPT ![a] = step]
  /\ UNCHANGED <<keyDb, keySnap, keyDump, revoked, usedValues, nextKey>>

APIKeyCreate(a, v) ==
  /\ Choosable(v) /\ nextKey <= MaxKeyId /\ ~apiKeyValueTakenSnap(v, 0)
  /\ LockFor(a, [pc |-> "insert", value |-> v])

APIKeyUpdate(a, i, v) ==
  /\ i \in DOMAIN keySnap.byID /\ v # keySnap.byID[i] /\ Choosable(v) /\ ~apiKeyValueTakenSnap(v, i)
  /\ LockFor(a, [pc |-> "save", id |-> i, value |-> v, old |-> keySnap.byID[i]])

APIKeyDelete(a, i) ==
  /\ i \in DOMAIN keySnap.byID
  /\ LockFor(a, [pc |-> "delete", id |-> i, old |-> keySnap.byID[i]])

\* Fault: the refresh reads and publishes without the lock.
RefreshUnlocked(a) ==
  /\ keyStep[a] = AtRest
  /\ keyWrites < MaxKeyWrites /\ keyWrites' = keyWrites + 1
  /\ keyStep' = [keyStep EXCEPT ![a] = [pc |-> "find"]]
  /\ UNCHANGED <<keyDb, keySnap, keyMu, keyDump, revoked, usedValues, nextKey>>

apiKeyRefreshCache(a) == LockFor(a, [pc |-> "find"])

(* The database statement.  Withdrawing a plaintext and giving one back take effect here.  A row in *)
(* the snapshot is in the table: only holders of the lock remove rows.                              *)
KeyInsert(a) ==
  LET s == keyStep[a] IN
  /\ s.pc = "insert"
  /\ keyDb' = PutRow(keyDb, nextKey, s.value) /\ nextKey' = nextKey + 1
  /\ revoked' = revoked \ {s.value} /\ usedValues' = usedValues \cup {s.value}
  /\ keyStep' = [keyStep EXCEPT ![a] = [pc |-> "publish", id |-> nextKey, value |-> s.value, old |-> s.value]]
  /\ UNCHANGED <<keySnap, keyMu, keyDump, keyWrites>>

KeySave(a) ==
  LET s == keyStep[a] IN
  /\ s.pc = "save"
  /\ keyDb' = PutRow(keyDb, s.id, s.value)
  /\ revoked' = (revoked \ {s.value}) \cup {s.old} /\ usedValues' = usedValues \cup {s.value}
  /\ keyStep' = [keyStep EXCEPT ![a].pc = "publish"]
  /\ UNCHANGED <<keySnap, keyMu, keyDump, nextKey, keyWrites>>

KeyRemove(a) ==
  LET s == keyStep[a] IN
  /\ s.pc = "delete"
  /\ keyDb' = CutRows(keyDb, {s.id}) /\ revoked' = revoked \cup {s.old}
  /\ keyStep' = [keyStep EXCEPT ![a].pc = "forget"]
  /\ UNCHANGED <<keySnap, keyMu, keyDump, usedValues, nextKey, keyWrites>>

KeyFind(a) ==
  /\ keyStep[a].pc = "find"
  /\ keyStep' = [keyStep EXCEPT ![a] = [pc |-> "install", rows |-> keyDb]]
  /\ UNCHANGED <<keyDb, keySnap, keyMu, keyDump, revoked, usedValues, nextKey, keyWrites>>

(* The next snapshot is built from the current one, or from the rows found, and published; the lock *)
(* is released on return.                                                                           *)
Publish1(a, snap) ==
  /\ keySnap' = snap
  /\ keyStep' = [keyStep EXCEPT ![a] = AtRest]
  /\ keyMu' = IF keyMu = a THEN NoAdmin ELSE keyMu
  /\ UNCHANGED <<keyDb, keyDump, revoked, usedValues, nextKey, keyWrites>>

KeyStore(a) ==
  LET s == keyStep[a] IN
  /\ s.pc = "publish"
  /\ Publish1(a, [byID |-> PutRow(keySnap.byID, s.id, s.value),
                  byKey |-> PutRow(CutRows(keySnap.byKey, {s.old}), s.value, s.id)])

KeyForget(a) ==
  LET s == keyStep[a] IN
  /\ s.pc = "forget"
  /\ Publish1(a, [byID |-> CutRows(keySnap.byID, {s.id}), byKey |-> CutRows(keySnap.byKey, {s.old})])

KeyInstall(a) == keyStep[a].pc = "install" /\ Publish1(a, OfRows(keyStep[a].rows))

\* DBExportAll: the rows, as plaintexts.
KeyExport ==
  /\ keyDb # keyDump /\ keyDump' = keyDb
  /\ UNCHANGED <<keyDb, keySnap, keyMu, keyStep, revoked, usedValues, nextKey, keyWrites>>

\* DBImportIncremental, for the API keys: a dump that holds one plaintext twice is refused; the
\* others are inserted unless their id exists.  The caller refreshes afterwards.
KeyImport(a) ==
  LET new == DOMAIN keyDump \ DOMAIN keyDb IN
  /\ keyStep[a] = AtRest /\ new # {} /\ keyWrites < MaxKeyWrites /\ keyWrites' = keyWrites + 1
  /\ \A i, j \in DOMAIN keyDump : keyDump[i] = keyDump[j] => i = j
  /\ keyDb' = [i \in DOMAIN keyDb \cup new |-> IF i \in new THEN keyDump[i] ELSE keyDb[i]]
  /\ revoked' = revoked \ {keyDump[i] : i \in new}
  /\ keyStep' = [keyStep EXCEPT ![a] = [pc |-> "imported"]]
  /\ UNCHANGED <<keySnap, keyMu, keyDump, usedValues, nextKey>>

\* InitCache after the import.
KeyInitCache(a) ==
  /\ keyStep[a].pc = "imported" /\ keyMu = NoAdmin /\ keyMu' = a
  /\ keyStep' = [keyStep EXCEPT ![a] = [pc |-> "find"]]
  /\ UNCHANGED <<keyDb, keySnap, keyDump, revoked, usedValues, nextKey, keyWrites>>

KeyNext ==
  \/ KeyExport
  \/ \E a \in KeyAdmins :
       \/ \E v \in KeyValues : APIKeyCreate(a, v) \/ \E i \in DOMAIN keySnap.byID : APIKeyUpdate(a, i, v)
       \/ \E i \in DOMAIN keySnap.byID : APIKeyDelete(a, i)
       \/ apiKeyRefreshCache(a) \/ KeyImport(a) \/ KeyInitCache(a)
       \/ KeyInsert(a) \/ KeySave(a) \/ KeyRemove(a) \/ KeyFind(a)
       \/ KeyStore(a) \/ KeyForget(a) \/ KeyInstall(a)

KeySpec == KeyInit /\ [][KeyNext]_keyVars

-----------------------------------------------------------------------------
\* APIKeyGetByAPIKey: the pair of reads from one snapshot.
Authenticates(v) == v \in DOMAIN keySnap.byKey /\ keySnap.byKey[v] \in DOMAIN keySnap.byID

\* A plaintext withdrawn by a delete or by a change of value never authenticates again once that
\* request has returned, whatever creates, updates, refreshes and imports run beside and after it,
\* until someone gives it back.
RevokedStaysRevoked ==
  \A v \in revoked :
    (\A a \in KeyAdmins : keyStep[a].pc \in {"publish", "forget"} => keyStep[a].old # v) => ~Authenticates(v)
=============================================================================
