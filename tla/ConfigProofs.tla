---------------------------- MODULE ConfigProofs ----------------------------
(***************************************************************************)
(* Proofs about KeyCache for any plaintexts, admin requests and bounds: a  *)
(* withdrawn API key never authenticates again.  About Backup for any      *)
(* names and number of rows: an own export is imported soundly.  About     *)
(* ModelSync for any models and pages: what a synchronisation must keep.   *)
(* And about EntityCache for any groups and edits: members exist, and      *)
(* references lead to stored groups and form no cycle.                     *)
(***************************************************************************)
EXTENDS KeyCache, Backup, ModelSync, EntityCache, NaturalsInduction, FiniteSetTheorems, TLAPS

-----------------------------------------------------------------------------
(***************************************************************************)
(* The tables of rows there are: the database, the last export, the        *)
(* snapshot by id, and what a refresh has found and not yet installed.     *)
(* While no plaintext is chosen twice, all of them agree on the id of a    *)
(* plaintext; that is why a refresh or an import cannot bring a withdrawn  *)
(* one back under another id.                                              *)
(***************************************************************************)
InstallRows == {keyStep[a].rows : a \in {b \in KeyAdmins : keyStep[b].pc = "install"}}
RowTables == {keyDb, keyDump, keySnap.byID} \cup InstallRows

HasRow(f, i, v) == i \in DOMAIN f /\ f[i] = v

\* Every table has a plaintext under the same id.
OneId == \A f, g \in RowTables : \A i \in DOMAIN f, j \in DOMAIN g : f[i] = g[j] => i = j

\* Ids have been issued and plaintexts used.
Issued == \A f \in RowTables : \A i \in DOMAIN f : i \in 1..(nextKey - 1) /\ f[i] \in usedValues

\* The forms of an admin's step.
StepForm(s) ==
  \/ s = AtRest \/ s = [pc |-> "imported"] \/ s = [pc |-> "find"]
  \/ s.pc = "install" /\ s = [pc |-> "install", rows |-> s.rows]
  \/ s.pc = "insert" /\ s = [pc |-> "insert", value |-> s.value]
  \/ s.pc \in {"save", "publish"} /\ s = [pc |-> s.pc, id |-> s.id, value |-> s.value, old |-> s.old]
  \/ s.pc \in {"delete", "forget"} /\ s = [pc |-> s.pc, id |-> s.id, old |-> s.old]

\* What an admin knows about the tables at its step, under the lock.
StepFacts(a, s) ==
  /\ s.pc \notin {"idle", "imported"} => keyMu = a
  /\ s.pc \in {"insert", "save"} => s.value \notin usedValues
  /\ s.pc \in {"save", "delete", "forget"} => HasRow(keySnap.byID, s.id, s.old)
  /\ s.pc = "publish" => HasRow(keyDb, s.id, s.value)
                         /\ (s.id \in DOMAIN keySnap.byID => keySnap.byID[s.id] = s.old)
  /\ s.pc = "install" => \A i \in DOMAIN s.rows : HasRow(keyDb, i, s.rows[i])
StepsOK == \A a \in KeyAdmins : StepForm(keyStep[a]) /\ StepFacts(a, keyStep[a])

\* A withdrawn plaintext is in no row of the database.
Withdrawn == \A v \in revoked : v \in usedValues /\ \A i \in DOMAIN keyDb : keyDb[i] # v

\* The snapshot shows the database, but for the row a publication is under way for.
Publishing(i) == \E a \in KeyAdmins : keyStep[a].pc \in {"publish", "forget"} /\ keyStep[a].id = i
Mirrors == \A i \in DOMAIN keySnap.byID : HasRow(keyDb, i, keySnap.byID[i]) \/ Publishing(i)

\* The snapshot by plaintext points into the snapshot by id.
PointsBack == \A v \in DOMAIN keySnap.byKey : HasRow(keySnap.byID, keySnap.byKey[v], v)

Shapes == nextKey \in Nat \ {0} /\ keyStep = [a \in KeyAdmins |-> keyStep[a]]

CacheInv == Shapes /\ OneId /\ Issued /\ StepsOK /\ Withdrawn /\ Mirrors /\ PointsBack
\* A step that only copies rows keeps the agreement on ids.
LEMMA CopiesKeep ==
  ASSUME Shapes, OneId, Issued, nextKey' \in Nat, nextKey <= nextKey', usedValues \subseteq usedValues',
         \A f \in RowTables' : \A i \in DOMAIN f : \E g \in RowTables : HasRow(g, i, f[i])
  PROVE  OneId' /\ Issued'
  <1>1. ASSUME NEW f \in RowTables', NEW g \in RowTables', NEW i \in DOMAIN f, NEW j \in DOMAIN g,
               f[i] = g[j]
        PROVE  i = j
    BY <1>1 DEF OneId, HasRow
  <1>2. ASSUME NEW f \in RowTables', NEW i \in DOMAIN f
        PROVE  i \in 1..(nextKey' - 1) /\ f[i] \in usedValues'
    <2>1. i \in 1..(nextKey - 1) /\ f[i] \in usedValues
      BY <1>2 DEF Issued, HasRow
    <2> QED BY <2>1 DEF Shapes
  <1> QED BY <1>1, <1>2 DEF OneId, Issued

\* So does one that adds a row with a plaintext never used before.
LEMMA NewRowKeeps ==
  ASSUME Shapes, OneId, Issued, nextKey' \in Nat, nextKey <= nextKey', usedValues \subseteq usedValues',
         NEW n \in 1..(nextKey' - 1), NEW w \in usedValues', w \notin usedValues,
         \A f \in RowTables' : \A i \in DOMAIN f :
           (\E g \in RowTables : HasRow(g, i, f[i])) \/ (i = n /\ f[i] = w)
  PROVE  OneId' /\ Issued'
  <1>0. ASSUME NEW g \in RowTables, NEW i, HasRow(g, i, w) PROVE FALSE
    BY <1>0 DEF Issued, HasRow
  <1>1. ASSUME NEW f \in RowTables', NEW g \in RowTables', NEW i \in DOMAIN f, NEW j \in DOMAIN g,
               f[i] = g[j]
        PROVE  i = j
    BY <1>0, <1>1 DEF OneId, HasRow
  <1>2. ASSUME NEW f \in RowTables', NEW i \in DOMAIN f
        PROVE  i \in 1..(nextKey' - 1) /\ f[i] \in usedValues'
    <2>1. CASE i = n /\ f[i] = w
      BY <2>1
    <2>2. CASE \E g \in RowTables : HasRow(g, i, f[i])
      <3>1. i \in 1..(nextKey - 1) /\ f[i] \in usedValues
        BY <2>2 DEF Issued, HasRow
      <3> QED BY <3>1 DEF Shapes
    <2> QED BY <1>2, <2>1, <2>2
  <1> QED BY <1>1, <1>2 DEF OneId, Issued

\* The holder of the lock is alone: every other admin is at rest or between an import and
\* its refresh.
LEMMA HolderAlone ==
  ASSUME StepsOK, NEW a \in KeyAdmins, keyMu = a \/ keyMu = NoAdmin, NEW b \in KeyAdmins \ {a}
  PROVE  keyStep[b].pc \in {"idle", "imported"}
  BY KeyCacheAssumption DEF StepsOK, StepFacts

\* The rows found by the holder are the only ones waiting to be installed.
LEMMA HolderRows ==
  ASSUME StepsOK, NEW a \in KeyAdmins, keyMu = a \/ keyMu = NoAdmin
  PROVE  InstallRows = IF keyStep[a].pc = "install" THEN {keyStep[a].rows} ELSE {}
  <1>1. \A b \in KeyAdmins : keyStep[b].pc = "install" => b = a
    BY HolderAlone
  <1> QED BY <1>1 DEF InstallRows

\* Only admin a moves, to step s.
Moves(a, s) ==
  keyStep' = [keyStep EXCEPT ![a] = s]

\* What the move of one admin does to the steps.
LEMMA MoveSteps ==
  ASSUME Shapes, NEW a \in KeyAdmins, NEW s, Moves(a, s)
  PROVE  /\ keyStep' = [b \in KeyAdmins |-> keyStep'[b]] /\ keyStep'[a] = s
         /\ \A b \in KeyAdmins \ {a} : keyStep'[b] = keyStep[b]
  BY DEF Shapes, Moves

\* A request that takes the lock, at its first step.
LEMMA LockForKeeps ==
  ASSUME CacheInv, NEW a \in KeyAdmins, NEW s, LockFor(a, s), StepForm(s),
         s.pc \in {"insert", "save", "delete", "find"},
         s.pc \in {"insert", "save"} => s.value \notin usedValues,
         s.pc \in {"save", "delete"} => HasRow(keySnap.byID, s.id, s.old)
  PROVE  CacheInv'
  <1> USE DEF CacheInv
  <1>0. /\ keyStep[a] = AtRest /\ keyMu = NoAdmin /\ keyMu' = a /\ Moves(a, s)
        /\ UNCHANGED <<keyDb, keySnap, keyDump, revoked, usedValues, nextKey>>
    BY DEF LockFor, Moves
  <1>1. /\ keyStep' = [b \in KeyAdmins |-> keyStep'[b]] /\ keyStep'[a] = s
        /\ \A b \in KeyAdmins \ {a} : keyStep'[b] = keyStep[b]
    BY <1>0, MoveSteps
  <1>2. \A b \in KeyAdmins : keyStep[b].pc \in {"idle", "imported"}
    BY <1>0, HolderAlone DEF AtRest
  <1>3. InstallRows = {} /\ InstallRows' = {}
    BY <1>1, <1>2 DEF InstallRows
  <1>4. RowTables' = RowTables
    BY <1>0, <1>3 DEF RowTables
  <1>5. OneId' /\ Issued'
    BY <1>0, <1>4 DEF OneId, Issued
  <1>6. StepsOK'
    <2> SUFFICES ASSUME NEW b \in KeyAdmins
                 PROVE  StepForm(keyStep'[b]) /\ StepFacts(b, keyStep[b])'
      BY DEF StepsOK
    <2>1. CASE b = a
      BY <1>0, <1>1, <2>1 DEF StepFacts, HasRow
    <2>2. CASE b # a
      BY <1>1, <1>2, <2>2 DEF StepFacts, StepsOK
    <2> QED BY <2>1, <2>2
  <1>7. Mirrors'
    BY <1>0, <1>2 DEF Mirrors, HasRow, Publishing
  <1>8. Withdrawn' /\ PointsBack' /\ Shapes'
    BY <1>0, <1>1 DEF Withdrawn, PointsBack, HasRow, Shapes
  <1> QED BY <1>5, <1>6, <1>7, <1>8

\* The statement of a create: a new id for a plaintext nobody has used.
LEMMA KeyInsertKeeps ==
  ASSUME CacheInv, NEW a \in KeyAdmins, KeyInsert(a)
  PROVE  CacheInv'
  <1> USE DEF CacheInv
  <1> DEFINE v == keyStep[a].value
             s == [pc |-> "publish", id |-> nextKey, value |-> v, old |-> v]
  <1>0. /\ keyStep[a].pc = "insert" /\ Moves(a, s) /\ keyDb' = PutRow(keyDb, nextKey, v)
        /\ nextKey' = nextKey + 1 /\ revoked' = revoked \ {v} /\ usedValues' = usedValues \cup {v}
        /\ UNCHANGED <<keySnap, keyMu, keyDump>>
    BY DEF KeyInsert, Moves
  <1>f. keyMu = a /\ v \notin usedValues
    BY <1>0 DEF StepsOK, StepFacts
  <1>h. PICK w : w = v
    OBVIOUS
  <1>1. /\ keyStep' = [b \in KeyAdmins |-> keyStep'[b]]
        /\ keyStep'[a] = [pc |-> "publish", id |-> nextKey, value |-> w, old |-> w]
        /\ \A b \in KeyAdmins \ {a} : keyStep'[b] = keyStep[b]
    BY <1>0, <1>h, MoveSteps
  <1>2. \A b \in KeyAdmins \ {a} : keyStep[b].pc \in {"idle", "imported"}
    BY <1>f, HolderAlone
  <1>d. /\ keyDb' = PutRow(keyDb, nextKey, w) /\ nextKey' = nextKey + 1 /\ revoked' = revoked \ {w}
        /\ usedValues' = usedValues \cup {w} /\ w \notin usedValues
        /\ UNCHANGED <<keySnap, keyMu, keyDump>>
    BY <1>0, <1>f, <1>h
  <1> HIDE DEF v, s
  <1>3. InstallRows' = {}
    BY <1>1, <1>2 DEF InstallRows
  <1>4. nextKey \notin DOMAIN keyDb /\ nextKey \notin DOMAIN keySnap.byID
    BY DEF Issued, RowTables, Shapes
  <1>5. OneId' /\ Issued'
    <2>1. \A f \in RowTables' : \A i \in DOMAIN f :
            (\E g \in RowTables : HasRow(g, i, f[i])) \/ (i = nextKey /\ f[i] = w)
      BY <1>3, <1>d DEF RowTables, HasRow, PutRow
    <2>2. nextKey \in 1..(nextKey' - 1) /\ nextKey' \in Nat /\ nextKey <= nextKey'
      BY <1>d DEF Shapes
    <2> QED BY <1>d, <2>1, <2>2, NewRowKeeps
  <1>6. StepsOK'
    <2> SUFFICES ASSUME NEW b \in KeyAdmins
                 PROVE  StepForm(keyStep'[b]) /\ StepFacts(b, keyStep[b])'
      BY DEF StepsOK
    <2>1. CASE b = a
      BY <1>1, <1>d, <1>f, <1>4, <2>1 DEF StepForm, StepFacts, HasRow, PutRow
    <2>2. CASE b # a
      BY <1>1, <1>2, <2>2 DEF StepFacts, StepsOK
    <2> QED BY <2>1, <2>2
  <1>7. Mirrors'
    BY <1>d, <1>2, <1>4, <1>0 DEF Mirrors, HasRow, Publishing, PutRow
  <1>8. Withdrawn'
    BY <1>d DEF Withdrawn, PutRow
  <1>9. PointsBack' /\ Shapes'
    BY <1>d, <1>1 DEF PointsBack, HasRow, Shapes
  <1> QED BY <1>5, <1>6, <1>7, <1>8, <1>9
\* The statement of an update: the old plaintext is withdrawn, wherever it was.
LEMMA KeySaveKeeps ==
  ASSUME CacheInv, NEW a \in KeyAdmins, KeySave(a)
  PROVE  CacheInv'
  <1> USE DEF CacheInv
  <1>0. PICK n, w, o : /\ keyStep[a] = [pc |-> "save", id |-> n, value |-> w, old |-> o]
                       /\ keyStep[a].id = n /\ keyStep[a].value = w /\ keyStep[a].old = o
    <2>1. keyStep[a].pc = "save"
      BY DEF KeySave
    <2>2. StepForm(keyStep[a])
      BY DEF StepsOK
    <2>3. keyStep[a] = [pc |-> "save", id |-> keyStep[a].id, value |-> keyStep[a].value,
                        old |-> keyStep[a].old]
      BY <2>1, <2>2 DEF StepForm, AtRest
    <2> QED BY <2>3
  <1>d. /\ keyDb' = PutRow(keyDb, n, w) /\ revoked' = (revoked \ {w}) \cup {o}
        /\ usedValues' = usedValues \cup {w}
        /\ UNCHANGED <<keySnap, keyMu, keyDump, nextKey>>
    BY <1>0 DEF KeySave
  <1>f. keyMu = a /\ w \notin usedValues /\ HasRow(keySnap.byID, n, o)
    BY <1>0 DEF StepsOK, StepFacts
  <1>m. Moves(a, [pc |-> "publish", id |-> n, value |-> w, old |-> o])
    <2>1. keyStep' = [keyStep EXCEPT ![a] = [keyStep[a] EXCEPT !.pc = "publish"]]
      BY DEF KeySave
    <2>2. [keyStep[a] EXCEPT !.pc = "publish"] = [pc |-> "publish", id |-> n, value |-> w, old |-> o]
      BY <1>0
    <2> QED BY <2>1, <2>2 DEF Moves
  <1>1. /\ keyStep' = [b \in KeyAdmins |-> keyStep'[b]]
        /\ keyStep'[a] = [pc |-> "publish", id |-> n, value |-> w, old |-> o]
        /\ \A b \in KeyAdmins \ {a} : keyStep'[b] = keyStep[b]
    BY <1>m, MoveSteps
  <1>2. \A b \in KeyAdmins \ {a} : keyStep[b].pc \in {"idle", "imported"}
    BY <1>f, HolderAlone
  <1>3. InstallRows' = {}
    BY <1>1, <1>2 DEF InstallRows
  <1>4. n \in 1..(nextKey - 1) /\ o \in usedValues
    BY <1>f DEF Issued, RowTables, HasRow
  <1>5. OneId' /\ Issued'
    <2>1. \A f \in RowTables' : \A i \in DOMAIN f :
            (\E g \in RowTables : HasRow(g, i, f[i])) \/ (i = n /\ f[i] = w)
      BY <1>3, <1>d DEF RowTables, HasRow, PutRow
    <2>2. n \in 1..(nextKey' - 1) /\ nextKey' \in Nat /\ nextKey <= nextKey'
      BY <1>d, <1>4 DEF Shapes
    <2> QED BY <1>d, <1>f, <2>1, <2>2, NewRowKeeps
  <1>6. StepsOK'
    <2> SUFFICES ASSUME NEW b \in KeyAdmins
                 PROVE  StepForm(keyStep'[b]) /\ StepFacts(b, keyStep[b])'
      BY DEF StepsOK
    <2>1. CASE b = a
      BY <1>1, <1>d, <1>f, <2>1 DEF StepForm, StepFacts, HasRow, PutRow
    <2>2. CASE b # a
      BY <1>1, <1>2, <2>2 DEF StepFacts, StepsOK
    <2> QED BY <2>1, <2>2
  <1>7. Mirrors'
    <2>1. Publishing(n)'
      BY <1>1 DEF Publishing
    <2>2. \A i : ~Publishing(i)
      BY <1>0, <1>2 DEF Publishing
    <2> QED BY <1>d, <2>1, <2>2 DEF Mirrors, HasRow, PutRow
  <1>8. Withdrawn'
    <2>1. \A i \in DOMAIN keyDb : keyDb[i] = o => i = n
      BY <1>f DEF OneId, RowTables, HasRow
    <2>2. w # o
      BY <1>f, <1>4
    <2> QED BY <1>d, <1>4, <2>1, <2>2 DEF Withdrawn, PutRow
  <1>9. PointsBack' /\ Shapes'
    BY <1>d, <1>1 DEF PointsBack, HasRow, Shapes
  <1> QED BY <1>5, <1>6, <1>7, <1>8, <1>9

\* The statement of a delete.
LEMMA KeyRemoveKeeps ==
  ASSUME CacheInv, NEW a \in KeyAdmins, KeyRemove(a)
  PROVE  CacheInv'
  <1> USE DEF CacheInv
  <1>0. PICK n, o : /\ keyStep[a] = [pc |-> "delete", id |-> n, old |-> o]
                    /\ keyStep[a].id = n /\ keyStep[a].old = o
    <2>1. keyStep[a].pc = "delete"
      BY DEF KeyRemove
    <2>2. StepForm(keyStep[a])
      BY DEF StepsOK
    <2>3. keyStep[a] = [pc |-> "delete", id |-> keyStep[a].id, old |-> keyStep[a].old]
      BY <2>1, <2>2 DEF StepForm, AtRest
    <2> QED BY <2>3
  <1>d. /\ keyDb' = CutRows(keyDb, {n}) /\ revoked' = revoked \cup {o}
        /\ UNCHANGED <<keySnap, keyMu, keyDump, nextKey, usedValues>>
    BY <1>0 DEF KeyRemove
  <1>f. keyMu = a /\ HasRow(keySnap.byID, n, o)
    BY <1>0 DEF StepsOK, StepFacts
  <1>m. Moves(a, [pc |-> "forget", id |-> n, old |-> o])
    <2>1. keyStep' = [keyStep EXCEPT ![a] = [keyStep[a] EXCEPT !.pc = "forget"]]
      BY DEF KeyRemove
    <2>2. [keyStep[a] EXCEPT !.pc = "forget"] = [pc |-> "forget", id |-> n, old |-> o]
      BY <1>0
    <2> QED BY <2>1, <2>2 DEF Moves
  <1>1. /\ keyStep' = [b \in KeyAdmins |-> keyStep'[b]]
        /\ keyStep'[a] = [pc |-> "forget", id |-> n, old |-> o]
        /\ \A b \in KeyAdmins \ {a} : keyStep'[b] = keyStep[b]
    BY <1>m, MoveSteps
  <1>2. \A b \in KeyAdmins \ {a} : keyStep[b].pc \in {"idle", "imported"}
    BY <1>f, HolderAlone
  <1>3. InstallRows' = {}
    BY <1>1, <1>2 DEF InstallRows
  <1>5. OneId' /\ Issued'
    <2>1. \A f \in RowTables' : \A i \in DOMAIN f : \E g \in RowTables : HasRow(g, i, f[i])
      BY <1>3, <1>d DEF RowTables, HasRow, CutRows
    <2>2. nextKey' \in Nat /\ nextKey <= nextKey'
      BY <1>d DEF Shapes
    <2> QED BY <1>d, <2>1, <2>2, CopiesKeep
  <1>6. StepsOK'
    <2> SUFFICES ASSUME NEW b \in KeyAdmins
                 PROVE  StepForm(keyStep'[b]) /\ StepFacts(b, keyStep[b])'
      BY DEF StepsOK
    <2>1. CASE b = a
      BY <1>1, <1>d, <1>f, <2>1 DEF StepForm, StepFacts, HasRow
    <2>2. CASE b # a
      BY <1>1, <1>2, <2>2 DEF StepFacts, StepsOK
    <2> QED BY <2>1, <2>2
  <1>7. Mirrors'
    <2>1. Publishing(n)'
      BY <1>1 DEF Publishing
    <2>2. \A i : ~Publishing(i)
      BY <1>0, <1>2 DEF Publishing
    <2> QED BY <1>d, <2>1, <2>2 DEF Mirrors, HasRow, CutRows
  <1>8. Withdrawn'
    <2>1. \A i \in DOMAIN keyDb : keyDb[i] = o => i = n
      BY <1>f DEF OneId, RowTables, HasRow
    <2>2. o \in usedValues
      BY <1>f DEF Issued, RowTables, HasRow
    <2> QED BY <1>d, <2>1, <2>2 DEF Withdrawn, CutRows
  <1>9. PointsBack' /\ Shapes'
    BY <1>d, <1>1 DEF PointsBack, HasRow, Shapes
  <1> QED BY <1>5, <1>6, <1>7, <1>8, <1>9

\* The read of a refresh.
LEMMA KeyFindKeeps ==
  ASSUME CacheInv, NEW a \in KeyAdmins, KeyFind(a)
  PROVE  CacheInv'
  <1> USE DEF CacheInv
  <1>0. /\ keyStep[a].pc = "find" /\ Moves(a, [pc |-> "install", rows |-> keyDb])
        /\ UNCHANGED <<keyDb, keySnap, keyMu, keyDump, revoked, usedValues, nextKey>>
    BY DEF KeyFind, Moves
  <1>f. keyMu = a
    BY <1>0 DEF StepsOK, StepFacts
  <1>1. /\ keyStep' = [b \in KeyAdmins |-> keyStep'[b]]
        /\ keyStep'[a] = [pc |-> "install", rows |-> keyDb]
        /\ \A b \in KeyAdmins \ {a} : keyStep'[b] = keyStep[b]
    BY <1>0, MoveSteps
  <1>2. \A b \in KeyAdmins \ {a} : keyStep[b].pc \in {"idle", "imported"}
    BY <1>f, HolderAlone
  <1>3. InstallRows' = {keyDb}
    BY <1>1, <1>2 DEF InstallRows
  <1>4. RowTables' \subseteq RowTables
    BY <1>0, <1>3 DEF RowTables
  <1>5. OneId' /\ Issued'
    BY <1>0, <1>4 DEF OneId, Issued
  <1>6. StepsOK'
    <2> SUFFICES ASSUME NEW b \in KeyAdmins
                 PROVE  StepForm(keyStep'[b]) /\ StepFacts(b, keyStep[b])'
      BY DEF StepsOK
    <2>1. CASE b = a
      BY <1>0, <1>1, <1>f, <2>1 DEF StepForm, StepFacts, HasRow
    <2>2. CASE b # a
      BY <1>1, <1>2, <2>2 DEF StepFacts, StepsOK
    <2> QED BY <2>1, <2>2
  <1>7. Mirrors'
    BY <1>0, <1>2 DEF Mirrors, HasRow, Publishing
  <1>8. Withdrawn' /\ PointsBack' /\ Shapes'
    BY <1>0, <1>1 DEF Withdrawn, PointsBack, HasRow, Shapes
  <1> QED BY <1>5, <1>6, <1>7, <1>8

\* A publication that mirrors the database in every row and points back from every
\* plaintext.
LEMMA PublishKeeps ==
  ASSUME CacheInv, NEW a \in KeyAdmins, keyMu = a, NEW snap, Publish1(a, snap),
         \A i \in DOMAIN snap.byID : HasRow(keyDb, i, snap.byID[i]),
         \A v \in DOMAIN snap.byKey : HasRow(snap.byID, snap.byKey[v], v)
  PROVE  CacheInv'
  <1> USE DEF CacheInv
  <1>0. /\ keySnap' = snap /\ Moves(a, AtRest) /\ keyMu' = NoAdmin
        /\ UNCHANGED <<keyDb, keyDump, revoked, usedValues, nextKey>>
    BY DEF Publish1, Moves
  <1>1. /\ keyStep' = [b \in KeyAdmins |-> keyStep'[b]] /\ keyStep'[a] = AtRest
        /\ \A b \in KeyAdmins \ {a} : keyStep'[b] = keyStep[b]
    BY <1>0, MoveSteps
  <1>2. \A b \in KeyAdmins \ {a} : keyStep[b].pc \in {"idle", "imported"}
    BY HolderAlone
  <1>3. InstallRows' = {}
    BY <1>1, <1>2 DEF InstallRows, AtRest
  <1>5. OneId' /\ Issued'
    <2>1. \A f \in RowTables' : \A i \in DOMAIN f : \E g \in RowTables : HasRow(g, i, f[i])
      BY <1>3, <1>0 DEF RowTables, HasRow
    <2>2. nextKey' \in Nat /\ nextKey <= nextKey'
      BY <1>0 DEF Shapes
    <2> QED BY <1>0, <2>1, <2>2, CopiesKeep
  <1>6. StepsOK'
    <2> SUFFICES ASSUME NEW b \in KeyAdmins
                 PROVE  StepForm(keyStep'[b]) /\ StepFacts(b, keyStep[b])'
      BY DEF StepsOK
    <2>1. CASE b = a
      BY <1>1, <2>1 DEF StepForm, StepFacts, AtRest
    <2>2. CASE b # a
      BY <1>1, <1>2, <2>2 DEF StepFacts, StepsOK
    <2> QED BY <2>1, <2>2
  <1>7. Mirrors' /\ PointsBack'
    BY <1>0 DEF Mirrors, PointsBack, HasRow
  <1>8. Withdrawn' /\ Shapes'
    BY <1>0, <1>1 DEF Withdrawn, Shapes
  <1> QED BY <1>5, <1>6, <1>7, <1>8

\* While a request publishes, every other row of the snapshot is in the database.
LEMMA OthersMirror ==
  ASSUME CacheInv, NEW a \in KeyAdmins, keyMu = a, NEW i \in DOMAIN keySnap.byID,
         keyStep[a].pc \in {"publish", "forget"} => keyStep[a].id # i
  PROVE  HasRow(keyDb, i, keySnap.byID[i])
  BY HolderAlone DEF CacheInv, Mirrors, Publishing

\* The publication of a create or an update.
LEMMA KeyStoreKeeps ==
  ASSUME CacheInv, NEW a \in KeyAdmins, KeyStore(a)
  PROVE  CacheInv'
  <1> USE DEF CacheInv
  <1>0. PICK n, w, o : /\ keyStep[a].pc = "publish"
                       /\ keyStep[a].id = n /\ keyStep[a].value = w /\ keyStep[a].old = o
    BY DEF KeyStore
  <1> DEFINE ids  == PutRow(keySnap.byID, n, w)
             keys == PutRow(CutRows(keySnap.byKey, {o}), w, n)
             snap == [byID |-> ids, byKey |-> keys]
  <1>1. Publish1(a, snap)
    BY <1>0 DEF KeyStore
  <1>2. /\ keyMu = a /\ HasRow(keyDb, n, w)
        /\ n \in DOMAIN keySnap.byID => keySnap.byID[n] = o
    BY <1>0 DEF StepsOK, StepFacts
  <1>3. \A i \in DOMAIN ids : HasRow(keyDb, i, ids[i])
    <2> SUFFICES ASSUME NEW i \in DOMAIN ids PROVE HasRow(keyDb, i, ids[i])
      OBVIOUS
    <2>1. CASE i = n
      BY <1>2, <2>1 DEF PutRow, HasRow
    <2>2. CASE i # n
      <3>1. i \in DOMAIN keySnap.byID /\ ids[i] = keySnap.byID[i]
        BY <2>2 DEF PutRow
      <3> QED BY <1>0, <1>2, <2>2, <3>1, OthersMirror
    <2> QED BY <2>1, <2>2
  <1>4. \A v \in DOMAIN keys : HasRow(ids, keys[v], v)
    BY <1>2 DEF PutRow, CutRows, HasRow, PointsBack
  <1>5. snap.byID = ids /\ snap.byKey = keys
    OBVIOUS
  <1> HIDE DEF ids, keys, snap
  <1> QED BY <1>1, <1>2, <1>3, <1>4, <1>5, PublishKeeps

\* The publication of a delete.
LEMMA KeyForgetKeeps ==
  ASSUME CacheInv, NEW a \in KeyAdmins, KeyForget(a)
  PROVE  CacheInv'
  <1> USE DEF CacheInv
  <1>0. PICK n, o : keyStep[a].pc = "forget" /\ keyStep[a].id = n /\ keyStep[a].old = o
    BY DEF KeyForget
  <1> DEFINE ids  == CutRows(keySnap.byID, {n})
             keys == CutRows(keySnap.byKey, {o})
             snap == [byID |-> ids, byKey |-> keys]
  <1>1. Publish1(a, snap)
    BY <1>0 DEF KeyForget
  <1>2. keyMu = a /\ HasRow(keySnap.byID, n, o)
    BY <1>0 DEF StepsOK, StepFacts
  <1>3. \A i \in DOMAIN ids : HasRow(keyDb, i, ids[i])
    <2> SUFFICES ASSUME NEW i \in DOMAIN ids PROVE HasRow(keyDb, i, ids[i])
      OBVIOUS
    <2>1. i \in DOMAIN keySnap.byID /\ i # n /\ ids[i] = keySnap.byID[i]
      BY DEF CutRows
    <2> QED BY <1>0, <1>2, <2>1, OthersMirror
  <1>4. \A v \in DOMAIN keys : HasRow(ids, keys[v], v)
    BY <1>2 DEF CutRows, HasRow, PointsBack
  <1>5. snap.byID = ids /\ snap.byKey = keys
    OBVIOUS
  <1> HIDE DEF ids, keys, snap
  <1> QED BY <1>1, <1>2, <1>3, <1>4, <1>5, PublishKeeps

\* OfRows points from each plaintext to the one row that has it.
LEMMA OfRowsPoints ==
  ASSUME NEW rows, DOMAIN rows \subseteq Nat,
         \A i, j \in DOMAIN rows : rows[i] = rows[j] => i = j
  PROVE  \A v \in DOMAIN OfRows(rows).byKey : HasRow(rows, OfRows(rows).byKey[v], v)
  <1> SUFFICES ASSUME NEW v \in {rows[i] : i \in DOMAIN rows}
               PROVE  HasRow(rows, OfRows(rows).byKey[v], v)
    BY DEF OfRows
  <1>1. OfRows(rows).byKey[v] = CHOOSE i \in DOMAIN rows : rows[i] = v
                                  /\ \A j \in DOMAIN rows : rows[j] = v => j <= i
    BY DEF OfRows
  <1>2. \E i \in DOMAIN rows : rows[i] = v /\ \A j \in DOMAIN rows : rows[j] = v => j <= i
    <2>1. PICK i \in DOMAIN rows : rows[i] = v
      OBVIOUS
    <2>2. \A j \in DOMAIN rows : rows[j] = v => j = i
      BY <2>1
    <2> QED BY <2>1, <2>2
  <1> QED BY <1>1, <1>2 DEF HasRow

\* The publication of a refresh.
LEMMA KeyInstallKeeps ==
  ASSUME CacheInv, NEW a \in KeyAdmins, KeyInstall(a)
  PROVE  CacheInv'
  <1> USE DEF CacheInv
  <1>0. PICK rows : keyStep[a].pc = "install" /\ keyStep[a].rows = rows
    BY DEF KeyInstall
  <1>1. Publish1(a, OfRows(rows))
    BY <1>0 DEF KeyInstall
  <1>2. keyMu = a /\ \A i \in DOMAIN rows : HasRow(keyDb, i, rows[i])
    BY <1>0 DEF StepsOK, StepFacts
  <1>3. rows \in RowTables
    BY <1>0 DEF RowTables, InstallRows
  <1>4. DOMAIN rows \subseteq Nat
    BY <1>3 DEF Issued, Shapes
  <1>5. \A i, j \in DOMAIN rows : rows[i] = rows[j] => i = j
    BY <1>3 DEF OneId
  <1>6. \A v \in DOMAIN OfRows(rows).byKey : HasRow(rows, OfRows(rows).byKey[v], v)
    BY <1>4, <1>5, OfRowsPoints
  <1>7. OfRows(rows).byID = rows
    BY DEF OfRows
  <1> QED BY <1>1, <1>2, <1>6, <1>7, PublishKeeps

\* An import beside the holder of the lock: rows come back under the ids they had, and no
\* row that is there changes.
LEMMA KeyImportKeeps ==
  ASSUME CacheInv, NEW a \in KeyAdmins, KeyImport(a)
  PROVE  CacheInv'
  <1> USE DEF CacheInv
  <1> DEFINE new == DOMAIN keyDump \ DOMAIN keyDb
  <1>0. /\ keyStep[a] = AtRest /\ Moves(a, [pc |-> "imported"])
        /\ UNCHANGED <<keySnap, keyMu, keyDump, usedValues, nextKey>>
    BY DEF KeyImport, Moves
  <1>d. /\ keyDb' = [i \in DOMAIN keyDb \cup new |-> IF i \in new THEN keyDump[i] ELSE keyDb[i]]
        /\ revoked' = revoked \ {keyDump[i] : i \in new}
    BY DEF KeyImport
  <1>1. /\ keyStep' = [b \in KeyAdmins |-> keyStep'[b]] /\ keyStep'[a] = [pc |-> "imported"]
        /\ \A b \in KeyAdmins \ {a} : keyStep'[b] = keyStep[b]
    BY <1>0, MoveSteps
  <1>2. InstallRows' \subseteq InstallRows
    BY <1>1 DEF InstallRows
  <1>3. \A i, v : HasRow(keyDb, i, v) => HasRow(keyDb', i, v)
    BY <1>d DEF HasRow
  <1>5. OneId' /\ Issued'
    <2>1. \A f \in RowTables' : \A i \in DOMAIN f : \E g \in RowTables : HasRow(g, i, f[i])
      BY <1>0, <1>2, <1>d DEF RowTables, HasRow
    <2>2. nextKey' \in Nat /\ nextKey <= nextKey'
      BY <1>0 DEF Shapes
    <2> QED BY <1>0, <2>1, <2>2, CopiesKeep
  <1>6. StepsOK'
    <2> SUFFICES ASSUME NEW b \in KeyAdmins
                 PROVE  StepForm(keyStep'[b]) /\ StepFacts(b, keyStep[b])'
      BY DEF StepsOK
    <2>1. CASE b = a
      BY <1>1, <2>1 DEF StepForm, StepFacts
    <2>2. CASE b # a
      <3>1. StepForm(keyStep[b]) /\ StepFacts(b, keyStep[b]) /\ keyStep'[b] = keyStep[b]
        BY <1>1, <2>2 DEF StepsOK
      <3> QED BY <1>0, <1>3, <3>1 DEF StepFacts
    <2> QED BY <2>1, <2>2
  <1>7. Mirrors'
    <2>1. \A i : Publishing(i) => Publishing(i)'
      BY <1>0, <1>1 DEF Publishing, AtRest
    <2> QED BY <1>0, <1>3, <2>1 DEF Mirrors
  <1>8. Withdrawn'
    BY <1>0, <1>d DEF Withdrawn
  <1>9. PointsBack' /\ Shapes'
    BY <1>0, <1>1 DEF PointsBack, HasRow, Shapes
  <1> QED BY <1>5, <1>6, <1>7, <1>8, <1>9

\* The refresh after an import takes the lock.
LEMMA KeyInitCacheKeeps ==
  ASSUME CacheInv, NEW a \in KeyAdmins, KeyInitCache(a)
  PROVE  CacheInv'
  <1> USE DEF CacheInv
  <1>0. /\ keyStep[a].pc = "imported" /\ keyMu = NoAdmin /\ keyMu' = a /\ Moves(a, [pc |-> "find"])
        /\ UNCHANGED <<keyDb, keySnap, keyDump, revoked, usedValues, nextKey>>
    BY DEF KeyInitCache, Moves
  <1>1. /\ keyStep' = [b \in KeyAdmins |-> keyStep'[b]] /\ keyStep'[a] = [pc |-> "find"]
        /\ \A b \in KeyAdmins \ {a} : keyStep'[b] = keyStep[b]
    BY <1>0, MoveSteps
  <1>2. \A b \in KeyAdmins : keyStep[b].pc \in {"idle", "imported"}
    BY <1>0, HolderAlone
  <1>3. InstallRows = {} /\ InstallRows' = {}
    BY <1>1, <1>2 DEF InstallRows
  <1>4. RowTables' = RowTables
    BY <1>0, <1>3 DEF RowTables
  <1>5. OneId' /\ Issued'
    BY <1>0, <1>4 DEF OneId, Issued
  <1>6. StepsOK'
    <2> SUFFICES ASSUME NEW b \in KeyAdmins
                 PROVE  StepForm(keyStep'[b]) /\ StepFacts(b, keyStep[b])'
      BY DEF StepsOK
    <2>1. CASE b = a
      BY <1>0, <1>1, <2>1 DEF StepForm, StepFacts
    <2>2. CASE b # a
      BY <1>1, <1>2, <2>2 DEF StepFacts, StepsOK
    <2> QED BY <2>1, <2>2
  <1>7. Mirrors'
    BY <1>0, <1>2 DEF Mirrors, HasRow, Publishing
  <1>8. Withdrawn' /\ PointsBack' /\ Shapes'
    BY <1>0, <1>1 DEF Withdrawn, PointsBack, HasRow, Shapes
  <1> QED BY <1>5, <1>6, <1>7, <1>8

\* An export copies the rows.
LEMMA KeyExportKeeps ==
  ASSUME CacheInv, KeyExport
  PROVE  CacheInv'
  <1> USE DEF CacheInv
  <1>0. keyDump' = keyDb /\ UNCHANGED <<keyDb, keySnap, keyMu, keyStep, revoked, usedValues, nextKey>>
    BY DEF KeyExport
  <1>1. RowTables' \subseteq RowTables
    BY <1>0 DEF RowTables, InstallRows
  <1>2. OneId' /\ Issued'
    BY <1>0, <1>1 DEF OneId, Issued
  <1>3. StepsOK'
    BY <1>0 DEF StepsOK, StepFacts, HasRow
  <1> QED BY <1>0, <1>2, <1>3 DEF Mirrors, HasRow, Publishing, Withdrawn, PointsBack, Shapes

\* Every step keeps the invariant while no plaintext is chosen twice.
LEMMA CacheStep ==
  ASSUME ~ReusePlaintext, CacheInv, [KeyNext]_keyVars
  PROVE  CacheInv'
  <1> USE DEF CacheInv
  <1>1. CASE UNCHANGED keyVars
    <2>1. UNCHANGED <<keyDb, keySnap, keyMu, keyStep, keyDump, revoked, usedValues, nextKey>>
      BY <1>1 DEF keyVars
    <2>2. OneId' /\ Issued'
      BY <2>1 DEF OneId, Issued, RowTables, InstallRows
    <2>3. StepsOK'
      BY <2>1 DEF StepsOK, StepFacts, HasRow
    <2> QED BY <2>1, <2>2, <2>3 DEF Mirrors, HasRow, Publishing, Withdrawn, PointsBack, Shapes
  <1>2. ASSUME NEW a \in KeyAdmins, NEW v \in KeyValues, APIKeyCreate(a, v) PROVE CacheInv'
    <2> DEFINE s == [pc |-> "insert", value |-> v]
    <2>1. LockFor(a, s) /\ v \notin usedValues
      BY <1>2 DEF APIKeyCreate, Choosable
    <2>2. StepForm(s) /\ s.pc = "insert" /\ s.value = v
      BY DEF StepForm
    <2> HIDE DEF s
    <2> QED BY <2>1, <2>2, LockForKeeps
  <1>3. ASSUME NEW a \in KeyAdmins, NEW v \in KeyValues, NEW i \in DOMAIN keySnap.byID,
               APIKeyUpdate(a, i, v)
        PROVE  CacheInv'
    <2> DEFINE o == keySnap.byID[i]
               s == [pc |-> "save", id |-> i, value |-> v, old |-> o]
    <2>1. LockFor(a, s) /\ v \notin usedValues /\ HasRow(keySnap.byID, i, o)
      BY <1>3 DEF APIKeyUpdate, Choosable, HasRow
    <2>2. StepForm(s) /\ s.pc = "save" /\ s.value = v /\ s.id = i /\ s.old = o
      BY DEF StepForm
    <2> HIDE DEF s, o
    <2> QED BY <2>1, <2>2, LockForKeeps
  <1>4. ASSUME NEW a \in KeyAdmins, NEW i \in DOMAIN keySnap.byID, APIKeyDelete(a, i)
        PROVE  CacheInv'
    <2> DEFINE o == keySnap.byID[i]
               s == [pc |-> "delete", id |-> i, old |-> o]
    <2>1. LockFor(a, s) /\ HasRow(keySnap.byID, i, o)
      BY <1>4 DEF APIKeyDelete, HasRow
    <2>2. StepForm(s) /\ s.pc = "delete" /\ s.id = i /\ s.old = o
      BY DEF StepForm
    <2> HIDE DEF s, o
    <2> QED BY <2>1, <2>2, LockForKeeps
  <1>5. ASSUME NEW a \in KeyAdmins, apiKeyRefreshCache(a) PROVE CacheInv'
    <2> DEFINE s == [pc |-> "find"]
    <2>1. LockFor(a, s)
      BY <1>5 DEF apiKeyRefreshCache
    <2>2. StepForm(s) /\ s.pc = "find"
      BY DEF StepForm
    <2> HIDE DEF s
    <2> QED BY <2>1, <2>2, LockForKeeps
  <1>6. CASE KeyNext
    BY <1>2, <1>3, <1>4, <1>5, <1>6, KeyExportKeeps, KeyImportKeeps, KeyInitCacheKeeps, KeyInsertKeeps,
       KeySaveKeeps, KeyRemoveKeeps, KeyFindKeeps, KeyStoreKeeps, KeyForgetKeeps, KeyInstallKeeps
    DEF KeyNext
  <1> QED BY <1>1, <1>6

\* The initial state satisfies it.
LEMMA CacheStart == KeyInit => CacheInv
  <1> SUFFICES ASSUME KeyInit PROVE CacheInv
    OBVIOUS
  <1>1. DOMAIN NoRows = {} /\ keySnap.byID = NoRows /\ DOMAIN keySnap.byKey = {}
    BY DEF KeyInit, NoRows, OfRows
  <1>2. \A a \in KeyAdmins : keyStep[a] = AtRest
    BY DEF KeyInit
  <1>3. RowTables = {NoRows}
    BY <1>1, <1>2 DEF KeyInit, RowTables, InstallRows, AtRest
  <1>4. StepsOK
    BY <1>2 DEF StepsOK, StepForm, StepFacts, AtRest
  <1>5. OneId /\ Issued
    BY <1>1, <1>3 DEF OneId, Issued
  <1> QED BY <1>1, <1>4, <1>5
          DEF KeyInit, CacheInv, Shapes, Withdrawn, Mirrors, PointsBack

\* A plaintext withdrawn by a delete or a change of value never authenticates again once its
\* request has returned, whatever creates, updates, refreshes and imports interleave, for any
\* number of admins, keys and writes.  The hypothesis is that no plaintext is chosen for two
\* keys: with it chosen again, an import may restore the first key under its old id.
THEOREM RevokedKeysStayOut ==
  ASSUME ~ReusePlaintext
  PROVE  KeySpec => []RevokedStaysRevoked
  <1>1. CacheInv => RevokedStaysRevoked
    <2> SUFFICES ASSUME CacheInv, NEW v \in revoked, Authenticates(v),
                        \A a \in KeyAdmins : keyStep[a].pc \in {"publish", "forget"} => keyStep[a].old # v
                 PROVE  FALSE
      BY DEF RevokedStaysRevoked
    <2> DEFINE i == keySnap.byKey[v]
    <2>1. HasRow(keySnap.byID, i, v)
      BY DEF Authenticates, CacheInv, PointsBack
    <2>2. ~HasRow(keyDb, i, v)
      BY DEF CacheInv, Withdrawn, HasRow
    <2>3. PICK a \in KeyAdmins : keyStep[a].pc \in {"publish", "forget"} /\ keyStep[a].id = i
      BY <2>1, <2>2 DEF CacheInv, Mirrors, Publishing, HasRow
    <2>4. keySnap.byID[i] = keyStep[a].old
      BY <2>1, <2>3 DEF CacheInv, StepsOK, StepFacts, HasRow
    <2> QED BY <2>1, <2>3, <2>4 DEF HasRow
  <1>2. CacheInv /\ [KeyNext]_keyVars => CacheInv'
    BY CacheStep
  <1> QED BY <1>1, <1>2, CacheStart, PTL DEF KeySpec

-----------------------------------------------------------------------------
(***************************************************************************)
(* Backups.  Ids are never used twice, so a row of an own dump and the row *)
(* of the tables with its id are the same row; a channel has one model at  *)
(* a time, so a model of the dump clashes with itself only.                *)
(***************************************************************************)
TablesOf(R) == UNION {[S -> R] : S \in SUBSET Nat}
ChanRows == [name : ChannelNames, proxy : {"p", "none", Mask}]
ModRows == [ch : Nat, name : ModelNames]
ItemRows == [grp : Nat, model : Nat, ref : BackupGroups \cup {NoRef}]
ChanTables == TablesOf(ChanRows)
ModTables == TablesOf(ModRows)
GrpTables == TablesOf(BackupGroups)
ItemTables == TablesOf(ItemRows)
SettingTables == [SettingKeys -> {"default", "set", Mask}]
BackupTables == [chans : ChanTables, mods : ModTables, grps : GrpTables, items : ItemTables, settings : SettingTables]
Ids == [chans : Nat, mods : Nat, grps : Nat, items : Nat]

\* What holds of the tables and of the dump: used ids are below the next ones, groups have a name
\* each and channels a model each, and an item is in a group.
Below(t, n) ==
  /\ \A i \in DOMAIN t.chans : i < n.chans
  /\ \A i \in DOMAIN t.mods : i < n.mods /\ t.mods[i].ch < n.chans
  /\ \A i \in DOMAIN t.grps : i < n.grps
  /\ \A i \in DOMAIN t.items : i < n.items
OneEach(t) ==
  /\ \A g, h \in DOMAIN t.grps : t.grps[g] = t.grps[h] => g = h
  /\ \A m, k \in DOMAIN t.mods : t.mods[m].ch = t.mods[k].ch => m = k
ItemsHome(t) == \A i \in DOMAIN t.items : t.items[i].grp \in DOMAIN t.grps
Whole(t, n) == Below(t, n) /\ OneEach(t) /\ ItemsHome(t)

\* The same ids are the same rows.
Same(t, d) ==
  /\ \A g \in DOMAIN t.grps \cap DOMAIN d.grps : t.grps[g] = d.grps[g]
  /\ \A m \in DOMAIN t.mods, k \in DOMAIN d.mods : t.mods[m].ch = d.mods[k].ch => m = k

DumpOK ==
  /\ dump.chans \in ChanTables /\ dump.mods \in ModTables /\ dump.grps \in GrpTables /\ dump.items \in ItemTables
  /\ \A k \in DOMAIN dump.settings : dump.settings[k] \in {"default", "set", Mask}
  /\ Whole(dump, nextIds)

\* What RestoreSound says, of any tables.
Resolved(t) ==
  \A i \in DOMAIN t.items :
    /\ t.items[i].model = 0 \/ t.items[i].model \in DOMAIN t.mods
    /\ t.items[i].ref = NoRef \/ t.items[i].ref \in GroupNamesIn(t)
NoCycle(t) == Acyclic(GroupNamesIn(t), RefGraph(t))
Unmasked(t) ==
  /\ \A c \in DOMAIN t.chans : t.chans[c].proxy # Mask
  /\ (\A k \in SettingKeys : t.settings[k] # Mask) /\ t.settings.secret = "default"
Good(t) == Resolved(t) /\ NoCycle(t) /\ Unmasked(t)

TablesOK == tables \in BackupTables /\ nextIds \in Ids /\ stale \in BOOLEAN /\ Whole(tables, nextIds)

BackupInv == TablesOK /\ DumpOK /\ (~stale => Same(tables, dump)) /\ Good(tables)

LEMMA TableFacts ==
  ASSUME NEW R, NEW f \in TablesOf(R)
  PROVE  DOMAIN f \subseteq Nat /\ \A i \in DOMAIN f : f[i] \in R
  BY DEF TablesOf

LEMMA TableMade ==
  ASSUME NEW R, NEW S \in SUBSET Nat, NEW f \in [S -> R]
  PROVE  f \in TablesOf(R)
  BY DEF TablesOf

LEMMA RowPutFacts ==
  ASSUME NEW R, NEW f \in TablesOf(R), NEW x, {x} \subseteq Nat, NEW v \in R
  PROVE  RowPut(f, x, v) \in TablesOf(R)
<1> DEFINE h == RowPut(f, x, v)
<1>1. DOMAIN f \subseteq Nat /\ \A i \in DOMAIN f : f[i] \in R
  BY TableFacts
<1>2. h \in [DOMAIN f \cup {x} -> R] /\ DOMAIN f \cup {x} \in SUBSET Nat
  BY <1>1 DEF RowPut
<1> HIDE DEF h
<1>3. h \in TablesOf(R)
  BY <1>2, TableMade
<1> QED
  BY <1>3 DEF h

LEMMA RowCutFacts ==
  ASSUME NEW R, NEW f \in TablesOf(R), NEW S
  PROVE  /\ RowCut(f, S) \in TablesOf(R) /\ DOMAIN RowCut(f, S) = DOMAIN f \ S
         /\ \A i \in DOMAIN f \ S : RowCut(f, S)[i] = f[i]
<1> DEFINE h == RowCut(f, S)
<1>1. DOMAIN f \subseteq Nat /\ \A i \in DOMAIN f : f[i] \in R
  BY TableFacts
<1>2. h \in [DOMAIN f \ S -> R] /\ DOMAIN f \ S \in SUBSET Nat
  BY <1>1 DEF RowCut
<1>3. \A i \in DOMAIN f \ S : h[i] = f[i]
  BY DEF RowCut
<1> HIDE DEF h
<1>4. h \in TablesOf(R)
  BY <1>2, TableMade
<1> QED
  BY <1>2, <1>3, <1>4 DEF h

LEMMA CreatedTable ==
  ASSUME NEW R, NEW f \in TablesOf(R), NEW rows \in TablesOf(R), NEW S
  PROVE  createDoNothing(f, rows, S) \in TablesOf(R)
<1> DEFINE D == DOMAIN f \cup (DOMAIN rows \ S)
           h == createDoNothing(f, rows, S)
<1>1. DOMAIN f \subseteq Nat /\ (\A i \in DOMAIN f : f[i] \in R) /\ DOMAIN rows \subseteq Nat /\ \A i \in DOMAIN rows : rows[i] \in R
  BY TableFacts
<1>2. h \in [D -> R] /\ D \in SUBSET Nat
  BY <1>1 DEF createDoNothing
<1> HIDE DEF h
<1>3. h \in TablesOf(R)
  BY <1>2, TableMade
<1> QED
  BY <1>3 DEF h

LEMMA NameMembers ==
  ASSUME NEW t, NEW x PROVE x \in GroupNamesIn(t) <=> \E g \in DOMAIN t.grps : t.grps[g] = x
  BY DEF GroupNamesIn, Column

LEMMA RefMembers ==
  ASSUME NEW t, NEW n, NEW x
  PROVE  x \in RefsOf(t, n) <=> \E j \in DOMAIN t.items : t.items[j].ref # NoRef /\ t.grps[t.items[j].grp] = n /\ t.items[j].ref = x
  BY DEF RefsOf

\* Fewer names and references have no new cycle.
LEMMA SubGraph ==
  ASSUME NEW N, NEW E, Acyclic(N, E), NEW M \in SUBSET N, NEW F, \A n \in M : F[n] \subseteq E[n]
  PROVE  Acyclic(M, F)
<1> SUFFICES ASSUME NEW S \in SUBSET M, S # {} PROVE \E n \in S : F[n] \cap S = {}
  BY DEF Acyclic
<1>1. PICK n \in S : E[n] \cap S = {}
  BY DEF Acyclic
<1> QED
  BY <1>1

LEMMA RefsAcyclic ==
  ASSUME NEW t, NEW u, NoCycle(t), GroupNamesIn(u) \subseteq GroupNamesIn(t),
         \A n \in GroupNamesIn(u) : RefsOf(u, n) \subseteq RefsOf(t, n)
  PROVE  NoCycle(u)
<1>1. \A n \in GroupNamesIn(u) : RefGraph(u)[n] \subseteq RefGraph(t)[n]
  BY DEF RefGraph
<1> QED
  BY <1>1, SubGraph DEF NoCycle

LEMMA FewerRefs ==
  ASSUME NEW t, NEW u, \A i \in DOMAIN t.items : i \in DOMAIN u.items /\ t.items[i] = u.items[i]
                                                /\ t.grps[t.items[i].grp] = u.grps[t.items[i].grp], NEW n
  PROVE  RefsOf(t, n) \subseteq RefsOf(u, n)
<1> SUFFICES ASSUME NEW x \in RefsOf(t, n) PROVE x \in RefsOf(u, n)
  OBVIOUS
<1>1. PICK j \in DOMAIN t.items : t.items[j].ref # NoRef /\ t.grps[t.items[j].grp] = n /\ t.items[j].ref = x
  BY RefMembers
<1>2. j \in DOMAIN u.items /\ u.items[j].ref # NoRef /\ u.grps[u.items[j].grp] = n /\ u.items[j].ref = x
  BY <1>1
<1> QED
  BY <1>2, RefMembers

LEMMA BackupKept ==
  ASSUME BackupInv, NEW t, tables' = t, t \in BackupTables, nextIds' \in Ids,
         nextIds'.chans >= nextIds.chans, nextIds'.mods >= nextIds.mods,
         nextIds'.grps >= nextIds.grps, nextIds'.items >= nextIds.items,
         Whole(t, nextIds'), stale' \in BOOLEAN, dump' = dump, ~stale' => Same(t, dump), Good(t)
  PROVE  BackupInv'
<1>1. TablesOK'
  BY DEF TablesOK, Whole, Below, OneEach, ItemsHome
<1>2. DumpOK'
  <2> DEFINE n == nextIds
             k == nextIds'
  <2>1. /\ n \in Ids /\ k \in Ids
    BY DEF BackupInv, TablesOK
  <2>2. /\ n.chans \in Nat /\ n.mods \in Nat /\ n.grps \in Nat /\ n.items \in Nat
        /\ k.chans \in Nat /\ k.mods \in Nat /\ k.grps \in Nat /\ k.items \in Nat
    BY <2>1 DEF Ids
  <2>3. /\ DOMAIN dump.chans \subseteq Nat /\ DOMAIN dump.mods \subseteq Nat /\ DOMAIN dump.grps \subseteq Nat
        /\ DOMAIN dump.items \subseteq Nat /\ \A m \in DOMAIN dump.mods : dump.mods[m].ch \in Nat
    <3>1. \A m \in DOMAIN dump.mods : dump.mods[m] \in ModRows
      BY TableFacts DEF BackupInv, DumpOK, ModTables
    <3> QED
      BY <3>1, TableFacts DEF BackupInv, DumpOK, ChanTables, ModTables, GrpTables, ItemTables, ModRows
  <2>4. Below(dump, n) /\ k.chans >= n.chans /\ k.mods >= n.mods /\ k.grps >= n.grps /\ k.items >= n.items
    BY DEF BackupInv, DumpOK, Whole
  <2> HIDE DEF n, k
  <2>5. Below(dump, k)
    <3>1. \A i \in DOMAIN dump.chans : i < k.chans
      BY <2>2, <2>3, <2>4 DEF Below
    <3>2. \A i \in DOMAIN dump.mods : i < k.mods /\ dump.mods[i].ch < k.chans
      BY <2>2, <2>3, <2>4 DEF Below
    <3>3. \A i \in DOMAIN dump.grps : i < k.grps
      BY <2>2, <2>3, <2>4 DEF Below
    <3>4. \A i \in DOMAIN dump.items : i < k.items
      BY <2>2, <2>3, <2>4 DEF Below
    <3> QED
      BY <3>1, <3>2, <3>3, <3>4 DEF Below
  <2> QED
    BY <2>5 DEF BackupInv, DumpOK, Whole, Below, OneEach, ItemsHome, k
<1>3. (~stale => Same(tables, dump))'
  BY DEF Same
<1>4. Good(tables)'
  <2>1. Resolved(tables)'
    <3>1. GroupNamesIn(tables)' = GroupNamesIn(t)
      BY DEF GroupNamesIn, Column
    <3> QED
      BY <3>1 DEF Good, Resolved
  <2>2. NoCycle(tables)'
    <3>1. /\ GroupNamesIn(tables)' = GroupNamesIn(t)
          /\ RefGraph(tables)' = RefGraph(t)
      BY DEF GroupNamesIn, Column, RefGraph, RefsOf
    <3> QED
      BY <3>1 DEF Good, NoCycle, Acyclic
  <2>3. Unmasked(tables)'
    BY DEF Good, Unmasked
  <2> QED
    BY <2>1, <2>2, <2>3 DEF Good
<1> QED
  BY <1>1, <1>2, <1>3, <1>4 DEF BackupInv

\* The facts about the tables that every step starts from.
LEMMA BackupFacts ==
  ASSUME BackupInv
  PROVE  /\ tables \in BackupTables /\ tables.chans \in ChanTables /\ tables.mods \in ModTables
         /\ tables.grps \in GrpTables /\ tables.items \in ItemTables /\ tables.settings \in SettingTables
         /\ nextIds \in Ids /\ nextIds.chans \in Nat /\ nextIds.mods \in Nat
         /\ nextIds.grps \in Nat /\ nextIds.items \in Nat
         /\ Below(tables, nextIds) /\ OneEach(tables) /\ ItemsHome(tables)
         /\ Resolved(tables) /\ NoCycle(tables) /\ Unmasked(tables)
         /\ (~stale => Same(tables, dump)) /\ Below(dump, nextIds)
<1>1. tables \in BackupTables /\ nextIds \in Ids
  BY DEF BackupInv, TablesOK
<1>2. /\ tables.chans \in ChanTables /\ tables.mods \in ModTables /\ tables.grps \in GrpTables
      /\ tables.items \in ItemTables /\ tables.settings \in SettingTables
  BY <1>1 DEF BackupTables
<1>3. nextIds.chans \in Nat /\ nextIds.mods \in Nat /\ nextIds.grps \in Nat /\ nextIds.items \in Nat
  BY <1>1 DEF Ids
<1> QED
  BY <1>1, <1>2, <1>3 DEF BackupInv, TablesOK, DumpOK, Whole, Good

\* Ids that only grow.
LEMMA IdsFacts ==
  ASSUME BackupInv, nextIds' = nextIds \/ \E T : Advance(T)
  PROVE  /\ nextIds' \in Ids /\ nextIds'.chans >= nextIds.chans /\ nextIds'.mods >= nextIds.mods
         /\ nextIds'.grps >= nextIds.grps /\ nextIds'.items >= nextIds.items
<1>1. nextIds \in Ids
  BY BackupFacts
<1>2. CASE nextIds' = nextIds
  BY <1>1, <1>2 DEF Ids
<1>3. ASSUME NEW T, Advance(T)
      PROVE  /\ nextIds' \in Ids /\ nextIds'.chans >= nextIds.chans /\ nextIds'.mods >= nextIds.mods
             /\ nextIds'.grps >= nextIds.grps /\ nextIds'.items >= nextIds.items
  BY <1>1, <1>3 DEF Ids, Advance
<1> QED
  BY <1>2, <1>3

-----------------------------------------------------------------------------
\* Rows are taken out.
LEMMA Shrunk ==
  ASSUME BackupInv, NEW t \in BackupTables, tables' = t,
         DOMAIN t.chans \subseteq DOMAIN tables.chans, \A i \in DOMAIN t.chans : t.chans[i] = tables.chans[i],
         DOMAIN t.mods \subseteq DOMAIN tables.mods, \A i \in DOMAIN t.mods : t.mods[i] = tables.mods[i],
         DOMAIN t.grps \subseteq DOMAIN tables.grps, \A i \in DOMAIN t.grps : t.grps[i] = tables.grps[i],
         DOMAIN t.items \subseteq DOMAIN tables.items, \A i \in DOMAIN t.items : t.items[i] = tables.items[i],
         t.settings = tables.settings, UNCHANGED <<nextIds, dump>>, stale' = (stale \/ FALSE),
         ItemsHome(t), Resolved(t)
  PROVE  BackupInv'
<1>1. Below(t, nextIds)
  BY BackupFacts DEF Below
<1>2. OneEach(t)
  BY BackupFacts DEF OneEach
<1>3. Unmasked(t)
  BY BackupFacts DEF Unmasked
<1>4. GroupNamesIn(t) \subseteq GroupNamesIn(tables)
  BY NameMembers
<1>5. \A n : RefsOf(t, n) \subseteq RefsOf(tables, n)
  BY FewerRefs DEF ItemsHome
<1>6. NoCycle(t)
  BY <1>4, <1>5, BackupFacts, RefsAcyclic
<1>7. stale' = stale /\ stale \in BOOLEAN
  BY DEF BackupInv, TablesOK
<1>8. ~stale => Same(t, dump)
  BY BackupFacts DEF Same
<1> QED
  BY <1>1, <1>2, <1>3, <1>6, <1>7, <1>8, IdsFacts, BackupKept DEF Whole, Good

LEMMA CutTables ==
  ASSUME BackupInv, NEW S
  PROVE  /\ RowCut(tables.chans, S) \in ChanTables /\ DOMAIN RowCut(tables.chans, S) = DOMAIN tables.chans \ S
         /\ \A i \in DOMAIN RowCut(tables.chans, S) : RowCut(tables.chans, S)[i] = tables.chans[i]
         /\ RowCut(tables.mods, S) \in ModTables /\ DOMAIN RowCut(tables.mods, S) = DOMAIN tables.mods \ S
         /\ \A i \in DOMAIN RowCut(tables.mods, S) : RowCut(tables.mods, S)[i] = tables.mods[i]
         /\ RowCut(tables.grps, S) \in GrpTables /\ DOMAIN RowCut(tables.grps, S) = DOMAIN tables.grps \ S
         /\ \A i \in DOMAIN RowCut(tables.grps, S) : RowCut(tables.grps, S)[i] = tables.grps[i]
         /\ RowCut(tables.items, S) \in ItemTables /\ DOMAIN RowCut(tables.items, S) = DOMAIN tables.items \ S
         /\ \A i \in DOMAIN RowCut(tables.items, S) : RowCut(tables.items, S)[i] = tables.items[i]
<1>1. /\ RowCut(tables.chans, S) \in ChanTables /\ DOMAIN RowCut(tables.chans, S) = DOMAIN tables.chans \ S
      /\ \A i \in DOMAIN RowCut(tables.chans, S) : RowCut(tables.chans, S)[i] = tables.chans[i]
  <2>1. PICK f \in TablesOf(ChanRows) : f = tables.chans
    BY BackupFacts DEF ChanTables
  <2>2. /\ RowCut(f, S) \in TablesOf(ChanRows) /\ DOMAIN RowCut(f, S) = DOMAIN f \ S
        /\ \A i \in DOMAIN f \ S : RowCut(f, S)[i] = f[i]
    BY RowCutFacts
  <2> QED
    BY <2>1, <2>2 DEF ChanTables
<1>2. /\ RowCut(tables.mods, S) \in ModTables /\ DOMAIN RowCut(tables.mods, S) = DOMAIN tables.mods \ S
      /\ \A i \in DOMAIN RowCut(tables.mods, S) : RowCut(tables.mods, S)[i] = tables.mods[i]
  <2>1. PICK f \in TablesOf(ModRows) : f = tables.mods
    BY BackupFacts DEF ModTables
  <2>2. /\ RowCut(f, S) \in TablesOf(ModRows) /\ DOMAIN RowCut(f, S) = DOMAIN f \ S
        /\ \A i \in DOMAIN f \ S : RowCut(f, S)[i] = f[i]
    BY RowCutFacts
  <2> QED
    BY <2>1, <2>2 DEF ModTables
<1>3. /\ RowCut(tables.grps, S) \in GrpTables /\ DOMAIN RowCut(tables.grps, S) = DOMAIN tables.grps \ S
      /\ \A i \in DOMAIN RowCut(tables.grps, S) : RowCut(tables.grps, S)[i] = tables.grps[i]
  <2>1. PICK f \in TablesOf(BackupGroups) : f = tables.grps
    BY BackupFacts DEF GrpTables
  <2>2. /\ RowCut(f, S) \in TablesOf(BackupGroups) /\ DOMAIN RowCut(f, S) = DOMAIN f \ S
        /\ \A i \in DOMAIN f \ S : RowCut(f, S)[i] = f[i]
    BY RowCutFacts
  <2> QED
    BY <2>1, <2>2 DEF GrpTables
<1>4. /\ RowCut(tables.items, S) \in ItemTables /\ DOMAIN RowCut(tables.items, S) = DOMAIN tables.items \ S
      /\ \A i \in DOMAIN RowCut(tables.items, S) : RowCut(tables.items, S)[i] = tables.items[i]
  <2>1. PICK f \in TablesOf(ItemRows) : f = tables.items
    BY BackupFacts DEF ItemTables
  <2>2. /\ RowCut(f, S) \in TablesOf(ItemRows) /\ DOMAIN RowCut(f, S) = DOMAIN f \ S
        /\ \A i \in DOMAIN f \ S : RowCut(f, S)[i] = f[i]
    BY RowCutFacts
  <2> QED
    BY <2>1, <2>2 DEF ItemTables
<1> QED
  BY <1>1, <1>2, <1>3, <1>4

LEMMA DropChannelInv ==
  ASSUME BackupInv, NEW c, DropChannel(c) PROVE BackupInv'
<1> DEFINE gone == {m \in DOMAIN tables.mods : tables.mods[m].ch = c}
           cs == RowCut(tables.chans, {c})
           ms == RowCut(tables.mods, gone)
           its == RowCut(tables.items, ItemsOn(gone))
           t == [tables EXCEPT !.chans = cs, !.mods = ms, !.items = its]
<1>1. tables' = t /\ UNCHANGED <<nextIds, dump>> /\ stale' = (stale \/ FALSE)
  BY DEF DropChannel, Live, Stales
<1>2. cs \in ChanTables /\ DOMAIN cs = DOMAIN tables.chans \ {c} /\ \A i \in DOMAIN cs : cs[i] = tables.chans[i]
  BY CutTables
<1>3. ms \in ModTables /\ DOMAIN ms = DOMAIN tables.mods \ gone /\ \A i \in DOMAIN ms : ms[i] = tables.mods[i]
  BY CutTables
<1>4. its \in ItemTables /\ DOMAIN its = DOMAIN tables.items \ ItemsOn(gone) /\ \A i \in DOMAIN its : its[i] = tables.items[i]
  BY CutTables
<1>5. tables \in BackupTables
  BY BackupFacts
<1> HIDE DEF cs, ms, its, gone
<1>6. /\ t \in BackupTables /\ t.chans = cs /\ t.mods = ms /\ t.grps = tables.grps /\ t.items = its
      /\ t.settings = tables.settings
  BY <1>2, <1>3, <1>4, <1>5 DEF BackupTables
<1> HIDE DEF t
<1>7. ItemsHome(t)
  BY <1>4, <1>6, BackupFacts DEF ItemsHome
<1>8. Resolved(t)
  <2>1. GroupNamesIn(t) = GroupNamesIn(tables)
    BY <1>6 DEF GroupNamesIn
  <2>2. \A i \in DOMAIN its : its[i].model \notin gone
    BY <1>4 DEF ItemsOn
  <2> QED
    BY <2>1, <2>2, <1>3, <1>4, <1>6, BackupFacts DEF Resolved
<1> QED
  BY <1>1, <1>2, <1>3, <1>4, <1>6, <1>7, <1>8, Shrunk

LEMMA DropGroupInv ==
  ASSUME BackupInv, NEW g \in DOMAIN tables.grps, DropGroup(g) PROVE BackupInv'
<1> DEFINE gs == RowCut(tables.grps, {g})
           out == {i \in DOMAIN tables.items : tables.items[i].grp = g}
           its == RowCut(tables.items, out)
           t == [tables EXCEPT !.grps = gs, !.items = its]
<1>1. tables' = t /\ UNCHANGED <<nextIds, dump>> /\ stale' = (stale \/ FALSE) /\ ~Referenced(g)
  BY DEF DropGroup, Live, Stales
<1>2. gs \in GrpTables /\ DOMAIN gs = DOMAIN tables.grps \ {g} /\ \A i \in DOMAIN gs : gs[i] = tables.grps[i]
  BY CutTables
<1>3. its \in ItemTables /\ DOMAIN its = DOMAIN tables.items \ out /\ \A i \in DOMAIN its : its[i] = tables.items[i]
  BY CutTables
<1>4. tables \in BackupTables
  BY BackupFacts
<1>5. \A i \in DOMAIN its : its[i].grp # g
  BY <1>3
<1> HIDE DEF gs, its, out
<1>6. /\ t \in BackupTables /\ t.chans = tables.chans /\ t.mods = tables.mods /\ t.grps = gs /\ t.items = its
      /\ t.settings = tables.settings
  BY <1>2, <1>3, <1>4 DEF BackupTables
<1> HIDE DEF t
<1>7. ItemsHome(t)
  BY <1>2, <1>3, <1>5, <1>6, BackupFacts DEF ItemsHome
<1>8. ASSUME NEW i \in DOMAIN its, its[i].ref # NoRef PROVE its[i].ref \in GroupNamesIn(t)
  <2>1. i \in DOMAIN tables.items /\ tables.items[i].ref = its[i].ref /\ tables.items[i].grp = its[i].grp
    BY <1>3
  <2>2. tables.items[i].grp \in DOMAIN tables.grps \ {g}
    BY <2>1, <1>5, BackupFacts DEF ItemsHome
  <2>3. tables.items[i].ref \in RefsOf(tables, tables.grps[tables.items[i].grp])
    BY <2>1, <1>8, RefMembers
  <2>4. its[i].ref # tables.grps[g]
    BY <2>1, <2>2, <2>3, <1>1 DEF Referenced
  <2>5. PICK h \in DOMAIN tables.grps : tables.grps[h] = its[i].ref
    BY <2>1, <1>8, BackupFacts, NameMembers DEF Resolved
  <2>6. h \in DOMAIN t.grps /\ t.grps[h] = its[i].ref
    BY <2>4, <2>5, <1>2, <1>6
  <2> QED
    BY <2>6, NameMembers
<1>9. Resolved(t)
  BY <1>3, <1>6, <1>8, BackupFacts DEF Resolved
<1> QED
  BY <1>1, <1>2, <1>3, <1>6, <1>7, <1>9, Shrunk

LEMMA DropItemInv ==
  ASSUME BackupInv, NEW i, DropItem(i) PROVE BackupInv'
<1> DEFINE its == RowCut(tables.items, {i})
           t == [tables EXCEPT !.items = its]
<1>1. tables' = t /\ UNCHANGED <<nextIds, dump>> /\ stale' = (stale \/ FALSE)
  BY DEF DropItem, Live, Stales
<1>2. its \in ItemTables /\ DOMAIN its = DOMAIN tables.items \ {i} /\ \A j \in DOMAIN its : its[j] = tables.items[j]
  BY CutTables
<1>3. tables \in BackupTables
  BY BackupFacts
<1> HIDE DEF its
<1>4. /\ t \in BackupTables /\ t.chans = tables.chans /\ t.mods = tables.mods /\ t.grps = tables.grps /\ t.items = its
      /\ t.settings = tables.settings
  BY <1>2, <1>3 DEF BackupTables
<1> HIDE DEF t
<1>5. ItemsHome(t)
  BY <1>2, <1>4, BackupFacts DEF ItemsHome
<1>6. Resolved(t)
  <2>1. GroupNamesIn(t) = GroupNamesIn(tables)
    BY <1>4 DEF GroupNamesIn
  <2> QED
    BY <2>1, <1>2, <1>4, BackupFacts DEF Resolved
<1> QED
  BY <1>1, <1>2, <1>4, <1>5, <1>6, Shrunk

-----------------------------------------------------------------------------
LEMMA MaskApart == Mask # "p" /\ Mask # "none" /\ Mask # "default" /\ Mask # "set"
  BY Zenon DEF Mask

\* A new id is in no row, of the tables or of the dump.
LEMMA FreshIds ==
  ASSUME BackupInv
  PROVE  /\ nextIds.chans \notin DOMAIN tables.chans /\ nextIds.mods \notin DOMAIN tables.mods
         /\ nextIds.grps \notin DOMAIN tables.grps /\ nextIds.items \notin DOMAIN tables.items
         /\ nextIds.grps \notin DOMAIN dump.grps
         /\ \A m \in DOMAIN tables.mods : tables.mods[m].ch # nextIds.chans
         /\ \A m \in DOMAIN dump.mods : dump.mods[m].ch # nextIds.chans
<1>1. Below(tables, nextIds) /\ Below(dump, nextIds)
  BY BackupFacts
<1>2. nextIds.chans \in Nat /\ nextIds.mods \in Nat /\ nextIds.grps \in Nat /\ nextIds.items \in Nat
  BY BackupFacts
<1> QED
  BY <1>1, <1>2 DEF Below

\* Ids below the next ones are below later ones.
LEMMA BelowGrows ==
  ASSUME BackupInv, nextIds' \in Ids, nextIds'.chans >= nextIds.chans, nextIds'.mods >= nextIds.mods,
         nextIds'.grps >= nextIds.grps, nextIds'.items >= nextIds.items
  PROVE  Below(tables, nextIds')
<1> DEFINE n == nextIds
           k == nextIds'
<1>1. /\ n.chans \in Nat /\ n.mods \in Nat /\ n.grps \in Nat /\ n.items \in Nat
  BY BackupFacts
<1>2. k.chans \in Nat /\ k.mods \in Nat /\ k.grps \in Nat /\ k.items \in Nat
  BY DEF Ids
<1>3. /\ DOMAIN tables.chans \subseteq Nat /\ DOMAIN tables.mods \subseteq Nat /\ DOMAIN tables.grps \subseteq Nat
      /\ DOMAIN tables.items \subseteq Nat /\ \A m \in DOMAIN tables.mods : tables.mods[m].ch \in Nat
  <2>1. \A m \in DOMAIN tables.mods : tables.mods[m] \in ModRows
    BY BackupFacts, TableFacts DEF ModTables
  <2> QED
    BY <2>1, BackupFacts, TableFacts DEF ChanTables, ModTables, GrpTables, ItemTables, ModRows
<1>4. Below(tables, n) /\ k.chans >= n.chans /\ k.mods >= n.mods /\ k.grps >= n.grps /\ k.items >= n.items
  BY BackupFacts
<1> HIDE DEF n, k
<1>5. \A i \in DOMAIN tables.chans : i < k.chans
  BY <1>1, <1>2, <1>3, <1>4 DEF Below
<1>6. \A i \in DOMAIN tables.mods : i < k.mods /\ tables.mods[i].ch < k.chans
  BY <1>1, <1>2, <1>3, <1>4 DEF Below
<1>7. \A i \in DOMAIN tables.grps : i < k.grps
  BY <1>1, <1>2, <1>3, <1>4 DEF Below
<1>8. \A i \in DOMAIN tables.items : i < k.items
  BY <1>1, <1>2, <1>3, <1>4 DEF Below
<1>9. Below(tables, k)
  BY <1>5, <1>6, <1>7, <1>8 DEF Below
<1> QED
  BY <1>9 DEF k

LEMMA CreateChannelInv ==
  ASSUME BackupInv, NEW name \in ChannelNames, NEW model \in ModelNames, CreateChannel(name, model) PROVE BackupInv'
<1> DEFINE c == nextIds.chans
           m == nextIds.mods
           crow == [name |-> name, proxy |-> "p"]
           mrow == [ch |-> c, name |-> model]
           cs == RowPut(tables.chans, c, crow)
           ms == RowPut(tables.mods, m, mrow)
           t == [tables EXCEPT !.chans = cs, !.mods = ms]
<1>1. /\ tables' = t /\ dump' = dump /\ stale' = (stale \/ FALSE) /\ Advance({"chans", "mods"})
  BY DEF CreateChannel, Live, Stales
<1>2. c \in Nat /\ m \in Nat /\ tables \in BackupTables /\ stale \in BOOLEAN
  BY BackupFacts DEF BackupInv, TablesOK
<1>3. crow \in ChanRows /\ mrow \in ModRows /\ crow.proxy = "p" /\ mrow.ch = c
  BY <1>2 DEF ChanRows, ModRows
<1>4. PICK f \in TablesOf(ChanRows) : f = tables.chans
  BY BackupFacts DEF ChanTables
<1>5. PICK h \in TablesOf(ModRows) : h = tables.mods
  BY BackupFacts DEF ModTables
<1> HIDE DEF c, m, crow, mrow
<1>6. cs \in ChanTables /\ DOMAIN cs = DOMAIN tables.chans \cup {c} /\ cs[c] = crow /\ \A i \in DOMAIN tables.chans : i # c => cs[i] = tables.chans[i]
  <2>1. RowPut(f, c, crow) \in TablesOf(ChanRows)
    <3>1. {c} \subseteq Nat /\ {m} \subseteq Nat
      BY <1>2
    <3> QED
      BY <3>1, <1>3, RowPutFacts
  <2>2. /\ DOMAIN RowPut(f, c, crow) = DOMAIN f \cup {c}
        /\ RowPut(f, c, crow)[c] = crow /\ \A i \in DOMAIN f : i # c => RowPut(f, c, crow)[i] = f[i]
    BY DEF RowPut
  <2> QED
    BY <2>1, <2>2, <1>4 DEF ChanTables
<1>7. ms \in ModTables /\ DOMAIN ms = DOMAIN tables.mods \cup {m} /\ ms[m] = mrow /\ \A i \in DOMAIN tables.mods : i # m => ms[i] = tables.mods[i]
  <2>1. RowPut(h, m, mrow) \in TablesOf(ModRows)
    <3>1. {c} \subseteq Nat /\ {m} \subseteq Nat
      BY <1>2
    <3> QED
      BY <3>1, <1>3, RowPutFacts
  <2>2. /\ DOMAIN RowPut(h, m, mrow) = DOMAIN h \cup {m}
        /\ RowPut(h, m, mrow)[m] = mrow /\ \A i \in DOMAIN h : i # m => RowPut(h, m, mrow)[i] = h[i]
    BY DEF RowPut
  <2> QED
    BY <2>1, <2>2, <1>5 DEF ModTables
<1> HIDE DEF cs, ms
<1>8. /\ t \in BackupTables /\ t.chans = cs /\ t.mods = ms /\ t.grps = tables.grps /\ t.items = tables.items
      /\ t.settings = tables.settings
  BY <1>2, <1>6, <1>7 DEF BackupTables
<1> HIDE DEF t
<1>9. nextIds'.chans = c + 1 /\ nextIds'.mods = m + 1
  BY <1>1, BackupFacts DEF Advance, Ids, c, m
<1>10. nextIds' \in Ids /\ nextIds'.chans >= nextIds.chans /\ nextIds'.mods >= nextIds.mods
       /\ nextIds'.grps >= nextIds.grps /\ nextIds'.items >= nextIds.items
  BY <1>1, IdsFacts
<1>11. Below(t, nextIds')
  <2>1. Below(tables, nextIds')
    BY <1>10, BelowGrows
  <2>2. c < nextIds'.chans /\ m < nextIds'.mods
    BY <1>2, <1>9
  <2> QED
    BY <2>1, <2>2, <1>3, <1>6, <1>7, <1>8 DEF Below
<1>12. /\ c \notin DOMAIN tables.chans /\ m \notin DOMAIN tables.mods
       /\ (\A k \in DOMAIN tables.mods : tables.mods[k].ch # c) /\ \A k \in DOMAIN dump.mods : dump.mods[k].ch # c
  BY FreshIds DEF c, m
<1>13. OneEach(t)
  <2>1. \A k \in DOMAIN tables.mods : ms[k] = tables.mods[k]
    BY <1>7, <1>12
  <2> QED
    BY <2>1, <1>3, <1>7, <1>8, <1>12, BackupFacts DEF OneEach
<1>14. ItemsHome(t)
  BY <1>8, BackupFacts DEF ItemsHome
<1>15. GroupNamesIn(t) = GroupNamesIn(tables) /\ RefGraph(t) = RefGraph(tables)
  BY <1>8 DEF GroupNamesIn, RefGraph, RefsOf
<1>16. Good(t)
  <2>1. Resolved(t)
    BY <1>7, <1>8, <1>15, BackupFacts DEF Resolved
  <2>2. NoCycle(t)
    BY <1>15, BackupFacts DEF NoCycle
  <2>3. Unmasked(t)
    BY <1>3, <1>6, <1>8, BackupFacts, MaskApart DEF Unmasked
  <2> QED
    BY <2>1, <2>2, <2>3 DEF Good
<1>17. ~stale => Same(t, dump)
  <2>1. \A k \in DOMAIN tables.mods : ms[k] = tables.mods[k]
    BY <1>7, <1>12
  <2> QED
    BY <2>1, <1>3, <1>7, <1>8, <1>12, BackupFacts DEF Same
<1> QED
  BY <1>1, <1>2, <1>8, <1>10, <1>11, <1>13, <1>14, <1>16, <1>17, BackupKept DEF Whole

LEMMA ResyncInv ==
  ASSUME BackupInv, NEW m \in DOMAIN tables.mods, NEW name \in ModelNames, ResyncModel(m, name) PROVE BackupInv'
<1> DEFINE x == nextIds.mods
           ch == tables.mods[m].ch
           mrow == [ch |-> ch, name |-> name]
           cut == RowCut(tables.mods, {m})
           ms == RowPut(cut, x, mrow)
           its == RowCut(tables.items, ItemsOn({m}))
           t == [tables EXCEPT !.mods = ms, !.items = its]
<1>1. /\ tables' = t /\ dump' = dump /\ stale' = (stale \/ TRUE) /\ Advance({"mods"})
  BY DEF ResyncModel, Live, Stales
<1>2. x \in Nat /\ tables \in BackupTables /\ x \notin DOMAIN tables.mods
  BY BackupFacts, FreshIds
<1>3. PICK h \in TablesOf(ModRows) : h = tables.mods
  BY BackupFacts DEF ModTables
<1>4. h[m] \in ModRows
  BY <1>3, TableFacts
<1>5. ch \in Nat /\ mrow \in ModRows /\ mrow.ch = ch
  BY <1>3, <1>4 DEF ModRows
<1>6. cut \in TablesOf(ModRows) /\ DOMAIN cut = DOMAIN tables.mods \ {m} /\ \A i \in DOMAIN cut : cut[i] = tables.mods[i]
  BY CutTables DEF ModTables
<1>7. its \in ItemTables /\ DOMAIN its = DOMAIN tables.items \ ItemsOn({m}) /\ \A i \in DOMAIN its : its[i] = tables.items[i]
  BY CutTables
<1> HIDE DEF x, mrow, cut, its
<1>8. ms \in ModTables /\ DOMAIN ms = DOMAIN cut \cup {x} /\ ms[x] = mrow /\ \A i \in DOMAIN cut : i # x => ms[i] = cut[i]
  <2>1. RowPut(cut, x, mrow) \in TablesOf(ModRows)
    <3>1. {x} \subseteq Nat
      BY <1>2
    <3> QED
      BY <3>1, <1>5, <1>6, RowPutFacts
  <2>2. /\ DOMAIN RowPut(cut, x, mrow) = DOMAIN cut \cup {x}
        /\ RowPut(cut, x, mrow)[x] = mrow /\ \A i \in DOMAIN cut : i # x => RowPut(cut, x, mrow)[i] = cut[i]
    BY DEF RowPut
  <2> QED
    BY <2>1, <2>2 DEF ModTables
<1> HIDE DEF ms
<1>9. /\ t \in BackupTables /\ t.chans = tables.chans /\ t.mods = ms /\ t.grps = tables.grps /\ t.items = its
      /\ t.settings = tables.settings
  BY <1>2, <1>7, <1>8 DEF BackupTables
<1> HIDE DEF t
<1>10. \A i \in DOMAIN ms : i = x \/ (i \in DOMAIN tables.mods /\ i # m /\ ms[i] = tables.mods[i])
  BY <1>6, <1>8
<1>11. nextIds' \in Ids /\ nextIds'.chans >= nextIds.chans /\ nextIds'.mods >= nextIds.mods
       /\ nextIds'.grps >= nextIds.grps /\ nextIds'.items >= nextIds.items
  BY <1>1, IdsFacts
<1>12. nextIds'.mods = x + 1
  BY <1>1, BackupFacts DEF Advance, Ids, x
<1>13. Below(t, nextIds')
  <2>1. Below(tables, nextIds')
    BY <1>11, BelowGrows
  <2>2. x < nextIds'.mods /\ ch < nextIds'.chans
    BY <2>1, <1>2, <1>12 DEF Below
  <2> HIDE DEF ch
  <2> QED
    BY <2>1, <2>2, <1>5, <1>7, <1>8, <1>9, <1>10 DEF Below
<1>14. OneEach(t)
  <2>1. /\ \A g, k \in DOMAIN tables.grps : tables.grps[g] = tables.grps[k] => g = k
        /\ \A i, k \in DOMAIN tables.mods : tables.mods[i].ch = tables.mods[k].ch => i = k
    BY BackupFacts DEF OneEach
  <2>2. \A i \in DOMAIN ms : i # x => ms[i].ch # ch
    BY <2>1, <1>10
  <2>3. ms[x].ch = ch
    BY <1>5, <1>8
  <2> HIDE DEF ch
  <2>4. ASSUME NEW i \in DOMAIN ms, NEW k \in DOMAIN ms, ms[i].ch = ms[k].ch PROVE i = k
    <3>1. CASE i = x \/ k = x
      BY <2>2, <2>3, <2>4, <3>1
    <3>2. CASE i # x /\ k # x
      BY <2>1, <2>4, <3>2, <1>10
    <3> QED
      BY <3>1, <3>2
  <2> QED
    BY <2>1, <2>4, <1>9 DEF OneEach
<1>15. ItemsHome(t)
  BY <1>7, <1>9, BackupFacts DEF ItemsHome
<1>16. Resolved(t)
  <2>1. GroupNamesIn(t) = GroupNamesIn(tables)
    BY <1>9 DEF GroupNamesIn
  <2>2. \A i \in DOMAIN its : its[i].model # m
    BY <1>7 DEF ItemsOn
  <2> QED
    BY <2>1, <2>2, <1>6, <1>7, <1>8, <1>9, BackupFacts DEF Resolved
<1>17. NoCycle(t)
  <2>1. \A n : RefsOf(t, n) \subseteq RefsOf(tables, n)
    BY <1>7, <1>9, <1>15, FewerRefs
  <2>2. GroupNamesIn(t) \subseteq GroupNamesIn(tables)
    BY <1>9 DEF GroupNamesIn
  <2> QED
    BY <2>1, <2>2, BackupFacts, RefsAcyclic
<1>18. Unmasked(t)
  BY <1>9, BackupFacts DEF Unmasked
<1>19. stale' = TRUE
  BY <1>1
<1> QED
  BY <1>1, <1>9, <1>11, <1>13, <1>14, <1>15, <1>16, <1>17, <1>18, <1>19, BackupKept DEF Whole, Good

LEMMA CreateGroupInv ==
  ASSUME BackupInv, NEW name \in BackupGroups, CreateGroup(name) PROVE BackupInv'
<1> DEFINE g == nextIds.grps
           gs == RowPut(tables.grps, g, name)
           t == [tables EXCEPT !.grps = gs]
<1>1. /\ tables' = t /\ dump' = dump /\ stale' = (stale \/ FALSE) /\ Advance({"grps"})
      /\ name \notin GroupNamesIn(tables)
  BY DEF CreateGroup, Live, Stales
<1>2. /\ g \in Nat /\ tables \in BackupTables /\ stale \in BOOLEAN /\ g \notin DOMAIN tables.grps
      /\ g \notin DOMAIN dump.grps
  BY BackupFacts, FreshIds DEF BackupInv, TablesOK
<1>3. PICK f \in TablesOf(BackupGroups) : f = tables.grps
  BY BackupFacts DEF GrpTables
<1> HIDE DEF g
<1>4. gs \in GrpTables /\ DOMAIN gs = DOMAIN tables.grps \cup {g} /\ gs[g] = name /\ \A i \in DOMAIN tables.grps : gs[i] = tables.grps[i]
  <2>1. RowPut(f, g, name) \in TablesOf(BackupGroups)
    <3>1. {g} \subseteq Nat
      BY <1>2
    <3> QED
      BY <3>1, RowPutFacts
  <2>2. /\ DOMAIN RowPut(f, g, name) = DOMAIN f \cup {g}
        /\ RowPut(f, g, name)[g] = name /\ \A i \in DOMAIN f : i # g => RowPut(f, g, name)[i] = f[i]
    BY DEF RowPut
  <2> QED
    BY <2>1, <2>2, <1>2, <1>3 DEF GrpTables
<1> HIDE DEF gs
<1>5. /\ t \in BackupTables /\ t.chans = tables.chans /\ t.mods = tables.mods /\ t.grps = gs /\ t.items = tables.items
      /\ t.settings = tables.settings
  BY <1>2, <1>4 DEF BackupTables
<1> HIDE DEF t
<1>6. nextIds' \in Ids /\ nextIds'.chans >= nextIds.chans /\ nextIds'.mods >= nextIds.mods
      /\ nextIds'.grps >= nextIds.grps /\ nextIds'.items >= nextIds.items
  BY <1>1, IdsFacts
<1>7. nextIds'.grps = g + 1
  BY <1>1, BackupFacts DEF Advance, Ids, g
<1>8. Below(t, nextIds')
  <2>1. Below(tables, nextIds')
    BY <1>6, BelowGrows
  <2>2. g < nextIds'.grps
    BY <1>2, <1>7
  <2> QED
    BY <2>1, <2>2, <1>4, <1>5 DEF Below
<1>9. OneEach(t)
  <2>1. \A i \in DOMAIN tables.grps : tables.grps[i] # name
    BY <1>1, NameMembers
  <2> QED
    BY <2>1, <1>4, <1>5, BackupFacts DEF OneEach
<1>10. ItemsHome(t) /\ ItemsHome(tables)
  BY <1>4, <1>5, BackupFacts DEF ItemsHome
<1>11. \A n : n \in GroupNamesIn(t) <=> n \in GroupNamesIn(tables) \/ n = name
  BY <1>4, <1>5, NameMembers
<1>12. Resolved(t)
  BY <1>5, <1>11, BackupFacts DEF Resolved
<1>13. \A n : RefsOf(t, n) \subseteq RefsOf(tables, n)
  BY <1>4, <1>5, <1>10, FewerRefs DEF ItemsHome
<1>14. RefsOf(tables, name) = {}
  <2> SUFFICES ASSUME NEW x \in RefsOf(tables, name) PROVE FALSE
    OBVIOUS
  <2>1. PICK j \in DOMAIN tables.items : tables.grps[tables.items[j].grp] = name
    BY RefMembers
  <2> QED
    BY <2>1, <1>1, <1>10, NameMembers DEF ItemsHome
<1>15. NoCycle(t)
  <2> SUFFICES ASSUME NEW S \in SUBSET GroupNamesIn(t), S # {} PROVE \E n \in S : RefGraph(t)[n] \cap S = {}
    BY DEF NoCycle, Acyclic
  <2>1. \A n \in GroupNamesIn(t) : RefGraph(t)[n] = RefsOf(t, n)
    BY DEF RefGraph
  <2>2. CASE name \in S
    BY <2>1, <2>2, <1>13, <1>14
  <2>3. CASE name \notin S
    <3>1. S \in SUBSET GroupNamesIn(tables)
      BY <2>3, <1>11
    <3>2. PICK n \in S : RefGraph(tables)[n] \cap S = {}
      BY <3>1, BackupFacts DEF NoCycle, Acyclic
    <3>3. RefGraph(tables)[n] = RefsOf(tables, n)
      BY <3>1 DEF RefGraph
    <3> QED
      BY <2>1, <3>2, <3>3, <1>13
  <2> QED
    BY <2>2, <2>3
<1>16. Unmasked(t)
  BY <1>5, BackupFacts DEF Unmasked
<1>17. ~stale => Same(t, dump)
  BY <1>2, <1>4, <1>5, BackupFacts DEF Same
<1> QED
  BY <1>1, <1>2, <1>5, <1>6, <1>8, <1>9, <1>10, <1>12, <1>15, <1>16, <1>17, BackupKept DEF Whole, Good

LEMMA RenameInv ==
  ASSUME BackupInv, NEW g \in DOMAIN tables.grps, NEW name \in BackupGroups, RenameGroup(g, name) PROVE BackupInv'
<1> DEFINE old == tables.grps[g]
           gs == [tables.grps EXCEPT ![g] = name]
           t == [tables EXCEPT !.grps = gs]
<1>1. /\ tables' = t /\ dump' = dump /\ stale' = (stale \/ TRUE) /\ nextIds' = nextIds
      /\ name \notin GroupNamesIn(tables) /\ ~Referenced(g)
  BY DEF RenameGroup, Live, Stales
<1>2. tables \in BackupTables /\ ItemsHome(tables) /\ Resolved(tables)
  BY BackupFacts
<1>3. gs \in GrpTables /\ DOMAIN gs = DOMAIN tables.grps /\ gs[g] = name /\ \A i \in DOMAIN tables.grps : i # g => gs[i] = tables.grps[i]
  <2>1. PICK f \in TablesOf(BackupGroups) : f = tables.grps
    BY BackupFacts DEF GrpTables
  <2>2. PICK S \in SUBSET Nat : f \in [S -> BackupGroups]
    BY DEF TablesOf
  <2>3. [f EXCEPT ![g] = name] \in [S -> BackupGroups] /\ S = DOMAIN f
    BY <2>2
  <2>4. [f EXCEPT ![g] = name] \in GrpTables
    BY <2>3, TableMade DEF GrpTables
  <2> QED
    BY <2>1, <2>4
<1> HIDE DEF gs
<1>4. /\ t \in BackupTables /\ t.chans = tables.chans /\ t.mods = tables.mods /\ t.grps = gs /\ t.items = tables.items
      /\ t.settings = tables.settings
  BY <1>2, <1>3 DEF BackupTables
<1> HIDE DEF t
<1>5. Below(t, nextIds)
  BY <1>3, <1>4, BackupFacts DEF Below
<1>6. OneEach(t)
  <2>1. \A i \in DOMAIN tables.grps : tables.grps[i] # name
    BY <1>1, NameMembers
  <2> QED
    BY <2>1, <1>3, <1>4, BackupFacts DEF OneEach
<1>7. ItemsHome(t)
  BY <1>2, <1>3, <1>4 DEF ItemsHome
<1>8. ASSUME NEW i \in DOMAIN tables.items, tables.items[i].ref # NoRef
      PROVE  /\ tables.items[i].ref # old /\ tables.items[i].ref # name
             /\ tables.items[i].ref \in GroupNamesIn(t)
  <2> DEFINE h == tables.items[i].grp
             x == tables.items[i].ref
  <2>1. h \in DOMAIN tables.grps
    BY <1>2 DEF ItemsHome
  <2>2. x \in RefsOf(tables, tables.grps[h])
    BY <1>8, RefMembers
  <2>0. x \in GroupNamesIn(tables) /\ x # name
    BY <1>1, <1>2, <1>8 DEF Resolved
  <2>3. ASSUME h # g PROVE x # old
    BY <2>1, <2>2, <2>3, <1>1 DEF Referenced
  <2>4. ASSUME h = g PROVE x # old
    <3>1. old \in GroupNamesIn(tables) /\ {old} \in SUBSET GroupNamesIn(tables)
      BY NameMembers
    <3>2. RefGraph(tables)[old] \cap {old} = {}
      BY <3>1, BackupFacts DEF NoCycle, Acyclic
    <3>3. RefGraph(tables)[old] = RefsOf(tables, old)
      BY <3>1 DEF RefGraph
    <3> QED
      BY <2>2, <2>4, <3>2, <3>3
  <2>6. x # old
    BY <2>3, <2>4
  <2>7. PICK k \in DOMAIN tables.grps : tables.grps[k] = x
    BY <2>0, NameMembers
  <2>8. k \in DOMAIN t.grps /\ t.grps[k] = x
    BY <2>6, <2>7, <1>3, <1>4
  <2>9. x \in GroupNamesIn(t)
    BY <2>8, NameMembers
  <2> QED
    BY <2>0, <2>6, <2>9
<1>9. Resolved(t)
  BY <1>2, <1>4, <1>8 DEF Resolved
<1>10. ASSUME NEW n, n # name PROVE RefsOf(t, n) \subseteq RefsOf(tables, n)
  <2> SUFFICES ASSUME NEW x \in RefsOf(t, n) PROVE x \in RefsOf(tables, n)
    OBVIOUS
  <2>1. PICK j \in DOMAIN t.items : t.items[j].ref # NoRef /\ t.grps[t.items[j].grp] = n /\ t.items[j].ref = x
    BY RefMembers
  <2>2. /\ j \in DOMAIN tables.items /\ tables.items[j].ref # NoRef /\ tables.items[j].ref = x
        /\ tables.items[j].grp \in DOMAIN tables.grps /\ gs[tables.items[j].grp] = n
    BY <2>1, <1>2, <1>4 DEF ItemsHome
  <2>3. tables.grps[tables.items[j].grp] = n
    BY <2>2, <1>3, <1>10
  <2> QED
    BY <2>2, <2>3, RefMembers
<1>11. ASSUME NEW n PROVE name \notin RefsOf(t, n)
  BY <1>4, <1>8, RefMembers
<1>12. NoCycle(t)
  <2> SUFFICES ASSUME NEW S \in SUBSET GroupNamesIn(t), S # {} PROVE \E n \in S : RefGraph(t)[n] \cap S = {}
    BY DEF NoCycle, Acyclic
  <2>1. \A n \in GroupNamesIn(t) : RefGraph(t)[n] = RefsOf(t, n)
    BY DEF RefGraph
  <2>2. CASE S = {name}
    BY <2>1, <2>2, <1>11
  <2>3. CASE S # {name}
    <3> DEFINE T == S \ {name}
    <3>1. T # {}
      BY <2>3
    <3>2. T \in SUBSET GroupNamesIn(tables)
      BY <1>3, <1>4, NameMembers
    <3>3. PICK n \in T : RefGraph(tables)[n] \cap T = {}
      BY <3>1, <3>2, BackupFacts DEF NoCycle, Acyclic
    <3>4. RefGraph(tables)[n] = RefsOf(tables, n) /\ n # name /\ n \in S
      BY <3>2, <3>3 DEF RefGraph
    <3>5. RefsOf(t, n) \cap S = {}
      BY <3>3, <3>4, <1>10, <1>11
    <3> QED
      BY <2>1, <3>4, <3>5
  <2> QED
    BY <2>2, <2>3
<1>13. Unmasked(t)
  BY <1>4, BackupFacts DEF Unmasked
<1>14. stale' = TRUE
  BY <1>1
<1> QED
  BY <1>1, <1>4, <1>5, <1>6, <1>7, <1>9, <1>12, <1>13, <1>14, IdsFacts, BackupKept DEF Whole, Good

LEMMA AddItemInv ==
  ASSUME BackupInv, NEW g \in DOMAIN tables.grps, NEW model, NEW ref, AddItem(g, model, ref),
         \/ model \in DOMAIN tables.mods /\ ref = NoRef
         \/ model = 0 /\ ref \in GroupNamesIn(tables)
  PROVE  BackupInv'
<1> DEFINE x == nextIds.items
           row == [grp |-> g, model |-> model, ref |-> ref]
           its == RowPut(tables.items, x, row)
           t == [tables EXCEPT !.items = its]
<1>1. /\ tables' = t /\ dump' = dump /\ stale' = (stale \/ FALSE) /\ Advance({"items"})
      /\ ref = NoRef \/ NoCycle(t)
  BY DEF AddItem, Live, Stales, NoCycle
<1>2. x \in Nat /\ tables \in BackupTables /\ stale \in BOOLEAN /\ x \notin DOMAIN tables.items
  BY BackupFacts, FreshIds DEF BackupInv, TablesOK
<1>3. PICK f \in TablesOf(ItemRows) : f = tables.items
  BY BackupFacts DEF ItemTables
<1>4. row \in ItemRows /\ row.grp = g /\ row.model = model /\ row.ref = ref
  <2>1. PICK h \in TablesOf(BackupGroups) : h = tables.grps
    BY BackupFacts DEF GrpTables
  <2>2. DOMAIN h \subseteq Nat /\ \A i \in DOMAIN h : h[i] \in BackupGroups
    BY TableFacts
  <2>3. PICK k \in TablesOf(ModRows) : k = tables.mods
    BY BackupFacts DEF ModTables
  <2>4. DOMAIN k \subseteq Nat
    BY TableFacts
  <2>5. g \in Nat /\ model \in Nat
    BY <2>1, <2>2, <2>3, <2>4
  <2>6. ref \in BackupGroups \cup {NoRef}
    BY <2>1, <2>2, NameMembers
  <2> QED
    BY <2>5, <2>6 DEF ItemRows
<1> HIDE DEF x, row
<1>5. its \in ItemTables /\ DOMAIN its = DOMAIN tables.items \cup {x} /\ its[x] = row /\ \A i \in DOMAIN tables.items : its[i] = tables.items[i]
  <2>1. RowPut(f, x, row) \in TablesOf(ItemRows)
    <3>1. {x} \subseteq Nat
      BY <1>2
    <3> QED
      BY <3>1, <1>4, RowPutFacts
  <2>2. /\ DOMAIN RowPut(f, x, row) = DOMAIN f \cup {x}
        /\ RowPut(f, x, row)[x] = row /\ \A i \in DOMAIN f : i # x => RowPut(f, x, row)[i] = f[i]
    BY DEF RowPut
  <2> QED
    BY <2>1, <2>2, <1>2, <1>3 DEF ItemTables
<1> HIDE DEF its
<1>6. /\ t \in BackupTables /\ t.chans = tables.chans /\ t.mods = tables.mods /\ t.grps = tables.grps /\ t.items = its
      /\ t.settings = tables.settings
  BY <1>2, <1>5 DEF BackupTables
<1> HIDE DEF t
<1>7. nextIds' \in Ids /\ nextIds'.chans >= nextIds.chans /\ nextIds'.mods >= nextIds.mods
      /\ nextIds'.grps >= nextIds.grps /\ nextIds'.items >= nextIds.items
  BY <1>1, IdsFacts
<1>8. nextIds'.items = x + 1
  BY <1>1, BackupFacts DEF Advance, Ids, x
<1>9. Below(t, nextIds')
  <2>1. Below(tables, nextIds')
    BY <1>7, BelowGrows
  <2>2. x < nextIds'.items
    BY <1>2, <1>8
  <2> QED
    BY <2>1, <2>2, <1>5, <1>6 DEF Below
<1>10. OneEach(t) /\ Unmasked(t)
  BY <1>6, BackupFacts DEF OneEach, Unmasked
<1>11. ItemsHome(t)
  BY <1>4, <1>5, <1>6, BackupFacts DEF ItemsHome
<1>12. GroupNamesIn(t) = GroupNamesIn(tables)
  BY <1>6 DEF GroupNamesIn
<1>13. Resolved(t)
  BY <1>4, <1>5, <1>6, <1>12, BackupFacts DEF Resolved
<1>14. NoCycle(t)
  <2>1. CASE ref # NoRef
    BY <2>1, <1>1
  <2>2. CASE ref = NoRef
    <3>1. ASSUME NEW n PROVE RefsOf(t, n) \subseteq RefsOf(tables, n)
      <4> SUFFICES ASSUME NEW y \in RefsOf(t, n) PROVE y \in RefsOf(tables, n)
        OBVIOUS
      <4>1. PICK j \in DOMAIN t.items : t.items[j].ref # NoRef /\ t.grps[t.items[j].grp] = n /\ t.items[j].ref = y
        BY RefMembers
      <4>2. j \in DOMAIN tables.items /\ tables.items[j].ref # NoRef /\ tables.grps[tables.items[j].grp] = n /\ tables.items[j].ref = y
        BY <4>1, <2>2, <1>4, <1>5, <1>6
      <4> QED
        BY <4>2, RefMembers
    <3> QED
      BY <3>1, <1>12, BackupFacts, RefsAcyclic
  <2> QED
    BY <2>1, <2>2
<1>15. ~stale => Same(t, dump)
  BY <1>6, BackupFacts DEF Same
<1> QED
  BY <1>1, <1>2, <1>6, <1>7, <1>9, <1>10, <1>11, <1>13, <1>14, <1>15, BackupKept DEF Whole, Good

LEMMA SetSettingInv ==
  ASSUME BackupInv, NEW k \in SettingKeys \ {"secret"}, SetSetting(k) PROVE BackupInv'
<1> DEFINE ss == [tables.settings EXCEPT ![k] = "set"]
           t == [tables EXCEPT !.settings = ss]
<1>1. tables' = t /\ dump' = dump /\ stale' = (stale \/ FALSE) /\ nextIds' = nextIds
  BY DEF SetSetting, Live, Stales
<1>2. tables \in BackupTables /\ stale \in BOOLEAN /\ tables.settings \in SettingTables
  BY BackupFacts DEF BackupInv, TablesOK
<1>3. ss \in SettingTables /\ ss[k] = "set" /\ \A j \in SettingKeys : j # k => ss[j] = tables.settings[j]
  BY <1>2 DEF SettingTables
<1>4. "secret" \in SettingKeys /\ ss["secret"] = tables.settings["secret"]
  BY <1>2 DEF SettingTables, SettingKeys
<1> HIDE DEF ss
<1>5. /\ t \in BackupTables /\ t.chans = tables.chans /\ t.mods = tables.mods /\ t.grps = tables.grps /\ t.items = tables.items
      /\ t.settings = ss
  BY <1>2, <1>3 DEF BackupTables
<1> HIDE DEF t
<1>6. Below(t, nextIds) /\ OneEach(t) /\ ItemsHome(t)
  BY <1>5, BackupFacts DEF Below, OneEach, ItemsHome
<1>7. GroupNamesIn(t) = GroupNamesIn(tables) /\ RefGraph(t) = RefGraph(tables)
  BY <1>5 DEF GroupNamesIn, RefGraph, RefsOf
<1>8. Resolved(t) /\ NoCycle(t)
  BY <1>5, <1>7, BackupFacts DEF Resolved, NoCycle
<1>9. Unmasked(t)
  <2>1. \A c \in DOMAIN t.chans : t.chans[c].proxy # Mask
    BY <1>5, BackupFacts DEF Unmasked
  <2>2. \A j \in SettingKeys : tables.settings[j] # Mask
    BY BackupFacts DEF Unmasked
  <2>3. \A j \in SettingKeys : t.settings[j] # Mask
    BY <2>2, <1>3, <1>5, MaskApart
  <2>4. tables.settings["secret"] = "default"
    BY BackupFacts DEF Unmasked
  <2>5. t.settings["secret"] = "default"
    BY <2>4, <1>4, <1>5
  <2> QED
    BY <2>1, <2>3, <2>5 DEF Unmasked
<1>10. ~stale => Same(t, dump)
  BY <1>5, BackupFacts DEF Same
<1> QED
  BY <1>1, <1>2, <1>5, <1>6, <1>8, <1>9, <1>10, IdsFacts, BackupKept DEF Whole, Good

LEMMA ExportInv ==
  ASSUME BackupInv, DBExportAll PROVE BackupInv'
<1> DEFINE cs == [i \in DOMAIN tables.chans |-> redactChannel(tables.chans[i])]
           ss == [k \in DOMAIN filterSecretSettings(tables.settings) |->
                    IF k = "templates" /\ tables.settings[k] = "set" THEN Mask ELSE tables.settings[k]]
           d == [tables EXCEPT !.chans = cs, !.settings = ss]
<1>1. tables' = tables /\ nextIds' = nextIds /\ stale' = FALSE /\ dump' = d
  BY DEF DBExportAll, redactForExport
<1>2. tables \in BackupTables /\ tables.settings \in SettingTables
  BY BackupFacts
<1>3. PICK f \in TablesOf(ChanRows) : f = tables.chans
  BY BackupFacts DEF ChanTables
<1>4. \A r \in ChanRows : redactChannel(r) \in ChanRows
  BY DEF ChanRows, redactChannel
<1>5. cs \in ChanTables /\ DOMAIN cs = DOMAIN tables.chans
  <2>1. DOMAIN f \in SUBSET Nat /\ \A i \in DOMAIN f : f[i] \in ChanRows
    BY TableFacts
  <2> DEFINE h == [i \in DOMAIN f |-> redactChannel(f[i])]
  <2>2. h \in [DOMAIN f -> ChanRows]
    BY <2>1, <1>4
  <2> HIDE DEF h
  <2>3. h \in TablesOf(ChanRows)
    BY <2>1, <2>2, TableMade
  <2> QED
    BY <2>3, <1>3 DEF h, ChanTables
<1>6. \A k \in DOMAIN ss : ss[k] \in {"default", "set", Mask}
  BY <1>2 DEF SettingTables, filterSecretSettings, RowCut
<1> HIDE DEF cs, ss
<1>7. /\ d.chans = cs /\ d.mods = tables.mods /\ d.grps = tables.grps /\ d.items = tables.items /\ d.settings = ss
  BY <1>2 DEF BackupTables
<1> HIDE DEF d
<1>8. Below(d, nextIds) /\ OneEach(d) /\ ItemsHome(d)
  BY <1>5, <1>7, BackupFacts DEF Below, OneEach, ItemsHome
<1>9. Same(tables, d)
  BY <1>7, BackupFacts DEF Same, OneEach
<1>10. TablesOK'
  BY <1>1 DEF BackupInv, TablesOK, Whole, Below, OneEach, ItemsHome
<1>11. DumpOK'
  <2>1. /\ d.chans \in ChanTables /\ d.mods \in ModTables /\ d.grps \in GrpTables /\ d.items \in ItemTables
        /\ \A k \in DOMAIN d.settings : d.settings[k] \in {"default", "set", Mask}
    BY <1>5, <1>6, <1>7, BackupFacts
  <2> QED
    BY <2>1, <1>1, <1>8 DEF DumpOK, Whole, Below, OneEach, ItemsHome
<1>12. Same(tables, dump)'
  BY <1>1, <1>9 DEF Same
<1>13. Good(tables)'
  <2>1. Resolved(tables)' /\ Unmasked(tables)'
    BY <1>1, BackupFacts DEF Resolved, Unmasked, GroupNamesIn, Column
  <2>2. GroupNamesIn(tables)' = GroupNamesIn(tables) /\ RefGraph(tables)' = RefGraph(tables)
    BY <1>1 DEF GroupNamesIn, Column, RefGraph, RefsOf
  <2>3. NoCycle(tables)'
    BY <2>2, BackupFacts DEF NoCycle, Acyclic
  <2> QED
    BY <2>1, <2>3 DEF Good
<1> QED
  BY <1>10, <1>11, <1>12, <1>13 DEF BackupInv

LEMMA InitInv ==
  ASSUME Foreign = {}, BackupInit PROVE BackupInv
<1>1. /\ tables = [NoDump EXCEPT !.settings = [k \in SettingKeys |-> "default"]] /\ dump = NoDump /\ stale = FALSE
      /\ nextIds = [chans |-> 1, mods |-> 1, grps |-> 1, items |-> 1]
  BY DEF BackupInit
<1>2. /\ tables.chans = NoTable /\ tables.mods = NoTable /\ tables.grps = NoTable /\ tables.items = NoTable
      /\ tables.settings = [k \in SettingKeys |-> "default"]
      /\ tables = [chans |-> NoTable, mods |-> NoTable, grps |-> NoTable, items |-> NoTable,
                   settings |-> [k \in SettingKeys |-> "default"]]
  BY <1>1 DEF NoDump
<1>3. DOMAIN NoTable = {}
  BY DEF NoTable
<1>4. \A R : NoTable \in TablesOf(R)
  <2> TAKE R
  <2>1. {} \in SUBSET Nat /\ NoTable \in [{} -> R]
    BY DEF NoTable
  <2> QED
    BY <2>1, TableMade
<1>5. NoTable \in ChanTables /\ NoTable \in ModTables /\ NoTable \in GrpTables /\ NoTable \in ItemTables
  BY <1>4 DEF ChanTables, ModTables, GrpTables, ItemTables
<1>6. [k \in SettingKeys |-> "default"] \in SettingTables
  BY DEF SettingTables
<1>7. tables \in BackupTables
  BY <1>2, <1>5, <1>6 DEF BackupTables
<1>8. dump.chans = NoTable /\ dump.mods = NoTable /\ dump.grps = NoTable /\ dump.items = NoTable /\ dump.settings = NoTable
  BY <1>1 DEF NoDump
<1>9. nextIds \in Ids
  BY <1>1 DEF Ids
<1>10. Whole(tables, nextIds) /\ Whole(dump, nextIds)
  BY <1>2, <1>3, <1>8 DEF Whole, Below, OneEach, ItemsHome
<1>11. Same(tables, dump)
  BY <1>2, <1>3, <1>8 DEF Same
<1>12. GroupNamesIn(tables) = {}
  BY <1>2, <1>3 DEF GroupNamesIn, Column
<1>13. NoCycle(tables)
  BY <1>12 DEF NoCycle, Acyclic
<1>14. Resolved(tables)
  BY <1>2, <1>3 DEF Resolved
<1>15. Unmasked(tables)
  <2>1. \A k \in SettingKeys : tables.settings[k] = "default"
    BY <1>2
  <2>2. tables.settings["secret"] = "default"
    BY <2>1 DEF SettingKeys
  <2> QED
    BY <2>1, <2>2, <1>2, <1>3, MaskApart DEF Unmasked
<1>16. DumpOK
  BY <1>3, <1>5, <1>8, <1>10 DEF DumpOK
<1> QED
  BY <1>1, <1>7, <1>9, <1>10, <1>11, <1>13, <1>14, <1>15, <1>16 DEF BackupInv, TablesOK, Good

-----------------------------------------------------------------------------
\* What an import makes of each table.
LEMMA ImportedChannels ==
  ASSUME BackupInv
  PROVE  /\ createChannels(dump) \in ChanTables
         /\ DOMAIN createChannels(dump) \subseteq DOMAIN tables.chans \cup DOMAIN dump.chans
         /\ \A c \in DOMAIN createChannels(dump) : createChannels(dump)[c].proxy # Mask
<1>1. PICK f \in TablesOf(ChanRows) : f = tables.chans
  BY BackupFacts DEF ChanTables
<1>2. PICK e \in TablesOf(ChanRows) : e = dump.chans
  BY DEF BackupInv, DumpOK, ChanTables
<1> DEFINE rows == [c \in DOMAIN e |-> [e[c] EXCEPT !.proxy = IF @ = Mask THEN "none" ELSE @]]
           S == {c \in DOMAIN e : \E q \in Column(f) : q.name = e[c].name}
           h == createDoNothing(f, rows, S)
<1>3. h = createChannels(dump)
  BY <1>1, <1>2 DEF createChannels
<1>4. DOMAIN e \in SUBSET Nat /\ \A i \in DOMAIN e : e[i] \in ChanRows
  BY TableFacts
<1>5. \A i \in DOMAIN e : rows[i] \in ChanRows /\ rows[i].proxy # Mask
  BY <1>4, MaskApart DEF ChanRows
<1>6. rows \in [DOMAIN e -> ChanRows] /\ DOMAIN rows = DOMAIN e
  BY <1>5
<1> HIDE DEF rows, S
<1>7. rows \in TablesOf(ChanRows)
  BY <1>4, <1>6, TableMade
<1>8. /\ h \in TablesOf(ChanRows) /\ DOMAIN h = DOMAIN f \cup (DOMAIN rows \ S)
      /\ \A i \in DOMAIN f : h[i] = f[i]
      /\ \A i \in DOMAIN rows \ S : i \notin DOMAIN f => h[i] = rows[i]
  <2>1. h \in TablesOf(ChanRows)
    BY <1>7, CreatedTable
  <2>2. /\ DOMAIN h = DOMAIN f \cup (DOMAIN rows \ S)
        /\ \A i \in DOMAIN f : h[i] = f[i]
        /\ \A i \in DOMAIN rows \ S : i \notin DOMAIN f => h[i] = rows[i]
    BY DEF createDoNothing
  <2> QED
    BY <2>1, <2>2
<1>9. \A i \in DOMAIN f : f[i].proxy # Mask
  BY <1>1, BackupFacts DEF Unmasked
<1> HIDE DEF h
<1>10. \A i \in DOMAIN h : h[i].proxy # Mask
  BY <1>5, <1>6, <1>8, <1>9
<1> QED
  BY <1>1, <1>2, <1>3, <1>6, <1>8, <1>10 DEF ChanTables

LEMMA ImportedModels ==
  ASSUME BackupInv, ~stale
  PROVE  /\ createModels(dump) \in ModTables
         /\ DOMAIN createModels(dump) = DOMAIN tables.mods \cup DOMAIN dump.mods
         /\ \A i \in DOMAIN tables.mods : createModels(dump)[i] = tables.mods[i]
         /\ \A i \in DOMAIN dump.mods : i \notin DOMAIN tables.mods => createModels(dump)[i] = dump.mods[i]
<1>1. PICK f \in TablesOf(ModRows) : f = tables.mods
  BY BackupFacts DEF ModTables
<1>2. PICK e \in TablesOf(ModRows) : e = dump.mods
  BY DEF BackupInv, DumpOK, ModTables
<1> DEFINE S == {m \in DOMAIN e : e[m] \in Column(f)}
           h == createDoNothing(f, e, S)
<1>3. h = createModels(dump)
  BY <1>1, <1>2 DEF createModels
<1>4. \A m \in S : m \in DOMAIN f
  BY <1>1, <1>2, BackupFacts DEF Same, Column
<1> HIDE DEF S
<1>5. /\ h \in TablesOf(ModRows) /\ DOMAIN h = DOMAIN f \cup (DOMAIN e \ S)
      /\ \A i \in DOMAIN f : h[i] = f[i]
      /\ \A i \in DOMAIN e \ S : i \notin DOMAIN f => h[i] = e[i]
  <2>1. h \in TablesOf(ModRows)
    BY CreatedTable
  <2>2. /\ DOMAIN h = DOMAIN f \cup (DOMAIN e \ S)
        /\ \A i \in DOMAIN f : h[i] = f[i]
        /\ \A i \in DOMAIN e \ S : i \notin DOMAIN f => h[i] = e[i]
    BY DEF createDoNothing
  <2> QED
    BY <2>1, <2>2
<1> HIDE DEF h
<1>6. DOMAIN h = DOMAIN f \cup DOMAIN e /\ \A i \in DOMAIN e : i \notin DOMAIN f => h[i] = e[i]
  BY <1>4, <1>5
<1> QED
  BY <1>1, <1>2, <1>3, <1>5, <1>6 DEF ModTables

LEMMA ImportedGroups ==
  ASSUME BackupInv
  PROVE  /\ createGroups(dump) \in GrpTables
         /\ \A i \in DOMAIN tables.grps : i \in DOMAIN createGroups(dump) /\ createGroups(dump)[i] = tables.grps[i]
         /\ \A i \in DOMAIN createGroups(dump) : i \notin DOMAIN tables.grps =>
              i \in DOMAIN dump.grps /\ createGroups(dump)[i] = dump.grps[i] /\ dump.grps[i] \notin GroupNamesIn(tables)
         /\ \A i \in DOMAIN dump.grps : dump.grps[i] \notin GroupNamesIn(tables) => i \in DOMAIN createGroups(dump)
<1>1. PICK f \in TablesOf(BackupGroups) : f = tables.grps
  BY BackupFacts DEF GrpTables
<1>2. PICK e \in TablesOf(BackupGroups) : e = dump.grps
  BY DEF BackupInv, DumpOK, GrpTables
<1> DEFINE S == {g \in DOMAIN e : e[g] \in GroupNamesIn(tables)}
           h == createDoNothing(f, e, S)
<1>3. h = createGroups(dump)
  BY <1>1, <1>2 DEF createGroups
<1>4. \A i \in DOMAIN e : i \in S <=> e[i] \in GroupNamesIn(tables)
  OBVIOUS
<1> HIDE DEF S
<1>5. /\ h \in TablesOf(BackupGroups) /\ DOMAIN h = DOMAIN f \cup (DOMAIN e \ S)
      /\ \A i \in DOMAIN f : h[i] = f[i]
      /\ \A i \in DOMAIN e \ S : i \notin DOMAIN f => h[i] = e[i]
  <2>1. h \in TablesOf(BackupGroups)
    BY CreatedTable
  <2>2. /\ DOMAIN h = DOMAIN f \cup (DOMAIN e \ S)
        /\ \A i \in DOMAIN f : h[i] = f[i]
        /\ \A i \in DOMAIN e \ S : i \notin DOMAIN f => h[i] = e[i]
    BY DEF createDoNothing
  <2> QED
    BY <2>1, <2>2
<1> HIDE DEF h
<1> QED
  BY <1>1, <1>2, <1>3, <1>4, <1>5 DEF GrpTables

LEMMA ImportedItems ==
  ASSUME BackupInv
  PROVE  /\ createItems(dump) \in ItemTables
         /\ DOMAIN createItems(dump) = DOMAIN tables.items \cup DOMAIN dump.items
         /\ \A i \in DOMAIN tables.items : createItems(dump)[i] = tables.items[i]
         /\ \A i \in DOMAIN dump.items : i \notin DOMAIN tables.items => createItems(dump)[i] = dump.items[i]
<1>1. PICK f \in TablesOf(ItemRows) : f = tables.items
  BY BackupFacts DEF ItemTables
<1>2. PICK e \in TablesOf(ItemRows) : e = dump.items
  BY DEF BackupInv, DumpOK, ItemTables
<1> DEFINE h == createDoNothing(f, e, {})
<1>3. h = createItems(dump)
  BY <1>1, <1>2 DEF createItems
<1>4. /\ h \in TablesOf(ItemRows) /\ DOMAIN h = DOMAIN f \cup (DOMAIN e \ {})
      /\ \A i \in DOMAIN f : h[i] = f[i]
      /\ \A i \in DOMAIN e \ {} : i \notin DOMAIN f => h[i] = e[i]
  <2>1. h \in TablesOf(ItemRows)
    BY CreatedTable
  <2>2. /\ DOMAIN h = DOMAIN f \cup (DOMAIN e \ {})
        /\ \A i \in DOMAIN f : h[i] = f[i]
        /\ \A i \in DOMAIN e \ {} : i \notin DOMAIN f => h[i] = e[i]
    BY DEF createDoNothing
  <2> QED
    BY <2>1, <2>2
<1> HIDE DEF h
<1> QED
  BY <1>1, <1>2, <1>3, <1>4 DEF ItemTables

LEMMA ImportedSettings ==
  ASSUME BackupInv
  PROVE  /\ createUpsertSettings(dump) \in SettingTables
         /\ \A k \in SettingKeys : createUpsertSettings(dump)[k] # Mask
         /\ createUpsertSettings(dump)["secret"] = "default"
<1> DEFINE s == omitUnrestorableSettings(filterSecretSettings(dump.settings))
           h == createUpsertSettings(dump)
<1>1. \A k \in DOMAIN s : k \in DOMAIN dump.settings /\ s[k] = dump.settings[k] /\ s[k] # Mask /\ k # "secret"
  BY DEF omitUnrestorableSettings, filterSecretSettings, RowCut
<1>2. \A k \in DOMAIN dump.settings : dump.settings[k] \in {"default", "set", Mask}
  BY DEF BackupInv, DumpOK
<1>3. tables.settings \in SettingTables /\ (\A k \in SettingKeys : tables.settings[k] # Mask) /\ tables.settings["secret"] = "default"
  BY BackupFacts DEF Unmasked
<1>4. h = [k \in SettingKeys |-> IF k \in DOMAIN s THEN s[k] ELSE tables.settings[k]]
  BY DEF createUpsertSettings
<1> HIDE DEF s, h
<1>5. \A k \in SettingKeys : tables.settings[k] \in {"default", "set", Mask}
  BY <1>3 DEF SettingTables
<1>6. h \in SettingTables /\ \A k \in SettingKeys : h[k] # Mask
  BY <1>1, <1>2, <1>3, <1>4, <1>5 DEF SettingTables
<1>7. "secret" \in SettingKeys
  BY DEF SettingKeys
<1>8. h["secret"] = "default"
  BY <1>1, <1>3, <1>4, <1>7
<1> QED
  BY <1>6, <1>8 DEF h

LEMMA ImportInv ==
  ASSUME BackupInv, ~AllowStale, importDB PROVE BackupInv'
<1> DEFINE cs == createChannels(dump)
           ms == createModels(dump)
           gs == createGroups(dump)
           its == createItems(dump)
           ss == createUpsertSettings(dump)
           t == [chans |-> cs, mods |-> ms, grps |-> gs, items |-> its, settings |-> ss]
           top(f, n) == IF \E i \in DOMAIN f : i >= n THEN 1 + CHOOSE i \in DOMAIN f : \A j \in DOMAIN f : j <= i ELSE n
<1>1. ~stale /\ stale' = stale /\ dump' = dump /\ analyzeImport(dump)
  BY DEF importDB, DBImportIncremental
<1>2. tables' = t
  BY DEF importDB, DBImportIncremental
<1>3. \A i \in DOMAIN its : its[i].grp \in DOMAIN gs
  BY DEF importDB, DBImportIncremental
<1>4. nextIds' = [chans |-> top(cs, nextIds.chans), mods |-> top(ms, nextIds.mods),
                  grps |-> top(gs, nextIds.grps), items |-> top(its, nextIds.items)]
  BY DEF importDB, DBImportIncremental
<1>5. /\ cs \in ChanTables /\ DOMAIN cs \subseteq DOMAIN tables.chans \cup DOMAIN dump.chans
      /\ \A c \in DOMAIN cs : cs[c].proxy # Mask
  BY ImportedChannels
<1>6. /\ ms \in ModTables /\ DOMAIN ms = DOMAIN tables.mods \cup DOMAIN dump.mods
      /\ \A i \in DOMAIN tables.mods : ms[i] = tables.mods[i]
      /\ \A i \in DOMAIN dump.mods : i \notin DOMAIN tables.mods => ms[i] = dump.mods[i]
  BY <1>1, ImportedModels
<1>7. /\ gs \in GrpTables
      /\ \A i \in DOMAIN tables.grps : i \in DOMAIN gs /\ gs[i] = tables.grps[i]
      /\ \A i \in DOMAIN gs : i \notin DOMAIN tables.grps =>
           i \in DOMAIN dump.grps /\ gs[i] = dump.grps[i] /\ dump.grps[i] \notin GroupNamesIn(tables)
      /\ \A i \in DOMAIN dump.grps : dump.grps[i] \notin GroupNamesIn(tables) => i \in DOMAIN gs
  BY ImportedGroups
<1>8. /\ its \in ItemTables /\ DOMAIN its = DOMAIN tables.items \cup DOMAIN dump.items
      /\ \A i \in DOMAIN tables.items : its[i] = tables.items[i]
      /\ \A i \in DOMAIN dump.items : i \notin DOMAIN tables.items => its[i] = dump.items[i]
  BY ImportedItems
<1>9. ss \in SettingTables /\ (\A k \in SettingKeys : ss[k] # Mask) /\ ss["secret"] = "default"
  BY ImportedSettings
<1> HIDE DEF cs, ms, gs, its, ss
<1>10. t \in BackupTables /\ t.chans = cs /\ t.mods = ms /\ t.grps = gs /\ t.items = its /\ t.settings = ss
  BY <1>5, <1>6, <1>7, <1>8, <1>9 DEF BackupTables
<1> HIDE DEF t
<1>11. OneEach(dump) /\ ItemsHome(dump) /\ Below(dump, nextIds) /\ Same(tables, dump)
  BY <1>1, BackupFacts DEF BackupInv, DumpOK, Whole
<1>12. Below(t, nextIds)
  <2>1. Below(tables, nextIds)
    BY BackupFacts
  <2>2. \A i \in DOMAIN cs : i < nextIds.chans
    BY <2>1, <1>5, <1>11 DEF Below
  <2>3. \A i \in DOMAIN ms : i < nextIds.mods /\ ms[i].ch < nextIds.chans
    BY <2>1, <1>6, <1>11 DEF Below
  <2>4. \A i \in DOMAIN gs : i < nextIds.grps
    BY <2>1, <1>7, <1>11 DEF Below
  <2>5. \A i \in DOMAIN its : i < nextIds.items
    BY <2>1, <1>8, <1>11 DEF Below
  <2> QED
    BY <2>2, <2>3, <2>4, <2>5, <1>10 DEF Below
\* No id is raised: every row's id was given out before.
<1>13. nextIds' = nextIds
  <2>1. ASSUME NEW f, NEW n \in Nat, DOMAIN f \subseteq Nat, \A i \in DOMAIN f : i < n PROVE top(f, n) = n
    <3>1. ~ \E i \in DOMAIN f : i >= n
      BY <2>1
    <3> QED
      BY <3>1
  <2>2. DOMAIN cs \subseteq Nat /\ DOMAIN ms \subseteq Nat /\ DOMAIN gs \subseteq Nat /\ DOMAIN its \subseteq Nat
    BY <1>5, <1>6, <1>7, <1>8, TableFacts DEF ChanTables, ModTables, GrpTables, ItemTables
  <2>3. /\ \A i \in DOMAIN cs : i < nextIds.chans
        /\ \A i \in DOMAIN ms : i < nextIds.mods
        /\ \A i \in DOMAIN gs : i < nextIds.grps
        /\ \A i \in DOMAIN its : i < nextIds.items
    BY <1>10, <1>12 DEF Below
  <2>4. nextIds \in Ids /\ nextIds.chans \in Nat /\ nextIds.mods \in Nat /\ nextIds.grps \in Nat /\ nextIds.items \in Nat
    BY BackupFacts
  <2> HIDE DEF top
  <2>5. /\ top(cs, nextIds.chans) = nextIds.chans /\ top(ms, nextIds.mods) = nextIds.mods
        /\ top(gs, nextIds.grps) = nextIds.grps /\ top(its, nextIds.items) = nextIds.items
    BY <2>1, <2>2, <2>3, <2>4
  <2>6. nextIds' = [chans |-> nextIds.chans, mods |-> nextIds.mods, grps |-> nextIds.grps, items |-> nextIds.items]
    BY <2>5, <1>4
  <2> QED
    BY <2>4, <2>6 DEF Ids
<1>14. OneEach(t)
  <2>1. ASSUME NEW g \in DOMAIN gs, NEW h \in DOMAIN gs, gs[g] = gs[h] PROVE g = h
    <3>1. \A i \in DOMAIN tables.grps : gs[i] \in GroupNamesIn(tables)
      BY <1>7, NameMembers
    <3>2. \A i \in DOMAIN gs : i \notin DOMAIN tables.grps => i \in DOMAIN dump.grps /\ gs[i] = dump.grps[i] /\ gs[i] \notin GroupNamesIn(tables)
      BY <1>7
    <3>3. CASE g \in DOMAIN tables.grps /\ h \in DOMAIN tables.grps
      BY <3>3, <2>1, <1>7, BackupFacts DEF OneEach
    <3>4. CASE g \notin DOMAIN tables.grps /\ h \notin DOMAIN tables.grps
      BY <3>2, <3>4, <2>1, <1>11 DEF OneEach
    <3> QED
      BY <3>1, <3>2, <3>3, <3>4, <2>1
  <2>2. ASSUME NEW m \in DOMAIN ms, NEW k \in DOMAIN ms, ms[m].ch = ms[k].ch PROVE m = k
    <3>1. /\ \A i, j \in DOMAIN tables.mods : tables.mods[i].ch = tables.mods[j].ch => i = j
          /\ \A i, j \in DOMAIN dump.mods : dump.mods[i].ch = dump.mods[j].ch => i = j
          /\ \A i \in DOMAIN tables.mods, j \in DOMAIN dump.mods : tables.mods[i].ch = dump.mods[j].ch => i = j
      BY <1>11, BackupFacts DEF OneEach, Same
    <3> QED
      BY <3>1, <2>2, <1>6
  <2> QED
    BY <2>1, <2>2, <1>10 DEF OneEach
<1>15. ItemsHome(t)
  BY <1>3, <1>10 DEF ItemsHome
<1>16. \A n : n \in GroupNamesIn(tables) => n \in GroupNamesIn(t)
  BY <1>7, <1>10, NameMembers
<1>17. ASSUME NEW n \in effectiveGroupNames(dump) PROVE n \in GroupNamesIn(t)
  <2>1. CASE n \in GroupNamesIn(tables)
    BY <2>1, <1>16
  <2>2. CASE n \notin GroupNamesIn(tables)
    <3>1. PICK g \in DOMAIN dump.grps \ DOMAIN tables.grps : dump.grps[g] = n
      BY <2>2 DEF effectiveGroupNames
    <3>2. g \in DOMAIN gs /\ gs[g] = n
      BY <3>1, <2>2, <1>7
    <3> QED
      BY <3>2, <1>10, NameMembers
  <2> QED
    BY <2>1, <2>2
<1>18. Resolved(t)
  <2>1. \A i \in DOMAIN dump.items :
          /\ dump.items[i].model = 0 \/ dump.items[i].model \in DOMAIN tables.mods \cup DOMAIN dump.mods
          /\ dump.items[i].ref = NoRef \/ dump.items[i].ref \in effectiveGroupNames(dump)
    BY <1>1 DEF analyzeImport, refsResolve
  <2>2. \A i \in DOMAIN tables.items :
          /\ tables.items[i].model = 0 \/ tables.items[i].model \in DOMAIN tables.mods
          /\ tables.items[i].ref = NoRef \/ tables.items[i].ref \in GroupNamesIn(tables)
    BY BackupFacts DEF Resolved
  <2>3. ASSUME NEW i \in DOMAIN its PROVE its[i].model = 0 \/ its[i].model \in DOMAIN ms
    BY <2>1, <2>2, <1>6, <1>8
  <2>4. ASSUME NEW i \in DOMAIN its PROVE its[i].ref = NoRef \/ its[i].ref \in GroupNamesIn(t)
    BY <2>1, <2>2, <1>8, <1>16, <1>17
  <2> QED
    BY <2>3, <2>4, <1>10 DEF Resolved
\* The graph the analysis looked at has every edge of the one that is stored.
<1>19. NoCycle(t)
  <2> DEFINE names == GroupNamesIn(tables) \cup GroupNamesIn(dump)
             added(n) == {dump.items[i].ref : i \in {j \in DOMAIN dump.items :
                            /\ dump.items[j].ref # NoRef /\ dump.grps[dump.items[j].grp] = n
                            /\ dump.items[j].grp \in DOMAIN tables.grps => j \notin DOMAIN tables.items}}
             edges == [n \in names |-> RefsOf(tables, n) \cup added(n)]
  <2>1. Acyclic(names, edges)
    BY <1>1 DEF analyzeImport, detectGroupCycles
  <2>2. GroupNamesIn(t) \in SUBSET names
    BY <1>7, <1>10, NameMembers
  <2>3. ASSUME NEW n, NEW x \in RefsOf(t, n) PROVE x \in RefsOf(tables, n) \cup added(n)
    <3>1. PICK j \in DOMAIN its : its[j].ref # NoRef /\ gs[its[j].grp] = n /\ its[j].ref = x
      BY <2>3, <1>10, RefMembers
    <3>2. CASE j \in DOMAIN tables.items
      <4>1. tables.items[j].grp \in DOMAIN tables.grps /\ its[j] = tables.items[j]
        BY <3>2, <1>8, BackupFacts DEF ItemsHome
      <4>2. tables.items[j].ref # NoRef /\ tables.grps[tables.items[j].grp] = n /\ tables.items[j].ref = x
        BY <4>1, <3>1, <1>7
      <4> QED
        BY <3>2, <4>2, RefMembers
    <3>3. CASE j \notin DOMAIN tables.items
      <4>1. j \in DOMAIN dump.items /\ its[j] = dump.items[j] /\ dump.items[j].grp \in DOMAIN dump.grps /\ dump.items[j].grp \in DOMAIN gs
        BY <3>1, <3>3, <1>3, <1>8, <1>11 DEF ItemsHome
      <4>2. gs[dump.items[j].grp] = dump.grps[dump.items[j].grp]
        BY <4>1, <1>7, <1>11 DEF Same
      <4>3. x \in added(n)
        BY <4>1, <4>2, <3>1, <3>3
      <4> QED
        BY <4>3
    <3> QED
      BY <3>2, <3>3
  <2> HIDE DEF added
  <2>4. \A n \in GroupNamesIn(t) : RefGraph(t)[n] \subseteq edges[n]
    BY <2>2, <2>3 DEF RefGraph
  <2> HIDE DEF names, edges
  <2> QED
    BY <2>1, <2>2, <2>4, SubGraph DEF NoCycle
<1>20. Unmasked(t)
  BY <1>5, <1>9, <1>10 DEF Unmasked
<1>21. Same(t, dump)
  <2>1. \A g \in DOMAIN gs \cap DOMAIN dump.grps : gs[g] = dump.grps[g]
    BY <1>7, <1>11 DEF Same
  <2>2. \A m \in DOMAIN ms, k \in DOMAIN dump.mods : ms[m].ch = dump.mods[k].ch => m = k
    BY <1>6, <1>11 DEF Same, OneEach
  <2> QED
    BY <2>1, <2>2, <1>10 DEF Same
<1>22. stale' \in BOOLEAN
  BY <1>1 DEF BackupInv, TablesOK
<1> QED
  BY <1>1, <1>2, <1>10, <1>12, <1>13, <1>14, <1>15, <1>18, <1>19, <1>20, <1>21, <1>22, IdsFacts, BackupKept DEF Whole, Good

LEMMA BackupStep ==
  ASSUME BackupInv, ~AllowStale, [BackupNext]_backupVars PROVE BackupInv'
<1>1. CASE \E n \in ChannelNames, m \in ModelNames : CreateChannel(n, m)
  BY <1>1, CreateChannelInv
<1>2. CASE \E m \in DOMAIN tables.mods, n \in ModelNames : ResyncModel(m, n)
  BY <1>2, ResyncInv
<1>3. CASE \E c \in DOMAIN tables.chans : DropChannel(c)
  BY <1>3, DropChannelInv
<1>4. CASE \E n \in BackupGroups : CreateGroup(n)
  BY <1>4, CreateGroupInv
<1>5. CASE \E n \in BackupGroups : \E g \in DOMAIN tables.grps : RenameGroup(g, n)
  BY <1>5, RenameInv
<1>6. CASE \E g \in DOMAIN tables.grps : DropGroup(g)
  BY <1>6, DropGroupInv
<1>7. CASE \E g \in DOMAIN tables.grps : \E m \in DOMAIN tables.mods : AddItem(g, m, NoRef)
  BY <1>7, AddItemInv
<1>8. CASE \E g \in DOMAIN tables.grps : \E n \in GroupNamesIn(tables) : AddItem(g, 0, n)
  BY <1>8, AddItemInv
<1>9. CASE \E i \in DOMAIN tables.items : DropItem(i)
  BY <1>9, DropItemInv
<1>10. CASE \E k \in SettingKeys \ {"secret"} : SetSetting(k)
  BY <1>10, SetSettingInv
<1>11. CASE DBExportAll
  BY <1>11, ExportInv
<1>12. CASE importDB
  BY <1>12, ImportInv
<1>13. CASE UNCHANGED backupVars
  <2>1. tables' = tables /\ nextIds' = nextIds /\ dump' = dump /\ stale' = stale
    BY <1>13 DEF backupVars
  <2>2. stale \in BOOLEAN /\ (~stale => Same(tables, dump)) /\ Whole(tables, nextIds) /\ Good(tables) /\ tables \in BackupTables
    BY DEF BackupInv, TablesOK
  <2> QED
    BY <2>1, <2>2, IdsFacts, BackupKept
<1> QED
  BY <1>1, <1>2, <1>3, <1>4, <1>5, <1>6, <1>7, <1>8, <1>9, <1>10, <1>11, <1>12, <1>13 DEF BackupNext

LEMMA BackupInvSound == ASSUME BackupInv PROVE RestoreSound
<1>1. Resolved(tables) /\ NoCycle(tables) /\ Unmasked(tables)
  BY BackupFacts
<1>2. ImportSound
  BY <1>1 DEF ImportSound, Resolved, NoCycle
<1>3. MaskNeverStored
  BY <1>1 DEF MaskNeverStored, Unmasked
<1> QED
  BY <1>2, <1>3 DEF RestoreSound

\* Import of an instance's own export (backup.go): whatever admins delete, create or reference between
\* the export and the import, however often they repeat both, and for any number of channels, groups and
\* rows, every member and reference resolves afterwards, no reference chain closes on itself, and no
\* mask is stored as a credential.  Dumps of other instances, and dumps older than a rename or a
\* resync, are excluded by the hypotheses: ids and names may then clash.
THEOREM OwnDumpsRestore ==
  ASSUME Foreign = {}, ~AllowStale PROVE BackupSpec => []RestoreSound
<1>1. BackupInit => BackupInv
  BY InitInv
<1>2. BackupInv /\ [BackupNext]_backupVars => BackupInv'
  BY BackupStep
<1>3. BackupInv => RestoreSound
  BY BackupInvSound
<1> QED
  BY <1>1, <1>2, <1>3, PTL DEF BackupSpec

-----------------------------------------------------------------------------
(***************************************************************************)
(* The model list (ModelSync) for any models, filters and metadata.  What  *)
(* a synchronisation read is the list as it is until a save falls into it, *)
(* and an empty answer it believes found no automatic model.               *)
(***************************************************************************)
ModelRow == [source : {"none", "manual", "auto"}, meta : Metas \cup {0}, tools : BOOLEAN]
ModelLists == [ModelsOf -> ModelRow]
SyncSteps == {"idle", "paged", "plain", "listed", "catalog", "apply"}
SyncTasks ==
  [step : SyncSteps, snap : ModelLists \cup {Closed}, got : SUBSET ModelsOf, pages : Nat,
   info : [ModelsOf -> Entries], raced : BOOLEAN]

SyncTypeOK ==
  /\ listed \in ModelLists /\ form \in ModelLists \cup {Closed}
  /\ task \in SyncTasks
  /\ task.step # "idle" => task.snap \in ModelLists

SnapshotCurrent == task.step # "idle" /\ ~task.raced => task.snap = listed
AnswerBelieved == task.step \in {"catalog", "apply"} => ~emptyIsSuspect(task.got, task.snap)
SyncInv == SyncTypeOK /\ SnapshotCurrent /\ AnswerBelieved

LEMMA IdleIsTask == Idle \in SyncTasks /\ Idle.step = "idle"
BY DEF Idle, SyncTasks, SyncSteps, Entries

LEMMA RowsAre ==
  ASSUME NEW m \in Metas \cup {0}, NEW t \in BOOLEAN
  PROVE  Absent \in ModelRow /\ Manual(m) \in ModelRow /\ Automatic(m, t) \in ModelRow
BY DEF Absent, Manual, Automatic, ModelRow

\* A catalogue without an entry for a model says nothing of it.
LEMMA EntryFacts ==
  ASSUME NEW e \in Entries
  PROVE  /\ e.known \in BOOLEAN /\ e.meta \in Metas \cup {0} /\ e.tools \in BOOLEAN
         /\ ~e.known => e.meta = 0
<1>1. CASE e = NoEntry
  <2>1. NoEntry.known = FALSE /\ NoEntry.meta = 0 /\ NoEntry.tools = FALSE
    BY DEF NoEntry
  <2> QED BY <1>1, <2>1
<1>2. CASE e \in [known : {TRUE}, meta : Metas \cup {0}, tools : BOOLEAN]
  <2>1. e.known = TRUE /\ e.meta \in Metas \cup {0} /\ e.tools \in BOOLEAN
    BY <1>2
  <2> QED BY <2>1
<1> QED BY <1>1, <1>2 DEF Entries

LEMMA RebuiltIsList ==
  ASSUME NEW s \in ModelLists, NEW got, NEW info \in [ModelsOf -> Entries]
  PROVE  Rebuilt(s, got, info) \in ModelLists
<1>1. ASSUME NEW n \in ModelsOf PROVE metaOf(n, s, info) \in Metas \cup {0} /\ toolsOf(n, s, info) \in BOOLEAN
  <2>1. /\ info[n].known \in BOOLEAN /\ info[n].meta \in Metas \cup {0} /\ info[n].tools \in BOOLEAN
        /\ s[n].meta \in Metas \cup {0} /\ s[n].tools \in BOOLEAN
    <3>1. info[n] \in Entries /\ s[n] \in ModelRow
      BY DEF ModelLists
    <3>2. s[n].meta \in Metas \cup {0} /\ s[n].tools \in BOOLEAN
      BY <3>1 DEF ModelRow
    <3> QED BY <3>1, <3>2, EntryFacts
  <2>2. metaOf(n, s, info) \in Metas \cup {0}
    BY <2>1 DEF metaOf
  <2>3. toolsOf(n, s, info) \in BOOLEAN
    BY <2>1, Zenon DEF toolsOf
  <2> QED BY <2>2, <2>3
<1>2. ASSUME NEW n \in ModelsOf
      PROVE  (IF n \in ManualIn(s) THEN s[n]
              ELSE IF n \in got \cap Fit THEN Automatic(metaOf(n, s, info), toolsOf(n, s, info)) ELSE Absent) \in ModelRow
  <2>1. s[n] \in ModelRow
    BY DEF ModelLists
  <2> QED BY <1>1, <2>1, RowsAre
<1> QED BY <1>2 DEF Rebuilt, ModelLists

LEMMA SyncInvHolds == SyncSpec => []SyncInv
<1>1. SyncInit => SyncInv
  <2> SUFFICES ASSUME SyncInit PROVE SyncInv
    OBVIOUS
  <2>1. Absent \in ModelRow /\ Manual(0) \in ModelRow /\ Automatic(0, FALSE) \in ModelRow
    BY RowsAre
  <2>2. listed \in ModelLists
    BY <2>1 DEF SyncInit, ModelLists
  <2> QED BY <2>2, IdleIsTask DEF SyncInit, SyncInv, SyncTypeOK, SnapshotCurrent, AnswerBelieved
<1>2. SyncInv /\ [SyncNext]_syncVars => SyncInv'
  <2> SUFFICES ASSUME SyncInv, [SyncNext]_syncVars PROVE SyncInv'
    OBVIOUS
  <2>0. /\ SyncTypeOK /\ SnapshotCurrent /\ AnswerBelieved
        /\ listed \in ModelLists /\ form \in ModelLists \cup {Closed} /\ task \in SyncTasks
    BY DEF SyncInv, SyncTypeOK
  <2>1. CASE SyncStart
    <3> PICK p \in Providers : task' = [Idle EXCEPT !.step = p, !.snap = listed]
      BY <2>1 DEF SyncStart
    <3>1. p \in {"paged", "plain"}
      BY SyncAssumption
    <3>2. task' \in SyncTasks /\ task'.step = p /\ task'.snap = listed
      BY <2>0, <3>1, IdleIsTask DEF SyncTasks, SyncSteps
    <3> QED BY <2>0, <2>1, <3>1, <3>2 DEF SyncStart, SyncInv, SyncTypeOK, SnapshotCurrent, AnswerBelieved
  <2>2. CASE fetchAnthropicModels
    <3>1. CASE task' = Idle
      BY <2>0, <2>2, <3>1, IdleIsTask
      DEF fetchAnthropicModels, SyncInv, SyncTypeOK, SnapshotCurrent, AnswerBelieved
    <3>2. CASE task' # Idle
      <4>p. PICK names \in SUBSET ModelsOf, more \in BOOLEAN :
            task' = [task EXCEPT !.got = task.got \cup names, !.pages = @ + 1,
                       !.step = IF more /\ task.pages + 1 < MaxPages THEN "paged"
                                ELSE IF task.got \cup names = {} THEN "plain" ELSE "listed"]
        BY <2>2, <3>2 DEF fetchAnthropicModels
      <4> DEFINE next == IF more /\ task.pages + 1 < MaxPages THEN "paged"
                         ELSE IF task.got \cup names = {} THEN "plain" ELSE "listed"
                 all == task.got \cup names
                 count == task.pages + 1
      <4>0. next \in {"paged", "plain", "listed"} /\ all \in SUBSET ModelsOf
            /\ count \in Nat /\ task' = [task EXCEPT !.got = all, !.pages = count, !.step = next]
        BY <2>0, <4>p DEF SyncTasks
      <4> HIDE DEF next, all, count
      <4>1. /\ task'.step \in {"paged", "plain", "listed"} /\ task'.snap = task.snap
            /\ task'.raced = task.raced /\ task' \in SyncTasks
        BY <2>0, <4>0 DEF SyncTasks, SyncSteps
      <4> QED BY <2>0, <2>2, <4>1
              DEF fetchAnthropicModels, SyncInv, SyncTypeOK, SnapshotCurrent, AnswerBelieved
    <3> QED BY <3>1, <3>2
  <2>3. CASE fetchOpenAIModels
    <3>1. CASE task' = Idle
      BY <2>0, <2>3, <3>1, IdleIsTask
      DEF fetchOpenAIModels, SyncInv, SyncTypeOK, SnapshotCurrent, AnswerBelieved
    <3>2. CASE task' # Idle
      <4> PICK names \in SUBSET ModelsOf : task' = [task EXCEPT !.got = names, !.step = "listed"]
        BY <2>3, <3>2 DEF fetchOpenAIModels
      <4>1. /\ task'.step = "listed" /\ task'.snap = task.snap
            /\ task'.raced = task.raced /\ task' \in SyncTasks
        BY <2>0 DEF SyncTasks, SyncSteps
      <4> QED BY <2>0, <2>3, <4>1
              DEF fetchOpenAIModels, SyncInv, SyncTypeOK, SnapshotCurrent, AnswerBelieved
    <3> QED BY <3>1, <3>2
  <2>4. CASE FetchModels
    <3>1. CASE task' = Idle
      BY <2>0, <2>4, <3>1, IdleIsTask
      DEF FetchModels, SyncInv, SyncTypeOK, SnapshotCurrent, AnswerBelieved
    <3>2. CASE task' # Idle
      <4> DEFINE got == task.got \cap Matching
      <4>1. /\ ~emptyIsSuspect(got, task.snap)
            /\ task' = [task EXCEPT !.got = got, !.step = "catalog"]
        BY <2>4, <3>2 DEF FetchModels
      <4>2. /\ task'.step = "catalog" /\ task'.snap = task.snap /\ task'.got = got
            /\ task'.raced = task.raced /\ task' \in SyncTasks
        BY <2>0, <4>1 DEF SyncTasks, SyncSteps
      <4> QED BY <2>0, <2>4, <4>1, <4>2
              DEF FetchModels, SyncInv, SyncTypeOK, SnapshotCurrent, AnswerBelieved
    <3> QED BY <3>1, <3>2
  <2>5. CASE FetchOpencodeCatalog
    <3> PICK info \in [ModelsOf -> Entries] :
          task' = [task EXCEPT !.info = info, !.step = "apply"]
      BY <2>5 DEF FetchOpencodeCatalog
    <3>1. /\ task'.step = "apply" /\ task'.snap = task.snap /\ task'.got = task.got
          /\ task'.raced = task.raced /\ task' \in SyncTasks
      BY <2>0 DEF SyncTasks, SyncSteps
    <3> QED BY <2>0, <2>5, <3>1
            DEF FetchOpencodeCatalog, SyncInv, SyncTypeOK, SnapshotCurrent, AnswerBelieved
  <2>6. CASE SyncApply
    <3>1. task.snap \in ModelLists /\ task.got \in SUBSET ModelsOf
          /\ task.info \in [ModelsOf -> Entries]
      BY <2>0, <2>6 DEF SyncApply, SyncTypeOK, SyncTasks
    <3>2. Rebuilt(task.snap, task.got, task.info) \in ModelLists
      BY <3>1, RebuiltIsList
    <3>3. listed' \in ModelLists
      BY <2>0, <2>6, <3>2 DEF SyncApply
    <3> QED BY <2>0, <2>6, <3>3, IdleIsTask
            DEF SyncApply, SyncInv, SyncTypeOK, SnapshotCurrent, AnswerBelieved
  <2>7. CASE OpenForm
    BY <2>0, <2>7 DEF OpenForm, SyncInv, SyncTypeOK, SnapshotCurrent, AnswerBelieved
  <2>8. CASE \E n \in ModelsOf : SaveForm(n)
    <3> PICK n \in ModelsOf : SaveForm(n)
      BY <2>8
    <3>1. form \in ModelLists /\ Manual(0) \in ModelRow /\ Absent \in ModelRow
      BY <2>0, RowsAre DEF SaveForm
    <3>2. [form EXCEPT ![n] = Manual(0)] \in ModelLists /\ [form EXCEPT ![n] = Absent] \in ModelLists
      BY <3>1 DEF ModelLists
    <3>3. /\ task' \in SyncTasks /\ task'.raced = (task.step # "idle") /\ task'.step = task.step
          /\ task'.got = task.got /\ task'.snap = task.snap
      BY <2>0 DEF SaveForm, SyncTasks
    <3> QED BY <2>0, <3>2, <3>3 DEF SaveForm, SyncInv, SyncTypeOK, SnapshotCurrent, AnswerBelieved
  <2>9. CASE UNCHANGED syncVars
    BY <2>0, <2>9 DEF syncVars, SyncInv, SyncTypeOK, SnapshotCurrent, AnswerBelieved
  <2> QED BY <2>1, <2>2, <2>3, <2>4, <2>5, <2>6, <2>7, <2>8, <2>9 DEF SyncNext
<1> QED BY <1>1, <1>2, PTL DEF SyncSpec

\* The synchronisation of a channel's models (task/sync.go): one that no save falls into takes
\* no manual model away, forgets no metadata the catalogue is silent about, leaves a model
\* without an entry as it was and never empties the list because of an empty answer, for any
\* models, filters, pages and number of saves.
THEOREM SyncHolds == SyncSpec => SyncKeeps
<1> DEFINE Kept ==
      SyncWrites /\ ~task.raced =>
        /\ \A n \in ManualIn(listed) : listed'[n] = listed[n]
        /\ \A n \in AutoIn(listed) \cap AutoIn(listed') :
             /\ task.info[n].meta = 0 => listed'[n].meta = listed[n].meta
             /\ ~task.info[n].known => listed'[n] = listed[n]
        /\ task.got = {} => AutoIn(listed) \subseteq AutoIn(listed')
<1>1. SyncInv /\ [SyncNext]_syncVars => [Kept]_syncVars
  <2> SUFFICES ASSUME SyncInv, SyncNext, SyncWrites, ~task.raced PROVE Kept
    OBVIOUS
  <2> DEFINE list == Rebuilt(task.snap, task.got, task.info)
  <2>0. /\ listed \in ModelLists /\ form \in ModelLists \cup {Closed} /\ task \in SyncTasks
        /\ task.step = "apply" /\ task.snap = listed
        /\ ~emptyIsSuspect(task.got, task.snap)
    BY DEF SyncInv, SyncTypeOK, SyncWrites, SnapshotCurrent, AnswerBelieved
  <2>1. SyncApply
    <3>1. ASSUME NEW n \in ModelsOf, SaveForm(n) PROVE task'.step = task.step
      BY <3>1, <2>0 DEF SaveForm, SyncTasks
    <3> QED BY <3>1, <2>0 DEF SyncWrites, SyncNext, SyncStart, fetchAnthropicModels,
              fetchOpenAIModels, FetchModels, FetchOpencodeCatalog, OpenForm
  <2>2. listed' \in {listed, list}
    BY <2>1 DEF SyncApply
  <2>3. CASE listed' = listed
    BY <2>3
  <2>4. CASE listed' = list
    <3>1. ASSUME NEW n \in ModelsOf
          PROVE  listed'[n] = IF n \in ManualIn(listed) THEN listed[n]
                              ELSE IF n \in task.got \cap Fit
                                   THEN Automatic(metaOf(n, listed, task.info), toolsOf(n, listed, task.info))
                              ELSE Absent
      BY <2>0, <2>4 DEF Rebuilt
    <3>2. ASSUME NEW n \in ManualIn(listed) PROVE listed'[n] = listed[n]
      BY <3>1 DEF ManualIn
    <3>3. ASSUME NEW n \in AutoIn(listed) \cap AutoIn(listed')
          PROVE  /\ task.info[n].meta = 0 => listed'[n].meta = listed[n].meta
                 /\ ~task.info[n].known => listed'[n] = listed[n]
      <4>1. n \in ModelsOf /\ n \notin ManualIn(listed) /\ listed[n] \in ModelRow /\ listed[n].source = "auto"
        BY <2>0 DEF AutoIn, ManualIn, ModelLists
      <4>2. listed'[n] = Automatic(metaOf(n, listed, task.info), toolsOf(n, listed, task.info))
        BY <3>1, <3>3, <4>1 DEF AutoIn, Absent
      <4>3. task.info[n].meta = 0 => metaOf(n, listed, task.info) = listed[n].meta
        BY <3>3 DEF metaOf
      <4>4. ~task.info[n].known => task.info[n].meta = 0
        <5>1. task.info[n] \in Entries
          BY <2>0, <4>1 DEF SyncTasks
        <5> QED BY <5>1, EntryFacts
      <4>5. ~task.info[n].known => toolsOf(n, listed, task.info) = listed[n].tools
        <5>1. listed[n].tools \in BOOLEAN
          BY <4>1 DEF ModelRow
        <5>2. n \in AutoIn(listed)
          BY <3>3
        <5> QED BY <5>1, <5>2, Zenon DEF toolsOf
      <4>6. PICK row \in ModelRow : row = listed[n]
        BY <4>1
      <4>7. row = Automatic(row.meta, row.tools)
        BY <4>1, <4>6 DEF Automatic, ModelRow
      <4> QED BY <4>2, <4>3, <4>4, <4>5, <4>6, <4>7 DEF Automatic
    <3>4. task.got = {} => AutoIn(listed) = {}
      BY <2>0 DEF emptyIsSuspect
    <3> QED BY <3>2, <3>3, <3>4
  <2> QED BY <2>2, <2>3, <2>4
<1> HIDE DEF Kept
<1>2. SyncSpec => [][Kept]_syncVars
  BY <1>1, SyncInvHolds, PTL DEF SyncSpec
<1> QED BY <1>2 DEF SyncKeeps, Kept

-----------------------------------------------------------------------------
(***************************************************************************)
(* The stored groups (EntityCache) for any channels, groups and edits,     *)
(* with the races the model lists.                                         *)
(***************************************************************************)

EntityNames == GroupNames \cup {AutoName}
GroupRecs == [name : EntityNames, members : SUBSET ChannelModels, refs : SUBSET EntityNames,
              active : ChannelModels \cup {NoMember}]
Grouped(gs) == \A g \in DOMAIN gs : gs[g] \in GroupRecs

OneName == \A g, h \in DOMAIN dbGroups : dbGroups[g].name = dbGroups[h].name => g = h
GroupRows ==
  Grouped(dbGroups) /\ OneName /\ DOMAIN dbGroups \subseteq spentGroups /\ spentGroups \subseteq GroupIds

References(x, y) == dbGroups[y].name \in dbGroups[x].refs
NamesResolve == \A g \in DOMAIN dbGroups : dbGroups[g].refs \subseteq NamesOf(dbGroups)
NoRefCycle ==
  \A S \in SUBSET DOMAIN dbGroups : S # {} => \E g \in S : \A h \in S : ~References(g, h)

StoredSound == GroupRows /\ NoDanglingMember /\ NamesResolve /\ NoRefCycle

\* The model cache lacks at most what the editor is about to publish.
ModelsFollow ==
  /\ dbModels \subseteq ChannelModels
  /\ dbModels = IF editor.pc = "models" THEN (modelCache \cup editor.add) \ editor.drop ELSE modelCache

\* A group as the cache has it carries the name of the stored one and at least its references;
\* a stored group that the cache does not have references nothing.
NameFollows(gs, g) == g \in DOMAIN dbGroups /\ gs[g].name = dbGroups[g].name
RefsFollow(gs, g) == dbGroups[g].refs \subseteq IF g \in DOMAIN gs THEN gs[g].refs ELSE {}

\* What the editor is about to publish; a replacement never runs beside the operations of the
\* second kind.
Unpublished == IF editor.pc \in {"publish", "forget"} THEN {editor.id} ELSE {}
Misnamed == IF doing \notin Racing THEN Unpublished ELSE {}

CacheFollows ==
  /\ Grouped(groupCache)
  /\ \A g \in DOMAIN groupCache \ Misnamed : NameFollows(groupCache, g)
  /\ \A g \in DOMAIN dbGroups \ Unpublished : RefsFollow(groupCache, g)

\* The index is the inverse of the cached names.
IndexInverse ==
  /\ \A g \in DOMAIN groupCache : /\ groupCache[g].name \in DOMAIN nameIndex
                                  /\ nameIndex[groupCache[g].name] = g
  /\ \A n \in DOMAIN nameIndex : /\ nameIndex[n] \in DOMAIN groupCache
                                 /\ groupCache[nameIndex[n]].name = n

CachesFollow == ModelsFollow /\ CacheFollows /\ IndexInverse

\* Group g may reference the names: some set of groups without g has them all and is closed
\* under references, but for groups that reference nothing.
MayReference(g, names) ==
  \E M \in SUBSET (DOMAIN dbGroups \ {g}) :
    /\ \A n \in names : \E h \in M : dbGroups[h].name = n
    /\ \A x \in M, y \in DOMAIN dbGroups : References(x, y) => y \in M \/ (y # g /\ dbGroups[y].refs = {})

\* What the editor knows at each of its steps.
SyncFacts == editor.pc = "sync" => editor.add \subseteq ChannelModels
InsertFacts ==
  editor.pc = "insert" =>
    /\ editor.group \in GroupRecs /\ editor.group.members \subseteq dbModels
    /\ editor.group.refs \subseteq NamesOf(dbGroups)
UpdateFacts ==
  editor.pc = "update" =>
    LET g == editor.id IN
    /\ g \in DOMAIN groupCache /\ g \in DOMAIN dbGroups /\ groupCache[g].name = editor.old
    /\ editor.add \subseteq dbModels /\ editor.name \in EntityNames /\ editor.addRefs \subseteq EntityNames
    /\ MayReference(g, (dbGroups[g].refs \ editor.delRefs) \cup editor.addRefs)
    /\ editor.rename => \A h \in DOMAIN dbGroups \ {g} : ~References(h, g)
    /\ doing \in Racing => ~editor.rename /\ dbGroups[g].name # AutoName
PublishFacts ==
  editor.pc = "publish" =>
    LET g == editor.id IN
    /\ editor.group \in GroupRecs /\ g \in DOMAIN dbGroups
    /\ editor.group.name = dbGroups[g].name /\ dbGroups[g].refs \subseteq editor.group.refs
    /\ editor.old = IF g \in DOMAIN groupCache THEN groupCache[g].name ELSE editor.group.name
    /\ doing \in Racing => editor.old = editor.group.name
ForgetFacts ==
  editor.pc = "forget" =>
    /\ editor.id \in DOMAIN groupCache \ DOMAIN dbGroups /\ groupCache[editor.id].name = editor.name
    /\ doing \notin Racing
InstallFacts ==
  editor.pc = "install" =>
    /\ Grouped(editor.groups)
    /\ \A g \in DOMAIN editor.groups : NameFollows(editor.groups, g)
    /\ \A g \in DOMAIN dbGroups : RefsFollow(editor.groups, g)
EditorKnows == SyncFacts /\ InsertFacts /\ UpdateFacts /\ PublishFacts /\ ForgetFacts /\ InstallFacts

\* What a replacement is about to publish, and when it runs.
RankingKnows ==
  /\ editor # Resting /\ doing \notin Racing => ranking = Resting
  /\ ranking.pc = "publish" =>
       /\ ranking.id \in DOMAIN dbGroups /\ ranking.group \in GroupRecs
       /\ ranking.group.name = AutoName /\ dbGroups[ranking.id].name = AutoName
       /\ dbGroups[ranking.id].refs = {}

EntityInv == StoredSound /\ CachesFollow /\ EditorKnows /\ RankingKnows

-----------------------------------------------------------------------------
(* The walk along references *)

\* A set of numbers that is not empty has a smallest one.
LEMMA LeastNumber ==
  ASSUME NEW S \in SUBSET Nat, S # {}
  PROVE  \E k \in S : \A m \in S : k <= m
<1>1. IsWellFoundedOn(OpToRel(<, Nat), Nat)
  BY NatLessThanWellFounded
<1>2. S \subseteq Nat
  OBVIOUS
<1>3. PICK k \in S : \A m \in S : <<m, k>> \notin OpToRel(<, Nat)
  BY <1>1, <1>2, WFMin
<1>4. \A m \in S : ~(m < k)
  BY <1>2, <1>3 DEF OpToRel
<1> QED BY <1>2, <1>4

\* The layers of a walk exist, however deep it may go.
LayerSteps(G) == [SUBSET G -> SUBSET G]
LayerLists(G, n) == [1..n -> SUBSET G]
AreLayers(f, n, start, step) == \A d \in 1..n : f[d] = IF d = 1 THEN start ELSE step[f[d - 1]]
LEMMA LayersExist ==
  ASSUME NEW G, NEW start, start \subseteq G, NEW step \in LayerSteps(G), NEW n \in Nat
  PROVE  \E f \in LayerLists(G, n) : AreLayers(f, n, start, step)
<1> USE DEF LayerSteps, LayerLists, AreLayers
<1> DEFINE Has(k) == \E f \in [1..k -> SUBSET G] :
                       \A d \in 1..k : f[d] = IF d = 1 THEN start ELSE step[f[d - 1]]
           bad == {k \in Nat : ~Has(k)}
<1>1. SUFFICES ASSUME bad # {} PROVE FALSE
  OBVIOUS
<1>2. PICK k \in bad : \A m \in bad : k <= m
  <2>1. bad \in SUBSET Nat
    OBVIOUS
  <2> HIDE DEF bad
  <2> QED BY <1>1, <2>1, LeastNumber
<1>3. k \in Nat /\ ~Has(k)
  BY <1>2
<1>4. k # 0
  <2>1. Has(0)
    <3> DEFINE f == [d \in 1..0 |-> start]
    <3>1. f \in [1..0 -> SUBSET G]
      OBVIOUS
    <3>2. \A d \in 1..0 : f[d] = IF d = 1 THEN start ELSE step[f[d - 1]]
      OBVIOUS
    <3> HIDE DEF f
    <3> QED BY <3>1, <3>2
  <2> HIDE DEF Has
  <2> QED BY <1>3, <2>1
<1> DEFINE j == k - 1
<1>5. j \in Nat /\ j < k /\ k = j + 1
  BY <1>3, <1>4
<1>6. Has(j)
  <2>1. j \notin bad
    BY <1>2, <1>5
  <2> HIDE DEF Has, j
  <2> QED BY <1>5, <2>1
<1> HIDE DEF j, bad
<1>7. PICK f \in [1..j -> SUBSET G] :
        \A d \in 1..j : f[d] = IF d = 1 THEN start ELSE step[f[d - 1]]
  BY <1>6
<1> DEFINE h == [d \in 1..k |-> IF d = 1 THEN start ELSE step[f[d - 1]]]
<1>8. \A d \in 1..k : d # 1 => d - 1 \in 1..j
  BY <1>5
<1>9. h \in [1..k -> SUBSET G]
  BY <1>7, <1>8
<1>10. ASSUME NEW d \in 1..j PROVE h[d] = f[d]
  <2>1. d \in 1..k
    BY <1>5
  <2>2. f[d] = IF d = 1 THEN start ELSE step[f[d - 1]]
    BY <1>7
  <2> QED BY <2>1, <2>2
<1>11. ASSUME NEW d \in 1..k
       PROVE  h[d] = IF d = 1 THEN start ELSE step[h[d - 1]]
  <2>1. CASE d = 1
    BY <2>1
  <2>2. CASE d # 1
    <3>1. h[d - 1] = f[d - 1]
      BY <2>2, <1>8, <1>10
    <3>2. h[d] = step[f[d - 1]]
      BY <2>2
    <3> QED BY <2>2, <3>1, <3>2
  <2> QED BY <2>1, <2>2
<1>12. Has(k)
  <2> HIDE DEF h
  <2> QED BY <1>9, <1>11
<1> QED BY <1>3, <1>12

\* A walk that succeeds stays in a set of cached groups that is closed under references and
\* does not hold the edited group.
ClosedInCache(C) == \A x \in C : groupsFor(groupCache[x].refs) \subseteq C
LEMMA WalkCloses ==
  ASSUME NEW target \in DOMAIN groupCache, NEW self, NEW selfName,
         walkGroupRefChain(target, self, selfName)
  PROVE  \E C \in SUBSET DOMAIN groupCache : target \in C /\ self \notin C /\ ClosedInCache(C)
<1> DEFINE D == DOMAIN groupCache
           RefsOut(S) == UNION {groupsFor(groupCache[g].refs) : g \in S}
           Is(f) == f = [d \in 1..MaxRefDepth + 1 |-> IF d = 1 THEN {target} ELSE RefsOut(f[d - 1])]
           layer == CHOOSE f : Is(f)
           met == UNION {layer[d] : d \in 1..MaxRefDepth}
<1>1. layer[MaxRefDepth + 1] = {} /\ \A g \in met : g # self
  BY DEF walkGroupRefChain
<1>2. \A S : RefsOut(S) \in SUBSET D
  BY DEF groupsFor
<1>3. MaxRefDepth \in Nat /\ MaxRefDepth > 0
  BY EntityAssumption
<1>4. Is(layer)
  <2> DEFINE step == [S \in SUBSET D |-> RefsOut(S)]
             n == MaxRefDepth + 1
  <2>1. step \in [SUBSET D -> SUBSET D] /\ {target} \in SUBSET D /\ n \in Nat
    BY <1>2, <1>3
  <2>2. \A S \in SUBSET D : step[S] = RefsOut(S)
    OBVIOUS
  <2> HIDE DEF step, n, D, RefsOut
  <2> DEFINE start == {target}
  <2>7. start \subseteq D /\ step \in LayerSteps(D) /\ n \in Nat
    BY <2>1 DEF LayerSteps
  <2> HIDE DEF start
  <2>9. \E f \in LayerLists(D, n) : AreLayers(f, n, start, step)
    BY <2>7, LayersExist
  <2>3. PICK f \in [1..n -> SUBSET D] :
          \A d \in 1..n : f[d] = IF d = 1 THEN start ELSE step[f[d - 1]]
    BY <2>7, <2>9 DEF LayerLists, AreLayers
  <2>4. ASSUME NEW d \in 1..n
        PROVE  f[d] = IF d = 1 THEN {target} ELSE RefsOut(f[d - 1])
    <3>1. CASE d = 1
      BY <2>3, <3>1 DEF start
    <3>2. CASE d # 1
      <4>1. d - 1 \in 1..n
        BY <2>1, <3>2
      <4>2. f[d - 1] \in SUBSET D
        BY <4>1
      <4>3. f[d] = step[f[d - 1]]
        BY <2>3, <3>2
      <4> QED BY <2>2, <3>2, <4>2, <4>3
    <3> QED BY <3>1, <3>2
  <2>5. f = [d \in 1..n |-> IF d = 1 THEN {target} ELSE RefsOut(f[d - 1])]
    <3>1. f \in [1..n -> SUBSET D]
      OBVIOUS
    <3> QED BY <2>4, <3>1
  <2>6. Is(f)
    BY <2>5 DEF n
  <2> HIDE DEF Is
  <2> QED BY <2>6
<1> HIDE DEF layer, RefsOut
<1>5. layer[1] = {target}
  BY <1>3, <1>4
<1>6. ASSUME NEW d \in 1..MaxRefDepth
      PROVE  layer[d + 1] = RefsOut(layer[d]) /\ (d # MaxRefDepth => d + 1 \in 1..MaxRefDepth)
  <2>1. d + 1 \in 1..MaxRefDepth + 1 /\ d + 1 # 1 /\ (d + 1) - 1 = d
    BY <1>3
  <2> DEFINE e == d + 1
  <2>2. layer[e] = RefsOut(layer[e - 1])
    <3>1. e \in 1..MaxRefDepth + 1 /\ e # 1
      BY <2>1
    <3> HIDE DEF e
    <3> QED BY <3>1, <1>4
  <2> QED BY <2>1, <2>2, <1>3
<1>7. ASSUME NEW d \in 1..MaxRefDepth PROVE layer[d] \subseteq D
  <2>1. CASE d = 1
    BY <1>5, <2>1
  <2>2. CASE d # 1
    <3> DEFINE e == d - 1
    <3>1. e \in 1..MaxRefDepth /\ e + 1 = d
      BY <2>2, <1>3
    <3> HIDE DEF e
    <3>2. layer[d] = RefsOut(layer[e])
      BY <3>1, <1>6
    <3> QED BY <3>2, <1>2
  <2> QED BY <2>1, <2>2
<1>8. met \in SUBSET D
  BY <1>7
<1>9. target \in met
  <2>1. 1 \in 1..MaxRefDepth
    BY <1>3
  <2> QED BY <1>5, <2>1
<1>10. ASSUME NEW x \in met PROVE groupsFor(groupCache[x].refs) \subseteq met
  <2>1. PICK d \in 1..MaxRefDepth : x \in layer[d]
    OBVIOUS
  <2>2. groupsFor(groupCache[x].refs) \subseteq layer[d + 1]
    BY <1>6, <2>1 DEF RefsOut
  <2>3. CASE d = MaxRefDepth
    BY <1>1, <2>2, <2>3
  <2>4. CASE d # MaxRefDepth
    BY <1>6, <2>2, <2>4
  <2> QED BY <2>3, <2>4
<1>11. ClosedInCache(met)
  BY <1>10 DEF ClosedInCache
<1> HIDE DEF met
<1> QED BY <1>1, <1>8, <1>9, <1>11

\* What a validation of references gives the stored groups: see MayReference.
LEMMA ValidatedMayReference ==
  ASSUME CacheFollows, IndexInverse, Unpublished = {}, NEW self, NEW selfName, NEW names,
         self \in DOMAIN groupCache, validateGroupReferences(self, selfName, names)
  PROVE  MayReference(self, names)
<1> DEFINE D == DOMAIN groupCache
           M == {x \in D : \E C \in SUBSET D : x \in C /\ self \notin C /\ ClosedInCache(C)}
<1>0. Misnamed = {}
  BY DEF Misnamed
<1>1. /\ \A g \in D : g \in DOMAIN dbGroups /\ groupCache[g].name = dbGroups[g].name
      /\ \A g \in DOMAIN dbGroups : RefsFollow(groupCache, g)
  BY <1>0 DEF CacheFollows, NameFollows
<1>2. M \in SUBSET (DOMAIN dbGroups \ {self})
  BY <1>1
<1>3. ASSUME NEW x \in M PROVE groupsFor(groupCache[x].refs) \subseteq M
  <2>1. PICK C \in SUBSET D : x \in C /\ self \notin C /\ ClosedInCache(C)
    OBVIOUS
  <2>2. groupsFor(groupCache[x].refs) \subseteq C
    BY <2>1 DEF ClosedInCache
  <2> QED BY <2>1, <2>2
<1>4. ASSUME NEW n \in names PROVE \E h \in M : dbGroups[h].name = n
  <2>1. groupsFor({n}) # {} /\ walkGroupRefChain(nameIndex[n], self, selfName)
    BY DEF validateGroupReferences
  <2>2. n \in DOMAIN nameIndex /\ nameIndex[n] \in D
    BY <2>1 DEF groupsFor
  <2>3. nameIndex[n] \in M
    BY <2>1, <2>2, WalkCloses
  <2>4. groupCache[nameIndex[n]].name = n
    BY <2>2 DEF IndexInverse
  <2> HIDE DEF M
  <2> QED BY <1>1, <2>2, <2>3, <2>4
<1>5. ASSUME NEW x \in M, NEW y \in DOMAIN dbGroups, References(x, y)
      PROVE  y \in M \/ (y # self /\ dbGroups[y].refs = {})
  <2>1. CASE y \notin D
    BY <1>1, <2>1 DEF RefsFollow
  <2>2. CASE y \in D
    <3>1. x \in D /\ x \in DOMAIN dbGroups
      BY <1>1
    <3>2. dbGroups[y].name \in groupCache[x].refs
      BY <1>1, <1>5, <3>1 DEF References, RefsFollow
    <3>3. groupCache[y].name \in DOMAIN nameIndex /\ nameIndex[groupCache[y].name] = y
      BY <2>2 DEF IndexInverse
    <3>4. groupCache[y].name = dbGroups[y].name
      BY <1>1, <2>2
    <3>5. y \in groupsFor(groupCache[x].refs)
      BY <2>2, <3>2, <3>3, <3>4 DEF groupsFor
    <3> HIDE DEF M
    <3> QED BY <1>3, <3>5
  <2> QED BY <2>1, <2>2
<1> HIDE DEF M
<1> QED BY <1>2, <1>4, <1>5 DEF MayReference

\* Names that validate resolve.
LEMMA ValidatedResolve ==
  ASSUME CacheFollows, IndexInverse, Unpublished = {}, NEW self, NEW selfName, NEW names,
         validateGroupReferences(self, selfName, names)
  PROVE  names \subseteq NamesOf(dbGroups)
<1> SUFFICES ASSUME NEW n \in names PROVE n \in NamesOf(dbGroups)
  OBVIOUS
<1>1. groupsFor({n}) # {}
  BY DEF validateGroupReferences
<1>2. n \in DOMAIN nameIndex /\ nameIndex[n] \in DOMAIN groupCache
  BY <1>1 DEF groupsFor
<1>3. groupCache[nameIndex[n]].name = n
  BY <1>2 DEF IndexInverse
<1>4. NameFollows(groupCache, nameIndex[n])
  BY <1>2 DEF CacheFollows, Misnamed
<1> QED BY <1>3, <1>4 DEF NameFollows, NamesOf

-----------------------------------------------------------------------------
(* Changes of the stored groups *)

\* Rows that keep their ids and names and at most lose references.
LEMMA RefsShrunk ==
  ASSUME DOMAIN dbGroups' = DOMAIN dbGroups,
         \A g \in DOMAIN dbGroups : /\ dbGroups'[g].name = dbGroups[g].name
                                    /\ dbGroups'[g].refs \subseteq dbGroups[g].refs
  PROVE  /\ OneName => OneName'
         /\ NamesOf(dbGroups') = NamesOf(dbGroups)
         /\ NamesResolve => NamesResolve'
         /\ \A x, y \in DOMAIN dbGroups : References(x, y)' => References(x, y)
         /\ NoRefCycle => NoRefCycle'
<1>1. OneName => OneName'
  BY DEF OneName
<1>2. NamesOf(dbGroups') = NamesOf(dbGroups)
  BY DEF NamesOf
<1>3. NamesResolve => NamesResolve'
  BY <1>2 DEF NamesResolve
<1>4. \A x, y \in DOMAIN dbGroups : References(x, y)' => References(x, y)
  BY DEF References
<1>5. ASSUME NoRefCycle PROVE NoRefCycle'
  <2>1. SUFFICES ASSUME NEW S \in SUBSET DOMAIN dbGroups, S # {}
                 PROVE  \E g \in S : \A h \in S : ~References(g, h)'
    BY DEF NoRefCycle
  <2>2. PICK g \in S : \A h \in S : ~References(g, h)
    BY <1>5, <2>1 DEF NoRefCycle
  <2> QED BY <1>4, <2>2
<1> QED BY <1>1, <1>2, <1>3, <1>4, <1>5

\* A new row, whose name nobody has and whose references resolve.
LEMMA Grown ==
  ASSUME OneName, NamesResolve, NoRefCycle, NEW g, NEW r, g \notin DOMAIN dbGroups,
         dbGroups' = Stored1(dbGroups, g, r),
         r.name \notin NamesOf(dbGroups), r.refs \subseteq NamesOf(dbGroups)
  PROVE  OneName' /\ NamesResolve' /\ NoRefCycle' /\ NamesOf(dbGroups) \subseteq NamesOf(dbGroups')
<1>1. /\ DOMAIN dbGroups' = DOMAIN dbGroups \cup {g} /\ dbGroups'[g] = r
      /\ \A x \in DOMAIN dbGroups : dbGroups'[x] = dbGroups[x]
  BY DEF Stored1
<1>2. \A x \in DOMAIN dbGroups : dbGroups[x].name # r.name
  BY DEF NamesOf
<1>3. OneName'
  BY <1>1, <1>2 DEF OneName
<1>4. NamesOf(dbGroups) \subseteq NamesOf(dbGroups')
  BY <1>1 DEF NamesOf
<1>5. ASSUME NEW x \in DOMAIN dbGroups' PROVE dbGroups'[x].refs \subseteq NamesOf(dbGroups)
  BY <1>1 DEF NamesResolve
<1>6. NamesResolve'
  BY <1>4, <1>5 DEF NamesResolve
<1>7. ASSUME NEW x \in DOMAIN dbGroups' PROVE ~References(x, g)'
  BY <1>1, <1>5 DEF References
<1>8. NoRefCycle'
  <2>1. SUFFICES ASSUME NEW S \in SUBSET DOMAIN dbGroups', S # {}
                 PROVE  \E x \in S : \A h \in S : ~References(x, h)'
    BY DEF NoRefCycle
  <2>2. CASE S \ {g} = {}
    <3>1. S = {g}
      BY <2>1, <2>2
    <3> QED BY <1>1, <1>7, <3>1
  <2>3. CASE S \ {g} # {}
    <3>1. S \ {g} \in SUBSET DOMAIN dbGroups
      BY <1>1
    <3>2. PICK x \in S \ {g} : \A h \in S \ {g} : ~References(x, h)
      BY <2>3, <3>1 DEF NoRefCycle
    <3>3. ASSUME NEW h \in S PROVE ~References(x, h)'
      <4>1. CASE h = g
        BY <1>7, <3>1, <3>2, <4>1
      <4>2. CASE h # g
        BY <1>1, <3>1, <3>2, <4>2 DEF References
      <4> QED BY <4>1, <4>2
    <3> QED BY <3>2, <3>3
  <2> QED BY <2>2, <2>3
<1> QED BY <1>3, <1>4, <1>6, <1>8

\* A row that is removed while nobody references it.
LEMMA Removed ==
  ASSUME OneName, NamesResolve, NoRefCycle, NEW g, dbGroups' = Dropped(dbGroups, {g}),
         \A h \in DOMAIN dbGroups \ {g} : ~References(h, g), g \in DOMAIN dbGroups
  PROVE  OneName' /\ NamesResolve' /\ NoRefCycle'
<1>1. /\ DOMAIN dbGroups' = DOMAIN dbGroups \ {g}
      /\ \A x \in DOMAIN dbGroups \ {g} : dbGroups'[x] = dbGroups[x]
  BY DEF Dropped
<1>2. OneName'
  BY <1>1 DEF OneName
<1>3. ASSUME NEW x \in DOMAIN dbGroups', NEW n \in dbGroups'[x].refs PROVE n \in NamesOf(dbGroups')
  <2>1. n \in NamesOf(dbGroups) /\ x \in DOMAIN dbGroups \ {g}
    BY <1>1, <1>3 DEF NamesResolve
  <2>2. PICK h \in DOMAIN dbGroups : dbGroups[h].name = n
    BY <2>1 DEF NamesOf
  <2>3. h # g
    BY <1>1, <1>3, <2>1, <2>2 DEF References
  <2> QED BY <1>1, <2>2, <2>3 DEF NamesOf
<1>4. NamesResolve'
  BY <1>3 DEF NamesResolve
<1>5. NoRefCycle'
  <2>1. SUFFICES ASSUME NEW S \in SUBSET DOMAIN dbGroups', S # {}
                 PROVE  \E x \in S : \A h \in S : ~References(x, h)'
    BY DEF NoRefCycle
  <2>2. PICK x \in S : \A h \in S : ~References(x, h)
    BY <1>1, <2>1 DEF NoRefCycle
  <2>3. \A h \in S : ~References(x, h)'
    BY <1>1, <2>2 DEF References
  <2> QED BY <2>2, <2>3
<1> QED BY <1>2, <1>4, <1>5

\* A row with other references, and a new name only if nobody references the old one.
LEMMA Rewired ==
  ASSUME OneName, NamesResolve, NoRefCycle, NEW g \in DOMAIN dbGroups, NEW r,
         dbGroups' = [dbGroups EXCEPT ![g] = r], MayReference(g, r.refs),
         \/ r.name = dbGroups[g].name
         \/ /\ r.name \notin NamesOf(dbGroups)
            /\ \A h \in DOMAIN dbGroups \ {g} : ~References(h, g)
  PROVE  OneName' /\ NamesResolve' /\ NoRefCycle'
<1> DEFINE D == DOMAIN dbGroups
<1>1. /\ DOMAIN dbGroups' = D /\ dbGroups'[g] = r
      /\ \A x \in D \ {g} : dbGroups'[x] = dbGroups[x]
  OBVIOUS
<1>2. PICK M \in SUBSET (D \ {g}) :
        /\ \A n \in r.refs : \E h \in M : dbGroups[h].name = n
        /\ \A x \in M, y \in D : References(x, y) => y \in M \/ (y # g /\ dbGroups[y].refs = {})
  BY DEF MayReference
<1>3. \A x \in D : dbGroups[x].name = r.name => x = g /\ r.name = dbGroups[g].name
  BY DEF OneName, NamesOf
<1>4. OneName'
  <2>1. ASSUME NEW x \in D, NEW y \in D, dbGroups'[x].name = dbGroups'[y].name PROVE x = y
    BY <1>1, <1>3, <2>1 DEF OneName
  <2> QED BY <1>1, <2>1 DEF OneName
<1>5. ASSUME NEW x \in D \ {g}, NEW n \in dbGroups[x].refs PROVE n \in NamesOf(dbGroups')
  <2>1. PICK h \in D : dbGroups[h].name = n
    BY DEF NamesResolve, NamesOf
  <2>2. CASE h = g
    <3>1. References(x, g)
      BY <2>1, <2>2 DEF References
    <3>2. r.name = n
      BY <2>1, <2>2, <3>1
    <3> QED BY <1>1, <3>2 DEF NamesOf
  <2>3. CASE h # g
    BY <1>1, <2>1, <2>3 DEF NamesOf
  <2> QED BY <2>2, <2>3
<1>6. ASSUME NEW n \in r.refs PROVE n \in NamesOf(dbGroups')
  <2>1. PICK h \in M : dbGroups[h].name = n
    BY <1>2
  <2>2. h \in D \ {g}
    BY <2>1
  <2> QED BY <1>1, <2>1, <2>2 DEF NamesOf
<1>7. NamesResolve'
  <2>1. ASSUME NEW x \in D PROVE dbGroups'[x].refs \subseteq NamesOf(dbGroups')
    BY <1>1, <1>5, <1>6
  <2> QED BY <1>1, <2>1 DEF NamesResolve
<1>8. ASSUME NEW x \in D \ {g}, NEW y \in D, References(x, y)' PROVE References(x, y)
  <2>1. dbGroups'[y].name \in dbGroups[x].refs
    BY <1>1, <1>8 DEF References
  <2>2. CASE y # g
    BY <1>1, <2>1, <2>2 DEF References
  <2>3. CASE y = g
    <3>1. r.name \in dbGroups[x].refs
      BY <1>1, <2>1, <2>3
    <3>2. r.name \in NamesOf(dbGroups)
      BY <3>1 DEF NamesResolve
    <3>3. r.name = dbGroups[g].name
      BY <3>2
    <3> QED BY <2>3, <3>1, <3>3 DEF References
  <2> QED BY <2>2, <2>3
<1>9. ASSUME NEW y \in D, References(g, y)' PROVE y \in M
  <2>1. dbGroups'[y].name \in r.refs
    BY <1>1, <1>9 DEF References
  <2>2. PICK h \in M : dbGroups[h].name = dbGroups'[y].name
    BY <1>2, <2>1
  <2>3. h \in D /\ h # g
    BY <2>2
  <2>4. y # g
    BY <1>1, <1>3, <2>2, <2>3
  <2>5. y = h
    BY <1>1, <2>2, <2>3, <2>4 DEF OneName
  <2> QED BY <2>2, <2>5
<1>10. NoRefCycle'
  <2>1. SUFFICES ASSUME NEW S \in SUBSET D, S # {}
                 PROVE  \E x \in S : \A h \in S : ~References(x, h)'
    BY <1>1 DEF NoRefCycle
  <2>2. CASE g \notin S
    <3>1. PICK x \in S : \A h \in S : ~References(x, h)
      BY <2>1 DEF NoRefCycle
    <3> QED BY <1>8, <2>2, <3>1
  <2>3. CASE g \in S /\ S \cap M = {}
    BY <1>9, <2>3
  <2>4. CASE \E y \in S : y # g /\ dbGroups[y].refs = {}
    <3>1. PICK y \in S : y # g /\ dbGroups[y].refs = {}
      BY <2>4
    <3>2. \A h \in S : ~References(y, h)
      BY <3>1 DEF References
    <3> QED BY <1>8, <3>1, <3>2
  <2>5. CASE S \cap M # {} /\ \A y \in S : y = g \/ dbGroups[y].refs # {}
    <3>1. PICK x \in S \cap M : \A h \in S \cap M : ~References(x, h)
      BY <2>5 DEF NoRefCycle
    <3>2. x \in D \ {g}
      BY <3>1
    <3>3. ASSUME NEW h \in S, References(x, h)' PROVE FALSE
      <4>1. References(x, h)
        BY <1>8, <3>2, <3>3
      <4>2. h \in M \/ (h # g /\ dbGroups[h].refs = {})
        BY <1>2, <3>1, <4>1
      <4> QED BY <2>5, <3>1, <4>1, <4>2
    <3> QED BY <3>1, <3>3
  <2> QED BY <2>2, <2>3, <2>4, <2>5
<1> QED BY <1>4, <1>7, <1>10

\* References once admitted stay admissible, as long as no row gains references or a name that
\* was there, and the new rows reference nothing.
LEMMA StaysAdmissible ==
  ASSUME NEW g, NEW names, MayReference(g, names),
         \A x \in DOMAIN dbGroups : /\ x \in DOMAIN dbGroups' /\ dbGroups'[x].name = dbGroups[x].name
                                    /\ dbGroups'[x].refs \subseteq dbGroups[x].refs,
         \A y \in DOMAIN dbGroups' \ DOMAIN dbGroups : y # g /\ dbGroups'[y].refs = {}
  PROVE  \E M \in SUBSET (DOMAIN dbGroups' \ {g}) :
           /\ \A n \in names : \E h \in M : dbGroups'[h].name = n
           /\ \A x \in M, y \in DOMAIN dbGroups' :
                dbGroups'[y].name \in dbGroups'[x].refs => y \in M \/ (y # g /\ dbGroups'[y].refs = {})
<1>1. PICK M \in SUBSET (DOMAIN dbGroups \ {g}) :
        /\ \A n \in names : \E h \in M : dbGroups[h].name = n
        /\ \A x \in M, y \in DOMAIN dbGroups :
             References(x, y) => y \in M \/ (y # g /\ dbGroups[y].refs = {})
  BY DEF MayReference
<1>2. M \in SUBSET (DOMAIN dbGroups' \ {g})
  OBVIOUS
<1>3. \A n \in names : \E h \in M : dbGroups'[h].name = n
  BY <1>1
<1>4. ASSUME NEW x \in M, NEW y \in DOMAIN dbGroups', dbGroups'[y].name \in dbGroups'[x].refs
      PROVE  y \in M \/ (y # g /\ dbGroups'[y].refs = {})
  <2>1. CASE y \notin DOMAIN dbGroups
    BY <2>1
  <2>2. CASE y \in DOMAIN dbGroups
    <3>1. References(x, y)
      BY <1>4, <2>2 DEF References
    <3> QED BY <1>1, <2>2, <3>1
  <2> QED BY <2>1, <2>2
<1> QED BY <1>2, <1>3, <1>4

\* The autoincrement key is a new one while there are any.
LEMMA NextIsNew ==
  ASSUME spentGroups \subseteq GroupIds, GroupIds # spentGroups
  PROVE  nextGroupId \in GroupIds \ spentGroups
<1> DEFINE free == GroupIds \ spentGroups
<1>1. free # {} /\ free \subseteq Nat
  BY EntityAssumption
<1> HIDE DEF free
<1>4. \E k \in free : \A m \in free : k <= m
  BY <1>1, LeastNumber
<1> QED BY <1>4 DEF nextGroupId, free

-----------------------------------------------------------------------------
(* The steps *)

\* The operations that may overlap a replacement are among those the model lists.
RacesKnown == Racing \subseteq {"channel", "create", "members", "active"}

\* What there is while the editor rests: the caches follow the tables.
LEMMA AtRestFacts ==
  ASSUME CachesFollow, editor = Resting
  PROVE  /\ Unpublished = {} /\ Misnamed = {} /\ modelCache = dbModels
         /\ \A g \in DOMAIN groupCache : NameFollows(groupCache, g)
         /\ \A g \in DOMAIN dbGroups : RefsFollow(groupCache, g)
<1>1. editor.pc = "idle"
  BY DEF Resting
<1>2. Unpublished = {} /\ Misnamed = {}
  BY <1>1 DEF Unpublished, Misnamed
<1> QED BY <1>1, <1>2 DEF CachesFollow, ModelsFollow, CacheFollows

\* A request that only reads and takes notes.
LEMMA RequestStarts ==
  ASSUME EntityInv, NEW op, MayEdit(op), UNCHANGED <<entityTables, entityCaches, ranking, spent>>,
         editor'.pc \in {"sync", "insert", "update"}, EditorKnows'
  PROVE  EntityInv'
<1> USE DEF entityTables, entityCaches, spent
<1>1. editor = Resting /\ doing' = op /\ (op \in Racing \/ ranking = Resting)
  BY DEF MayEdit
<1>2. StoredSound'
  BY DEF EntityInv, StoredSound, GroupRows, OneName, NoDanglingMember, NamesResolve, NoRefCycle, References
<1>3. ModelsFollow' /\ IndexInverse'
  BY <1>1, AtRestFacts DEF EntityInv, CachesFollow, ModelsFollow, IndexInverse
<1>4. Unpublished' = {} /\ Misnamed' = {}
  BY DEF Unpublished, Misnamed
<1>5. CacheFollows'
  BY <1>1, <1>4, AtRestFacts DEF EntityInv, CachesFollow, CacheFollows, NameFollows, RefsFollow
<1>6. RankingKnows'
  BY <1>1 DEF EntityInv, RankingKnows
<1> QED BY <1>2, <1>3, <1>5, <1>6 DEF EntityInv, CachesFollow

LEMMA ChannelUpdateStarts ==
  ASSUME EntityInv, NEW c, NEW fresh \in SUBSET ChannelModels, NEW gone, ChannelUpdate(c, fresh, gone)
  PROVE  EntityInv'
<1>1. editor' = [pc |-> "sync", add |-> fresh, drop |-> gone]
  BY DEF ChannelUpdate
<1>2. editor'.pc = "sync" /\ editor'.add = fresh
  BY <1>1
<1>3. EditorKnows'
  BY <1>2 DEF EditorKnows, SyncFacts, InsertFacts, UpdateFacts, PublishFacts, ForgetFacts, InstallFacts
<1> QED BY <1>2, <1>3, RequestStarts DEF ChannelUpdate

LEMMA GroupCreateStarts ==
  ASSUME EntityInv, NEW name \in GroupNames, NEW members \in SUBSET ChannelModels,
         NEW refs \in SUBSET GroupNames, GroupCreate(name, members, refs)
  PROVE  EntityInv'
<1> DEFINE new == [name |-> name, members |-> members, refs |-> refs, active |-> NoMember]
<1>1. editor' = [pc |-> "insert", group |-> new]
  BY DEF GroupCreate
<1>2. editor'.pc = "insert" /\ editor'.group = new
  BY <1>1
<1>3. new \in GroupRecs
  BY DEF GroupRecs, EntityNames
<1>4. CacheFollows /\ IndexInverse /\ CachesFollow
  BY DEF EntityInv, CachesFollow
<1>5. editor = Resting /\ dbModels' = dbModels /\ dbGroups' = dbGroups
  BY DEF GroupCreate, MayEdit, entityTables
<1>6. refs \subseteq NamesOf(dbGroups)
  BY <1>4, <1>5, AtRestFacts, ValidatedResolve DEF GroupCreate
<1>7. members \subseteq dbModels
  BY <1>4, <1>5, AtRestFacts DEF GroupCreate, normalizeAndValidateGroupItems
<1>8. EditorKnows'
  BY <1>2, <1>3, <1>5, <1>6, <1>7
     DEF EditorKnows, SyncFacts, InsertFacts, UpdateFacts, PublishFacts, ForgetFacts, InstallFacts
<1> QED BY <1>2, <1>8, RequestStarts DEF GroupCreate

LEMMA GroupUpdateStarts ==
  ASSUME EntityInv, RacesKnown, NEW g \in DOMAIN groupCache, NEW name \in EntityNames, NEW add,
         NEW addRefs \in SUBSET EntityNames, NEW del, NEW delRefs,
         GroupUpdate(g, name, add, addRefs, del, delRefs)
  PROVE  EntityInv'
<1> DEFINE old == groupCache[g]
           op == IF name # old.name THEN "rename" ELSE IF name = AutoName THEN "auto" ELSE "members"
           names == (old.refs \ delRefs) \cup addRefs
<1>1. /\ editor'.pc = "update" /\ editor'.id = g /\ editor'.name = name /\ editor'.add = add
      /\ editor'.addRefs = addRefs /\ editor'.delRefs = delRefs /\ editor'.old = old.name
      /\ editor'.rename = (name # old.name)
  BY DEF GroupUpdate
<1>2. CacheFollows /\ IndexInverse /\ CachesFollow
  BY DEF EntityInv, CachesFollow
<1>3. /\ editor = Resting /\ MayEdit(op) /\ doing' = op
      /\ UNCHANGED <<dbModels, dbGroups, groupCache>>
      /\ name # old.name => ~firstGroupReferrer(old.name, g)
      /\ add \subseteq modelCache /\ validateGroupReferences(g, "", names)
  BY DEF GroupUpdate, MayEdit, entityTables, entityCaches, normalizeAndValidateGroupItems
<1>4. /\ NameFollows(groupCache, g) /\ Unpublished = {} /\ add \subseteq dbModels
      /\ \A h \in DOMAIN dbGroups : RefsFollow(groupCache, h)
  BY <1>2, <1>3, AtRestFacts
<1>5. g \in DOMAIN dbGroups /\ dbGroups[g].name = old.name /\ dbGroups[g].refs \subseteq old.refs
  BY <1>4 DEF NameFollows, RefsFollow
<1>6. MayReference(g, names)
  BY <1>2, <1>3, <1>4, ValidatedMayReference
<1>7. MayReference(g, (dbGroups[g].refs \ delRefs) \cup addRefs)
  <2>1. (dbGroups[g].refs \ delRefs) \cup addRefs \subseteq names
    BY <1>5
  <2> HIDE DEF names
  <2> QED BY <1>6, <2>1 DEF MayReference
<1>8. ASSUME name # old.name PROVE \A h \in DOMAIN dbGroups \ {g} : ~References(h, g)
  BY <1>3, <1>4, <1>5, <1>8 DEF firstGroupReferrer, References, RefsFollow
<1>9. op \in Racing => name = old.name /\ name # AutoName
  BY DEF RacesKnown
<1>10. UpdateFacts'
  <2>1. editor'.rename <=> name # old.name
    BY <1>1
  <2>2. editor'.rename => (\A h \in DOMAIN dbGroups \ {g} : ~References(h, g))'
    BY <1>3, <1>8, <2>1 DEF References
  <2>3. doing' \in Racing => ~editor'.rename /\ dbGroups'[g].name # AutoName
    BY <1>3, <1>5, <1>9, <2>1
  <2>4. MayReference(g, (dbGroups[g].refs \ editor.delRefs) \cup editor.addRefs)'
    <3> DEFINE asked == (dbGroups[g].refs \ delRefs) \cup addRefs
    <3>1. PICK M \in SUBSET (DOMAIN dbGroups \ {g}) :
            /\ \A n \in asked : \E h \in M : dbGroups[h].name = n
            /\ \A x \in M, y \in DOMAIN dbGroups :
                 References(x, y) => y \in M \/ (y # g /\ dbGroups[y].refs = {})
      BY <1>7 DEF MayReference
    <3>2. (dbGroups'[g].refs \ editor'.delRefs) \cup editor'.addRefs = asked
      BY <1>1, <1>3
    <3>3. \A x, y : References(x, y)' <=> References(x, y)
      BY <1>3 DEF References
    <3> HIDE DEF asked
    <3>4. M \in SUBSET (DOMAIN dbGroups' \ {g})
      BY <1>3
    <3>5. \A n \in asked : \E h \in M : dbGroups'[h].name = n
      BY <1>3, <3>1
    <3>6. \A x \in M, y \in DOMAIN dbGroups' :
            References(x, y)' => y \in M \/ (y # g /\ dbGroups'[y].refs = {})
      BY <1>3, <3>1, <3>3
    <3> QED BY <3>2, <3>4, <3>5, <3>6 DEF MayReference
  <2> HIDE DEF op
  <2> QED BY <1>1, <1>3, <1>4, <1>5, <2>2, <2>3, <2>4 DEF UpdateFacts
<1>11. EditorKnows'
  BY <1>1, <1>10 DEF EditorKnows, SyncFacts, InsertFacts, PublishFacts, ForgetFacts, InstallFacts
<1> QED BY <1>1, <1>3, <1>11, RequestStarts DEF GroupUpdate

\* The editor's facts hold trivially at a step that has none.
LEMMA NothingKnown ==
  ASSUME editor'.pc \in {"idle", "models", "reload"}
  PROVE  EditorKnows' /\ Unpublished' = {} /\ Misnamed' = {}
BY DEF EditorKnows, SyncFacts, InsertFacts, UpdateFacts, PublishFacts, ForgetFacts, InstallFacts,
       Unpublished, Misnamed

\* The rows after members were taken out, or one was chosen.
LEMMA RowsShrunk ==
  ASSUME EntityInv, UNCHANGED <<groupCache, nameIndex, ranking>>, Unpublished = {}, Unpublished' = {},
         spentGroups' = spentGroups,
         DOMAIN dbGroups' = DOMAIN dbGroups, Grouped(dbGroups'),
         \A g \in DOMAIN dbGroups : dbGroups'[g].name = dbGroups[g].name /\ dbGroups'[g].refs = dbGroups[g].refs,
         NoDanglingMember', ModelsFollow',
         editor' # Resting /\ doing' \notin Racing => ranking = Resting
  PROVE  StoredSound' /\ CachesFollow' /\ RankingKnows'
<1>1. OneName' /\ NamesResolve' /\ NoRefCycle'
  BY RefsShrunk DEF EntityInv, StoredSound, GroupRows
<1>2. StoredSound'
  BY <1>1 DEF EntityInv, StoredSound, GroupRows
<1>3. Misnamed = {} /\ Misnamed' = {}
  BY DEF Misnamed
<1>4. CacheFollows'
  BY <1>3 DEF EntityInv, CachesFollow, CacheFollows, NameFollows, RefsFollow
<1>5. IndexInverse'
  BY DEF EntityInv, CachesFollow, IndexInverse
<1>6. RankingKnows'
  BY DEF EntityInv, RankingKnows
<1> QED BY <1>2, <1>4, <1>5, <1>6 DEF CachesFollow

LEMMA CascadeRows ==
  ASSUME Grouped(dbGroups), NEW gone, Cascade(gone)
  PROVE  /\ DOMAIN dbGroups' = DOMAIN dbGroups /\ Grouped(dbGroups')
         /\ \A g \in DOMAIN dbGroups : /\ dbGroups'[g].name = dbGroups[g].name
                                       /\ dbGroups'[g].refs = dbGroups[g].refs
                                       /\ dbGroups'[g].members = dbGroups[g].members \ gone
<1> DEFINE row(g) == [dbGroups[g] EXCEPT !.members = @ \ gone,
                                         !.active = IF @ \in gone THEN NoMember ELSE @]
<1>1. dbGroups' = [g \in DOMAIN dbGroups |-> row(g)]
  BY DEF Cascade
<1>2. ASSUME NEW g \in DOMAIN dbGroups
      PROVE  /\ row(g) \in GroupRecs /\ row(g).name = dbGroups[g].name /\ row(g).refs = dbGroups[g].refs
             /\ row(g).members = dbGroups[g].members \ gone
  BY DEF Grouped, GroupRecs
<1> HIDE DEF row
<1> QED BY <1>1, <1>2 DEF Grouped

\* The models of a channel are gone from the members with the rows.
LEMMA ModelsChange ==
  ASSUME EntityInv, NEW fresh \in SUBSET ChannelModels, NEW gone,
         editor.pc \in {"idle", "sync"}, editor'.pc = "models", editor'.add = fresh, editor'.drop = gone,
         dbModels' = (dbModels \cup fresh) \ gone, Cascade(gone),
         UNCHANGED <<modelCache, groupCache, nameIndex, ranking, spentGroups>>,
         doing' \notin Racing => ranking = Resting
  PROVE  EntityInv'
<1>1. Grouped(dbGroups) /\ NoDanglingMember
  BY DEF EntityInv, StoredSound, GroupRows
<1>2. NoDanglingMember'
  BY <1>1, CascadeRows DEF NoDanglingMember
<1>3. dbModels = modelCache /\ dbModels \subseteq ChannelModels
  BY DEF EntityInv, CachesFollow, ModelsFollow
<1>4. ModelsFollow'
  BY <1>3 DEF ModelsFollow
<1>5. Unpublished = {}
  BY DEF Unpublished
<1>6. EditorKnows' /\ Unpublished' = {}
  BY NothingKnown
<1> QED BY <1>1, <1>2, <1>4, <1>5, <1>6, CascadeRows, RowsShrunk DEF EntityInv

LEMMA ChannelCreateKeeps ==
  ASSUME EntityInv, NEW c, NEW fresh, ChannelCreate(c, fresh)
  PROVE  EntityInv'
<1>1. /\ editor = Resting /\ editor'.pc = "models" /\ editor'.add = fresh /\ editor'.drop = {}
      /\ dbModels' = dbModels \cup fresh /\ fresh \subseteq ChannelModels
      /\ UNCHANGED <<dbGroups, modelCache, groupCache, nameIndex, ranking, spentGroups>>
      /\ (doing' \in Racing \/ ranking = Resting)
  BY DEF ChannelCreate, MayEdit, entityCaches, OfChannel
<1>2. editor.pc = "idle"
  BY <1>1 DEF Resting
<1>3. EditorKnows' /\ Unpublished' = {} /\ Unpublished = {}
  BY <1>1, <1>2, NothingKnown DEF Unpublished
<1>4. NoDanglingMember' /\ Grouped(dbGroups')
  BY <1>1 DEF EntityInv, StoredSound, GroupRows, NoDanglingMember
<1>5. ModelsFollow'
  BY <1>1, <1>2 DEF EntityInv, CachesFollow, ModelsFollow
<1> QED BY <1>1, <1>3, <1>4, <1>5, RowsShrunk DEF EntityInv

LEMMA ChannelUpdateTxKeeps ==
  ASSUME EntityInv, ChannelUpdateTx
  PROVE  EntityInv'
<1>1. /\ editor.pc = "sync" /\ editor.add \subseteq ChannelModels
      /\ editor'.pc = "models" /\ editor'.add = editor.add /\ editor'.drop = editor.drop
      /\ dbModels' = (dbModels \cup editor.add) \ editor.drop /\ Cascade(editor.drop)
      /\ UNCHANGED <<modelCache, groupCache, nameIndex, ranking, spentGroups, doing>>
  BY DEF ChannelUpdateTx, syncChannelModels, entityCaches, EntityInv, EditorKnows, SyncFacts
<1>2. doing' \notin Racing => ranking = Resting
  BY <1>1 DEF EntityInv, RankingKnows, Resting
<1> QED BY <1>1, <1>2, ModelsChange

LEMMA ChannelDelKeeps ==
  ASSUME EntityInv, NEW c, ChannelDel(c)
  PROVE  EntityInv'
<1> DEFINE gone == OfChannel(c) \cap dbModels
<1>1. /\ editor = Resting /\ editor'.pc = "models" /\ editor'.add = {} /\ editor'.drop = gone
      /\ dbModels' = (dbModels \cup {}) \ gone /\ Cascade(gone)
      /\ UNCHANGED <<modelCache, groupCache, nameIndex, ranking, spentGroups>>
      /\ (doing' \in Racing \/ ranking = Resting)
  BY DEF ChannelDel, MayEdit, entityCaches, spent
<1>2. editor.pc = "idle"
  BY <1>1 DEF Resting
<1> HIDE DEF gone
<1> QED BY <1>1, <1>2, ModelsChange

\* Steps that leave the stored groups alone.
LEMMA TablesStay ==
  ASSUME EntityInv, UNCHANGED <<dbModels, dbGroups, spentGroups>>
  PROVE  StoredSound'
BY DEF EntityInv, StoredSound, GroupRows, OneName, NoDanglingMember, NamesResolve, NoRefCycle, References

LEMMA PublishModelsKeeps ==
  ASSUME EntityInv, PublishModels
  PROVE  EntityInv'
<1>1. /\ editor.pc = "models" /\ modelCache' = (modelCache \cup editor.add) \ editor.drop
      /\ UNCHANGED <<dbModels, dbGroups, spentGroups, groupCache, nameIndex, ranking, doing>>
      /\ editor'.pc \in {"reload", "idle"}
  BY DEF PublishModels, entityTables, spent, Resting
<1>2. StoredSound'
  BY <1>1, TablesStay
<1>3. EditorKnows' /\ Unpublished' = {} /\ Misnamed' = {} /\ Unpublished = {} /\ Misnamed = {}
  BY <1>1, NothingKnown DEF Unpublished, Misnamed
<1>4. ModelsFollow'
  BY <1>1 DEF EntityInv, CachesFollow, ModelsFollow
<1>5. CacheFollows' /\ IndexInverse'
  BY <1>1, <1>3 DEF EntityInv, CachesFollow, CacheFollows, IndexInverse, NameFollows, RefsFollow
<1>6. RankingKnows'
  BY <1>1 DEF EntityInv, RankingKnows, Resting
<1> QED BY <1>2, <1>3, <1>4, <1>5, <1>6 DEF EntityInv, CachesFollow

LEMMA RefreshReadKeeps ==
  ASSUME EntityInv, RefreshRead
  PROVE  EntityInv'
<1>1. /\ editor.pc = "reload"
      /\ UNCHANGED <<dbModels, dbGroups, spentGroups, modelCache, groupCache, nameIndex, ranking, doing>>
      /\ editor'.pc \in {"install", "idle"}
      /\ editor'.pc = "install" => editor'.groups = dbGroups
  BY DEF RefreshRead, entityTables, entityCaches, spent, Resting
<1>2. StoredSound'
  BY <1>1, TablesStay
<1>3. Unpublished' = {} /\ Misnamed' = {} /\ Unpublished = {} /\ Misnamed = {}
  BY <1>1 DEF Unpublished, Misnamed
<1>4. InstallFacts'
  BY <1>1 DEF EntityInv, StoredSound, GroupRows, InstallFacts, NameFollows, RefsFollow
<1>5. EditorKnows'
  BY <1>1, <1>4 DEF EditorKnows, SyncFacts, InsertFacts, UpdateFacts, PublishFacts, ForgetFacts
<1>6. ModelsFollow'
  BY <1>1 DEF EntityInv, CachesFollow, ModelsFollow
<1>7. CacheFollows' /\ IndexInverse'
  BY <1>1, <1>3 DEF EntityInv, CachesFollow, CacheFollows, IndexInverse, NameFollows, RefsFollow
<1>8. RankingKnows'
  BY <1>1 DEF EntityInv, RankingKnows, Resting
<1> QED BY <1>2, <1>5, <1>6, <1>7, <1>8 DEF EntityInv, CachesFollow

\* The name index of a set of groups with a name each.
LEMMA FreshIndex ==
  ASSUME nameIndex' = IndexOf(groupCache'),
         \A g, h \in DOMAIN groupCache' : groupCache'[g].name = groupCache'[h].name => g = h
  PROVE  IndexInverse'
<1>1. DOMAIN nameIndex' = NamesOf(groupCache')
  BY DEF IndexOf
<1>2. ASSUME NEW n \in NamesOf(groupCache')
      PROVE  nameIndex'[n] \in DOMAIN groupCache' /\ groupCache'[nameIndex'[n]].name = n
  <2>1. \E g \in DOMAIN groupCache' : groupCache'[g].name = n
    BY DEF NamesOf
  <2>2. nameIndex'[n] = CHOOSE g \in DOMAIN groupCache' : groupCache'[g].name = n
    BY DEF IndexOf
  <2> QED BY <2>1, <2>2
<1>3. ASSUME NEW g \in DOMAIN groupCache'
      PROVE  groupCache'[g].name \in DOMAIN nameIndex' /\ nameIndex'[groupCache'[g].name] = g
  <2>1. groupCache'[g].name \in NamesOf(groupCache')
    BY DEF NamesOf
  <2> QED BY <1>1, <1>2, <2>1
<1> QED BY <1>1, <1>2, <1>3 DEF IndexInverse

LEMMA RefreshInstallKeeps ==
  ASSUME EntityInv, RefreshInstall
  PROVE  EntityInv'
<1>1. /\ editor.pc = "install" /\ editor'.pc = "idle" /\ editor' = Resting
      /\ groupCache' = editor.groups /\ nameIndex' = IndexOf(editor.groups)
      /\ UNCHANGED <<dbModels, dbGroups, spentGroups, modelCache, ranking, doing>>
  BY DEF RefreshInstall, entityTables, spent, Resting
<1>2. StoredSound'
  BY <1>1, TablesStay
<1>3. EditorKnows' /\ Unpublished' = {} /\ Misnamed' = {}
  BY <1>1, NothingKnown
<1>4. /\ Grouped(groupCache') /\ \A g \in DOMAIN groupCache' : NameFollows(groupCache', g)
      /\ \A g \in DOMAIN dbGroups : RefsFollow(groupCache', g)
  BY <1>1 DEF EntityInv, EditorKnows, InstallFacts
<1>5. CacheFollows'
  BY <1>1, <1>3, <1>4 DEF CacheFollows, NameFollows, RefsFollow
<1>6. IndexInverse'
  <2>1. OneName
    BY DEF EntityInv, StoredSound, GroupRows
  <2>2. \A g, h \in DOMAIN groupCache' : groupCache'[g].name = groupCache'[h].name => g = h
    BY <1>4, <2>1 DEF NameFollows, OneName
  <2> QED BY <1>1, <2>2, FreshIndex
<1>7. ModelsFollow'
  BY <1>1 DEF EntityInv, CachesFollow, ModelsFollow
<1>8. RankingKnows'
  BY <1>1 DEF EntityInv, RankingKnows, Resting
<1> QED BY <1>2, <1>3, <1>5, <1>6, <1>7, <1>8 DEF EntityInv, CachesFollow

\* After a restart both caches are the tables.
LEMMA RestartKeeps ==
  ASSUME EntityInv, Restart
  PROVE  EntityInv'
<1>1. /\ editor'.pc = "idle" /\ editor' = Resting /\ ranking' = Resting /\ ranking'.pc = "idle"
      /\ groupCache' = dbGroups /\ nameIndex' = IndexOf(dbGroups) /\ modelCache' = dbModels
      /\ UNCHANGED <<dbModels, dbGroups, spentGroups>>
  BY DEF Restart, entityTables, spent, Resting
<1>2. StoredSound'
  BY <1>1, TablesStay
<1>3. EditorKnows' /\ Unpublished' = {} /\ Misnamed' = {}
  BY <1>1, NothingKnown
<1>4. Grouped(dbGroups) /\ OneName
  BY DEF EntityInv, StoredSound, GroupRows
<1>5. CacheFollows'
  BY <1>1, <1>3, <1>4 DEF CacheFollows, NameFollows, RefsFollow
<1>6. IndexInverse'
  BY <1>1, <1>4, FreshIndex DEF OneName
<1>7. ModelsFollow'
  BY <1>1 DEF EntityInv, CachesFollow, ModelsFollow
<1>8. RankingKnows'
  BY <1>1 DEF RankingKnows
<1> QED BY <1>2, <1>3, <1>5, <1>6, <1>7, <1>8 DEF EntityInv, CachesFollow

\* A replacement runs beside an editor that is busy only if its operation is in Racing.
LEMMA BusyIsAlone ==
  ASSUME RankingKnows, editor.pc # "idle"
  PROVE  doing \in Racing \/ ranking = Resting
BY DEF RankingKnows, Resting

\* What the editor knows once its transaction is through.
LEMMA PublishBegins ==
  ASSUME EntityInv, editor'.pc = "publish", PublishFacts', StoredSound',
         UNCHANGED <<dbModels, modelCache, groupCache, nameIndex, ranking>>,
         Unpublished = {}, editor.pc # "models",
         \A g \in DOMAIN dbGroups :
           g \in DOMAIN dbGroups' /\ (dbGroups'[g].name = dbGroups[g].name \/ (g = editor'.id /\ doing' \notin Racing)),
         \A g \in DOMAIN dbGroups' \ {editor'.id} : g \in DOMAIN dbGroups /\ dbGroups'[g].refs = dbGroups[g].refs,
         doing' \in Racing \/ ranking = Resting,
         ranking.pc = "publish" => dbGroups'[ranking.id].refs = {}
  PROVE  EntityInv'
<1>1. Unpublished' = {editor'.id} /\ Misnamed' = (IF doing' \notin Racing THEN {editor'.id} ELSE {})
  BY DEF Unpublished, Misnamed
<1>2. Misnamed = {}
  BY DEF Misnamed
<1>3. EditorKnows'
  BY DEF EditorKnows, SyncFacts, InsertFacts, UpdateFacts, ForgetFacts, InstallFacts
<1>4. ModelsFollow'
  BY DEF EntityInv, CachesFollow, ModelsFollow
<1>5. CacheFollows'
  <2>1. Grouped(groupCache')
    BY DEF EntityInv, CachesFollow, CacheFollows
  <2>2. ASSUME NEW g \in DOMAIN groupCache' \ Misnamed' PROVE NameFollows(groupCache, g)'
    <3>1. NameFollows(groupCache, g)
      BY <1>2 DEF EntityInv, CachesFollow, CacheFollows
    <3> QED BY <1>1, <3>1 DEF NameFollows
  <2>3. ASSUME NEW g \in DOMAIN dbGroups' \ Unpublished' PROVE RefsFollow(groupCache, g)'
    <3>1. g \in DOMAIN dbGroups /\ dbGroups'[g].refs = dbGroups[g].refs
      BY <1>1
    <3>2. RefsFollow(groupCache, g)
      BY <3>1 DEF EntityInv, CachesFollow, CacheFollows
    <3> QED BY <3>1, <3>2 DEF RefsFollow
  <2> QED BY <2>1, <2>2, <2>3 DEF CacheFollows
<1>6. IndexInverse'
  BY DEF EntityInv, CachesFollow, IndexInverse
<1>7. RankingKnows'
  <2>1. ASSUME ranking.pc = "publish" PROVE doing' \in Racing
    BY <2>1 DEF Resting
  <2> QED BY <2>1 DEF EntityInv, RankingKnows
<1> QED BY <1>3, <1>4, <1>5, <1>6, <1>7 DEF EntityInv, CachesFollow

\* A transaction that fails leaves nothing.
LEMMA GivesUp ==
  ASSUME EntityInv, editor' = Resting, editor.pc \in {"insert", "update"},
         UNCHANGED <<dbModels, dbGroups, spentGroups, modelCache, groupCache, nameIndex, ranking, doing>>
  PROVE  EntityInv'
<1>1. editor'.pc = "idle"
  BY DEF Resting
<1>2. StoredSound'
  BY TablesStay
<1>3. EditorKnows' /\ Unpublished' = {} /\ Misnamed' = {} /\ Unpublished = {} /\ Misnamed = {}
  BY <1>1, NothingKnown DEF Unpublished, Misnamed
<1>4. ModelsFollow'
  BY <1>1 DEF EntityInv, CachesFollow, ModelsFollow
<1>5. CacheFollows' /\ IndexInverse'
  BY <1>3 DEF EntityInv, CachesFollow, CacheFollows, IndexInverse, NameFollows, RefsFollow
<1>6. RankingKnows'
  BY <1>1 DEF EntityInv, RankingKnows
<1> QED BY <1>2, <1>3, <1>4, <1>5, <1>6 DEF EntityInv, CachesFollow

LEMMA GroupCreateTxKeeps ==
  ASSUME EntityInv, GroupCreateTx
  PROVE  EntityInv'
<1> DEFINE r == editor.group
           g == nextGroupId
<1>1. /\ editor.pc = "insert" /\ r \in GroupRecs /\ r.members \subseteq dbModels /\ r.refs \subseteq NamesOf(dbGroups)
      /\ UNCHANGED <<dbModels, modelCache, groupCache, nameIndex, ranking, doing>>
  BY DEF GroupCreateTx, EntityInv, EditorKnows, InsertFacts, entityCaches
<1>2. Unpublished = {} /\ Misnamed = {}
  BY <1>1 DEF Unpublished, Misnamed
<1>3. CASE r.name \in NamesOf(dbGroups)
  BY <1>1, <1>3, GivesUp DEF GroupCreateTx
<1>4. CASE r.name \notin NamesOf(dbGroups)
  <2>1. /\ GroupIds # spentGroups /\ dbGroups' = Stored1(dbGroups, g, r) /\ spentGroups' = spentGroups \cup {g}
        /\ editor'.pc = "publish" /\ editor'.id = g /\ editor'.group = r /\ editor'.old = r.name
    BY <1>4 DEF GroupCreateTx
  <2>2. GroupRows /\ NamesResolve /\ NoRefCycle /\ NoDanglingMember
    BY DEF EntityInv, StoredSound
  <2>3. g \in GroupIds \ spentGroups /\ g \notin DOMAIN dbGroups
    BY <2>1, <2>2, NextIsNew DEF GroupRows
  <2> HIDE DEF g, r
  <2>4. /\ DOMAIN dbGroups' = DOMAIN dbGroups \cup {g} /\ dbGroups'[g] = r
        /\ \A x \in DOMAIN dbGroups : x # g /\ dbGroups'[x] = dbGroups[x]
    BY <2>1, <2>3 DEF Stored1
  <2>5. OneName' /\ NamesResolve' /\ NoRefCycle'
    BY <1>1, <1>4, <2>1, <2>2, <2>3, Grown DEF GroupRows
  <2>6. StoredSound'
    <3>1. Grouped(dbGroups')
      BY <1>1, <2>2, <2>4 DEF GroupRows, Grouped
    <3>2. NoDanglingMember'
      BY <1>1, <2>2, <2>4 DEF NoDanglingMember
    <3>3. DOMAIN dbGroups' \subseteq spentGroups' /\ spentGroups' \subseteq GroupIds
      BY <2>1, <2>2, <2>3, <2>4 DEF GroupRows
    <3> QED BY <2>5, <3>1, <3>2, <3>3 DEF StoredSound, GroupRows
  <2>7. g \notin DOMAIN groupCache
    BY <1>2, <2>3 DEF EntityInv, CachesFollow, CacheFollows, NameFollows
  <2>8. PublishFacts'
    BY <1>1, <2>1, <2>4, <2>7 DEF PublishFacts
  <2>9. doing' \in Racing \/ ranking = Resting
    BY <1>1, BusyIsAlone DEF EntityInv
  <2>10. ranking.pc = "publish" => dbGroups'[ranking.id].refs = {}
    BY <2>4 DEF EntityInv, RankingKnows
  <2>11. \A x \in DOMAIN dbGroups : x \in DOMAIN dbGroups' /\ dbGroups'[x].name = dbGroups[x].name
    BY <2>4
  <2>12. \A x \in DOMAIN dbGroups' \ {editor'.id} : x \in DOMAIN dbGroups /\ dbGroups'[x].refs = dbGroups[x].refs
    BY <2>1, <2>4
  <2> QED BY <1>1, <1>2, <2>1, <2>6, <2>8, <2>9, <2>10, <2>11, <2>12, PublishBegins
<1> QED BY <1>3, <1>4

LEMMA GroupUpdateTxKeeps ==
  ASSUME EntityInv, GroupUpdateTx
  PROVE  EntityInv'
<1> DEFINE g == editor.id
           old == dbGroups[g]
           new == [name |-> IF editor.rename THEN editor.name ELSE old.name,
                   members |-> (old.members \ editor.del) \cup editor.add,
                   refs |-> (old.refs \ editor.delRefs) \cup editor.addRefs,
                   active |-> IF old.active \in editor.del THEN NoMember ELSE old.active]
           refused == editor.rename /\ editor.name \in NamesOf(dbGroups)
<1>1. /\ editor.pc = "update"
      /\ UNCHANGED <<dbModels, modelCache, groupCache, nameIndex, ranking, doing, spentGroups>>
  BY DEF GroupUpdateTx, entityCaches, spent
<1>2. /\ g \in DOMAIN groupCache /\ g \in DOMAIN dbGroups /\ groupCache[g].name = editor.old
      /\ editor.add \subseteq dbModels /\ editor.name \in EntityNames /\ editor.addRefs \subseteq EntityNames
      /\ MayReference(g, (dbGroups[g].refs \ editor.delRefs) \cup editor.addRefs)
      /\ editor.rename => \A h \in DOMAIN dbGroups \ {g} : ~References(h, g)
      /\ doing \in Racing => ~editor.rename /\ dbGroups[g].name # AutoName
  BY <1>1 DEF EntityInv, EditorKnows, UpdateFacts
<1>3. Unpublished = {} /\ Misnamed = {}
  BY <1>1 DEF Unpublished, Misnamed
<1>4. CASE refused
  BY <1>1, <1>4, GivesUp DEF GroupUpdateTx
<1>5. CASE ~refused
  <2>1. /\ dbGroups' = [dbGroups EXCEPT ![g] = new]
        /\ editor'.pc = "publish" /\ editor'.id = g /\ editor'.group = new /\ editor'.old = editor.old
    BY <1>2, <1>5 DEF GroupUpdateTx
  <2>2. GroupRows /\ NamesResolve /\ NoRefCycle /\ NoDanglingMember /\ dbModels \subseteq ChannelModels
    BY DEF EntityInv, StoredSound, CachesFollow, ModelsFollow
  <2>3. old \in GroupRecs
    BY <1>2, <2>2 DEF GroupRows, Grouped
  <2>4. new.name = IF editor.rename THEN editor.name ELSE old.name
    OBVIOUS
  <2>5. new \in GroupRecs
    <3>1. new.name \in EntityNames
      BY <1>2, <2>3 DEF GroupRecs
    <3>2. new.members \in SUBSET ChannelModels /\ new.refs \in SUBSET EntityNames
      BY <1>2, <2>2, <2>3 DEF GroupRecs
    <3>3. new.active \in ChannelModels \cup {NoMember}
      BY <2>3 DEF GroupRecs
    <3> QED BY <3>1, <3>2, <3>3 DEF GroupRecs
  <2>6. /\ new.refs = (old.refs \ editor.delRefs) \cup editor.addRefs
        /\ new.members \subseteq dbModels
    BY <1>2, <2>2 DEF NoDanglingMember
  <2>7. \/ new.name = old.name /\ ~editor.rename
        \/ /\ editor.rename /\ new.name \notin NamesOf(dbGroups)
           /\ \A h \in DOMAIN dbGroups \ {g} : ~References(h, g)
    BY <1>2, <1>5, <2>4
  <2> HIDE DEF new
  <2>8. /\ DOMAIN dbGroups' = DOMAIN dbGroups /\ dbGroups'[g] = new
        /\ \A x \in DOMAIN dbGroups \ {g} : dbGroups'[x] = dbGroups[x]
    BY <1>2, <2>1
  <2> HIDE DEF g
  <2>9. OneName' /\ NamesResolve' /\ NoRefCycle'
    BY <1>2, <2>1, <2>2, <2>6, <2>7, Rewired DEF GroupRows
  <2>10. StoredSound'
    <3>1. Grouped(dbGroups')
      BY <2>2, <2>5, <2>8 DEF GroupRows, Grouped
    <3>2. NoDanglingMember'
      BY <1>1, <2>2, <2>6, <2>8 DEF NoDanglingMember
    <3> QED BY <1>1, <2>2, <2>8, <2>9, <3>1, <3>2 DEF StoredSound, GroupRows
  <2>11. groupCache[g].name = old.name
    BY <1>2, <1>3 DEF EntityInv, CachesFollow, CacheFollows, NameFollows
  <2>12. doing \in Racing => new.name = old.name
    BY <1>2, <2>7
  <2>13. PublishFacts'
    BY <1>1, <1>2, <2>1, <2>5, <2>8, <2>11, <2>12 DEF PublishFacts
  <2>14. doing' \in Racing \/ ranking = Resting
    BY <1>1, BusyIsAlone DEF EntityInv
  <2>15. ranking.pc = "publish" => dbGroups'[ranking.id].refs = {}
    <3>1. ASSUME ranking.pc = "publish" PROVE ranking.id # g
      BY <1>1, <1>2, <2>14, <3>1 DEF EntityInv, RankingKnows, Resting
    <3> QED BY <2>8, <3>1 DEF EntityInv, RankingKnows
  <2>16. \A x \in DOMAIN dbGroups :
           x \in DOMAIN dbGroups' /\ (dbGroups'[x].name = dbGroups[x].name \/ (x = editor'.id /\ doing' \notin Racing))
    BY <1>1, <2>1, <2>8, <2>12
  <2>17. \A x \in DOMAIN dbGroups' \ {editor'.id} : x \in DOMAIN dbGroups /\ dbGroups'[x].refs = dbGroups[x].refs
    BY <2>1, <2>8
  <2> QED BY <1>1, <1>3, <2>1, <2>10, <2>13, <2>14, <2>15, <2>16, <2>17, PublishBegins
<1> QED BY <1>4, <1>5

LEMMA ActiveItemKeeps ==
  ASSUME EntityInv, NEW g \in DOMAIN groupCache, NEW m, GroupActiveItemUpdate(g, m)
  PROVE  EntityInv'
<1> DEFINE c == groupCache[g]
           new == [c EXCEPT !.active = m]
           row == [dbGroups[g] EXCEPT !.active = m]
<1>1. /\ editor = Resting /\ (doing' \in Racing \/ ranking = Resting) /\ g \in DOMAIN dbGroups
      /\ m \in c.members \cup {NoMember} /\ dbGroups' = [dbGroups EXCEPT ![g] = row]
      /\ editor'.pc = "publish" /\ editor'.id = g /\ editor'.group = new /\ editor'.old = c.name
      /\ UNCHANGED <<dbModels, modelCache, groupCache, nameIndex, ranking, spentGroups>>
  BY DEF GroupActiveItemUpdate, MayEdit, entityCaches, spent
<1>2. editor.pc = "idle" /\ CachesFollow /\ StoredSound
  BY <1>1 DEF Resting, EntityInv
<1>3. Unpublished = {} /\ NameFollows(groupCache, g) /\ RefsFollow(groupCache, g)
  BY <1>1, <1>2, AtRestFacts
<1>4. c \in GroupRecs /\ dbGroups[g] \in GroupRecs
  BY <1>1, <1>2 DEF CachesFollow, CacheFollows, StoredSound, GroupRows, Grouped
<1>5. m \in ChannelModels \cup {NoMember}
  BY <1>1, <1>4 DEF GroupRecs
<1>6. /\ new \in GroupRecs /\ new.name = c.name /\ new.refs = c.refs
  BY <1>4, <1>5 DEF GroupRecs
<1>7. /\ row \in GroupRecs /\ row.name = dbGroups[g].name /\ row.refs = dbGroups[g].refs
      /\ row.members = dbGroups[g].members
  BY <1>4, <1>5 DEF GroupRecs
<1> HIDE DEF new, row
<1>8. /\ DOMAIN dbGroups' = DOMAIN dbGroups /\ dbGroups'[g] = row
      /\ \A x \in DOMAIN dbGroups \ {g} : dbGroups'[x] = dbGroups[x]
  BY <1>1
<1>9. \A x \in DOMAIN dbGroups : /\ dbGroups'[x].name = dbGroups[x].name
                                 /\ dbGroups'[x].refs = dbGroups[x].refs
                                 /\ dbGroups'[x].members = dbGroups[x].members
  BY <1>7, <1>8
<1>10. StoredSound'
  <2>1. OneName' /\ NamesResolve' /\ NoRefCycle'
    BY <1>2, <1>8, <1>9, RefsShrunk DEF StoredSound, GroupRows
  <2>2. Grouped(dbGroups')
    BY <1>2, <1>7, <1>8 DEF StoredSound, GroupRows, Grouped
  <2>3. NoDanglingMember'
    BY <1>1, <1>2, <1>8, <1>9 DEF StoredSound, NoDanglingMember
  <2> QED BY <1>1, <1>2, <1>8, <2>1, <2>2, <2>3 DEF StoredSound, GroupRows
<1>11. PublishFacts'
  BY <1>1, <1>3, <1>6, <1>7, <1>8 DEF PublishFacts, NameFollows, RefsFollow
<1>12. ranking.pc = "publish" => dbGroups'[ranking.id].refs = {}
  BY <1>9 DEF EntityInv, RankingKnows
<1> QED BY <1>1, <1>2, <1>3, <1>8, <1>9, <1>10, <1>11, <1>12, PublishBegins

\* A group set in the cache under its name, which replaces the one it had there.
LEMMA IndexedGroup ==
  ASSUME IndexInverse, NEW id, NEW r, NEW old, groupCache' = Stored1(groupCache, id, r),
         DOMAIN nameIndex' = (DOMAIN nameIndex \cup {r.name}) \ ({old} \ {r.name}),
         \A n \in DOMAIN nameIndex' : nameIndex'[n] = IF n = r.name THEN id ELSE nameIndex[n],
         \A g \in DOMAIN groupCache \ {id} : groupCache[g].name # r.name,
         old = IF id \in DOMAIN groupCache THEN groupCache[id].name ELSE r.name
  PROVE  IndexInverse'
<1>1. /\ DOMAIN groupCache' = DOMAIN groupCache \cup {id} /\ groupCache'[id] = r
      /\ \A g \in DOMAIN groupCache \ {id} : groupCache'[g] = groupCache[g]
  BY DEF Stored1
<1>2. ASSUME NEW g \in DOMAIN groupCache'
      PROVE  groupCache'[g].name \in DOMAIN nameIndex' /\ nameIndex'[groupCache'[g].name] = g
  <2>1. CASE g = id
    BY <1>1, <2>1
  <2>2. CASE g # id
    <3> DEFINE n == groupCache[g].name
    <3>1. g \in DOMAIN groupCache /\ n \in DOMAIN nameIndex /\ nameIndex[n] = g /\ n # r.name
      BY <1>1, <2>2 DEF IndexInverse
    <3>2. n # old
      BY <2>2, <3>1 DEF IndexInverse
    <3>3. groupCache'[g].name = n
      BY <1>1, <2>2, <3>1
    <3> HIDE DEF n
    <3> QED BY <3>1, <3>2, <3>3
  <2> QED BY <2>1, <2>2
<1>3. ASSUME NEW n \in DOMAIN nameIndex'
      PROVE  nameIndex'[n] \in DOMAIN groupCache' /\ groupCache'[nameIndex'[n]].name = n
  <2>1. CASE n = r.name
    BY <1>1, <2>1
  <2>2. CASE n # r.name
    <3>1. n \in DOMAIN nameIndex /\ n # old /\ nameIndex'[n] = nameIndex[n]
      BY <2>2
    <3>2. nameIndex[n] \in DOMAIN groupCache /\ groupCache[nameIndex[n]].name = n
      BY <3>1 DEF IndexInverse
    <3>3. nameIndex[n] # id
      BY <3>1, <3>2
    <3> QED BY <1>1, <3>1, <3>2, <3>3
  <2> QED BY <2>1, <2>2
<1> QED BY <1>2, <1>3 DEF IndexInverse

LEMMA PublishGroupKeeps ==
  ASSUME EntityInv, PublishGroup
  PROVE  EntityInv'
<1> DEFINE id == editor.id
           r == editor.group
           named == Stored1(nameIndex, r.name, id)
<1>1. /\ editor.pc = "publish" /\ editor' = Resting
      /\ groupCache' = Stored1(groupCache, id, r)
      /\ nameIndex' = Dropped(named, {editor.old} \ {r.name})
      /\ UNCHANGED <<dbModels, dbGroups, spentGroups, modelCache, ranking, doing>>
  BY DEF PublishGroup, entityTables, spent
<1>2. /\ r \in GroupRecs /\ id \in DOMAIN dbGroups /\ r.name = dbGroups[id].name
      /\ dbGroups[id].refs \subseteq r.refs
      /\ editor.old = IF id \in DOMAIN groupCache THEN groupCache[id].name ELSE r.name
  BY <1>1 DEF EntityInv, EditorKnows, PublishFacts
<1>3. editor'.pc = "idle"
  BY <1>1 DEF Resting
<1>4. EditorKnows' /\ Unpublished' = {} /\ Misnamed' = {} /\ Unpublished = {id} /\ Misnamed \subseteq {id}
  BY <1>1, <1>3, NothingKnown DEF Unpublished, Misnamed
<1>5. StoredSound'
  BY <1>1, TablesStay
<1>6. OneName /\ IndexInverse /\ CacheFollows
  BY DEF EntityInv, StoredSound, GroupRows, CachesFollow
<1> HIDE DEF id, r
<1>7. /\ DOMAIN groupCache' = DOMAIN groupCache \cup {id} /\ groupCache'[id] = r
      /\ \A g \in DOMAIN groupCache \ {id} : groupCache'[g] = groupCache[g]
  BY <1>1 DEF Stored1
<1>8. \A g \in DOMAIN groupCache \ {id} : NameFollows(groupCache, g)
  BY <1>4, <1>6 DEF CacheFollows
<1>9. CacheFollows'
  <2>1. Grouped(groupCache')
    BY <1>2, <1>6, <1>7 DEF CacheFollows, Grouped
  <2>2. ASSUME NEW g \in DOMAIN groupCache' PROVE NameFollows(groupCache, g)'
    BY <1>1, <1>2, <1>7, <1>8 DEF NameFollows
  <2>3. ASSUME NEW g \in DOMAIN dbGroups PROVE RefsFollow(groupCache, g)'
    <3>1. CASE g = id
      BY <1>1, <1>2, <1>7, <3>1 DEF RefsFollow
    <3>2. CASE g # id
      <4>1. RefsFollow(groupCache, g)
        BY <1>4, <1>6, <3>2 DEF CacheFollows
      <4> QED BY <1>1, <1>7, <3>2, <4>1 DEF RefsFollow
    <3> QED BY <3>1, <3>2
  <2> QED BY <1>1, <1>4, <2>1, <2>2, <2>3 DEF CacheFollows
<1>10. IndexInverse'
  <2>1. \A g \in DOMAIN groupCache \ {id} : groupCache[g].name # r.name
    BY <1>2, <1>6, <1>8 DEF NameFollows, OneName
  <2>2. /\ DOMAIN nameIndex' = (DOMAIN nameIndex \cup {r.name}) \ ({editor.old} \ {r.name})
        /\ \A n \in DOMAIN nameIndex' : nameIndex'[n] = IF n = r.name THEN id ELSE nameIndex[n]
    BY <1>1 DEF Dropped, Stored1
  <2> QED BY <1>1, <1>2, <1>6, <2>1, <2>2, IndexedGroup
<1>11. ModelsFollow'
  BY <1>1, <1>3 DEF EntityInv, CachesFollow, ModelsFollow
<1>12. RankingKnows'
  BY <1>1 DEF EntityInv, RankingKnows
<1> QED BY <1>4, <1>5, <1>9, <1>10, <1>11, <1>12 DEF EntityInv, CachesFollow

LEMMA GroupDelKeeps ==
  ASSUME EntityInv, RacesKnown, NEW g \in DOMAIN groupCache, GroupDel(g)
  PROVE  EntityInv'
<1>1. /\ editor = Resting /\ doing' = "delete" /\ (doing' \in Racing \/ ranking = Resting)
      /\ ~firstGroupReferrer(groupCache[g].name, g) /\ dbGroups' = Dropped(dbGroups, {g})
      /\ editor'.pc = "forget" /\ editor'.id = g /\ editor'.name = groupCache[g].name
      /\ UNCHANGED <<dbModels, modelCache, groupCache, nameIndex, ranking, spentGroups>>
  BY DEF GroupDel, MayEdit, entityCaches, spent
<1>2. editor.pc = "idle" /\ CachesFollow /\ StoredSound
  BY <1>1 DEF Resting, EntityInv
<1>3. /\ Unpublished = {} /\ \A h \in DOMAIN groupCache : NameFollows(groupCache, h)
      /\ \A h \in DOMAIN dbGroups : RefsFollow(groupCache, h)
  BY <1>1, <1>2, AtRestFacts
<1>4. doing' \notin Racing /\ ranking = Resting
  BY <1>1 DEF RacesKnown
<1>5. g \in DOMAIN dbGroups /\ \A h \in DOMAIN dbGroups \ {g} : ~References(h, g)
  BY <1>1, <1>3 DEF NameFollows, RefsFollow, References, firstGroupReferrer
<1>6. /\ DOMAIN dbGroups' = DOMAIN dbGroups \ {g}
      /\ \A x \in DOMAIN dbGroups' : dbGroups'[x] = dbGroups[x]
  BY <1>1 DEF Dropped
<1>7. StoredSound'
  <2>1. OneName' /\ NamesResolve' /\ NoRefCycle'
    BY <1>1, <1>2, <1>5, Removed DEF StoredSound, GroupRows
  <2>2. Grouped(dbGroups') /\ NoDanglingMember'
    BY <1>1, <1>2, <1>6 DEF StoredSound, GroupRows, Grouped, NoDanglingMember
  <2> QED BY <1>1, <1>2, <1>6, <2>1, <2>2 DEF StoredSound, GroupRows
<1>8. Unpublished' = {g} /\ Misnamed' = {g}
  BY <1>1, <1>4 DEF Unpublished, Misnamed
<1>9. EditorKnows'
  BY <1>1, <1>4, <1>6
     DEF EditorKnows, SyncFacts, InsertFacts, UpdateFacts, PublishFacts, ForgetFacts, InstallFacts
<1>10. ModelsFollow'
  BY <1>1, <1>2 DEF CachesFollow, ModelsFollow
<1>11. CacheFollows' /\ IndexInverse'
  <2>1. IndexInverse' /\ Grouped(groupCache')
    BY <1>1, <1>2 DEF CachesFollow, CacheFollows, IndexInverse
  <2>2. ASSUME NEW h \in DOMAIN groupCache' \ Misnamed' PROVE NameFollows(groupCache, h)'
    <3>1. NameFollows(groupCache, h) /\ h # g
      BY <1>1, <1>3, <1>8
    <3> QED BY <1>1, <1>6, <3>1 DEF NameFollows
  <2>3. ASSUME NEW h \in DOMAIN dbGroups' \ Unpublished' PROVE RefsFollow(groupCache, h)'
    <3>1. RefsFollow(groupCache, h)
      BY <1>3, <1>6
    <3> QED BY <1>1, <1>6, <3>1 DEF RefsFollow
  <2> QED BY <2>1, <2>2, <2>3 DEF CacheFollows
<1>12. RankingKnows'
  BY <1>1, <1>4 DEF RankingKnows, Resting
<1> QED BY <1>7, <1>9, <1>10, <1>11, <1>12 DEF EntityInv, CachesFollow

LEMMA ForgetGroupKeeps ==
  ASSUME EntityInv, ForgetGroup
  PROVE  EntityInv'
<1> DEFINE id == editor.id
<1>1. /\ editor.pc = "forget" /\ editor' = Resting /\ editor'.pc = "idle"
      /\ groupCache' = Dropped(groupCache, {id}) /\ nameIndex' = Dropped(nameIndex, {editor.name})
      /\ UNCHANGED <<dbModels, dbGroups, spentGroups, modelCache, ranking, doing>>
  BY DEF ForgetGroup, entityTables, spent, Resting
<1>2. id \in DOMAIN groupCache \ DOMAIN dbGroups /\ groupCache[id].name = editor.name
  BY <1>1 DEF EntityInv, EditorKnows, ForgetFacts
<1>3. EditorKnows' /\ Unpublished' = {} /\ Misnamed' = {} /\ Unpublished = {id} /\ Misnamed \subseteq {id}
  BY <1>1, NothingKnown DEF Unpublished, Misnamed
<1>4. StoredSound'
  BY <1>1, TablesStay
<1>5. IndexInverse /\ CacheFollows
  BY DEF EntityInv, CachesFollow
<1> HIDE DEF id
<1>6. /\ DOMAIN groupCache' = DOMAIN groupCache \ {id}
      /\ \A g \in DOMAIN groupCache' : groupCache'[g] = groupCache[g]
      /\ DOMAIN nameIndex' = DOMAIN nameIndex \ {editor.name}
      /\ \A n \in DOMAIN nameIndex' : nameIndex'[n] = nameIndex[n]
  BY <1>1 DEF Dropped
<1>7. CacheFollows'
  <2>1. Grouped(groupCache')
    BY <1>5, <1>6 DEF CacheFollows, Grouped
  <2>2. \A g \in DOMAIN groupCache' : NameFollows(groupCache, g)'
    BY <1>1, <1>3, <1>5, <1>6 DEF CacheFollows, NameFollows
  <2>3. ASSUME NEW g \in DOMAIN dbGroups PROVE RefsFollow(groupCache, g)'
    <3>1. g # id /\ RefsFollow(groupCache, g)
      BY <1>2, <1>3, <1>5 DEF CacheFollows
    <3> QED BY <1>1, <1>6, <3>1 DEF RefsFollow
  <2> QED BY <1>1, <1>3, <2>1, <2>2, <2>3 DEF CacheFollows
<1>8. IndexInverse'
  <2>1. ASSUME NEW g \in DOMAIN groupCache'
        PROVE  groupCache'[g].name \in DOMAIN nameIndex' /\ nameIndex'[groupCache'[g].name] = g
    BY <1>2, <1>5, <1>6 DEF IndexInverse
  <2>2. ASSUME NEW n \in DOMAIN nameIndex'
        PROVE  nameIndex'[n] \in DOMAIN groupCache' /\ groupCache'[nameIndex'[n]].name = n
    BY <1>2, <1>5, <1>6 DEF IndexInverse
  <2> QED BY <2>1, <2>2 DEF IndexInverse
<1>9. ModelsFollow'
  BY <1>1 DEF EntityInv, CachesFollow, ModelsFollow
<1>10. RankingKnows'
  BY <1>1 DEF EntityInv, RankingKnows
<1> QED BY <1>3, <1>4, <1>7, <1>8, <1>9, <1>10 DEF EntityInv, CachesFollow

-----------------------------------------------------------------------------
(* The ranking *)

\* Steps of the ranking that write no group.
LEMMA RankingAlone ==
  ASSUME EntityInv, UNCHANGED <<dbModels, dbGroups, spentGroups, modelCache, groupCache, nameIndex, editor, doing>>,
         ranking'.pc # "publish" \/ ranking' = ranking,
         ranking' = ranking \/ ranking' = Resting \/ editor = Resting \/ doing \in Racing
  PROVE  EntityInv'
<1>1. StoredSound'
  BY TablesStay
<1>2. Unpublished' = Unpublished /\ Misnamed' = Misnamed
  BY DEF Unpublished, Misnamed
<1>3. CachesFollow'
  BY <1>2 DEF EntityInv, CachesFollow, ModelsFollow, CacheFollows, IndexInverse, NameFollows, RefsFollow
<1>4. EditorKnows'
  BY DEF EntityInv, EditorKnows, SyncFacts, InsertFacts, UpdateFacts, PublishFacts, ForgetFacts,
         InstallFacts, MayReference, References, NameFollows, RefsFollow
<1>5. RankingKnows'
  BY DEF EntityInv, RankingKnows
<1> QED BY <1>1, <1>3, <1>4, <1>5 DEF EntityInv

LEMMA RankModelKeeps ==
  ASSUME EntityInv, NEW m, RankModel(m)
  PROVE  EntityInv'
BY RankingAlone DEF RankModel, entityCaches, spent

LEMMA ReplaceClassifyKeeps ==
  ASSUME EntityInv, ReplaceClassify
  PROVE  EntityInv'
<1>1. ranking'.pc = "tx"
  BY DEF ReplaceClassify
<1> QED BY <1>1, RankingAlone DEF ReplaceClassify, entityTables, entityCaches, spent

\* What the editor knows survives a replacement, which resets the group of the ranking or makes it.
LEMMA EditorUnharmed ==
  ASSUME EntityInv, doing \in Racing \/ editor = Resting, NEW g,
         UNCHANGED <<dbModels, groupCache, editor, doing>>,
         DOMAIN dbGroups' = DOMAIN dbGroups \cup {g}, dbGroups'[g].refs = {},
         \A x \in DOMAIN dbGroups \ {g} : dbGroups'[x] = dbGroups[x],
         dbGroups'[g].name = AutoName, g \in DOMAIN dbGroups => dbGroups[g].name = AutoName
  PROVE  EditorKnows' /\ CacheFollows'
<1>1. /\ \A x \in DOMAIN dbGroups : /\ x \in DOMAIN dbGroups' /\ dbGroups'[x].name = dbGroups[x].name
                                    /\ dbGroups'[x].refs \subseteq dbGroups[x].refs
      /\ \A y \in DOMAIN dbGroups' \ DOMAIN dbGroups : y = g /\ dbGroups'[y].refs = {}
  OBVIOUS
<1>2. NamesOf(dbGroups) \subseteq NamesOf(dbGroups')
  BY <1>1 DEF NamesOf
<1>3. editor.pc # "idle" => doing \in Racing
  BY DEF Resting
<1>4. ASSUME NEW gs, NEW x, NameFollows(gs, x) PROVE NameFollows(gs, x)'
  BY <1>1, <1>4 DEF NameFollows
<1>5. ASSUME NEW gs, NEW x \in DOMAIN dbGroups', x \in DOMAIN dbGroups => RefsFollow(gs, x)
      PROVE  dbGroups'[x].refs \subseteq IF x \in DOMAIN gs THEN gs[x].refs ELSE {}
  <2>1. CASE x \in DOMAIN dbGroups
    BY <1>1, <1>5, <2>1 DEF RefsFollow
  <2>2. CASE x \notin DOMAIN dbGroups
    BY <1>1, <2>2
  <2> QED BY <2>1, <2>2
<1>6. Unpublished' = Unpublished /\ Misnamed' = Misnamed
  BY DEF Unpublished, Misnamed
<1>7. CacheFollows'
  <2>1. Grouped(groupCache')
    BY DEF EntityInv, CachesFollow, CacheFollows
  <2>2. ASSUME NEW x \in DOMAIN groupCache \ Misnamed PROVE NameFollows(groupCache, x)'
    BY <1>1 DEF EntityInv, CachesFollow, CacheFollows, NameFollows
  <2>3. ASSUME NEW x \in DOMAIN dbGroups' \ Unpublished PROVE RefsFollow(groupCache, x)'
    <3>1. x \in DOMAIN dbGroups => RefsFollow(groupCache, x)
      BY DEF EntityInv, CachesFollow, CacheFollows
    <3>2. dbGroups'[x].refs \subseteq IF x \in DOMAIN groupCache THEN groupCache[x].refs ELSE {}
      BY <1>5, <3>1
    <3> QED BY <3>2 DEF RefsFollow
  <2> QED BY <1>6, <2>1, <2>2, <2>3 DEF CacheFollows
<1>8. SyncFacts' /\ InsertFacts' /\ ForgetFacts'
  <2>1. SyncFacts' /\ InsertFacts'
    BY <1>2 DEF EntityInv, EditorKnows, SyncFacts, InsertFacts
  <2>2. ForgetFacts'
    BY <1>3 DEF EntityInv, EditorKnows, ForgetFacts
  <2> QED BY <2>1, <2>2
<1>9. UpdateFacts'
  <2>1. SUFFICES ASSUME editor.pc = "update" PROVE UpdateFacts'
    BY DEF UpdateFacts
  <2> DEFINE id == editor.id
             names == (dbGroups[id].refs \ editor.delRefs) \cup editor.addRefs
  <2>2. /\ id \in DOMAIN groupCache /\ id \in DOMAIN dbGroups /\ groupCache[id].name = editor.old
        /\ editor.add \subseteq dbModels /\ editor.name \in EntityNames /\ editor.addRefs \subseteq EntityNames
        /\ MayReference(id, names)
        /\ ~editor.rename /\ dbGroups[id].name # AutoName
    BY <1>3, <2>1 DEF EntityInv, EditorKnows, UpdateFacts
  <2>3. id # g /\ dbGroups'[id] = dbGroups[id]
    BY <2>2
  <2>4. MayReference(id, names)'
    <3>1. \A y \in DOMAIN dbGroups' \ DOMAIN dbGroups : y # id /\ dbGroups'[y].refs = {}
      BY <1>1, <2>3
    <3>2. MayReference(id, names)
      BY <2>2
    <3>3. PICK i, asked : i = id /\ asked = names
      OBVIOUS
    <3> HIDE DEF id, names
    <3>4. MayReference(i, asked) /\ \A y \in DOMAIN dbGroups' \ DOMAIN dbGroups : y # i /\ dbGroups'[y].refs = {}
      BY <3>1, <3>2, <3>3
    <3>5. \E M \in SUBSET (DOMAIN dbGroups' \ {i}) :
            /\ \A n \in asked : \E h \in M : dbGroups'[h].name = n
            /\ \A x \in M, y \in DOMAIN dbGroups' :
                 dbGroups'[y].name \in dbGroups'[x].refs => y \in M \/ (y # i /\ dbGroups'[y].refs = {})
      BY <1>1, <3>4, StaysAdmissible
    <3>6. id' = id /\ names' = names
      BY <2>3 DEF id, names
    <3> QED BY <3>3, <3>5, <3>6 DEF MayReference, References
  <2> QED BY <2>2, <2>3, <2>4 DEF UpdateFacts
<1>10. PublishFacts'
  <2>1. SUFFICES ASSUME editor.pc = "publish" PROVE PublishFacts'
    BY DEF PublishFacts
  <2>2. editor.id \in DOMAIN dbGroups
    BY <2>1 DEF EntityInv, EditorKnows, PublishFacts
  <2>3. editor.id \in DOMAIN dbGroups' /\ dbGroups'[editor.id].name = dbGroups[editor.id].name
        /\ dbGroups'[editor.id].refs \subseteq dbGroups[editor.id].refs
    BY <1>1, <2>2
  <2> QED BY <2>1, <2>3 DEF EntityInv, EditorKnows, PublishFacts
<1>11. InstallFacts'
  <2>1. SUFFICES ASSUME editor.pc = "install" PROVE InstallFacts'
    BY DEF InstallFacts
  <2> DEFINE gs == editor.groups
  <2>2. /\ Grouped(gs) /\ \A x \in DOMAIN gs : NameFollows(gs, x)
        /\ \A x \in DOMAIN dbGroups : RefsFollow(gs, x)
    BY <2>1 DEF EntityInv, EditorKnows, InstallFacts
  <2>3. \A x \in DOMAIN gs : x \in DOMAIN dbGroups' /\ gs[x].name = dbGroups'[x].name
    BY <1>1, <2>2 DEF NameFollows
  <2>4. \A x \in DOMAIN dbGroups' : dbGroups'[x].refs \subseteq IF x \in DOMAIN gs THEN gs[x].refs ELSE {}
    BY <1>5, <2>2
  <2> QED BY <2>1, <2>2, <2>3, <2>4 DEF InstallFacts, NameFollows, RefsFollow
<1> QED BY <1>7, <1>8, <1>9, <1>10, <1>11 DEF EditorKnows

LEMMA ReplaceTxKeeps ==
  ASSUME EntityInv, ReplaceTx
  PROVE  EntityInv'
<1> DEFINE live == liveModels(ranking.resolved)
           dead == ranking.stale \cup (ranking.resolved \ live)
           found == AutoName \in DOMAIN nameIndex
           g == IF found THEN nameIndex[AutoName] ELSE nextGroupId
           new == [name |-> IF found THEN dbGroups[g].name ELSE AutoName, members |-> live,
                   refs |-> {}, active |-> NoMember]
           fails == IF found THEN g \notin DOMAIN dbGroups
                    ELSE GroupIds = spentGroups \/ AutoName \in NamesOf(dbGroups)
<1>1. /\ ranking.pc = "tx" /\ ranking # Resting
      /\ UNCHANGED <<dbModels, modelCache, groupCache, nameIndex, editor, doing>>
  BY DEF ReplaceTx, entityCaches, Resting
<1>2. CASE live = {} \/ fails
  <2>1. ranking' = Resting /\ UNCHANGED <<dbGroups, spentGroups>>
    BY <1>2 DEF ReplaceTx
  <2>2. ranking'.pc # "publish"
    BY <2>1 DEF Resting
  <2> QED BY <1>1, <2>1, <2>2, RankingAlone
<1>3. CASE live # {} /\ ~fails
  <2>1. /\ dbGroups' = Stored1(dbGroups, g, new) /\ spentGroups' = spentGroups \cup {g}
        /\ ranking'.pc = "publish" /\ ranking'.id = g /\ ranking'.group = new
    BY <1>3 DEF ReplaceTx
  <2>2. doing \in Racing \/ editor = Resting
    BY <1>1 DEF EntityInv, RankingKnows
  <2>3. Misnamed = {}
    BY <2>2 DEF Misnamed, Unpublished, Resting
  <2>4. GroupRows /\ NamesResolve /\ NoRefCycle /\ NoDanglingMember /\ dbModels \subseteq ChannelModels
    BY DEF EntityInv, StoredSound, CachesFollow, ModelsFollow
  <2>5. live \subseteq dbModels
    BY DEF liveModels
  <2>6. found => g \in DOMAIN dbGroups /\ dbGroups[g].name = AutoName
    BY <1>3, <2>3 DEF EntityInv, CachesFollow, IndexInverse, CacheFollows, NameFollows
  <2>7. ~found => g \in GroupIds \ spentGroups /\ g \notin DOMAIN dbGroups /\ AutoName \notin NamesOf(dbGroups)
    BY <1>3, <2>4, NextIsNew DEF GroupRows
  <2>8. new.name = AutoName /\ new.refs = {} /\ new.members \subseteq dbModels /\ new \in GroupRecs
    <3>1. new.name = AutoName
      BY <2>6
    <3> QED BY <2>4, <2>5, <3>1 DEF GroupRecs, EntityNames
  <2> HIDE DEF g, new
  <2>9. /\ DOMAIN dbGroups' = DOMAIN dbGroups \cup {g} /\ dbGroups'[g] = new
        /\ \A x \in DOMAIN dbGroups \ {g} : dbGroups'[x] = dbGroups[x]
    BY <2>1 DEF Stored1
  <2>10. OneName' /\ NamesResolve' /\ NoRefCycle'
    <3>1. CASE found
      <4>1. \A x \in DOMAIN dbGroups : /\ dbGroups'[x].name = dbGroups[x].name
                                       /\ dbGroups'[x].refs \subseteq dbGroups[x].refs
        BY <2>6, <2>8, <2>9, <3>1
      <4>2. DOMAIN dbGroups' = DOMAIN dbGroups
        BY <2>6, <2>9, <3>1
      <4> QED BY <2>4, <4>1, <4>2, RefsShrunk DEF GroupRows
    <3>2. CASE ~found
      BY <2>1, <2>4, <2>7, <2>8, <3>2, Grown DEF GroupRows
    <3> QED BY <3>1, <3>2
  <2>11. StoredSound'
    <3>1. Grouped(dbGroups') /\ NoDanglingMember'
      BY <1>1, <2>4, <2>8, <2>9 DEF GroupRows, Grouped, NoDanglingMember
    <3>2. DOMAIN dbGroups' \subseteq spentGroups' /\ spentGroups' \subseteq GroupIds
      BY <2>1, <2>4, <2>6, <2>7, <2>9 DEF GroupRows
    <3> QED BY <2>10, <3>1, <3>2 DEF StoredSound, GroupRows
  <2>12. g \in DOMAIN dbGroups => dbGroups[g].name = AutoName
    BY <2>6, <2>7
  <2>13. EditorKnows' /\ CacheFollows'
    BY <1>1, <2>2, <2>8, <2>9, <2>12, EditorUnharmed
  <2>14. ModelsFollow' /\ IndexInverse'
    BY <1>1 DEF EntityInv, CachesFollow, ModelsFollow, IndexInverse
  <2>15. RankingKnows'
    BY <1>1, <2>1, <2>2, <2>8, <2>9 DEF RankingKnows
  <2> QED BY <2>11, <2>13, <2>14, <2>15 DEF EntityInv, CachesFollow
<1> QED BY <1>2, <1>3

LEMMA ReplacePublishKeeps ==
  ASSUME EntityInv, ReplacePublish
  PROVE  EntityInv'
<1> DEFINE id == ranking.id
           r == ranking.group
<1>1. /\ ranking.pc = "publish" /\ ranking' = Resting /\ ranking # Resting /\ ranking'.pc = "idle"
      /\ groupCache' = Stored1(groupCache, id, r) /\ nameIndex' = Stored1(nameIndex, r.name, id)
      /\ UNCHANGED <<dbModels, dbGroups, spentGroups, modelCache, editor, doing>>
  BY DEF ReplacePublish, entityTables, spent, Resting
<1>2. /\ id \in DOMAIN dbGroups /\ r \in GroupRecs /\ r.name = AutoName /\ dbGroups[id].name = AutoName
      /\ dbGroups[id].refs = {}
  BY <1>1 DEF EntityInv, RankingKnows
<1>3. editor = Resting \/ doing \in Racing
  BY <1>1 DEF EntityInv, RankingKnows
<1>4. Misnamed = {} /\ Misnamed' = {} /\ Unpublished' = Unpublished
  BY <1>1, <1>3 DEF Misnamed, Unpublished, Resting
<1>5. StoredSound'
  BY <1>1, TablesStay
<1>6. OneName /\ IndexInverse /\ CacheFollows
  BY DEF EntityInv, StoredSound, GroupRows, CachesFollow
<1>7. \A g \in DOMAIN groupCache : NameFollows(groupCache, g)
  BY <1>4, <1>6 DEF CacheFollows
<1> HIDE DEF id, r
<1>8. /\ DOMAIN groupCache' = DOMAIN groupCache \cup {id} /\ groupCache'[id] = r
      /\ \A g \in DOMAIN groupCache \ {id} : groupCache'[g] = groupCache[g]
  BY <1>1 DEF Stored1
<1>9. CacheFollows'
  <2>1. Grouped(groupCache')
    BY <1>2, <1>6, <1>8 DEF CacheFollows, Grouped
  <2>2. ASSUME NEW g \in DOMAIN groupCache' PROVE NameFollows(groupCache, g)'
    BY <1>1, <1>2, <1>7, <1>8 DEF NameFollows
  <2>3. ASSUME NEW g \in DOMAIN dbGroups \ Unpublished PROVE RefsFollow(groupCache, g)'
    <3>1. CASE g = id
      BY <1>1, <1>2, <1>8, <3>1 DEF RefsFollow
    <3>2. CASE g # id
      <4>1. RefsFollow(groupCache, g)
        BY <1>6 DEF CacheFollows
      <4> QED BY <1>1, <1>8, <3>2, <4>1 DEF RefsFollow
    <3> QED BY <3>1, <3>2
  <2> QED BY <1>1, <1>4, <2>1, <2>2, <2>3 DEF CacheFollows
<1>10. IndexInverse'
  <2>1. \A g \in DOMAIN groupCache \ {id} : groupCache[g].name # r.name
    BY <1>2, <1>6, <1>7 DEF NameFollows, OneName
  <2>2. id \in DOMAIN groupCache => groupCache[id].name = r.name
    BY <1>2, <1>7 DEF NameFollows
  <2>3. /\ DOMAIN nameIndex' = (DOMAIN nameIndex \cup {r.name}) \ ({r.name} \ {r.name})
        /\ \A n \in DOMAIN nameIndex' : nameIndex'[n] = IF n = r.name THEN id ELSE nameIndex[n]
    BY <1>1 DEF Stored1
  <2> QED BY <1>1, <1>6, <2>1, <2>2, <2>3, IndexedGroup
<1>11. ModelsFollow'
  BY <1>1 DEF EntityInv, CachesFollow, ModelsFollow
<1>12. EditorKnows'
  <2>1. SyncFacts' /\ InsertFacts' /\ InstallFacts'
    BY <1>1 DEF EntityInv, EditorKnows, SyncFacts, InsertFacts, InstallFacts, NameFollows, RefsFollow
  <2>2. editor.pc # "idle" => doing \in Racing
    BY <1>3 DEF Resting
  <2>3. ForgetFacts'
    BY <1>1, <2>2 DEF EntityInv, EditorKnows, ForgetFacts
  <2>4. UpdateFacts'
    <3>1. SUFFICES ASSUME editor.pc = "update" PROVE UpdateFacts'
      BY <1>1 DEF UpdateFacts
    <3>2. editor.id # id /\ editor.id \in DOMAIN groupCache
      BY <1>2, <2>2, <3>1 DEF EntityInv, EditorKnows, UpdateFacts
    <3>3. editor.id \in DOMAIN groupCache' /\ groupCache'[editor.id] = groupCache[editor.id]
      BY <1>8, <3>2
    <3> QED BY <1>1, <3>1, <3>3 DEF EntityInv, EditorKnows, UpdateFacts, MayReference, References
  <2>5. PublishFacts'
    <3>1. SUFFICES ASSUME editor.pc = "publish" PROVE PublishFacts'
      BY <1>1 DEF PublishFacts
    <3> DEFINE e == editor.id
    <3>2. /\ editor.group \in GroupRecs /\ e \in DOMAIN dbGroups
          /\ editor.group.name = dbGroups[e].name /\ dbGroups[e].refs \subseteq editor.group.refs
          /\ editor.old = IF e \in DOMAIN groupCache THEN groupCache[e].name ELSE editor.group.name
          /\ editor.old = editor.group.name
      BY <2>2, <3>1 DEF EntityInv, EditorKnows, PublishFacts
    <3>3. editor.old = IF e \in DOMAIN groupCache' THEN groupCache'[e].name ELSE editor.group.name
      <4>1. CASE e = id
        BY <1>2, <1>8, <3>2, <4>1
      <4>2. CASE e # id
        BY <1>8, <3>2, <4>2
      <4> QED BY <4>1, <4>2
    <3> QED BY <1>1, <3>1, <3>2, <3>3 DEF PublishFacts
  <2> QED BY <2>1, <2>3, <2>4, <2>5 DEF EditorKnows
<1>13. RankingKnows'
  BY <1>1 DEF RankingKnows
<1> QED BY <1>5, <1>9, <1>10, <1>11, <1>12, <1>13 DEF EntityInv, CachesFollow

-----------------------------------------------------------------------------

LEMMA EntityStarts == EntityInit => EntityInv
<1> SUFFICES ASSUME EntityInit PROVE EntityInv
  OBVIOUS
<1>1. /\ DOMAIN dbGroups = {} /\ DOMAIN groupCache = {} /\ groupCache = dbGroups /\ dbModels = {} /\ modelCache = {}
      /\ editor = Resting /\ ranking = Resting /\ editor.pc = "idle" /\ ranking.pc = "idle"
      /\ DOMAIN nameIndex = {} /\ spentGroups = {}
  BY DEF EntityInit, IndexOf, NamesOf, Resting
<1>2. StoredSound
  BY <1>1 DEF StoredSound, GroupRows, Grouped, OneName, NoDanglingMember, NamesResolve, NoRefCycle
<1>3. CachesFollow
  BY <1>1 DEF CachesFollow, ModelsFollow, CacheFollows, Grouped, IndexInverse
<1>4. EditorKnows
  BY <1>1 DEF EditorKnows, SyncFacts, InsertFacts, UpdateFacts, PublishFacts, ForgetFacts, InstallFacts
<1>5. RankingKnows
  BY <1>1 DEF RankingKnows
<1> QED BY <1>2, <1>3, <1>4, <1>5 DEF EntityInv

LEMMA EditorStep ==
  ASSUME EntityInv, RacesKnown, NEW g \in DOMAIN groupCache,
         LET old == groupCache[g] IN
           \/ \E n \in GroupNames \ {old.name} : GroupUpdate(g, n, {}, {}, {}, {})
           \/ \E n \in GroupNames : GroupUpdate(g, old.name, {}, {n}, {}, {})
           \/ \E n \in old.refs : GroupUpdate(g, old.name, {}, {}, {}, {n})
           \/ \E m \in ChannelModels : GroupUpdate(g, old.name, {m}, {}, {}, {})
           \/ \E m \in old.members : GroupUpdate(g, old.name, {}, {}, {m}, {})
           \/ \E m \in old.members \cup {NoMember} : m # old.active /\ GroupActiveItemUpdate(g, m)
           \/ GroupDel(g)
  PROVE  EntityInv'
<1> DEFINE old == groupCache[g]
<1>1. old.name \in EntityNames
  BY DEF EntityInv, CachesFollow, CacheFollows, Grouped, GroupRecs
<1>2. GroupNames \subseteq EntityNames /\ {} \in SUBSET EntityNames
  BY DEF EntityNames
<1>3. ASSUME NEW n \in GroupNames, GroupUpdate(g, n, {}, {}, {}, {}) PROVE EntityInv'
  BY <1>2, <1>3, GroupUpdateStarts
<1>4. ASSUME NEW n \in GroupNames, GroupUpdate(g, old.name, {}, {n}, {}, {}) PROVE EntityInv'
  <2>1. {n} \in SUBSET EntityNames
    BY <1>2
  <2> QED BY <1>1, <1>4, <2>1, GroupUpdateStarts
<1>5. ASSUME NEW n, GroupUpdate(g, old.name, {}, {}, {}, {n}) PROVE EntityInv'
  BY <1>1, <1>2, <1>5, GroupUpdateStarts
<1>6. ASSUME NEW m, GroupUpdate(g, old.name, {m}, {}, {}, {}) PROVE EntityInv'
  BY <1>1, <1>2, <1>6, GroupUpdateStarts
<1>7. ASSUME NEW m, GroupUpdate(g, old.name, {}, {}, {m}, {}) PROVE EntityInv'
  BY <1>1, <1>2, <1>7, GroupUpdateStarts
<1>8. ASSUME NEW m, GroupActiveItemUpdate(g, m) PROVE EntityInv'
  BY <1>8, ActiveItemKeeps
<1>9. ASSUME GroupDel(g) PROVE EntityInv'
  BY <1>9, GroupDelKeeps
<1> QED BY <1>3, <1>4, <1>5, <1>6, <1>7, <1>8, <1>9

LEMMA EntityStep ==
  ASSUME EntityInv, RacesKnown, [EntityNext]_entityVars
  PROVE  EntityInv'
<1>1. ASSUME NEW c, NEW S, ChannelCreate(c, S) PROVE EntityInv'
  BY <1>1, ChannelCreateKeeps
<1>2. ASSUME NEW c, NEW m \in ChannelModels, ChannelUpdate(c, {m}, {}) \/ ChannelUpdate(c, {}, {m}) PROVE EntityInv'
  <2>1. {m} \in SUBSET ChannelModels /\ {} \in SUBSET ChannelModels
    OBVIOUS
  <2> QED BY <1>2, <2>1, ChannelUpdateStarts
<1>3. ASSUME NEW c, ChannelDel(c) PROVE EntityInv'
  BY <1>3, ChannelDelKeeps
<1>4. ASSUME NEW n \in GroupNames, NEW S \in SUBSET ChannelModels, NEW R \in SUBSET GroupNames, GroupCreate(n, S, R)
      PROVE  EntityInv'
  BY <1>4, GroupCreateStarts
<1>5. ASSUME ChannelUpdateTx \/ PublishModels \/ RefreshRead \/ RefreshInstall PROVE EntityInv'
  BY <1>5, ChannelUpdateTxKeeps, PublishModelsKeeps, RefreshReadKeeps, RefreshInstallKeeps
<1>6. ASSUME GroupCreateTx \/ GroupUpdateTx \/ PublishGroup \/ ForgetGroup PROVE EntityInv'
  BY <1>6, GroupCreateTxKeeps, GroupUpdateTxKeeps, PublishGroupKeeps, ForgetGroupKeeps
<1>7. ASSUME NEW m, RankModel(m) PROVE EntityInv'
  BY <1>7, RankModelKeeps
<1>8. ASSUME ReplaceClassify \/ ReplaceTx \/ ReplacePublish \/ Restart PROVE EntityInv'
  BY <1>8, ReplaceClassifyKeeps, ReplaceTxKeeps, ReplacePublishKeeps, RestartKeeps
<1>9. CASE UNCHANGED entityVars
  BY <1>9, RankingAlone DEF entityVars
<1>10. CASE EntityNext
  BY <1>10, <1>1, <1>2, <1>3, <1>4, <1>5, <1>6, <1>7, <1>8, EditorStep DEF EntityNext
<1> QED BY <1>9, <1>10

\* What the relay may rely on when it resolves a group (op/group.go, op/channel.go): no stored
\* member points at a model that is gone, and references name stored groups and form no cycle,
\* for any channels, groups, depth and number of edits, with the races the model lists.
THEOREM GroupsHold == ASSUME RacesKnown PROVE EntitySpec => []GroupsSound
<1>1. EntityInv => GroupsSound
  <2>1. SUFFICES ASSUME StoredSound PROVE RefsSound /\ NoDanglingMember
    BY DEF EntityInv, GroupsSound
  <2>2. ASSUME NEW S \in SUBSET DOMAIN dbGroups, S # {}
        PROVE  \E g \in S : {h \in DOMAIN dbGroups : dbGroups[h].name \in dbGroups[g].refs} \cap S = {}
    <3>1. PICK g \in S : \A h \in S : ~References(g, h)
      BY <2>1, <2>2 DEF StoredSound, NoRefCycle
    <3>2. {h \in DOMAIN dbGroups : dbGroups[h].name \in dbGroups[g].refs} \cap S = {}
      BY <3>1 DEF References
    <3> QED BY <3>2
  <2> QED BY <2>1, <2>2 DEF StoredSound, NamesResolve, RefsSound
<1>2. EntityInv /\ [EntityNext]_entityVars => EntityInv'
  BY EntityStep
<1> QED BY <1>1, <1>2, EntityStarts, PTL DEF EntitySpec

=============================================================================
