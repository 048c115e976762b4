------------------------------- MODULE Backup -------------------------------
(***************************************************************************)
(* Export and incremental import of the database (op/backup.go,            *)
(* handlers/setting.go): the tables of channels, channel models, groups,   *)
(* group items and settings, and what admins do to them between the export *)
(* and the import.  An import runs in one transaction: it analyses the     *)
(* dump against the tables, refuses it whole, or inserts every row whose   *)
(* primary or unique key is free.  Foreign keys are on: a model without    *)
(* its channel, or an item without its group, fails the transaction.       *)
(*                                                                         *)
(* A dump is the last export, or one made by another instance (Foreign).   *)
(* API keys are in KeyCache; client statistics and usage buckets, which    *)
(* nothing references, follow the same insert rule and are left out.       *)
(*                                                                         *)
(* An id that a dump brings moves the counter of its table on, as SQLite   *)
(* and MySQL do.  A sequence of PostgreSQL does not follow, and the code   *)
(* does not set it: that database is outside this module for dumps that    *)
(* bring ids above its sequences, which are dumps of other instances.      *)
(***************************************************************************)
EXTENDS Naturals, FiniteSets

CONSTANTS
  ChannelNames, ModelNames, BackupGroups, \* names
  Foreign,          \* dumps of other instances
  AllowStale,       \* whether a dump older than a rename or a model resync is imported
  MaxId,            \* bound: ids of each table
  MaxLiveOps        \* bound: admin operations and imports

Mask == "****"      \* redactedSecret
NoRef == ""         \* an item that names a model
SettingKeys == {"interval", "templates", "secret"}

VARIABLES
  tables,           \* [chans, mods, grps, items, settings], each a function from ids to rows
  nextIds,          \* the next id of each table
  dump,
  stale,            \* a group was renamed or a model resynced since the export
  liveOps

backupVars == <<tables, nextIds, dump, stale, liveOps>>

NoTable == [i \in {} |-> 0]
RowPut(f, x, v) == [y \in DOMAIN f \cup {x} |-> IF y = x THEN v ELSE f[y]]
RowCut(f, S) == [y \in DOMAIN f \ S |-> f[y]]
Column(f) == {f[i] : i \in DOMAIN f}
GroupNamesIn(t) == Column(t.grps)
RefsOf(t, name) == {t.items[i].ref : i \in {j \in DOMAIN t.items : t.items[j].ref # NoRef /\ t.grps[t.items[j].grp] = name}}
NoDump == [chans |-> NoTable, mods |-> NoTable, grps |-> NoTable, items |-> NoTable, settings |-> NoTable]

\* A graph of names has no cycle: some node of every set points at none of the set.
Acyclic(nodes, edges) == \A S \in SUBSET nodes : S # {} => \E n \in S : edges[n] \cap S = {}
RefGraph(t) == [n \in GroupNamesIn(t) |-> RefsOf(t, n)]

BackupInit ==
  /\ tables = [NoDump EXCEPT !.settings = [k \in SettingKeys |-> "default"]]
  /\ nextIds = [chans |-> 1, mods |-> 1, grps |-> 1, items |-> 1]
  /\ dump \in {NoDump} \cup Foreign /\ stale = FALSE /\ liveOps = 0

-----------------------------------------------------------------------------
(* What admins do, each one transaction (EntityCache has its steps).       *)

Live == liveOps < MaxLiveOps /\ liveOps' = liveOps + 1 /\ UNCHANGED dump
Stales(b) == stale' = (stale \/ b)
IdLeft(T) == \A t \in T : nextIds[t] <= MaxId
Advance(T) == nextIds' = [t \in DOMAIN nextIds |-> IF t \in T THEN nextIds[t] + 1 ELSE nextIds[t]]
ItemsOn(mods) == {i \in DOMAIN tables.items : tables.items[i].model \in mods}

CreateChannel(name, model) ==
  /\ Live /\ Stales(FALSE) /\ IdLeft({"chans", "mods"}) /\ name \notin {r.name : r \in Column(tables.chans)}
  /\ Advance({"chans", "mods"})
  /\ tables' = [tables EXCEPT !.chans = RowPut(@, nextIds.chans, [name |-> name, proxy |-> "p"]),
                              !.mods = RowPut(@, nextIds.mods, [ch |-> nextIds.chans, name |-> model])]

\* A model is taken off its channel and the same or another name is listed: a new row.
ResyncModel(m, name) ==
  /\ Live /\ Stales(TRUE) /\ IdLeft({"mods"}) /\ Advance({"mods"})
  /\ tables' = [tables EXCEPT !.mods = RowPut(RowCut(@, {m}), nextIds.mods, [ch |-> tables.mods[m].ch, name |-> name]),
                              !.items = RowCut(@, ItemsOn({m}))]

DropChannel(c) ==
  LET gone == {m \in DOMAIN tables.mods : tables.mods[m].ch = c} IN
  /\ Live /\ Stales(FALSE) /\ UNCHANGED nextIds
  /\ tables' = [tables EXCEPT !.chans = RowCut(@, {c}), !.mods = RowCut(@, gone),
                              !.items = RowCut(@, ItemsOn(gone))]

CreateGroup(name) ==
  /\ Live /\ Stales(FALSE) /\ IdLeft({"grps"}) /\ name \notin GroupNamesIn(tables) /\ Advance({"grps"})
  /\ tables' = [tables EXCEPT !.grps = RowPut(@, nextIds.grps, name)]

Referenced(g) == \E h \in DOMAIN tables.grps \ {g} : tables.grps[g] \in RefsOf(tables, tables.grps[h])

RenameGroup(g, name) ==
  /\ Live /\ Stales(TRUE) /\ name \notin GroupNamesIn(tables) /\ ~Referenced(g) /\ UNCHANGED nextIds
  /\ tables' = [tables EXCEPT !.grps[g] = name]

DropGroup(g) ==
  /\ Live /\ Stales(FALSE) /\ ~Referenced(g) /\ UNCHANGED nextIds
  /\ tables' = [tables EXCEPT !.grps = RowCut(@, {g}),
                              !.items = RowCut(@, {i \in DOMAIN @ : @[i].grp = g})]

AddItem(g, model, ref) ==
  LET t == [tables EXCEPT !.items = RowPut(@, nextIds.items, [grp |-> g, model |-> model, ref |-> ref])] IN
  /\ Live /\ Stales(FALSE) /\ IdLeft({"items"}) /\ Advance({"items"})
  /\ ref = NoRef \/ Acyclic(GroupNamesIn(t), RefGraph(t))
  /\ tables' = t

DropItem(i) ==
  /\ Live /\ Stales(FALSE) /\ UNCHANGED nextIds
  /\ tables' = [tables EXCEPT !.items = RowCut(@, {i})]

SetSetting(k) ==
  /\ Live /\ Stales(FALSE) /\ tables.settings[k] = "default" /\ UNCHANGED nextIds
  /\ tables' = [tables EXCEPT !.settings[k] = "set"]

-----------------------------------------------------------------------------
\* DBExportAll: one consistent read; proxies and header templates are masked, secrets left out.
filterSecretSettings(s) == RowCut(s, {"secret"})
redactChannel(r) == [r EXCEPT !.proxy = IF @ = "none" THEN @ ELSE Mask]
redactForExport(t) ==
  [t EXCEPT !.chans = [i \in DOMAIN @ |-> redactChannel(@[i])],
            !.settings = [k \in DOMAIN filterSecretSettings(@) |-> IF k = "templates" /\ @[k] = "set" THEN Mask ELSE @[k]]]
DBExportAll ==
  /\ dump' = redactForExport(tables) /\ dump' # dump /\ stale' = FALSE
  /\ UNCHANGED <<tables, nextIds, liveOps>>

\* Group names that will exist: the present ones and the dump's groups whose id is free.
effectiveGroupNames(d) ==
  GroupNamesIn(tables) \cup {d.grps[g] : g \in DOMAIN d.grps \ DOMAIN tables.grps}

\* The reference targets of the dump's models and items exist, or come with the dump.
refsResolve(d) ==
  /\ \A m \in DOMAIN d.mods : d.mods[m].ch \in DOMAIN tables.chans \cup DOMAIN d.chans
  /\ \A i \in DOMAIN d.items :
       /\ d.items[i].model = 0 \/ d.items[i].model \in DOMAIN tables.mods \cup DOMAIN d.mods
       /\ d.items[i].ref = NoRef \/ d.items[i].ref \in effectiveGroupNames(d)

\* detectGroupCycles: the present edges, and under the name the dump has for a group the edges of its
\* items (of an existing group, of its new items).
detectGroupCycles(d) ==
  LET names == GroupNamesIn(tables) \cup GroupNamesIn(d)
      added(n) == {d.items[i].ref : i \in {j \in DOMAIN d.items :
                      /\ d.items[j].ref # NoRef /\ d.grps[d.items[j].grp] = n
                      /\ d.items[j].grp \in DOMAIN tables.grps => j \notin DOMAIN tables.items}}
  IN ~Acyclic(names, [n \in names |-> RefsOf(tables, n) \cup added(n)])

\* Fault: the references are resolved and their cycles not looked for.
AnalyzeRefsOnly(d) == refsResolve(d)

analyzeImport(d) == refsResolve(d) /\ ~detectGroupCycles(d)

\* createDoNothing: rows whose id or unique key is taken are skipped.
createDoNothing(table, rows, clashing) ==
  [i \in DOMAIN table \cup (DOMAIN rows \ clashing) |-> IF i \in DOMAIN table THEN table[i] ELSE rows[i]]
createChannels(d) ==
  createDoNothing(tables.chans, [c \in DOMAIN d.chans |-> [d.chans[c] EXCEPT !.proxy = IF @ = Mask THEN "none" ELSE @]],
                  {c \in DOMAIN d.chans : \E q \in Column(tables.chans) : q.name = d.chans[c].name})
createGroups(d) ==
  createDoNothing(tables.grps, d.grps, {g \in DOMAIN d.grps : d.grps[g] \in GroupNamesIn(tables)})
createModels(d) ==
  createDoNothing(tables.mods, d.mods, {m \in DOMAIN d.mods : d.mods[m] \in Column(tables.mods)})
createItems(d) == createDoNothing(tables.items, d.items, {})

\* Settings are written over, except secrets and a template that was masked whole.
omitUnrestorableSettings(s) == RowCut(s, {k \in DOMAIN s : s[k] = Mask})
createUpsertSettings(d) ==
  LET s == omitUnrestorableSettings(filterSecretSettings(d.settings)) IN
  [k \in SettingKeys |-> IF k \in DOMAIN s THEN s[k] ELSE tables.settings[k]]

\* DBImportIncremental: a dump the analysis accepts is written, unless a foreign key fails, which
\* rolls everything back.
DBImportIncremental(d) ==
  LET t == [chans |-> createChannels(d), mods |-> createModels(d), grps |-> createGroups(d),
            items |-> createItems(d), settings |-> createUpsertSettings(d)]
      top(f, n) == IF \E i \in DOMAIN f : i >= n THEN 1 + CHOOSE i \in DOMAIN f : \A j \in DOMAIN f : j <= i ELSE n
  IN /\ analyzeImport(d)
     /\ \A m \in DOMAIN t.mods : t.mods[m].ch \in DOMAIN t.chans
     /\ \A i \in DOMAIN t.items : t.items[i].grp \in DOMAIN t.grps
     /\ tables' = t
     /\ nextIds' = [chans |-> top(t.chans, nextIds.chans), mods |-> top(t.mods, nextIds.mods),
                    grps |-> top(t.grps, nextIds.grps), items |-> top(t.items, nextIds.items)]

\* The handler decodes the dump and imports it; the caches follow (EntityCache, KeyCache).
importDB ==
  /\ dump # NoDump /\ (AllowStale \/ ~stale) /\ liveOps < MaxLiveOps /\ liveOps' = liveOps + 1
  /\ DBImportIncremental(dump)
  /\ UNCHANGED <<dump, stale>>

BackupNext ==
  \/ \E n \in ChannelNames, m \in ModelNames : CreateChannel(n, m)
  \/ \E m \in DOMAIN tables.mods, n \in ModelNames : ResyncModel(m, n)
  \/ \E c \in DOMAIN tables.chans : DropChannel(c)
  \/ \E n \in BackupGroups : CreateGroup(n) \/ \E g \in DOMAIN tables.grps : RenameGroup(g, n)
  \/ \E g \in DOMAIN tables.grps :
       \/ DropGroup(g)
       \/ \E m \in DOMAIN tables.mods : AddItem(g, m, NoRef)
       \/ \E n \in GroupNamesIn(tables) : AddItem(g, 0, n)
  \/ \E i \in DOMAIN tables.items : DropItem(i)
  \/ \E k \in SettingKeys \ {"secret"} : SetSetting(k)
  \/ DBExportAll \/ importDB

BackupSpec == BackupInit /\ [][BackupNext]_backupVars

-----------------------------------------------------------------------------
\* Whatever was deleted, created or referenced between the export and the import, every member and
\* every reference of the groups resolves afterwards and the references form no cycle.  (It fails when
\* a group was renamed or a model resynced in between.)
ImportSound ==
  /\ \A i \in DOMAIN tables.items : LET r == tables.items[i] IN
       (r.model = 0 \/ r.model \in DOMAIN tables.mods) /\ (r.ref = NoRef \/ r.ref \in GroupNamesIn(tables))
  /\ Acyclic(GroupNamesIn(tables), RefGraph(tables))

\* A masked credential never becomes a stored one: what the export hid is dropped by the import and
\* leaves the present proxies, templates and secrets as they are.
MaskNeverStored ==
  /\ \A c \in DOMAIN tables.chans : tables.chans[c].proxy # Mask
  /\ \A k \in SettingKeys : tables.settings[k] # Mask
  /\ tables.settings.secret = "default"

\* What an import leaves behind (backup.go).
RestoreSound == ImportSound /\ MaskNeverStored
=============================================================================
