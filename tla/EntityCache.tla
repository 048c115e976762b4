----------------------------- MODULE EntityCache -----------------------------
(***************************************************************************)
(* Channels, their models and groups: the tables and the caches the relay  *)
(* reads (op/channel.go, op/group.go, utils/cache).  An admin operation    *)
(* reads the caches and validates, runs one transaction, then publishes to *)
(* the caches; an operation that changes a channel's models ends by        *)
(* reloading every group.  No lock spans these steps.                      *)
(*                                                                         *)
(* Two actors work on the same tables: the editor, who edits channels and  *)
(* groups one request after the other, and the ranking, whose "update auto *)
(* group" replaces the members of the group named AutoName.  Racing lists  *)
(* the editor's operations that may overlap a replacement.                 *)
(*                                                                         *)
(* A group is [name, members, refs, active]: its channel models, the names *)
(* of the groups it references, and the member chosen by hand.  Priorities *)
(* and relay settings are left out; ids are never used twice.              *)
(***************************************************************************)
EXTENDS Naturals, FiniteSets

CONSTANTS
  ChannelModels, ChannelOf, \* model ids, and the channel of each
  GroupIds, GroupNames, AutoName,
  NoMember,
  MaxRefDepth,       \* MaxGroupRefDepth
  Racing,            \* editor operations that may overlap a replacement
  MaxEdits           \* bound: editor operations

ASSUME EntityAssumption == GroupIds \subseteq Nat /\ MaxRefDepth \in Nat \ {0}

VARIABLES
  dbModels, dbGroups, dbRanks,           \* the tables
  modelCache, groupCache, nameIndex,     \* the caches
  editor, ranking,                       \* the step each actor is at
  doing,                                 \* the editor's latest operation
  spentModels, spentGroups, edits

entityVars == <<dbModels, dbGroups, dbRanks, modelCache, groupCache, nameIndex, editor, ranking,
                doing, spentModels, spentGroups, edits>>

Resting == [pc |-> "idle"]
Stored1(f, x, v) == [y \in DOMAIN f \cup {x} |-> IF y = x THEN v ELSE f[y]]
Dropped(f, S) == [y \in DOMAIN f \ S |-> f[y]]
OfChannel(c) == {m \in ChannelModels : ChannelOf[m] = c}
NamesOf(gs) == {gs[g].name : g \in DOMAIN gs}
IndexOf(gs) == [n \in NamesOf(gs) |-> CHOOSE g \in DOMAIN gs : gs[g].name = n]

EntityInit ==
  /\ dbModels = {} /\ modelCache = {} /\ dbRanks = {}
  /\ dbGroups = [g \in {} |-> 0] /\ groupCache = dbGroups /\ nameIndex = IndexOf(dbGroups)
  /\ editor = Resting /\ ranking = Resting
  /\ doing = "create" /\ spentModels = {} /\ spentGroups = {} /\ edits = 0

-----------------------------------------------------------------------------
(* Validation, against the caches.                                         *)

groupsFor(names) == {nameIndex[n] : n \in names \cap DOMAIN nameIndex} \cap DOMAIN groupCache

\* normalizeAndValidateGroupItems: every channel member is a cached channel model.
normalizeAndValidateGroupItems(members) == members \subseteq modelCache

\* walkGroupRefChain marks a group when it first meets it and fails when it meets one again, so it
\* succeeds exactly when the cached groups below the target form a tree, none of them is the edited
\* group, and no chain is longer than the limit.  A name that does not resolve ends its chain.
walkGroupRefChain(target, self, selfName) ==
  LET Layer[d \in 1..MaxRefDepth + 1] ==
        IF d = 1 THEN {target} ELSE UNION {groupsFor(groupCache[g].refs) : g \in Layer[d - 1]}
      met == UNION {Layer[d] : d \in 1..MaxRefDepth}
      parents(g) == {h \in met : g \in groupsFor(groupCache[h].refs)}
  IN /\ Layer[MaxRefDepth + 1] = {}
     /\ \A g \in met : /\ g # self
                       /\ groupCache[g].name # selfName
                       /\ Cardinality(parents(g)) = IF g = target THEN 0 ELSE 1

\* validateGroupReferences: every referenced name resolves and its chain is sound.  `self' is the
\* edited group; a group being created is told by its name.
validateGroupReferences(self, selfName, refs) ==
  \A n \in refs :
    /\ groupsFor({n}) # {}
    /\ walkGroupRefChain(nameIndex[n], self, selfName)

\* firstGroupReferrer: another cached group references the name.
firstGroupReferrer(name, self) ==
  \E g \in DOMAIN groupCache \ {self} : name \in groupCache[g].refs

\* An editor operation may start: it is one request after the other, and only the ones in Racing
\* overlap a replacement.
MayEdit(op) ==
  /\ editor = Resting /\ edits < MaxEdits /\ edits' = edits + 1 /\ doing' = op
  /\ op \in Racing \/ ranking = Resting

entityTables == <<dbModels, dbGroups, dbRanks>>
entityCaches == <<modelCache, groupCache, nameIndex>>
spent == <<spentModels, spentGroups>>

-----------------------------------------------------------------------------
(* Channels.                                                               *)

\* clearActiveItemsByChannelModels, deleteItemsByChannelModels, deleteEvalRanksByChannelModels.
Cascade(gone) ==
  /\ dbGroups' = [g \in DOMAIN dbGroups |->
       [dbGroups[g] EXCEPT !.members = @ \ gone,
                           !.active = IF @ \in gone THEN NoMember ELSE @]]
  /\ dbRanks' = dbRanks \ gone

\* ChannelCreate: the channel and its models are inserted in one statement.
ChannelCreate(c, fresh) ==
  /\ MayEdit("channel")
  /\ OfChannel(c) \cap dbModels = {} /\ fresh # {} /\ fresh \subseteq OfChannel(c) \ spentModels
  /\ dbModels' = dbModels \cup fresh /\ spentModels' = spentModels \cup fresh
  /\ editor' = [pc |-> "models", add |-> fresh, drop |-> {}, reload |-> FALSE]
  /\ UNCHANGED <<dbGroups, dbRanks, entityCaches, spentGroups, ranking>>

\* ChannelUpdate with a model list: the channel must be cached; field checks and sealing come first.
ChannelUpdate(c, fresh, gone) ==
  /\ MayEdit("channel")
  /\ OfChannel(c) \cap modelCache # {} /\ fresh \cup gone # {}
  /\ fresh \subseteq OfChannel(c) \ spentModels /\ gone \subseteq OfChannel(c) \cap dbModels
  /\ editor' = [pc |-> "sync", add |-> fresh, drop |-> gone]
  /\ UNCHANGED <<entityTables, entityCaches, ranking, spent>>

\* syncChannelModels inserts the new names and deletes the ones no longer listed, together with the
\* members and ranks that use them.
syncChannelModels(fresh, gone) ==
  /\ dbModels' = (dbModels \cup fresh) \ gone /\ spentModels' = spentModels \cup fresh
  /\ Cascade(gone)

ChannelUpdateTx ==
  /\ editor.pc = "sync"
  /\ syncChannelModels(editor.add, editor.drop)
  /\ editor' = [pc |-> "models", add |-> editor.add, drop |-> editor.drop, reload |-> TRUE]
  /\ UNCHANGED <<entityCaches, spentGroups, ranking, edits, doing>>

\* ChannelDel.
ChannelDel(c) ==
  LET gone == OfChannel(c) \cap dbModels IN
  /\ MayEdit("channel")
  /\ OfChannel(c) \cap modelCache # {}
  /\ dbModels' = dbModels \ gone
  /\ Cascade(gone)
  /\ editor' = [pc |-> "models", add |-> {}, drop |-> gone, reload |-> TRUE]
  /\ UNCHANGED <<entityCaches, spent, ranking>>

\* The model cache follows the transaction.
PublishModels ==
  /\ editor.pc = "models"
  /\ modelCache' = (modelCache \cup editor.add) \ editor.drop
  /\ editor' = IF editor.reload THEN [pc |-> "reload"] ELSE Resting
  /\ UNCHANGED <<entityTables, groupCache, nameIndex, ranking, spent, edits, doing>>

\* groupRefreshCache reads every group; the read may fail, which is only logged.
RefreshRead ==
  /\ editor.pc = "reload"
  /\ \/ editor' = [pc |-> "install", groups |-> dbGroups]
     \/ editor' = Resting
  /\ UNCHANGED <<entityTables, entityCaches, ranking, spent, edits, doing>>

\* RefreshAll of the groups and of the name index.
RefreshInstall ==
  /\ editor.pc = "install"
  /\ groupCache' = editor.groups /\ nameIndex' = IndexOf(editor.groups)
  /\ editor' = Resting
  /\ UNCHANGED <<entityTables, modelCache, ranking, spent, edits, doing>>

-----------------------------------------------------------------------------
(* Groups: validate and begin, transaction, publish.                       *)

\* The autoincrement key.
nextGroupId == CHOOSE g \in GroupIds \ spentGroups : \A h \in GroupIds \ spentGroups : g <= h

GroupCreate(name, members, refs) ==
  /\ MayEdit("create")
  /\ normalizeAndValidateGroupItems(members)
  /\ validateGroupReferences(NoMember, name, refs)
  /\ editor' = [pc |-> "insert",
                group |-> [name |-> name, members |-> members, refs |-> refs, active |-> NoMember]]
  /\ UNCHANGED <<entityTables, entityCaches, ranking, spent>>

\* The insert: a name that exists fails on the unique index.
GroupCreateTx ==
  /\ editor.pc = "insert"
  /\ \/ /\ editor.group.name \in NamesOf(dbGroups)
        /\ editor' = Resting
        /\ UNCHANGED <<dbGroups, spentGroups>>
     \/ /\ editor.group.name \notin NamesOf(dbGroups)
        /\ GroupIds # spentGroups
        /\ LET g == nextGroupId IN
             /\ dbGroups' = Stored1(dbGroups, g, editor.group) /\ spentGroups' = spentGroups \cup {g}
             /\ editor' = [pc |-> "publish", id |-> g, group |-> editor.group, old |-> editor.group.name]
  /\ UNCHANGED <<dbModels, dbRanks, entityCaches, ranking, spentModels, edits, doing>>

\* GroupUpdate: a rename is refused while another group references the old name; the members that
\* remain plus the new ones are validated.
GroupUpdate(g, name, add, addRefs, del, delRefs) ==
  LET old == groupCache[g] IN
  /\ MayEdit(IF name # old.name THEN "rename" ELSE IF name = AutoName THEN "auto" ELSE "members")
  /\ name # old.name => ~firstGroupReferrer(old.name, g)
  /\ normalizeAndValidateGroupItems(add)
  /\ add \cap (old.members \ del) = {} /\ addRefs \cap (old.refs \ delRefs) = {}
  /\ validateGroupReferences(g, "", (old.refs \ delRefs) \cup addRefs)
  /\ editor' = [pc |-> "update", id |-> g, name |-> name, add |-> add, addRefs |-> addRefs,
                del |-> del, delRefs |-> delRefs, old |-> old.name, rename |-> name # old.name]
  /\ UNCHANGED <<entityTables, entityCaches, ranking, spent>>

\* Its transaction: a name that exists, or a group that is gone, fails it.
GroupUpdateTx ==
  /\ editor.pc = "update"
  /\ LET e == editor
         old == dbGroups[e.id]
         new == [name |-> IF e.rename THEN e.name ELSE old.name,
                 members |-> (old.members \ e.del) \cup e.add,
                 refs |-> (old.refs \ e.delRefs) \cup e.addRefs,
                 active |-> IF old.active \in e.del THEN NoMember ELSE old.active]
     IN IF e.id \in DOMAIN dbGroups /\ ~(e.rename /\ e.name \in NamesOf(dbGroups))
        THEN /\ dbGroups' = [dbGroups EXCEPT ![e.id] = new]
             /\ editor' = [pc |-> "publish", id |-> e.id, group |-> new, old |-> e.old]
        ELSE editor' = Resting /\ UNCHANGED dbGroups
  /\ UNCHANGED <<dbModels, dbRanks, entityCaches, ranking, spent, edits, doing>>

\* GroupActiveItemUpdate: the member is looked up in the cached group; only the column is written, and
\* what is published is the group read before, with the new choice.
GroupActiveItemUpdate(g, m) ==
  /\ MayEdit("active")
  /\ m \in groupCache[g].members \cup {NoMember} /\ g \in DOMAIN dbGroups
  /\ dbGroups' = [dbGroups EXCEPT ![g].active = m]
  /\ editor' = [pc |-> "publish", id |-> g, group |-> [groupCache[g] EXCEPT !.active = m],
                old |-> groupCache[g].name]
  /\ UNCHANGED <<dbModels, dbRanks, entityCaches, ranking, spent>>

\* The operation sets the cached group and its name, and removes a name it no longer has.
PublishGroup ==
  /\ editor.pc = "publish"
  /\ groupCache' = Stored1(groupCache, editor.id, editor.group)
  /\ nameIndex' = Dropped(Stored1(nameIndex, editor.group.name, editor.id),
                          {editor.old} \ {editor.group.name})
  /\ editor' = Resting
  /\ UNCHANGED <<entityTables, modelCache, ranking, spent, edits, doing>>

\* GroupDel: refused while another cached group references it; its items go with it.
GroupDel(g) ==
  /\ MayEdit("delete")
  /\ ~firstGroupReferrer(groupCache[g].name, g)
  /\ dbGroups' = Dropped(dbGroups, {g})
  /\ editor' = [pc |-> "forget", id |-> g, name |-> groupCache[g].name]
  /\ UNCHANGED <<dbModels, dbRanks, entityCaches, ranking, spent>>

ForgetGroup ==
  /\ editor.pc = "forget"
  /\ groupCache' = Dropped(groupCache, {editor.id})
  /\ nameIndex' = Dropped(nameIndex, {editor.name})
  /\ editor' = Resting
  /\ UNCHANGED <<entityTables, modelCache, ranking, spent, edits, doing>>

-----------------------------------------------------------------------------
(* The ranking.                                                            *)

\* A finished evaluation ranks its model.
RankModel(m) ==
  /\ m \in dbModels \ dbRanks /\ dbRanks' = dbRanks \cup {m}
  /\ UNCHANGED <<dbModels, dbGroups, entityCaches, editor, ranking, spent, edits, doing>>

\* GroupReplaceItemsByName reads the ranks and sorts them by the model cache into resolved and stale.
ReplaceClassify ==
  /\ ranking = Resting /\ dbRanks # {}
  /\ editor = Resting \/ doing \in Racing
  /\ ranking' = [pc |-> "tx", resolved |-> dbRanks \cap modelCache, stale |-> dbRanks \ modelCache]
  /\ UNCHANGED <<entityTables, entityCaches, editor, spent, edits, doing>>

\* Fault: the models resolved before the transaction are trusted.
AllModels(resolved) == resolved

\* Its transaction keeps the resolved models that are still in the table.
liveModels(resolved) == resolved \cap dbModels

\* With none left it only deletes the stale ranks.  Otherwise the members are replaced; the group is
\* found by the cached name, created when there is none, and one that is gone, or a name that was
\* taken meanwhile, rolls everything back.
ReplaceTx ==
  /\ ranking.pc = "tx"
  /\ LET live == liveModels(ranking.resolved)
         stale == ranking.stale \cup (ranking.resolved \ live)
         found == AutoName \in DOMAIN nameIndex
         g == IF found THEN nameIndex[AutoName] ELSE nextGroupId
         new == [name |-> IF found THEN dbGroups[g].name ELSE AutoName, members |-> live,
                 refs |-> {}, active |-> NoMember]
         fails == IF found THEN g \notin DOMAIN dbGroups
                  ELSE GroupIds = spentGroups \/ AutoName \in NamesOf(dbGroups)
     IN IF live = {} THEN /\ dbRanks' = dbRanks \ stale /\ ranking' = Resting
                          /\ UNCHANGED <<dbGroups, spentGroups>>
        ELSE IF fails THEN ranking' = Resting /\ UNCHANGED <<dbRanks, dbGroups, spentGroups>>
        ELSE /\ dbRanks' = dbRanks \ stale
             /\ dbGroups' = Stored1(dbGroups, g, new) /\ spentGroups' = spentGroups \cup {g}
             /\ ranking' = [pc |-> "publish", id |-> g, group |-> new]
  /\ UNCHANGED <<dbModels, entityCaches, editor, spentModels, edits, doing>>

ReplacePublish ==
  /\ ranking.pc = "publish"
  /\ groupCache' = Stored1(groupCache, ranking.id, ranking.group)
  /\ nameIndex' = Stored1(nameIndex, ranking.group.name, ranking.id)
  /\ ranking' = Resting
  /\ UNCHANGED <<entityTables, modelCache, editor, spent, edits, doing>>

-----------------------------------------------------------------------------
\* InitCache after a restart: both caches are loaded from the tables.
Restart ==
  /\ edits < MaxEdits /\ edits' = edits + 1
  /\ editor' = Resting /\ ranking' = Resting
  /\ modelCache' = dbModels /\ groupCache' = dbGroups /\ nameIndex' = IndexOf(dbGroups)
  /\ UNCHANGED <<entityTables, spent, doing>>

\* The requests an editor sends: each changes one thing, or creates with at most one member.
AtMostOne(S) == Cardinality(S) <= 1
EntityNext ==
  \/ \E c \in {ChannelOf[m] : m \in ChannelModels}, S \in SUBSET ChannelModels : ChannelCreate(c, S)
  \/ \E c \in {ChannelOf[m] : m \in ChannelModels}, m \in ChannelModels :
       ChannelUpdate(c, {m}, {}) \/ ChannelUpdate(c, {}, {m})
  \/ \E c \in {ChannelOf[m] : m \in ChannelModels} : ChannelDel(c)
  \/ \E n \in GroupNames, S \in SUBSET ChannelModels, R \in SUBSET GroupNames :
       AtMostOne(S) /\ AtMostOne(R) /\ GroupCreate(n, S, R)
  \/ \E g \in DOMAIN groupCache : LET old == groupCache[g] IN
       \/ \E n \in GroupNames \ {old.name} : GroupUpdate(g, n, {}, {}, {}, {})
       \/ \E n \in GroupNames : GroupUpdate(g, old.name, {}, {n}, {}, {})
       \/ \E n \in old.refs : GroupUpdate(g, old.name, {}, {}, {}, {n})
       \/ \E m \in ChannelModels : GroupUpdate(g, old.name, {m}, {}, {}, {})
       \/ \E m \in old.members : GroupUpdate(g, old.name, {}, {}, {m}, {})
       \/ \E m \in old.members \cup {NoMember} : m # old.active /\ GroupActiveItemUpdate(g, m)
       \/ GroupDel(g)
  \/ ChannelUpdateTx \/ PublishModels \/ RefreshRead \/ RefreshInstall
  \/ GroupCreateTx \/ GroupUpdateTx \/ PublishGroup \/ ForgetGroup
  \/ \E m \in ChannelModels : RankModel(m)
  \/ ReplaceClassify \/ ReplaceTx \/ ReplacePublish
  \/ Restart

EntitySpec == EntityInit /\ [][EntityNext]_entityVars

-----------------------------------------------------------------------------
\* No member of a stored group points at a channel model that is gone: channel deletes clean up after
\* themselves, and a replacement that classified its models before a delete must not write them back.
NoDanglingMember == \A g \in DOMAIN dbGroups : dbGroups[g].members \subseteq dbModels

\* Every stored reference names a stored group, and the references form no cycle (some group of every
\* set references none of the set), after any sequence of edits, renames, deletes and reloads.
RefsSound ==
  LET Refd(g) == {h \in DOMAIN dbGroups : dbGroups[h].name \in dbGroups[g].refs} IN
  /\ \A g \in DOMAIN dbGroups : dbGroups[g].refs \subseteq NamesOf(dbGroups)
  /\ \A S \in SUBSET DOMAIN dbGroups : S # {} => \E g \in S : Refd(g) \cap S = {}

\* What the relay may rely on when it resolves a group (group.go, channel.go).
GroupsSound == NoDanglingMember /\ RefsSound
=============================================================================
