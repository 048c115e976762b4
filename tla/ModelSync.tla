----------------------------- MODULE ModelSync -----------------------------
(***************************************************************************)
(* The model list of one channel: SyncModelsTask of internal/task/sync.go  *)
(* reads the upstream's list (helper/fetch.go) and the public catalogue    *)
(* and rewrites the channel's automatic models, while an administrator     *)
(* edits the same list in the console.  Both write the whole list, made    *)
(* from what they read some time before.                                   *)
(*                                                                         *)
(* A row is [source, meta, tools]: meta stands for protocol, window,       *)
(* output limit, modalities and effort, 0 for unknown; tools for the two   *)
(* flags Reasoning and ToolCall, which know no "unknown".                  *)
(***************************************************************************)
EXTENDS Naturals, FiniteSets

CONSTANTS ModelsOf,   \* model names the upstream or the administrator may use
          Matching,   \* the ones that pass the channel's and the global filter
          Fit,        \* the ones that pass the free-tier rule of SyncModelsTask
          Metas,      \* metadata the catalogue may hold, without 0
          Providers,  \* how the list is read: "paged" (Anthropic), "plain"
          MaxPages,   \* pages fetched at most
          MaxSaves    \* bound: saves by the administrator

ASSUME SyncAssumption == Providers \subseteq {"paged", "plain"}

VARIABLES listed,  \* the channel's models: name -> row
          task,    \* the synchronisation: step, snapshot, names and metadata fetched
          form,    \* the list the administrator's page shows, or Closed
          savings  \* number of saves, for the bound
syncVars == <<listed, task, form, savings>>

Absent == [source |-> "none", meta |-> 0, tools |-> FALSE]
Closed == <<>>
Manual(m) == [source |-> "manual", meta |-> m, tools |-> FALSE]
Automatic(m, t) == [source |-> "auto", meta |-> m, tools |-> t]
AutoIn(list) == {n \in ModelsOf : list[n].source = "auto"}
ManualIn(list) == {n \in ModelsOf : list[n].source = "manual"}

\* What the catalogue says of a model: nothing, or an entry that may leave meta out.
NoEntry == [known |-> FALSE, meta |-> 0, tools |-> FALSE]
Entries == {NoEntry} \cup [known : {TRUE}, meta : Metas \cup {0}, tools : BOOLEAN]

Idle == [step |-> "idle", snap |-> Closed, got |-> {}, pages |-> 0,
         info |-> [n \in ModelsOf |-> NoEntry], raced |-> FALSE]

SyncInit ==
  /\ listed \in [ModelsOf -> {Absent, Manual(0), Automatic(0, FALSE)}]
  /\ task = Idle /\ form = Closed /\ savings = 0
-----------------------------------------------------------------------------
(* SyncModelsTask                                                           *)

\* TryLock, then ChannelList: the snapshot everything below is made from.
SyncStart ==
  /\ task.step = "idle"
  /\ \E p \in Providers : task' = [Idle EXCEPT !.step = p, !.snap = listed]
  /\ UNCHANGED <<listed, form, savings>>

\* One page of the Anthropic list; an error of any page ends the fetch, and an empty list
\* falls back to the plain one.
fetchAnthropicModels ==
  /\ task.step = "paged"
  /\ \/ task' = Idle
     \/ \E names \in SUBSET ModelsOf, more \in BOOLEAN :
          LET got == task.got \cup names
          IN task' = [task EXCEPT !.got = got, !.pages = @ + 1,
                        !.step = IF more /\ task.pages + 1 < MaxPages THEN "paged"
                                 ELSE IF got = {} THEN "plain" ELSE "listed"]
  /\ UNCHANGED <<listed, form, savings>>

fetchOpenAIModels ==
  /\ task.step = "plain"
  /\ \/ task' = Idle
     \/ \E names \in SUBSET ModelsOf : task' = [task EXCEPT !.got = names, !.step = "listed"]
  /\ UNCHANGED <<listed, form, savings>>

\* A filter that fails ends the round; an empty list while the channel has automatic models
\* is not believed.
emptyIsSuspect(got, snap) == got = {} /\ AutoIn(snap) # {}

FetchModels ==
  /\ task.step = "listed"
  /\ LET got == task.got \cap Matching
     IN task' \in {Idle, IF emptyIsSuspect(got, task.snap) THEN Idle
                         ELSE [task EXCEPT !.got = got, !.step = "catalog"]}
  /\ UNCHANGED <<listed, form, savings>>

\* The catalogue's entries; a failure leaves none.  Only those of the models that will be
\* rebuilt are looked up.
FetchOpencodeCatalog ==
  /\ task.step = "catalog"
  /\ \E info \in [ModelsOf -> Entries] :
       /\ \A n \in ModelsOf \ (task.got \cap Fit) : info[n] = NoEntry
       /\ task' = [task EXCEPT !.info = info, !.step = "apply"]
  /\ UNCHANGED <<listed, form, savings>>

\* Fault: the catalogue's silence overwrites what was known.
metaFromCatalog(n, snap, info) == info[n].meta

\* What an automatic model is rebuilt with: the catalogue's value, else the old one.
metaOf(n, snap, info) ==
  IF info[n].meta > 0 THEN info[n].meta ELSE IF n \in AutoIn(snap) THEN snap[n].meta ELSE 0
\* The flags are the catalogue's as soon as it has an entry, whether it names them or not.
toolsOf(n, snap, info) ==
  IF info[n].known THEN info[n].tools ELSE n \in AutoIn(snap) /\ snap[n].tools

\* The list to write: the manual models of the snapshot, then the automatic ones.
Rebuilt(snap, got, info) ==
  [n \in ModelsOf |->
     IF n \in ManualIn(snap) THEN snap[n]
     ELSE IF n \in got \cap Fit THEN Automatic(metaOf(n, snap, info), toolsOf(n, snap, info))
     ELSE Absent]

\* ChannelUpdate with Models replaces the rows by name; nothing is written when nothing
\* changed against the snapshot, or when the update fails.
SyncApply ==
  /\ task.step = "apply"
  /\ LET list == Rebuilt(task.snap, task.got, task.info)
     IN listed' \in (IF list = task.snap THEN {listed} ELSE {list, listed})
  /\ task' = Idle
  /\ UNCHANGED <<form, savings>>
-----------------------------------------------------------------------------
(* The channel editor                                                       *)

OpenForm ==
  /\ form = Closed /\ savings < MaxSaves
  /\ form' = listed
  /\ UNCHANGED <<listed, task, savings>>

\* The page sends the list it showed, with a model added by hand or taken away.
SaveForm(n) ==
  /\ form # Closed
  /\ listed' \in {[form EXCEPT ![n] = Manual(0)], [form EXCEPT ![n] = Absent]}
  /\ form' = Closed /\ savings' = savings + 1
  /\ task' = [task EXCEPT !.raced = (task.step # "idle")]

SyncNext ==
  \/ SyncStart \/ fetchAnthropicModels \/ fetchOpenAIModels \/ FetchModels
  \/ FetchOpencodeCatalog \/ SyncApply \/ OpenForm
  \/ \E n \in ModelsOf : SaveForm(n)

SyncSpec == SyncInit /\ [][SyncNext]_syncVars
-----------------------------------------------------------------------------
(* Properties                                                               *)

SyncWrites == task.step = "apply" /\ task'.step = "idle"

\* A synchronisation no save falls into takes no manual model away, forgets no metadata the
\* catalogue is silent about, leaves a model without an entry as it was, flags included, and
\* never empties the list because an answer was empty or an error (sync.go, H-01 and the
\* rebuilding of automatic models).
SyncKeeps ==
  [][SyncWrites /\ ~task.raced =>
       /\ \A n \in ManualIn(listed) : listed'[n] = listed[n]
       /\ \A n \in AutoIn(listed) \cap AutoIn(listed') :
            /\ task.info[n].meta = 0 => listed'[n].meta = listed[n].meta
            /\ ~task.info[n].known => listed'[n] = listed[n]
       /\ task.got = {} => AutoIn(listed) \subseteq AutoIn(listed')]_syncVars

\* A model an administrator listed by hand is taken away by an administrator alone, never by
\* the synchronisation (docs: "Source=manual" rows are not replaced by AutoSync).
ManualKept ==
  [][SyncWrites => \A n \in ManualIn(listed) : listed'[n].source = "manual"]_syncVars
====
