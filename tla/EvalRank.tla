------------------------------- MODULE EvalRank -------------------------------
(***************************************************************************)
(* The history of evaluations and the ranking built from it               *)
(* (op/model_eval.go, op/model_eval_prune.go, op/model_eval_rank.go).      *)
(*                                                                         *)
(* A change of the ranking reads and writes in separate statements.  It    *)
(* holds modelEvalRankMu, which belongs to one process: processes on a     *)
(* shared database interleave between the statements, and the deletion of  *)
(* a channel or its models takes entries out with no lock at all.  The     *)
(* history is written with no lock, and pruning reads and deletes in two   *)
(* statements.                                                             *)
(***************************************************************************)
EXTENDS Naturals, Sequences, Functions, FiniteSets, FiniteSetsExt

CONSTANTS
  RankProcesses, \* processes on one database
  RankTargets,   \* (channel, model) pairs
  Batches,       \* targets the console adds at once
  EvalIds,       \* IDs of the history, in the order of creation
  Times,         \* clock readings a record may carry
  KeptEvals,     \* successes kept per target, 3 in the code
  MaxRows,       \* bound: IDs given to entries of the ranking
  MaxChanges     \* bound: changes of the ranking begun

ASSUME RankAssumption ==
  IsFiniteSet(RankTargets) /\ KeptEvals \in Nat /\ Times \subseteq Nat
  /\ \A b \in Batches : b \in Seq(RankTargets) /\ IsInjective(b)

VARIABLES
  evals,         \* the history: ID -> record
  lastEval,      \* the last ID given out
  evalStats,     \* totals per target
  pruning,       \* per process: what its ModelEvalPruneTarget is about to delete
  ranks,         \* the ranking: ID of the row -> [target, place]
  lastRow,       \* the last ID of a row given out
  write,         \* per process: what the holder of its modelEvalRankMu has read and is to write
  begun          \* changes begun

historyVars == <<evals, lastEval, evalStats, pruning>>
rankingVars == <<ranks, lastRow, write, begun>>
rankVars == <<historyVars, rankingVars>>

Success == {"ok", "violation"}
rankableOutcomes == Success \cup {"manual"}
NoWrite == [at |-> "idle"]
Writing == {"create", "replace", "renumber"}

RankInit ==
  /\ evals = <<>> /\ lastEval = 0
  /\ evalStats = [t \in RankTargets |-> 0]
  /\ pruning = [p \in RankProcesses |-> {}]
  /\ ranks = <<>> /\ lastRow = 0
  /\ write = [p \in RankProcesses |-> NoWrite] /\ begun = 0

-----------------------------------------------------------------------------
(* The history. *)

Made(id) == id \in DOMAIN evals
Later(i, j) == evals[i].made > evals[j].made \/ (evals[i].made = evals[j].made /\ i > j)
Successes(t) == {id \in DOMAIN evals : evals[id].target = t /\ evals[id].outcome \in Success}
Newest(S) == {id \in S : Cardinality({j \in S : Later(j, id)}) < KeptEvals}

\* IDs grow; the time is the clock of the process that inserts.
ModelEvalCreate(id, t, outcome, now) ==
  /\ id \in EvalIds /\ id = lastEval + 1 /\ lastEval' = id
  /\ evals' = [j \in DOMAIN evals \cup {id} |->
                 IF j = id THEN [target |-> t, outcome |-> outcome, made |-> now] ELSE evals[j]]
  /\ evalStats' = [evalStats EXCEPT ![t] = @ + 1]

\* A worker, or the console's runModelEval, records its evaluation.
recordEval(t, outcome) ==
  /\ \E id \in EvalIds, now \in Times : ModelEvalCreate(id, t, outcome, now)
  /\ UNCHANGED <<pruning, rankingVars>>

ModelEvalPruneTarget(p, t) ==
  /\ pruning[p] = {}
  /\ Successes(t) \ Newest(Successes(t)) # {}
  /\ pruning' = [pruning EXCEPT ![p] = Successes(t) \ Newest(Successes(t))]
  /\ UNCHANGED <<evals, lastEval, evalStats, rankingVars>>

pruneStale(p) ==
  /\ pruning[p] # {}
  /\ evals' = [id \in DOMAIN evals \ pruning[p] |-> evals[id]]
  /\ pruning' = [pruning EXCEPT ![p] = {}]
  /\ UNCHANGED <<lastEval, evalStats, rankingVars>>

ModelEvalClearFailures ==
  /\ \E id \in DOMAIN evals : evals[id].outcome = "error"
  /\ evals' = [id \in {j \in DOMAIN evals : evals[j].outcome # "error"} |-> evals[id]]
  /\ UNCHANGED <<lastEval, evalStats, pruning, rankingVars>>

-----------------------------------------------------------------------------
(* The ranking: what is read.  "seen" are the places at the last reading of a write.       *)

RankRows == DOMAIN ranks
placesNow == [r \in RankRows |-> ranks[r].place]
Ranked == {ranks[r].target : r \in RankRows}
nextRankablePosition == IF RankRows = {} THEN 0 ELSE Max({ranks[r].place : r \in RankRows}) + 1

\* The order of the list: place, then ID.
Precedes(R, a, b) == R[a].place < R[b].place \/ (R[a].place = R[b].place /\ a < b)
Place(S, r) == Cardinality({x \in S : Precedes(ranks, x, r)})

\* A target that has no entry yet is appended; an entry that exists keeps the place read now.
ModelEvalRankUpsert(p, id) ==
  /\ write[p] = NoWrite
  /\ Made(id) /\ evals[id].outcome \in rankableOutcomes
  /\ \/ /\ evals[id].target \notin Ranked
        /\ write' = [write EXCEPT ![p] = [at |-> "append", new |-> <<evals[id].target>>]]
     \/ \E row \in RankRows :
          /\ ranks[row].target = evals[id].target
          /\ write' = [write EXCEPT ![p] =
               [at |-> "replace", row |-> row, place |-> ranks[row].place, seen |-> placesNow]]
  /\ begun' = begun + 1
  /\ UNCHANGED <<historyVars, ranks, lastRow>>

\* The console puts a record of the history back into the ranking.
ModelEvalRankFromHistory(p, id) == ModelEvalRankUpsert(p, id)

\* The part of a batch that has no entry, in the order of the request.
ModelEvalRankManualAdd(p, new) ==
  /\ write[p] = NoWrite
  /\ \A i \in DOMAIN new : new[i] \notin Ranked
  /\ write' = [write EXCEPT ![p] = [at |-> "append", new |-> new]]
  /\ begun' = begun + 1
  /\ UNCHANGED <<historyVars, ranks, lastRow>>

readNextPosition(p) ==
  /\ write[p].at = "append"
  /\ write' = [write EXCEPT ![p] = [at |-> "create", new |-> write[p].new,
                                    next |-> nextRankablePosition, seen |-> placesNow]]
  /\ UNCHANGED <<historyVars, ranks, lastRow, begun>>

\* Fault: the entry at the place of insertion is not shifted.
NumberedOneOff(row, next) ==
  [r \in RankRows |->
     LET place == Place(RankRows \ {row}, r) IN
     IF r = row THEN next ELSE IF place <= next THEN place ELSE place + 1]

\* The entry leaves the list and is inserted at place "next"; the list is numbered from 0.
Numbered(row, next) ==
  [r \in RankRows |->
     LET place == Place(RankRows \ {row}, r) IN
     IF r = row THEN next ELSE IF place < next THEN place ELSE place + 1]

modelEvalRankReorder(p, row, next) ==
  /\ write[p] = NoWrite
  /\ row \in RankRows /\ next < Cardinality(RankRows)
  /\ write' = [write EXCEPT ![p] = [at |-> "renumber", places |-> Numbered(row, next), seen |-> placesNow]]
  /\ begun' = begun + 1
  /\ UNCHANGED <<historyVars, ranks, lastRow>>

ModelEvalRankMoveUp(p, row) ==
  /\ row \in RankRows /\ Place(RankRows, row) > 0
  /\ modelEvalRankReorder(p, row, Place(RankRows, row) - 1)
ModelEvalRankMoveDown(p, row) ==
  row \in RankRows /\ modelEvalRankReorder(p, row, Place(RankRows, row) + 1)
ModelEvalRankSetPosition(p, row, position) ==
  modelEvalRankReorder(p, row, Min({position, Cardinality(RankRows)}) - 1)

-----------------------------------------------------------------------------
(* The ranking: what is written. *)

\* One INSERT of all new rows: the unique index on the target refuses it whole.
createRows(p) ==
  LET w == write[p] IN
  /\ w.at = "create" /\ Ranked \cap Range(w.new) = {}
  /\ lastRow' = lastRow + Len(w.new)
  /\ ranks' = [r \in RankRows \cup (lastRow + 1)..(lastRow + Len(w.new)) |->
                 IF r \in RankRows THEN ranks[r]
                 ELSE [target |-> w.new[r - lastRow], place |-> w.next + (r - lastRow) - 1]]
  /\ write' = [write EXCEPT ![p] = NoWrite]
  /\ UNCHANGED <<historyVars, begun>>

\* The snapshot is replaced by ID, with the place read before; nothing happens to a row that is gone.
replaceRow(p) ==
  LET w == write[p] IN
  /\ w.at = "replace"
  /\ ranks' = [r \in RankRows |-> IF r = w.row THEN [ranks[r] EXCEPT !.place = w.place] ELSE ranks[r]]
  /\ write' = [write EXCEPT ![p] = NoWrite]
  /\ UNCHANGED <<historyVars, lastRow, begun>>

\* The transaction commits: it updates the rows whose place is not the one it read.
renumberRows(p) ==
  LET w == write[p] IN
  /\ w.at = "renumber"
  /\ ranks' = [r \in RankRows |->
       IF r \in DOMAIN w.places /\ w.places[r] # w.seen[r]
       THEN [ranks[r] EXCEPT !.place = w.places[r]] ELSE ranks[r]]
  /\ write' = [write EXCEPT ![p] = NoWrite]
  /\ UNCHANGED <<historyVars, lastRow, begun>>

\* A statement fails, or the unique index refuses the rows.
rankWriteFails(p) ==
  /\ write[p] # NoWrite
  /\ write' = [write EXCEPT ![p] = NoWrite]
  /\ UNCHANGED <<historyVars, ranks, lastRow, begun>>

ModelEvalRankRemove(p, row) ==
  /\ write[p] = NoWrite /\ row \in RankRows
  /\ ranks' = Restrict(ranks, RankRows \ {row})
  /\ UNCHANGED <<historyVars, lastRow, write, begun>>

\* Models of a channel are deleted, or a replacement of the auto group drops stale entries: the
\* first takes no lock.
deleteEvalRanks(S) ==
  /\ S # {}
  /\ ranks' = Restrict(ranks, RankRows \ S)
  /\ UNCHANGED <<historyVars, lastRow, write, begun>>

HistoryNext ==
  \/ \E t \in RankTargets, o \in Success \cup {"error"} : recordEval(t, o)
  \/ \E p \in RankProcesses : pruneStale(p) \/ \E t \in RankTargets : ModelEvalPruneTarget(p, t)
  \/ ModelEvalClearFailures

RankingBegins(p) ==
  \/ \E id \in EvalIds : ModelEvalRankUpsert(p, id) \/ ModelEvalRankFromHistory(p, id)
  \/ \E b \in Batches : ModelEvalRankManualAdd(p, b)
  \/ \E row \in RankRows :
       \/ ModelEvalRankMoveUp(p, row) \/ ModelEvalRankMoveDown(p, row)
       \/ \E position \in 1..Cardinality(RankRows) + 1 : ModelEvalRankSetPosition(p, row, position)

RankingGoesOn(p) ==
  \/ readNextPosition(p)
  \/ createRows(p) /\ lastRow' <= MaxRows
  \/ replaceRow(p) \/ renumberRows(p) \/ rankWriteFails(p)
  \/ \E row \in RankRows : ModelEvalRankRemove(p, row)

RankNext ==
  \/ HistoryNext
  \/ \E p \in RankProcesses : (begun < MaxChanges /\ RankingBegins(p)) \/ RankingGoesOn(p)
  \/ \E S \in SUBSET RankRows : deleteEvalRanks(S)

RankSpec == RankInit /\ [][RankNext]_rankVars

-----------------------------------------------------------------------------
\* A place was taken or changed since the process read the ranking.
Overtaken(p) ==
  /\ write[p].at \in Writing
  /\ \E r \in RankRows : r \notin DOMAIN write[p].seen \/ ranks[r].place # write[p].seen[r]

NoPlaceTwice(R) == \A a, b \in DOMAIN R : R[a].place = R[b].place => a = b

\* All entries but one stand in the list in the order in which they stood.
OneMoves ==
  \E m \in RankRows \cup RankRows' \cup {0} : \A a, b \in (RankRows \cap RankRows') \ {m} :
    Precedes(ranks, a, b) <=> Precedes(ranks', a, b)

(* A write of the ranking that no other process overtook moves at most one entry: all others   *)
(* keep their order, over gaps and ties that were there before.  It gives no place twice, and  *)
(* a renumbering takes away the places that were given twice (modelEvalRankReorder,            *)
(* ModelEvalRankUpsert, ModelEvalRankManualAdd), whatever a deletion with no lock removed      *)
(* between its reading and its writing.                                                        *)
WriteIsSound ==
  (\A p \in RankProcesses : write'[p] # write[p] => ~Overtaken(p)) =>
    /\ OneMoves
    /\ NoPlaceTwice(ranks) => NoPlaceTwice(ranks')
    /\ \A p \in RankProcesses :
         write[p].at = "renumber" /\ write'[p] # write[p] /\ ranks' # ranks => NoPlaceTwice(ranks')

RankingStable == [][WriteIsSound]_rankVars

(* What a pruning has read and is about to delete is never among the newest successes of a     *)
(* target, whatever is recorded, cleared or pruned beside it (ModelEvalPruneTarget).           *)
HistoryKeepsNewest ==
  \A p \in RankProcesses, t \in RankTargets : pruning[p] \cap Newest(Successes(t)) = {}

(* Both, for the run: a write moves one entry and gives no place twice unless it was overtaken *)
(* (op/model_eval_rank.go), and the history keeps its newest (op/model_eval_prune.go).         *)
RankSound == RankingStable /\ []HistoryKeepsNewest
=============================================================================
