----------------------------- MODULE MCRecords -----------------------------
(***************************************************************************)
(* The parts around the relay that share no state, each explored from its  *)
(* own initial states as in MCRelay: what is recorded (error log,          *)
(* conversations, usage, client addresses, key use), what is configured    *)
(* (channels, groups, keys, backups, synchronised models), the evaluation  *)
(* queue with its ranking, and the life of the process.                    *)
(***************************************************************************)
EXTENDS ErrorLog, Conversation, UsageTrend, ClientStat, KeyTouch, Lifecycle, EntityCache, KeyCache,
        Backup, ModelSync, EvalQueue, EvalRank, TLC

CONSTANTS x, y, z, p1, p2

ErrorClasses == (1 :> "a") @@ (2 :> "b") @@ (3 :> "a")
TenYears == 10 * 365 * 24 + 340
TokenReports == {-1, 1}
ModelChannel == (1 :> "c")
Failing == [d \in Deployments |-> IF d = "sqlite" THEN 1 ELSE 0]
ForeignDumps ==
  {[chans |-> <<[name |-> "y", proxy |-> Mask]>>, mods |-> <<[ch |-> 1, name |-> "m"]>>,
    grps |-> <<"b">>, items |-> <<[grp |-> 1, model |-> 1, ref |-> NoRef]>>,
    settings |-> [interval |-> "set", templates |-> Mask, secret |-> "set"]]}
RankedBatches == {<<x>>, <<y, z>>}
-----------------------------------------------------------------------------
VARIABLE part
Parts == {"log", "conversation", "usage", "client", "touch", "life", "entity", "key", "backup",
          "sync", "eval", "rank"}
recordsVars == <<logVars, convVars, usageVars, clientVars, touchVars, lifeVars, entityVars, keyVars,
                 backupVars, syncVars, evalVars, rankVars, part>>

Init ==
  /\ LogInit /\ ConvInit /\ UsageInit /\ ClientInit /\ TouchInit /\ LifeInit /\ EntityInit
  /\ KeyInit /\ BackupInit /\ SyncInit /\ EvalInit /\ RankInit
  /\ part \in Parts
  \* The initial choices of the parts that rest are fixed.
  /\ part # "conversation" => gz = <<>>
  /\ part # "backup" => dump = NoDump
  /\ part # "sync" => listed = [n \in ModelsOf |-> Absent]
  /\ part # "eval" => deployment = "sqlite"

\* Only the named part moves.
Others(p) ==
  /\ p # "log" => UNCHANGED logVars
  /\ p # "conversation" => UNCHANGED convVars
  /\ p # "usage" => UNCHANGED usageVars
  /\ p # "client" => UNCHANGED clientVars
  /\ p # "touch" => UNCHANGED touchVars
  /\ p # "life" => UNCHANGED lifeVars
  /\ p # "entity" => UNCHANGED entityVars
  /\ p # "key" => UNCHANGED keyVars
  /\ p # "backup" => UNCHANGED backupVars
  /\ p # "sync" => UNCHANGED syncVars
  /\ p # "eval" => UNCHANGED evalVars
  /\ p # "rank" => UNCHANGED rankVars
  /\ UNCHANGED part

\* Bound: the ranking is explored over a history of at most one record, a success of x.
SmallHistory ==
  lastEval <= 1 /\ \A id \in DOMAIN evals : evals[id] = [target |-> x, outcome |-> "ok", made |-> 0]

Next ==
  \/ part = "log" /\ LogNext /\ Others("log")
  \/ part = "conversation" /\ ConvNext /\ Others("conversation")
  \/ part = "usage" /\ UsageNext /\ Others("usage")
  \/ part = "client" /\ ClientNext /\ Others("client")
  \/ part = "touch" /\ TouchNext /\ Others("touch")
  \/ part = "life" /\ LifeNext /\ Others("life")
  \/ part = "entity" /\ EntityNext /\ Others("entity")
  \/ part = "key" /\ KeyNext /\ Others("key")
  \/ part = "backup" /\ BackupNext /\ Others("backup")
  \/ part = "sync" /\ SyncNext /\ Others("sync")
  \/ part = "eval" /\ EvalNext /\ Others("eval")
  \/ part = "rank" /\ RankNext /\ (begun' > 0 => SmallHistory') /\ Others("rank")

Spec == Init /\ [][Next]_recordsVars
====
