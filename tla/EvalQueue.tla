------------------------------ MODULE EvalQueue ------------------------------
(***************************************************************************)
(* The evaluation queue: the table of tasks (op/model_eval_queue.go) and    *)
(* the schedulers that work on it (eval/scheduler.go), one per process.    *)
(*                                                                         *)
(* With SQLite there is one process and its start takes back every running *)
(* row; a MySQL or Postgres database is shared, and a running row is taken *)
(* back only when its lease has expired.  A process may crash at any step. *)
(***************************************************************************)
EXTENDS Naturals, FiniteSets, FiniteSetsExt

CONSTANTS
  TaskIds,          \* IDs of the tasks, in the order of creation
  Targets,          \* the (channel, model) pairs that can be evaluated
  Processes,        \* the processes of a shared database
  LoneProcess,      \* the process of an SQLite database
  Movers,           \* requests of the console that move a task up
  Deployments,      \* a subset of {"sqlite", "shared"}
  EvalConcurrency,
  SaveFailures,     \* bound: failed writes of a result, per deployment
  MaxEvalCrashes    \* bound: crashes

ASSUME EvalAssumption ==
  /\ LoneProcess \in Processes /\ EvalConcurrency \in Nat \ {0}
  /\ TaskIds \subseteq Nat /\ IsFiniteSet(TaskIds)
  /\ Deployments \subseteq {"sqlite", "shared"}

VARIABLES
  deployment,   \* evalQueueMultiInstance: which kind of database this is
  tasks,         \* the table; "old" is a started_at beyond the lease
  sched,        \* phase of each scheduler
  inflight,     \* Scheduler.inflight
  workers,      \* the live runWorker goroutines: task -> step of executeTask
  moving,       \* what a MoveUp has read before its transaction
  evalFaults    \* save failures and crashes so far

evalVars == <<deployment, tasks, sched, inflight, workers, moving, evalFaults>>

Members == IF deployment = "sqlite" THEN {LoneProcess} ELSE Processes
Running(p) == DOMAIN workers[p]
InState(s) == {t \in TaskIds : tasks[t].st = s}
QueuedBefore(a, b) ==
  tasks[a].pos < tasks[b].pos \/ (tasks[a].pos = tasks[b].pos /\ a < b)

EvalInit ==
  /\ deployment \in Deployments
  /\ tasks = [t \in TaskIds |-> [st |-> "absent", pos |-> 0, target |-> "none", old |-> FALSE]]
  /\ sched = [p \in Processes |-> "down"]
  /\ inflight = [p \in Processes |-> {}]
  /\ workers = [p \in Processes |-> <<>>]
  /\ moving = [m \in Movers |-> <<>>]
  /\ evalFaults = [saves |-> 0, crashes |-> 0]

-----------------------------------------------------------------------------
(* The console. *)

\* withEvalQueueEnqueueLock makes the duplicate check, MAX(position) and the insert one step.
ModelEvalQueueEnqueue(t, target) ==
  /\ tasks[t].st = "absent" /\ \A u \in TaskIds : u < t => tasks[u].st # "absent"
  /\ \A u \in InState("queued") \cup InState("running") : tasks[u].target # target
  /\ LET kept == {tasks[u].pos + 1 : u \in TaskIds \ (InState("absent") \cup InState("deleted"))}
     IN tasks' = [tasks EXCEPT ![t] = [st |-> "queued", target |-> target, old |-> FALSE,
                                     pos |-> IF kept = {} THEN 0 ELSE Max(kept)]]
  /\ UNCHANGED <<deployment, sched, inflight, workers, moving, evalFaults>>

\* The reads of MoveUp happen outside its transaction.
MoveUpRead(m, t) ==
  /\ moving[m] = <<>> /\ t \in InState("queued")
  /\ \E u \in InState("queued") :
       /\ QueuedBefore(u, t)
       /\ \A v \in InState("queued") : QueuedBefore(v, t) => v = u \/ QueuedBefore(v, u)
       /\ moving' = [moving EXCEPT ![m] = <<[id |-> t, pos |-> tasks[t].pos], [id |-> u, pos |-> tasks[u].pos]>>]
  /\ UNCHANGED <<deployment, tasks, sched, inflight, workers, evalFaults>>

MoveUpCommit(m) ==
  /\ moving[m] # <<>>
  /\ LET a == moving[m][1]  b == moving[m][2] IN
     tasks' = IF {a.id, b.id} \subseteq InState("queued")
             THEN [tasks EXCEPT ![a.id].pos = b.pos, ![b.id].pos = a.pos]
             ELSE tasks      \* ErrEvalQueueTaskConflict, rolled back
  /\ moving' = [moving EXCEPT ![m] = <<>>]
  /\ UNCHANGED <<deployment, sched, inflight, workers, evalFaults>>

\* The read before the conditional UPDATE only chooses the error that is reported.
ModelEvalQueueStop(t) ==
  /\ t \in InState("queued")
  /\ tasks' = [tasks EXCEPT ![t].st = "stopped"]
  /\ UNCHANGED <<deployment, sched, inflight, workers, moving, evalFaults>>

ModelEvalQueueClear ==
  /\ InState("queued") # {}
  /\ tasks' = [t \in TaskIds |-> IF t \in InState("queued") THEN [tasks[t] EXCEPT !.st = "deleted"] ELSE tasks[t]]
  /\ UNCHANGED <<deployment, sched, inflight, workers, moving, evalFaults>>

-----------------------------------------------------------------------------
(* Taking tasks and giving them back. *)

\* Fault: rows are given back whatever they have become.
RequeuedBlindly(S) ==
  [t \in TaskIds |-> IF t \in S /\ tasks[t].st \notin {"absent", "deleted"} THEN [tasks[t] EXCEPT !.st = "queued"]
                    ELSE tasks[t]]

Requeued(S) == [t \in TaskIds |-> IF t \in S \cap InState("running") THEN [tasks[t] EXCEPT !.st = "queued"] ELSE tasks[t]]
Expired == {t \in TaskIds : tasks[t].old}

\* Fault: an off-by-one in the number of tasks to take.
PoppedOneMore(need) ==
  {t \in InState("queued") : Cardinality({u \in InState("queued") : QueuedBefore(u, t)}) <= need}

\* The first "need" queued tasks; conditional updates keep only the tasks this process won.
Popped(need) ==
  {t \in InState("queued") : Cardinality({u \in InState("queued") : QueuedBefore(u, t)}) < need}

dispatch(p) ==
  /\ sched[p] = "up"
  /\ LET won == Popped(EvalConcurrency - Cardinality(Running(p))) IN
     /\ won # {}
     /\ tasks' = [t \in TaskIds |-> IF t \in won THEN [tasks[t] EXCEPT !.st = "running", !.old = FALSE] ELSE tasks[t]]
     /\ workers' = [workers EXCEPT ![p] = [t \in DOMAIN @ \cup won |-> IF t \in won THEN "start" ELSE @[t]]]
     /\ inflight' = [inflight EXCEPT ![p] = @ \cup won]
  /\ UNCHANGED <<deployment, sched, moving, evalFaults>>

\* evalTimeout and evalSaveTimeout are shorter than the lease, and a Stop takes seconds: no row
\* expires under a live worker, nor under a Stop that is about to give it back.
LeaseExpires(t) ==
  /\ t \in InState("running") \ Expired
  /\ \A p \in Processes : t \notin Running(p) /\ ~(sched[p] = "stopping" /\ t \in inflight[p])
  /\ tasks' = [tasks EXCEPT ![t].old = TRUE]
  /\ UNCHANGED <<deployment, sched, inflight, workers, moving, evalFaults>>

ModelEvalQueueResetRunning == tasks' = Requeued(Expired)

reapExpiredRunning(p) ==
  /\ sched[p] = "up" /\ Expired \cap InState("running") # {}
  /\ ModelEvalQueueResetRunning
  /\ UNCHANGED <<deployment, sched, inflight, workers, moving, evalFaults>>

ModelEvalQueueResetRunningOnStart ==
  IF deployment = "shared" THEN ModelEvalQueueResetRunning ELSE tasks' = Requeued(TaskIds)

Start(p) ==
  /\ p \in Members /\ sched[p] = "down"
  /\ ModelEvalQueueResetRunningOnStart
  /\ sched' = [sched EXCEPT ![p] = "up"]
  /\ UNCHANGED <<deployment, inflight, workers, moving, evalFaults>>

Stop(p) ==
  /\ sched[p] = "up"
  /\ sched' = [sched EXCEPT ![p] = "stopping"]
  /\ UNCHANGED <<deployment, tasks, inflight, workers, moving, evalFaults>>

ModelEvalQueueRequeueRunning(ids) == tasks' = Requeued(ids)

\* Stop goes on when the loop and every worker have ended.
requeueInflight(p) ==
  /\ sched[p] = "stopping" /\ Running(p) = {}
  /\ ModelEvalQueueRequeueRunning(inflight[p])
  /\ inflight' = [inflight EXCEPT ![p] = {}]
  /\ sched' = [sched EXCEPT ![p] = "down"]
  /\ UNCHANGED <<deployment, workers, moving, evalFaults>>

Crash(p) ==
  /\ sched[p] # "down" /\ evalFaults.crashes < MaxEvalCrashes
  /\ evalFaults' = [evalFaults EXCEPT !.crashes = @ + 1]
  /\ sched' = [sched EXCEPT ![p] = "down"]
  /\ workers' = [workers EXCEPT ![p] = <<>>]
  /\ inflight' = [inflight EXCEPT ![p] = {}]
  /\ UNCHANGED <<deployment, tasks, moving>>

-----------------------------------------------------------------------------
(* The workers. *)

Step(p, t, from, to) ==
  /\ t \in Running(p) /\ workers[p][t] = from
  /\ workers' = [workers EXCEPT ![p][t] = to]
  /\ UNCHANGED <<deployment, tasks, sched, inflight, moving, evalFaults>>

Leaves(p, t) == workers' = [workers EXCEPT ![p] = [u \in DOMAIN @ \ {t} |-> @[u]]]

\* executeTask: the upstream call, the history and the rank (errors there are only logged).
callUpstream(p, t) == sched[p] = "up" /\ Step(p, t, "start", "calling")
saveHistory(p, t) == Step(p, t, "calling", "saved")

\* The worker ends and leaves its row running, for Stop or the lease to take back: the
\* call was canceled, or the row could not be written.
abandon(p, t) ==
  /\ t \in Running(p)
  /\ \/ sched[p] = "stopping" /\ workers[p][t] \in {"start", "calling"} /\ UNCHANGED evalFaults
     \/ /\ evalFaults.saves < SaveFailures[deployment]
        /\ evalFaults' = [evalFaults EXCEPT !.saves = @ + 1]
  /\ Leaves(p, t)
  /\ UNCHANGED <<deployment, tasks, sched, inflight, moving>>

\* ModelEvalQueueMarkDone looks at the ID only; a worker also ends here after a panic at any step.
markDone(p, t) ==
  /\ t \in Running(p)
  /\ tasks' = IF tasks[t].st = "deleted" THEN tasks ELSE [tasks EXCEPT ![t].st = "done"]
  /\ Leaves(p, t)
  /\ inflight' = [inflight EXCEPT ![p] = @ \ {t}]
  /\ UNCHANGED <<deployment, sched, moving, evalFaults>>

EvalNext ==
  \/ \E t \in TaskIds :
       \/ \E target \in Targets : ModelEvalQueueEnqueue(t, target)
       \/ \E m \in Movers : MoveUpRead(m, t)
       \/ ModelEvalQueueStop(t) \/ LeaseExpires(t)
       \/ \E p \in Processes : callUpstream(p, t) \/ saveHistory(p, t) \/ abandon(p, t) \/ markDone(p, t)
  \/ \E m \in Movers : MoveUpCommit(m)
  \/ ModelEvalQueueClear
  \/ \E p \in Processes :
       \/ Start(p) \/ Stop(p) \/ requeueInflight(p) \/ Crash(p)
       \/ dispatch(p) \/ reapExpiredRunning(p)

EvalSpec == EvalInit /\ [][EvalNext]_evalVars

-----------------------------------------------------------------------------
(* Properties. *)

\* The task board a user sees: a task under evaluation is held by the process that evaluates it.
Holder(t) == {p \in Processes : t \in Running(p)}
TheBoard == [t \in TaskIds |->
  CASE tasks[t].st \in {"done", "stopped", "deleted"} -> "ended"
    [] tasks[t].st = "running" /\ Holder(t) = {}      -> "orphan"
    [] tasks[t].st = "running" /\ Holder(t) # {}      -> CHOOSE p \in Holder(t) : TRUE
    [] OTHER                                         -> tasks[t].st]

Board == INSTANCE TaskBoard WITH BoardTasks <- TaskIds, Holders <- Processes, board <- TheBoard

(* The queue implements the task board, whatever crashes, restarts, lease expirations and,   *)
(* in a database of one process, failed writes do: a task that is evaluated is never handed  *)
(* out again (the promise of the conditional updates of PopNext, RequeueRunning and the      *)
(* lease), and an ended one never comes back (ModelEvalQueueMarkDone,                        *)
(* ModelEvalQueueRequeueRunning).  In a shared database it assumes that results are saved.   *)
ImplementsBoard == Board!BoardSpec

(* No evaluation is paid for twice: every worker owns a row that is still marked running, no  *)
(* two workers share one, no two active tasks are for the same channel and model, and a        *)
(* scheduler never runs more workers than EvalConcurrency, across crashes and restarts.      *)
EvalOnce ==
  /\ \A p \in Processes : /\ Running(p) \subseteq InState("running") \cap inflight[p]
                          /\ Cardinality(Running(p)) <= EvalConcurrency
                          /\ \A q \in Processes \ {p} : Running(p) \cap Running(q) = {}
  /\ \A t, u \in InState("queued") \cup InState("running") : tasks[t].target = tasks[u].target => t = u

=============================================================================
