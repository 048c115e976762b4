--------------------------- MODULE EvalQueueProofs ---------------------------
(***************************************************************************)
(* Proofs about EvalQueue: an evaluation is paid for once, and the queue   *)
(* with its schedulers implements TaskBoard.                               *)
(*                                                                         *)
(* Both need that a write of a result does not fail in a shared database   *)
(* (SharedSavesSucceed).  Without it a scheduler keeps the id of a row it  *)
(* gave up, the lease of that row ends, another process takes it, and the  *)
(* first one gives it back when it stops.                                  *)
(*                                                                         *)
(* And about EvalRank, where the results go: what a change of the ranking  *)
(* that no other process overtook leaves alone, and what a pruning of the  *)
(* history keeps.                                                          *)
(***************************************************************************)
EXTENDS EvalQueue, EvalRank, FiniteSetTheorems, FunctionTheorems, TLAPS

SharedSavesSucceed == "shared" \in Deployments => SaveFailures["shared"] = 0

Statuses == {"absent", "queued", "running", "stopped", "deleted", "done"}
Rows == [st : Statuses, pos : Nat, target : Targets \cup {"none"}, old : BOOLEAN]
Move == [id : TaskIds, pos : Nat]

\* The types of the variables; a table of workers is a function on the tasks that run.
EvalTypeOK ==
  /\ deployment \in Deployments
  /\ tasks \in [TaskIds -> Rows]
  /\ sched \in [Processes -> {"down", "up", "stopping"}]
  /\ inflight \in [Processes -> SUBSET TaskIds]
  /\ workers = [p \in Processes |-> workers[p]]
  /\ \A p \in Processes : Running(p) \subseteq TaskIds
  /\ moving = [m \in Movers |-> moving[m]]
  /\ \A m \in Movers : moving[m] # <<>> => moving[m][1] \in Move /\ moving[m][2] \in Move
  /\ evalFaults \in [saves : Nat, crashes : Nat]

\* A process that is down has no workers and tracks no row, and SQLite has one process.
Resting ==
  \A p \in Processes :
    /\ sched[p] = "down" => Running(p) = {} /\ inflight[p] = {}
    /\ deployment = "sqlite" /\ p # LoneProcess => sched[p] = "down"

\* A worker's row is running, tracked by its process, and its lease has not ended.
Owned ==
  \A p \in Processes : Running(p) \subseteq (InState("running") \ Expired) \cap inflight[p]

\* No two processes work on one row.
Apart == \A p, q \in Processes : p # q => Running(p) \cap Running(q) = {}

\* In a shared database a process tracks only its own rows, running and within their lease, so
\* that its Stop gives back nothing another process works on.
Tracked ==
  deployment = "shared" =>
    \A p \in Processes :
      /\ inflight[p] \subseteq InState("running") \ Expired
      /\ sched[p] = "up" => inflight[p] = Running(p)
      /\ \A q \in Processes : q # p => inflight[p] \cap inflight[q] = {}

Active == InState("queued") \cup InState("running")

\* One active task per channel and model.
OnePerTarget == \A t, u \in Active : tasks[t].target = tasks[u].target => t = u

\* A scheduler keeps to its number of workers.
WithinConcurrency == \A p \in Processes : Cardinality(Running(p)) <= EvalConcurrency

\* The part of the invariant that every action is checked against at once; the limit of the
\* workers is a separate argument, about cardinalities.
EInv == EvalTypeOK /\ Resting /\ Owned /\ Apart /\ Tracked /\ OnePerTarget

-----------------------------------------------------------------------------
(* Positions and the order of the queue *)

\* A finite set of natural numbers that is not empty has a largest element: otherwise take a
\* smallest subset without one.
LEMMA FiniteHasMax ==
  ASSUME NEW S, S \subseteq Nat, IsFiniteSet(S), S # {}
  PROVE  Max(S) \in S /\ Max(S) \in Nat /\ \A x \in S : x <= Max(S)
<1> DEFINE HasMax(U) == \E x \in U : \A y \in U : x >= y
           Bad == {U \in SUBSET S : U # {} /\ ~HasMax(U)}
<1>1. SUFFICES Bad = {}
  <2>1. HasMax(S)
    BY <1>1
  <2>2. Max(S) \in S /\ \A y \in S : Max(S) >= y
    BY <2>1 DEF Max
  <2> QED
    BY <2>2
<1>2. SUFFICES ASSUME Bad # {} PROVE FALSE
  OBVIOUS
<1>3. Bad \subseteq FiniteSubsetsOf(S)
  BY FS_FiniteSubsetsOfFinite
<1>4. PICK U \in Bad : \A V \in Bad : ~(<<V, U>> \in StrictSubsetOrdering(S))
  <2> HIDE DEF Bad
  <2> QED
    BY <1>2, <1>3, FS_StrictSubsetOrderingWellFounded, WFMin
<1>5. PICK x \in U : TRUE
  BY <1>4
<1>6. \A V : V \subseteq U /\ V # U /\ V # {} => HasMax(V)
  BY <1>4 DEF StrictSubsetOrdering
<1>7. CASE U \ {x} = {}
  BY <1>4, <1>5, <1>7
<1>8. CASE U \ {x} # {}
  <2>1. PICK y \in U \ {x} : \A z \in U \ {x} : y >= z
    BY <1>6, <1>8, <1>5
  <2>2. x \in Nat /\ y \in Nat /\ U \subseteq Nat
    BY <1>4, <1>5, <2>1
  <2>3. HasMax(U)
    <3>1. CASE x >= y
      BY <3>1, <2>1, <2>2, <1>5
    <3>2. CASE ~(x >= y)
      BY <3>2, <2>1, <2>2, <1>5
    <3> QED
      BY <3>1, <3>2
  <2> QED
    BY <2>3, <1>4
<1> QED
  BY <1>7, <1>8

\* The queue is totally ordered: by position, then by id.
LEMMA QueueOrdered ==
  ASSUME EvalTypeOK, NEW t \in TaskIds, NEW u \in TaskIds
  PROVE  /\ t # u => QueuedBefore(t, u) \/ QueuedBefore(u, t)
         /\ ~QueuedBefore(t, t)
         /\ \A v \in TaskIds : QueuedBefore(v, t) /\ QueuedBefore(t, u) => QueuedBefore(v, u)
<1>1. \A v \in TaskIds : v \in Nat /\ tasks[v].pos \in Nat
  BY EvalAssumption DEF EvalTypeOK, Rows
<1> QED
  BY <1>1 DEF QueuedBefore

\* A pop takes no more tasks than are asked for: the number of tasks before a task tells the
\* tasks apart (ModelEvalQueuePopNext with a limit).
LEMMA PoppedBound ==
  ASSUME EvalTypeOK, NEW need \in Int
  PROVE  /\ IsFiniteSet(Popped(need))
         /\ Cardinality(Popped(need)) <= IF need > 0 THEN need ELSE 0
<1> DEFINE Before(t) == {u \in InState("queued") : QueuedBefore(u, t)}
           rank == [t \in Popped(need) |-> Cardinality(Before(t))]
<1>1. IsFiniteSet(InState("queued"))
  BY FS_Subset, EvalAssumption DEF InState
<1>2. \A t : IsFiniteSet(Before(t)) /\ Cardinality(Before(t)) \in Nat
  BY <1>1, FS_Subset, FS_CardinalityType
<1>3. Popped(need) \subseteq InState("queued") /\ Popped(need) \subseteq TaskIds
  BY DEF Popped, InState
<1>4. \A t, u \in Popped(need) : QueuedBefore(t, u) => Cardinality(Before(t)) < Cardinality(Before(u))
  <2> SUFFICES ASSUME NEW t \in Popped(need), NEW u \in Popped(need), QueuedBefore(t, u)
               PROVE  Cardinality(Before(t)) < Cardinality(Before(u))
    OBVIOUS
  <2>1. InState("queued") \subseteq TaskIds
    BY DEF InState
  <2>2. Before(t) \subseteq Before(u)
    BY <1>3, <2>1, QueueOrdered
  <2>3. t \in Before(u) /\ t \notin Before(t)
    BY <1>3, QueueOrdered
  <2>4. Cardinality(Before(t)) <= Cardinality(Before(u)) /\ Cardinality(Before(t)) # Cardinality(Before(u))
    BY <1>2, <2>2, <2>3, FS_Subset
  <2> QED
    BY <2>4, <1>2
<1>5. rank \in [Popped(need) -> 0..(need - 1)]
  <2>1. \A t \in Popped(need) : Cardinality(Before(t)) < need
    BY DEF Popped
  <2> QED
    BY <2>1, <1>2
<1>6. \A t, u \in Popped(need) : rank[t] = rank[u] => t = u
  <2> SUFFICES ASSUME NEW t \in Popped(need), NEW u \in Popped(need), rank[t] = rank[u], t # u
               PROVE  FALSE
    OBVIOUS
  <2>1. QueuedBefore(t, u) \/ QueuedBefore(u, t)
    BY <1>3, QueueOrdered
  <2>2. Cardinality(Before(t)) = Cardinality(Before(u))
    OBVIOUS
  <2> QED
    BY <2>1, <2>2, <1>4, <1>2
<1>7. rank \in Injection(Popped(need), 0..(need - 1))
  <2> HIDE DEF rank
  <2> QED
    BY <1>5, <1>6, Fun_IsInj
<1>8. IsFiniteSet(0..(need - 1)) /\ Cardinality(0..(need - 1)) = IF 0 > need - 1 THEN 0 ELSE need
  BY FS_Interval
<1> HIDE DEF rank
<1>9. IsFiniteSet(Popped(need)) /\ Cardinality(Popped(need)) <= Cardinality(0..(need - 1))
  BY <1>7, <1>8, FS_Injection
<1> QED
  BY <1>8, <1>9

-----------------------------------------------------------------------------
(* The invariant, one lemma per group of actions *)

\* A move up exchanges positions and nothing else (ModelEvalQueueMoveUp).
LEMMA MoveUpFields ==
  ASSUME EvalTypeOK, NEW m \in Movers, MoveUpCommit(m)
  PROVE  /\ tasks' \in [TaskIds -> Rows]
         /\ \A t \in TaskIds : /\ tasks'[t].st = tasks[t].st /\ tasks'[t].old = tasks[t].old
                              /\ tasks'[t].target = tasks[t].target
<1>0. moving[m][1] \in Move /\ moving[m][2] \in Move
  BY DEF MoveUpCommit, EvalTypeOK
<1> DEFINE a == moving[m][1]
           b == moving[m][2]
<1>1. a.id \in TaskIds /\ b.id \in TaskIds /\ a.pos \in Nat /\ b.pos \in Nat
  BY <1>0 DEF Move
<1>2. tasks' = tasks \/ tasks' = [tasks EXCEPT ![a.id].pos = b.pos, ![b.id].pos = a.pos]
  BY DEF MoveUpCommit
<1> HIDE DEF a, b
<1> DEFINE Same(f) == /\ f \in [TaskIds -> Rows]
                      /\ \A t \in TaskIds : /\ f[t].st = tasks[t].st /\ f[t].old = tasks[t].old
                                           /\ f[t].target = tasks[t].target
           half == [tasks EXCEPT ![a.id].pos = b.pos]
<1>3. \A f, i, n : Same(f) /\ i \in TaskIds /\ n \in Nat => Same([f EXCEPT ![i].pos = n])
  <2> SUFFICES ASSUME NEW f, Same(f), NEW i \in TaskIds, NEW n \in Nat
               PROVE  Same([f EXCEPT ![i].pos = n])
    OBVIOUS
  <2>1. f[i] \in Rows /\ [f[i] EXCEPT !.pos = n] \in Rows
    BY DEF Rows
  <2> QED
    BY <2>1 DEF Rows
<1>4. Same(tasks)
  BY DEF EvalTypeOK
<1>5. Same(half)
  BY <1>1, <1>3, <1>4
<1>6. Same([half EXCEPT ![b.id].pos = a.pos])
  <2> HIDE DEF half, Same
  <2> QED
    BY <1>1, <1>3, <1>5
<1>7. tasks' = tasks \/ tasks' = [half EXCEPT ![b.id].pos = a.pos]
  BY <1>2
<1> HIDE DEF half
<1> QED
  BY <1>4, <1>6, <1>7

\* The console: a task enters the queue once its target is free, and moves, stops and clears
\* touch queued rows only (ModelEvalQueueEnqueue, MoveUp, Stop, Clear).
LEMMA ConsoleKeeps ==
  ASSUME EInv,
         \/ \E t \in TaskIds, target \in Targets : ModelEvalQueueEnqueue(t, target)
         \/ \E m \in Movers, t \in TaskIds : MoveUpRead(m, t)
         \/ \E m \in Movers : MoveUpCommit(m)
         \/ \E t \in TaskIds : ModelEvalQueueStop(t)
         \/ ModelEvalQueueClear
  PROVE  EInv'
<1> USE DEF EInv
<1>1. ASSUME NEW t \in TaskIds, NEW target \in Targets, ModelEvalQueueEnqueue(t, target)
      PROVE  EInv'
  <2> DEFINE kept == {tasks[u].pos + 1 : u \in TaskIds \ (InState("absent") \cup InState("deleted"))}
             pos == IF kept = {} THEN 0 ELSE Max(kept)
  <2>1. pos \in Nat
    <3>1. kept \subseteq Nat
      BY DEF EvalTypeOK, Rows
    <3>2. IsFiniteSet(kept)
      <4>1. IsFiniteSet(TaskIds \ (InState("absent") \cup InState("deleted")))
        BY EvalAssumption, FS_Difference
      <4> DEFINE D == TaskIds \ (InState("absent") \cup InState("deleted"))
                 next == [u \in D |-> tasks[u].pos + 1]
      <4>2. next \in [D -> kept] /\ \A n \in kept : \E u \in D : next[u] = n
        OBVIOUS
      <4>3. next \in Surjection(D, kept)
        <5> HIDE DEF next, D, kept
        <5> QED
          BY <4>2, Fun_IsSurj
      <4> HIDE DEF next, kept
      <4> QED
        BY <4>1, <4>3, FS_Surjection
    <3> QED
      BY <3>1, <3>2, FiniteHasMax
  <2>2. tasks' = [tasks EXCEPT ![t] = [st |-> "queued", target |-> target, old |-> FALSE, pos |-> pos]]
    BY <1>1 DEF ModelEvalQueueEnqueue
  <2> HIDE DEF pos
  <2>3. EvalTypeOK'
    <3>1. tasks' \in [TaskIds -> Rows]
      BY <2>1, <2>2 DEF EvalTypeOK, Rows, Statuses
    <3>2. UNCHANGED <<deployment, sched, inflight, workers, moving, evalFaults>>
      BY <1>1 DEF ModelEvalQueueEnqueue
    <3> QED
      BY <3>1, <3>2 DEF EvalTypeOK, Running
  <2>4. \A u \in TaskIds : u # t => tasks'[u] = tasks[u]
    BY <2>2 DEF EvalTypeOK
  <2>5. tasks[t].st = "absent" /\ tasks'[t].st = "queued" /\ tasks'[t].old = FALSE /\ tasks'[t].target = target
    BY <1>1, <2>2 DEF ModelEvalQueueEnqueue, EvalTypeOK
  <2>6. Resting' /\ Owned' /\ Apart' /\ Tracked'
    BY <1>1, <2>4, <2>5 DEF ModelEvalQueueEnqueue, Resting, Owned, Apart, Tracked, Running, InState, Expired
  <2>7. OnePerTarget'
    BY <1>1, <2>4, <2>5 DEF ModelEvalQueueEnqueue, OnePerTarget, Active, InState
  <2> QED
    BY <2>3, <2>6, <2>7
<1>2. ASSUME NEW m \in Movers, NEW t \in TaskIds, MoveUpRead(m, t)
      PROVE  EInv'
  <2>1. UNCHANGED <<deployment, tasks, sched, inflight, workers, evalFaults>>
    BY <1>2 DEF MoveUpRead
  <2>2. PICK u \in InState("queued") :
          moving' = [moving EXCEPT ![m] = <<[id |-> t, pos |-> tasks[t].pos], [id |-> u, pos |-> tasks[u].pos]>>]
    BY <1>2 DEF MoveUpRead
  <2>3. [id |-> t, pos |-> tasks[t].pos] \in Move /\ [id |-> u, pos |-> tasks[u].pos] \in Move
    BY DEF EvalTypeOK, Rows, Move, InState
  <2>4. /\ moving' = [n \in Movers |-> moving'[n]]
        /\ \A n \in Movers : moving'[n] # <<>> => moving'[n][1] \in Move /\ moving'[n][2] \in Move
    BY <2>2, <2>3 DEF EvalTypeOK
  <2>5. EvalTypeOK'
    BY <2>1, <2>4 DEF EvalTypeOK, Running
  <2> QED
    BY <2>1, <2>5 DEF Resting, Owned, Apart, Tracked, OnePerTarget, Active, Running, InState, Expired
<1>3. ASSUME NEW m \in Movers, MoveUpCommit(m)
      PROVE  EInv'
  <2>2. UNCHANGED <<deployment, sched, inflight, workers, evalFaults>>
    BY <1>3 DEF MoveUpCommit
  <2>3. /\ tasks' \in [TaskIds -> Rows]
        /\ \A t \in TaskIds : /\ tasks'[t].st = tasks[t].st /\ tasks'[t].old = tasks[t].old
                             /\ tasks'[t].target = tasks[t].target
    BY <1>3, MoveUpFields
  <2>4. /\ moving' = [n \in Movers |-> moving'[n]]
        /\ \A n \in Movers : moving'[n] # <<>> => moving'[n][1] \in Move /\ moving'[n][2] \in Move
    BY <1>3 DEF MoveUpCommit, EvalTypeOK
  <2>5. EvalTypeOK'
    BY <2>2, <2>3, <2>4 DEF EvalTypeOK, Running
  <2> QED
    BY <2>2, <2>3, <2>5 DEF Resting, Owned, Apart, Tracked, OnePerTarget, Active, Running, InState, Expired
<1>4. ASSUME NEW t \in TaskIds, ModelEvalQueueStop(t)
      PROVE  EInv'
  <2>1. EvalTypeOK'
    BY <1>4 DEF ModelEvalQueueStop, EvalTypeOK, Rows, Statuses, Running
  <2>2. \A u \in TaskIds : /\ tasks'[u].old = tasks[u].old /\ tasks'[u].target = tasks[u].target
                           /\ u # t => tasks'[u].st = tasks[u].st
    BY <1>4 DEF ModelEvalQueueStop, EvalTypeOK, Rows
  <2>3. tasks[t].st = "queued" /\ tasks'[t].st = "stopped"
    BY <1>4 DEF ModelEvalQueueStop, EvalTypeOK, Rows, InState
  <2> QED
    BY <1>4, <2>1, <2>2, <2>3 DEF ModelEvalQueueStop, Resting, Owned, Apart, Tracked, OnePerTarget, Active, Running, InState, Expired
<1>5. ASSUME ModelEvalQueueClear
      PROVE  EInv'
  <2>1. EvalTypeOK'
    BY <1>5 DEF ModelEvalQueueClear, EvalTypeOK, Rows, Statuses, Running
  <2>2. \A u \in TaskIds : /\ tasks'[u].old = tasks[u].old /\ tasks'[u].target = tasks[u].target
                           /\ tasks'[u].st = IF tasks[u].st = "queued" THEN "deleted" ELSE tasks[u].st
    BY <1>5 DEF ModelEvalQueueClear, EvalTypeOK, Rows, InState
  <2> QED
    BY <1>5, <2>1, <2>2 DEF ModelEvalQueueClear, Resting, Owned, Apart, Tracked, OnePerTarget, Active, Running, InState, Expired
<1> QED
  BY <1>1, <1>2, <1>3, <1>4, <1>5

\* A requeue changes the status of running rows and nothing else
\* (ModelEvalQueueRequeueRunning, ModelEvalQueueResetRunning).
LEMMA RequeuedFields ==
  ASSUME EvalTypeOK, NEW S
  PROVE  /\ Requeued(S) \in [TaskIds -> Rows]
         /\ \A t \in TaskIds :
              /\ Requeued(S)[t].st = IF t \in S /\ tasks[t].st = "running" THEN "queued" ELSE tasks[t].st
              /\ Requeued(S)[t].old = tasks[t].old
              /\ Requeued(S)[t].target = tasks[t].target
<1>1. \A t \in TaskIds : tasks[t] \in Rows /\ [tasks[t] EXCEPT !.st = "queued"] \in Rows
  BY DEF EvalTypeOK, Rows, Statuses
<1> QED
  BY <1>1 DEF Requeued, InState, Rows

\* A requeue keeps the invariant if nobody works on the rows and, in a shared database, nobody
\* else tracks them.
LEMMA RequeueKeeps ==
  ASSUME EInv, NEW S, tasks' = Requeued(S),
         UNCHANGED <<deployment, workers, moving, evalFaults>>,
         inflight' \in [Processes -> SUBSET TaskIds], sched' \in [Processes -> {"down", "up", "stopping"}],
         \A p \in Processes : S \cap InState("running") \cap Running(p) = {},
         \A p \in Processes : inflight'[p] = inflight[p] \/ (inflight'[p] = {} /\ Running(p) = {}),
         \A p \in Processes :
           sched'[p] = sched[p] \/ sched'[p] = "down" \/ (sched[p] = "down" /\ sched'[p] = "up"),
         \A p \in Processes : sched'[p] = "down" => Running(p) = {} /\ inflight'[p] = {},
         \A p \in Processes : deployment = "sqlite" /\ p # LoneProcess => sched'[p] = "down",
         deployment = "shared" => \A p \in Processes : S \cap inflight'[p] = {}
  PROVE  EInv'
<1> USE DEF EInv
<1>1. /\ tasks' \in [TaskIds -> Rows]
      /\ \A t \in TaskIds :
           /\ tasks'[t].st = IF t \in S /\ tasks[t].st = "running" THEN "queued" ELSE tasks[t].st
           /\ tasks'[t].old = tasks[t].old
           /\ tasks'[t].target = tasks[t].target
  BY RequeuedFields
<1>2. EvalTypeOK'
  BY <1>1 DEF EvalTypeOK, Running
<1>3. Resting' /\ Apart'
  BY DEF Resting, Apart, Running
<1>4. Owned'
  <2> SUFFICES ASSUME NEW p \in Processes, NEW t \in Running(p)
               PROVE  t \in InState("running")' /\ t \notin Expired' /\ t \in inflight'[p]
    BY DEF Owned, Running
  <2>1. t \in InState("running") /\ t \notin Expired /\ t \in inflight[p] /\ t \in TaskIds
    BY DEF Owned, InState
  <2>2. t \notin S
    BY <2>1
  <2> QED
    BY <1>1, <2>1, <2>2 DEF InState, Expired
<1>5. Tracked'
  <2> SUFFICES ASSUME deployment = "shared", NEW p \in Processes
               PROVE  /\ inflight'[p] \subseteq InState("running")' \ Expired'
                      /\ sched'[p] = "up" => inflight'[p] = Running(p)
                      /\ \A q \in Processes : q # p => inflight'[p] \cap inflight'[q] = {}
    BY DEF Tracked, Running
  <2>1. inflight'[p] \subseteq InState("running") \ Expired /\ S \cap inflight'[p] = {}
    BY DEF Tracked
  <2>2. inflight'[p] \subseteq InState("running")' \ Expired'
    BY <1>1, <2>1 DEF InState, Expired
  <2>3. sched'[p] = "up" => inflight'[p] = Running(p)
    BY DEF Tracked, Resting
  <2> QED
    BY <2>2, <2>3 DEF Tracked
<1>6. OnePerTarget'
  BY <1>1 DEF OnePerTarget, Active, InState
<1> QED
  BY <1>2, <1>3, <1>4, <1>5, <1>6

\* Start, Stop, a crash and the reaper (ModelEvalQueueResetRunningOnStart, requeueInflight).
LEMMA SchedulerKeeps ==
  ASSUME EInv, NEW p \in Processes,
         Start(p) \/ Stop(p) \/ requeueInflight(p) \/ Crash(p) \/ reapExpiredRunning(p)
  PROVE  EInv'
<1> USE DEF EInv
<1>0. Deployments \subseteq {"sqlite", "shared"} /\ deployment \in Deployments
  BY EvalAssumption DEF EvalTypeOK
<1>1. CASE Start(p)
  <2> DEFINE S == IF deployment = "shared" THEN Expired ELSE TaskIds
  <2>1. tasks' = Requeued(S)
    BY <1>1 DEF Start, ModelEvalQueueResetRunningOnStart, ModelEvalQueueResetRunning
  <2>2. UNCHANGED <<deployment, inflight, workers, moving, evalFaults>> /\ sched' = [sched EXCEPT ![p] = "up"]
    BY <1>1 DEF Start
  <2>3. sched[p] = "down" /\ (deployment = "sqlite" => p = LoneProcess)
    BY <1>1 DEF Start, Members
  <2>4. \A q \in Processes : S \cap InState("running") \cap Running(q) = {}
    <3>1. CASE deployment = "shared"
      BY <3>1 DEF Owned
    <3>2. CASE deployment = "sqlite"
      BY <3>2, <2>3 DEF Resting
    <3> QED
      BY <3>1, <3>2, <1>0
  <2>5. deployment = "shared" => \A q \in Processes : S \cap inflight'[q] = {}
    BY <2>2 DEF Tracked
  <2>6. inflight' \in [Processes -> SUBSET TaskIds] /\ sched' \in [Processes -> {"down", "up", "stopping"}]
    BY <2>2 DEF EvalTypeOK
  <2>7. \A q \in Processes : sched'[q] = IF q = p THEN "up" ELSE sched[q]
    BY <2>2 DEF EvalTypeOK
  <2>8. \A q \in Processes : deployment = "sqlite" /\ q # LoneProcess => sched'[q] = "down"
    BY <2>3, <2>7 DEF Resting
  <2>9. \A q \in Processes : sched'[q] = "down" => Running(q) = {} /\ inflight'[q] = {}
    BY <2>2, <2>7 DEF Resting
  <2> HIDE DEF S
  <2> QED
    BY <2>1, <2>2, <2>3, <2>4, <2>5, <2>6, <2>7, <2>8, <2>9, RequeueKeeps
<1>2. CASE Stop(p)
  <2>1. UNCHANGED <<deployment, tasks, inflight, workers, moving, evalFaults>>
        /\ sched[p] = "up" /\ sched' = [sched EXCEPT ![p] = "stopping"]
    BY <1>2 DEF Stop
  <2>2. \A q \in Processes : sched'[q] = IF q = p THEN "stopping" ELSE sched[q]
    BY <2>1 DEF EvalTypeOK
  <2>3. EvalTypeOK'
    BY <2>1 DEF EvalTypeOK, Running
  <2> QED
    BY <2>1, <2>2, <2>3 DEF Resting, Owned, Apart, Tracked, OnePerTarget, Active, Running, InState, Expired
<1>3. CASE requeueInflight(p)
  <2>1. /\ tasks' = Requeued(inflight[p]) /\ UNCHANGED <<deployment, workers, moving, evalFaults>>
        /\ inflight' = [inflight EXCEPT ![p] = {}] /\ sched' = [sched EXCEPT ![p] = "down"]
        /\ Running(p) = {} /\ sched[p] = "stopping"
    BY <1>3 DEF requeueInflight, ModelEvalQueueRequeueRunning
  <2>2. \A q \in Processes : /\ sched'[q] = IF q = p THEN "down" ELSE sched[q]
                             /\ inflight'[q] = IF q = p THEN {} ELSE inflight[q]
    BY <2>1 DEF EvalTypeOK
  <2>3. \A q \in Processes : inflight[p] \cap InState("running") \cap Running(q) = {}
    <3>1. CASE deployment = "shared"
      BY <3>1, <2>1 DEF Tracked, Owned
    <3>2. CASE deployment = "sqlite"
      BY <3>2, <2>1 DEF Resting
    <3> QED
      BY <3>1, <3>2, <1>0
  <2>4. deployment = "shared" => \A q \in Processes : inflight[p] \cap inflight'[q] = {}
    BY <2>2 DEF Tracked
  <2>5. inflight' \in [Processes -> SUBSET TaskIds] /\ sched' \in [Processes -> {"down", "up", "stopping"}]
    BY <2>1 DEF EvalTypeOK
  <2>6. \A q \in Processes : sched'[q] = "down" => Running(q) = {} /\ inflight'[q] = {}
    BY <2>1, <2>2 DEF Resting
  <2>7. \A q \in Processes : deployment = "sqlite" /\ q # LoneProcess => sched'[q] = "down"
    BY <2>2 DEF Resting
  <2> QED
    BY <2>1, <2>2, <2>3, <2>4, <2>5, <2>6, <2>7, RequeueKeeps
<1>4. CASE Crash(p)
  <2>1. /\ UNCHANGED <<deployment, tasks, moving>>
        /\ inflight' = [inflight EXCEPT ![p] = {}] /\ sched' = [sched EXCEPT ![p] = "down"]
        /\ workers' = [workers EXCEPT ![p] = <<>>]
        /\ evalFaults' = [evalFaults EXCEPT !.crashes = @ + 1]
    BY <1>4 DEF Crash
  <2>2. \A q \in Processes : /\ sched'[q] = IF q = p THEN "down" ELSE sched[q]
                             /\ inflight'[q] = IF q = p THEN {} ELSE inflight[q]
                             /\ Running(q)' = IF q = p THEN {} ELSE Running(q)
    BY <2>1 DEF EvalTypeOK, Running
  <2>3. EvalTypeOK'
    <3>1. workers' = [q \in Processes |-> workers'[q]]
      BY <2>1 DEF EvalTypeOK
    <3>2. evalFaults' \in [saves : Nat, crashes : Nat]
      BY <2>1 DEF EvalTypeOK
    <3>3. inflight' \in [Processes -> SUBSET TaskIds] /\ sched' \in [Processes -> {"down", "up", "stopping"}]
      BY <2>1 DEF EvalTypeOK
    <3>4. \A q \in Processes : Running(q)' \subseteq TaskIds
      BY <2>2 DEF EvalTypeOK
    <3> QED
      BY <2>1, <3>1, <3>2, <3>3, <3>4 DEF EvalTypeOK
  <2> QED
    BY <2>1, <2>2, <2>3 DEF Resting, Owned, Apart, Tracked, OnePerTarget, Active, InState, Expired
<1>5. CASE reapExpiredRunning(p)
  <2>1. tasks' = Requeued(Expired) /\ UNCHANGED <<deployment, sched, inflight, workers, moving, evalFaults>>
    BY <1>5 DEF reapExpiredRunning, ModelEvalQueueResetRunning
  <2>2. \A q \in Processes : Expired \cap InState("running") \cap Running(q) = {}
    BY DEF Owned
  <2>3. deployment = "shared" => \A q \in Processes : Expired \cap inflight'[q] = {}
    BY <2>1 DEF Tracked
  <2>4. inflight' \in [Processes -> SUBSET TaskIds] /\ sched' \in [Processes -> {"down", "up", "stopping"}]
    BY <2>1 DEF EvalTypeOK
  <2>5. \A q \in Processes : /\ sched'[q] = "down" => Running(q) = {} /\ inflight'[q] = {}
                             /\ deployment = "sqlite" /\ q # LoneProcess => sched'[q] = "down"
    BY <2>1 DEF Resting
  <2> QED
    BY <2>1, <2>2, <2>3, <2>4, <2>5, RequeueKeeps
<1> QED
  BY <1>1, <1>2, <1>3, <1>4, <1>5

\* The lease ends only under rows nobody works on or is about to give back.
LEMMA LeaseKeeps ==
  ASSUME EInv, NEW t \in TaskIds, LeaseExpires(t)
  PROVE  EInv'
<1> USE DEF EInv
<1>1. UNCHANGED <<deployment, sched, inflight, workers, moving, evalFaults>>
      /\ tasks' = [tasks EXCEPT ![t].old = TRUE]
  BY DEF LeaseExpires
<1>2. /\ tasks' \in [TaskIds -> Rows]
      /\ \A u \in TaskIds : /\ tasks'[u].st = tasks[u].st /\ tasks'[u].target = tasks[u].target
                           /\ tasks'[u].old = (u = t \/ tasks[u].old)
  BY <1>1 DEF EvalTypeOK, Rows
<1>3. \A p \in Processes : t \notin Running(p) /\ (deployment = "shared" => t \notin inflight[p])
  BY DEF LeaseExpires, Tracked, Resting, EvalTypeOK
<1>4. EvalTypeOK'
  BY <1>1, <1>2 DEF EvalTypeOK, Running
<1>5. Owned' /\ Tracked'
  BY <1>1, <1>2, <1>3 DEF Owned, Tracked, Running, InState, Expired
<1> QED
  BY <1>1, <1>2, <1>4, <1>5 DEF Resting, Apart, OnePerTarget, Active, Running, InState

\* A pop takes queued rows, which nobody works on or tracks, under a new lease.
LEMMA DispatchKeeps ==
  ASSUME EInv, NEW p \in Processes, dispatch(p)
  PROVE  EInv'
<1> USE DEF EInv
<1> DEFINE won == Popped(EvalConcurrency - Cardinality(Running(p)))
<1>1. won \subseteq InState("queued") /\ won \subseteq TaskIds
  BY DEF Popped, InState
<1>2. /\ sched[p] = "up" /\ UNCHANGED <<deployment, sched, moving, evalFaults>>
      /\ tasks' = [t \in TaskIds |-> IF t \in won THEN [tasks[t] EXCEPT !.st = "running", !.old = FALSE] ELSE tasks[t]]
      /\ workers' = [workers EXCEPT ![p] = [t \in DOMAIN @ \cup won |-> IF t \in won THEN "start" ELSE @[t]]]
      /\ inflight' = [inflight EXCEPT ![p] = @ \cup won]
  BY DEF dispatch
<1> HIDE DEF won
<1>3. /\ tasks' \in [TaskIds -> Rows]
      /\ \A u \in TaskIds : /\ tasks'[u].st = IF u \in won THEN "running" ELSE tasks[u].st
                           /\ tasks'[u].target = tasks[u].target
                           /\ tasks'[u].old = IF u \in won THEN FALSE ELSE tasks[u].old
  <2>1. \A u \in TaskIds : /\ tasks[u] \in Rows
                           /\ [tasks[u] EXCEPT !.st = "running", !.old = FALSE] \in Rows
                           /\ [tasks[u] EXCEPT !.st = "running", !.old = FALSE].st = "running"
                           /\ [tasks[u] EXCEPT !.st = "running", !.old = FALSE].old = FALSE
                           /\ [tasks[u] EXCEPT !.st = "running", !.old = FALSE].target = tasks[u].target
    <3>1. \A r \in Rows : [r EXCEPT !.st = "running"] \in Rows /\ [r EXCEPT !.old = FALSE] \in Rows
      BY DEF Rows, Statuses
    <3>2. \A r \in Rows : [r EXCEPT !.st = "running", !.old = FALSE] = [[r EXCEPT !.st = "running"] EXCEPT !.old = FALSE]
      OBVIOUS
    <3>3. \A r \in Rows : [r EXCEPT !.st = "running", !.old = FALSE] \in Rows
      BY <3>1, <3>2
    <3>4. \A r \in Rows : /\ [r EXCEPT !.st = "running", !.old = FALSE].st = "running"
                          /\ [r EXCEPT !.st = "running", !.old = FALSE].old = FALSE
                          /\ [r EXCEPT !.st = "running", !.old = FALSE].target = r.target
      BY DEF Rows
    <3>5. \A u \in TaskIds : tasks[u] \in Rows
      BY DEF EvalTypeOK
    <3> QED
      BY <3>3, <3>4, <3>5
  <2> QED
    BY <1>2, <2>1
<1>4. \A q \in Processes : /\ Running(q)' = IF q = p THEN Running(p) \cup won ELSE Running(q)
                           /\ inflight'[q] = IF q = p THEN inflight[p] \cup won ELSE inflight[q]
  BY <1>2 DEF EvalTypeOK, Running
<1>5. \A q \in Processes : Running(q) \cap won = {}
  BY <1>1 DEF Owned, InState
<1>6. deployment = "shared" => \A q \in Processes : inflight[q] \cap won = {}
  BY <1>1 DEF Tracked, InState
<1>7. EvalTypeOK'
  <2>1. workers' = [q \in Processes |-> workers'[q]]
    BY <1>2 DEF EvalTypeOK
  <2>2. inflight' \in [Processes -> SUBSET TaskIds]
    BY <1>1, <1>2 DEF EvalTypeOK
  <2>3. \A q \in Processes : Running(q)' \subseteq TaskIds
    BY <1>1, <1>4 DEF EvalTypeOK
  <2> QED
    BY <1>2, <1>3, <2>1, <2>2, <2>3 DEF EvalTypeOK
<1>8. Resting'
  BY <1>2, <1>4 DEF Resting
<1>9. Owned'
  BY <1>1, <1>3, <1>4 DEF Owned, InState, Expired
<1>10. Apart'
  BY <1>4, <1>5 DEF Apart
<1>11. Tracked'
  <2> SUFFICES ASSUME deployment = "shared"
               PROVE  \A q \in Processes :
                        /\ inflight'[q] \subseteq InState("running")' \ Expired'
                        /\ sched'[q] = "up" => inflight'[q] = Running(q)'
                        /\ \A r \in Processes : r # q => inflight'[q] \cap inflight'[r] = {}
    BY <1>2 DEF Tracked
  <2>1. \A q \in Processes : inflight'[q] \subseteq InState("running")' \ Expired'
    <3> SUFFICES ASSUME NEW q \in Processes, NEW u \in inflight'[q]
                 PROVE  u \in TaskIds /\ tasks'[u].st = "running" /\ ~tasks'[u].old
      BY DEF InState, Expired
    <3>1. CASE u \in won
      BY <1>1, <1>3, <3>1
    <3>2. CASE u \notin won
      <4>1. u \in inflight[q]
        BY <1>4, <3>2
      <4> QED
        BY <1>3, <3>2, <4>1 DEF Tracked, InState, Expired
    <3> QED
      BY <3>1, <3>2
  <2>2. \A q \in Processes : sched'[q] = "up" => inflight'[q] = Running(q)'
    BY <1>2, <1>4 DEF Tracked
  <2>3. \A q, r \in Processes : r # q => inflight'[q] \cap inflight'[r] = {}
    BY <1>4, <1>6 DEF Tracked
  <2> QED
    BY <2>1, <2>2, <2>3
<1>12. OnePerTarget'
  <2>1. \A u \in TaskIds : u \in Active' <=> u \in Active
    BY <1>1, <1>3 DEF Active, InState
  <2>2. Active' \subseteq TaskIds
    BY DEF Active, InState
  <2> QED
    BY <1>3, <2>1, <2>2 DEF OnePerTarget
<1> QED
  BY <1>7, <1>8, <1>9, <1>10, <1>11, <1>12

\* A worker that takes a step or ends leaves its row to its process, or ends it.
LEMMA WorkerKeeps ==
  ASSUME SharedSavesSucceed, EInv, NEW p \in Processes, NEW t \in TaskIds,
         callUpstream(p, t) \/ saveHistory(p, t) \/ abandon(p, t) \/ markDone(p, t)
  PROVE  EInv'
<1> USE DEF EInv
<1>1. CASE callUpstream(p, t) \/ saveHistory(p, t)
  <2>1. PICK to : t \in Running(p) /\ workers' = [workers EXCEPT ![p][t] = to]
    BY <1>1 DEF callUpstream, saveHistory, Step
  <2>2. UNCHANGED <<deployment, tasks, sched, inflight, moving, evalFaults>>
    BY <1>1 DEF callUpstream, saveHistory, Step
  <2>3. workers' = [q \in Processes |-> workers'[q]] /\ \A q \in Processes : Running(q)' = Running(q)
    BY <2>1 DEF EvalTypeOK, Running
  <2>4. EvalTypeOK'
    BY <2>2, <2>3 DEF EvalTypeOK
  <2> QED
    BY <2>2, <2>3, <2>4 DEF Resting, Owned, Apart, Tracked, OnePerTarget, Active, InState, Expired
<1>2. ASSUME Leaves(p, t), t \in Running(p)
      PROVE  /\ workers' = [q \in Processes |-> workers'[q]]
             /\ \A q \in Processes : Running(q)' = IF q = p THEN Running(p) \ {t} ELSE Running(q)
  BY <1>2 DEF Leaves, EvalTypeOK, Running
<1>3. CASE abandon(p, t)
  <2>1. UNCHANGED <<deployment, tasks, sched, inflight, moving>> /\ Leaves(p, t) /\ t \in Running(p)
    BY <1>3 DEF abandon
  <2>2. evalFaults' \in [saves : Nat, crashes : Nat]
    BY <1>3 DEF abandon, EvalTypeOK
  <2>3. deployment = "shared" => sched[p] = "stopping"
    <3>1. deployment = "shared" => ~(evalFaults.saves < SaveFailures[deployment])
      BY DEF EvalTypeOK, SharedSavesSucceed
    <3> QED
      BY <1>3, <3>1 DEF abandon
  <2>4. EvalTypeOK'
    BY <1>2, <2>1, <2>2 DEF EvalTypeOK
  <2>5. Tracked'
    BY <1>2, <2>1, <2>3 DEF Tracked, InState, Expired
  <2> QED
    BY <1>2, <2>1, <2>4, <2>5 DEF Resting, Owned, Apart, OnePerTarget, Active, InState, Expired
<1>4. CASE markDone(p, t)
  <2>1. /\ UNCHANGED <<deployment, sched, moving, evalFaults>> /\ Leaves(p, t) /\ t \in Running(p)
        /\ tasks' = IF tasks[t].st = "deleted" THEN tasks ELSE [tasks EXCEPT ![t].st = "done"]
        /\ inflight' = [inflight EXCEPT ![p] = @ \ {t}]
    BY <1>4 DEF markDone
  <2>2. tasks[t].st = "running" /\ t \in inflight[p]
    BY <2>1 DEF Owned, InState
  <2>3. /\ tasks' \in [TaskIds -> Rows]
        /\ \A u \in TaskIds : /\ tasks'[u].st = IF u = t THEN "done" ELSE tasks[u].st
                             /\ tasks'[u].old = tasks[u].old /\ tasks'[u].target = tasks[u].target
    BY <2>1, <2>2 DEF EvalTypeOK, Rows, Statuses
  <2>4. /\ inflight' \in [Processes -> SUBSET TaskIds]
        /\ \A q \in Processes : inflight'[q] = IF q = p THEN inflight[p] \ {t} ELSE inflight[q]
    BY <2>1 DEF EvalTypeOK
  <2>5. EvalTypeOK'
    BY <1>2, <2>1, <2>3, <2>4 DEF EvalTypeOK
  <2>6. \A q \in Processes : q # p => t \notin Running(q)
    BY <2>1 DEF Apart
  <2>7. Owned'
    BY <1>2, <2>1, <2>3, <2>4, <2>6 DEF Owned, InState, Expired
  <2>8. Tracked'
    <3> SUFFICES ASSUME deployment = "shared"
                 PROVE  \A q \in Processes :
                          /\ inflight'[q] \subseteq InState("running")' \ Expired'
                          /\ sched'[q] = "up" => inflight'[q] = Running(q)'
                          /\ \A r \in Processes : r # q => inflight'[q] \cap inflight'[r] = {}
      BY <2>1 DEF Tracked
    <3>1. \A q \in Processes : q # p => t \notin inflight[q]
      BY <2>2 DEF Tracked
    <3>2. \A q \in Processes : inflight'[q] \subseteq InState("running")' \ Expired'
      BY <2>3, <2>4, <3>1 DEF Tracked, InState, Expired
    <3> QED
      BY <1>2, <2>1, <2>4, <3>2 DEF Tracked
  <2> QED
    BY <1>2, <2>1, <2>3, <2>4, <2>5, <2>7, <2>8 DEF Resting, Apart, OnePerTarget, Active, InState
<1> QED
  BY <1>1, <1>3, <1>4

-----------------------------------------------------------------------------
(* An evaluation is paid for once *)

\* At the start no task exists and no process is up.
LEMMA EvalStarts == EvalInit => EInv /\ WithinConcurrency
<1> SUFFICES ASSUME EvalInit PROVE EInv /\ WithinConcurrency
  OBVIOUS
<1>1. /\ \A p \in Processes : sched[p] = "down" /\ inflight[p] = {} /\ Running(p) = {}
      /\ \A t \in TaskIds : tasks[t].st = "absent"
  BY DEF EvalInit, Running
<1>2. EvalTypeOK
  BY <1>1 DEF EvalInit, EvalTypeOK, Rows, Statuses
<1>3. Resting /\ Owned /\ Apart /\ Tracked /\ OnePerTarget
  BY <1>1 DEF Resting, Owned, Apart, Tracked, OnePerTarget, Active, InState
<1>4. WithinConcurrency
  BY <1>1, FS_EmptySet, EvalAssumption DEF WithinConcurrency
<1> QED
  BY <1>2, <1>3, <1>4 DEF EInv

\* Every step keeps the invariant.
LEMMA EvalStepKeeps ==
  ASSUME SharedSavesSucceed, EInv, [EvalNext]_evalVars
  PROVE  EInv'
<1>1. CASE EvalNext
  BY <1>1, ConsoleKeeps, SchedulerKeeps, LeaseKeeps, DispatchKeeps, WorkerKeeps DEF EvalNext
<1>2. CASE UNCHANGED evalVars
  <2>1. UNCHANGED <<deployment, tasks, sched, inflight, workers, moving, evalFaults>>
    BY <1>2 DEF evalVars
  <2>2. EvalTypeOK'
    BY <2>1 DEF EInv, EvalTypeOK, Running
  <2> QED
    BY <2>1, <2>2 DEF EInv, Resting, Owned, Apart, Tracked, OnePerTarget, Active, Running, InState, Expired
<1> QED
  BY <1>1, <1>2

\* What a step does to the workers of a process: only a dispatch starts any, and only its own.
LEMMA WorkersOnlyLeave ==
  ASSUME EInv, [EvalNext]_evalVars, NEW p \in Processes
  PROVE  Running(p)' \subseteq Running(p) \/ dispatch(p)
<1> USE DEF EInv
<1>0. workers = [q \in Processes |-> workers[q]]
  BY DEF EvalTypeOK
<1>1. CASE UNCHANGED workers
  BY <1>1 DEF Running
<1>2. ASSUME NEW q \in Processes, dispatch(q)
      PROVE  Running(p)' \subseteq Running(p) \/ dispatch(p)
  BY <1>0, <1>2 DEF dispatch, Running
<1>3. ASSUME NEW q \in Processes, Crash(q)
      PROVE  Running(p)' \subseteq Running(p)
  BY <1>0, <1>3 DEF Crash, Running
<1>4. ASSUME NEW q \in Processes, NEW t, Leaves(q, t)
      PROVE  Running(p)' \subseteq Running(p)
  BY <1>0, <1>4 DEF Leaves, Running
<1>5. ASSUME NEW q \in Processes, NEW t, callUpstream(q, t) \/ saveHistory(q, t)
      PROVE  Running(p)' \subseteq Running(p)
  BY <1>0, <1>5 DEF callUpstream, saveHistory, Step, Running
<1>6. CASE EvalNext
  BY <1>6, <1>1, <1>2, <1>3, <1>4, <1>5
     DEF EvalNext, ModelEvalQueueEnqueue, MoveUpRead, MoveUpCommit, ModelEvalQueueStop, ModelEvalQueueClear,
         LeaseExpires, reapExpiredRunning, Start, Stop, requeueInflight, abandon, markDone
<1> QED
  BY <1>1, <1>6 DEF evalVars

\* The pop asks for as many tasks as workers are missing.
LEMMA ConcurrencyKept ==
  ASSUME EInv, WithinConcurrency, [EvalNext]_evalVars
  PROVE  WithinConcurrency'
<1> SUFFICES ASSUME NEW p \in Processes
             PROVE  Cardinality(Running(p)') <= EvalConcurrency
  BY DEF WithinConcurrency
<1>1. IsFiniteSet(Running(p)) /\ Cardinality(Running(p)) \in Nat /\ Cardinality(Running(p)) <= EvalConcurrency
  BY EvalAssumption, FS_Subset, FS_CardinalityType DEF EInv, EvalTypeOK, WithinConcurrency
<1>2. CASE Running(p)' \subseteq Running(p)
  BY <1>1, <1>2, FS_Subset, FS_CardinalityType, EvalAssumption
<1>3. CASE dispatch(p)
  <2> DEFINE need == EvalConcurrency - Cardinality(Running(p))
             won == Popped(need)
  <2>1. need \in Nat
    BY <1>1, EvalAssumption
  <2>2. Running(p)' = Running(p) \cup won
    <3>1. workers' = [workers EXCEPT ![p] = [t \in DOMAIN @ \cup won |-> IF t \in won THEN "start" ELSE @[t]]]
      BY <1>3 DEF dispatch
    <3> HIDE DEF won
    <3> QED
      BY <3>1 DEF EInv, EvalTypeOK, Running
  <2> HIDE DEF need
  <2>3. IsFiniteSet(won) /\ Cardinality(won) \in Nat /\ Cardinality(won) <= need
    BY <2>1, PoppedBound, FS_CardinalityType DEF EInv
  <2> HIDE DEF won
  <2>4. /\ Cardinality(Running(p) \cup won) = Cardinality(Running(p)) + Cardinality(won) - Cardinality(Running(p) \cap won)
        /\ Cardinality(Running(p) \cap won) \in Nat
    BY <1>1, <2>3, FS_Union, FS_Intersection, FS_CardinalityType
  <2> QED
    BY <1>1, <2>1, <2>2, <2>3, <2>4, EvalAssumption DEF need
<1> QED
  BY <1>2, <1>3, WorkersOnlyLeave

(* No evaluation is paid for twice, for any number of tasks, processes, crashes and restarts:  *)
(* a worker's row is running and its own, no two active tasks have one target, and no          *)
(* scheduler runs more workers than it may (eval/scheduler.go, op/model_eval_queue.go).        *)
THEOREM EvaluatedOnce ==
  ASSUME SharedSavesSucceed
  PROVE  EvalSpec => []EvalOnce
<1>1. EvalInit => EInv /\ WithinConcurrency
  BY EvalStarts
<1>2. EInv /\ WithinConcurrency /\ [EvalNext]_evalVars => (EInv /\ WithinConcurrency)'
  BY EvalStepKeeps, ConcurrencyKept
<1>3. EInv /\ WithinConcurrency => EvalOnce
  BY DEF EInv, WithinConcurrency, EvalOnce, Owned, Apart, OnePerTarget, Active
<1> QED
  BY <1>1, <1>2, <1>3, PTL DEF EvalSpec

-----------------------------------------------------------------------------
(* The queue implements the task board *)

Ended == {"done", "stopped", "deleted"}
Worked(t) == \E p \in Processes : t \in Running(p)

\* What the board shows of a task, by its row and its worker.
BoardReads ==
  \A t \in TaskIds :
    /\ tasks[t].st \in Ended => TheBoard[t] = "ended"
    /\ tasks[t].st = "absent" => TheBoard[t] = "absent"
    /\ tasks[t].st = "queued" => TheBoard[t] = "queued"
    /\ tasks[t].st = "running" /\ ~Worked(t) => TheBoard[t] = "orphan"
    /\ \A p \in Processes : t \in Running(p) => tasks[t].st = "running" /\ TheBoard[t] = p
    /\ tasks[t].st \in Statuses

\* The refinement mapping is well defined because no two processes work on one row.
LEMMA BoardIsRead == EInv => BoardReads
<1> SUFFICES ASSUME EInv, NEW t \in TaskIds
             PROVE  /\ tasks[t].st \in Ended => TheBoard[t] = "ended"
                    /\ tasks[t].st = "absent" => TheBoard[t] = "absent"
                    /\ tasks[t].st = "queued" => TheBoard[t] = "queued"
                    /\ tasks[t].st = "running" /\ ~Worked(t) => TheBoard[t] = "orphan"
                    /\ \A p \in Processes : t \in Running(p) => tasks[t].st = "running" /\ TheBoard[t] = p
                    /\ tasks[t].st \in Statuses
  BY DEF BoardReads
<1>1. TheBoard[t] =
        CASE tasks[t].st \in {"done", "stopped", "deleted"} -> "ended"
          [] tasks[t].st = "running" /\ Holder(t) = {}      -> "orphan"
          [] tasks[t].st = "running" /\ Holder(t) # {}      -> CHOOSE p \in Holder(t) : TRUE
          [] OTHER                                         -> tasks[t].st
  BY DEF TheBoard
<1>2. tasks[t].st = "running" /\ ~Worked(t) => Holder(t) = {}
  BY DEF Holder, Worked
<1>3. ASSUME NEW p \in Processes, t \in Running(p)
      PROVE  tasks[t].st = "running" /\ Holder(t) = {p}
  BY <1>3 DEF EInv, Owned, Apart, InState, Holder
<1>4. ASSUME NEW p \in Processes, t \in Running(p)
      PROVE  tasks[t].st = "running" /\ TheBoard[t] = p
  BY <1>1, <1>3, <1>4
<1>5. tasks[t].st \in Statuses
  BY DEF EInv, EvalTypeOK, Rows
<1> QED
  BY <1>1, <1>2, <1>4, <1>5 DEF Ended

BoardTyped == TheBoard \in [TaskIds -> Board!States]

\* The board is a table of states.
LEMMA BoardIsTyped == BoardReads => BoardTyped
<1> SUFFICES ASSUME BoardReads PROVE BoardTyped
  OBVIOUS
<1> DEFINE shown(t) ==
      CASE tasks[t].st \in {"done", "stopped", "deleted"} -> "ended"
        [] tasks[t].st = "running" /\ Holder(t) = {}      -> "orphan"
        [] tasks[t].st = "running" /\ Holder(t) # {}      -> CHOOSE p \in Holder(t) : TRUE
        [] OTHER                                         -> tasks[t].st
<1>1. TheBoard = [t \in TaskIds |-> shown(t)]
  BY DEF TheBoard
<1>2. \A t \in TaskIds : TheBoard[t] \in Board!States
  BY DEF BoardReads, Board!States, Worked, Statuses, Ended
<1> HIDE DEF shown
<1> QED
  BY <1>1, <1>2 DEF BoardTyped

\* The ways in which one task may change; each is a move of the board or no move at all.
Moves(t) ==
  \/ tasks'[t].st = tasks[t].st /\ \A p \in Processes : t \in Running(p)' <=> t \in Running(p)
  \/ tasks[t].st = "absent" /\ tasks'[t].st = "queued"
  \/ tasks[t].st = "queued" /\ tasks'[t].st \in Ended
  \/ tasks[t].st = "queued" /\ Worked(t)'
  \/ Worked(t) /\ tasks'[t].st \in Ended
  \/ Worked(t) /\ tasks'[t].st = "running" /\ ~Worked(t)'
  \/ tasks[t].st = "running" /\ ~Worked(t) /\ tasks'[t].st = "queued"

\* A task that changes in one of these ways makes a move of the board.
LEMMA MovesAreBoardMoves ==
  ASSUME BoardReads, BoardReads', NEW t \in TaskIds, Moves(t)
  PROVE  /\ TheBoard'[t] \in Board!States
         /\ TheBoard'[t] # TheBoard[t] => <<TheBoard[t], TheBoard'[t]>> \in Board!Moves
<1>1. /\ tasks'[t].st \in Ended => TheBoard'[t] = "ended"
      /\ tasks'[t].st = "absent" => TheBoard'[t] = "absent"
      /\ tasks'[t].st = "queued" => TheBoard'[t] = "queued"
      /\ tasks'[t].st = "running" /\ ~Worked(t)' => TheBoard'[t] = "orphan"
      /\ \A p \in Processes : t \in Running(p)' => tasks'[t].st = "running" /\ TheBoard'[t] = p
      /\ tasks'[t].st \in Statuses
  BY DEF BoardReads
<1>2. /\ tasks[t].st \in Ended => TheBoard[t] = "ended"
      /\ tasks[t].st = "absent" => TheBoard[t] = "absent"
      /\ tasks[t].st = "queued" => TheBoard[t] = "queued"
      /\ tasks[t].st = "running" /\ ~Worked(t) => TheBoard[t] = "orphan"
      /\ \A p \in Processes : t \in Running(p) => tasks[t].st = "running" /\ TheBoard[t] = p
      /\ tasks[t].st \in Statuses
  BY DEF BoardReads
<1>3. TheBoard'[t] \in Board!States
  BY <1>1 DEF Board!States, Worked, Statuses, Ended
<1>4. CASE tasks'[t].st = tasks[t].st /\ \A p \in Processes : t \in Running(p)' <=> t \in Running(p)
  <2>1. Worked(t)' <=> Worked(t)
    BY <1>4 DEF Worked
  <2>2. TheBoard'[t] = TheBoard[t]
    BY <1>1, <1>2, <1>4, <2>1 DEF Worked, Statuses, Ended
  <2> QED
    BY <1>3, <2>2
<1>5. CASE \/ tasks[t].st = "absent" /\ tasks'[t].st = "queued"
           \/ tasks[t].st = "queued" /\ tasks'[t].st \in Ended
           \/ tasks[t].st = "running" /\ ~Worked(t) /\ tasks'[t].st = "queued"
  BY <1>1, <1>2, <1>3, <1>5 DEF Board!Moves
<1>6. CASE tasks[t].st = "queued" /\ Worked(t)'
  <2>1. PICK p \in Processes : t \in Running(p)'
    BY <1>6 DEF Worked
  <2> QED
    BY <1>1, <1>2, <1>3, <1>6, <2>1 DEF Board!Moves
<1>7. CASE \/ Worked(t) /\ tasks'[t].st \in Ended
           \/ Worked(t) /\ tasks'[t].st = "running" /\ ~Worked(t)'
  <2>1. PICK p \in Processes : t \in Running(p)
    BY <1>7 DEF Worked
  <2> QED
    BY <1>1, <1>2, <1>3, <1>7, <2>1 DEF Board!Moves
<1> QED
  BY <1>4, <1>5, <1>6, <1>7 DEF Moves

\* The console moves tasks that nobody works on.
LEMMA ConsoleMoves ==
  ASSUME EInv, EInv', NEW t \in TaskIds,
         \/ \E u \in TaskIds, target \in Targets : ModelEvalQueueEnqueue(u, target)
         \/ \E m \in Movers, u \in TaskIds : MoveUpRead(m, u)
         \/ \E m \in Movers : MoveUpCommit(m)
         \/ \E u \in TaskIds : ModelEvalQueueStop(u) \/ LeaseExpires(u)
         \/ ModelEvalQueueClear
  PROVE  Moves(t)
<1> USE DEF EInv
<1>0. tasks \in [TaskIds -> Rows] /\ tasks' \in [TaskIds -> Rows] /\ t \in TaskIds
  BY DEF EvalTypeOK
<1>1. ASSUME NEW u \in TaskIds, NEW target \in Targets, ModelEvalQueueEnqueue(u, target)
      PROVE  Moves(t)
  <2>1. UNCHANGED workers /\ tasks[u].st = "absent" /\ \E pos : tasks' =
          [tasks EXCEPT ![u] = [st |-> "queued", target |-> target, old |-> FALSE, pos |-> pos]]
    BY <1>1 DEF ModelEvalQueueEnqueue
  <2> QED
    BY <1>0, <2>1 DEF Moves, Running
<1>2. ASSUME NEW m \in Movers, NEW u \in TaskIds, MoveUpRead(m, u)
      PROVE  Moves(t)
  BY <1>2 DEF MoveUpRead, Moves, Running
<1>3. ASSUME NEW m \in Movers, MoveUpCommit(m)
      PROVE  Moves(t)
  <2>1. UNCHANGED workers
    BY <1>3 DEF MoveUpCommit
  <2>2. tasks'[t].st = tasks[t].st
    BY <1>3, MoveUpFields
  <2> QED
    BY <2>1, <2>2 DEF Moves, Running
<1>4. ASSUME NEW u \in TaskIds, ModelEvalQueueStop(u)
      PROVE  Moves(t)
  <2>1. UNCHANGED workers /\ tasks[u].st = "queued" /\ tasks' = [tasks EXCEPT ![u].st = "stopped"]
    BY <1>4 DEF ModelEvalQueueStop, InState
  <2> QED
    BY <1>0, <2>1 DEF Moves, Running, Rows, Ended
<1>5. ASSUME NEW u \in TaskIds, LeaseExpires(u)
      PROVE  Moves(t)
  <2>1. UNCHANGED workers /\ tasks' = [tasks EXCEPT ![u].old = TRUE]
    BY <1>5 DEF LeaseExpires
  <2> QED
    BY <1>0, <2>1 DEF Moves, Running, Rows
<1>6. ASSUME ModelEvalQueueClear
      PROVE  Moves(t)
  <2>1. UNCHANGED workers /\ tasks'[t] = IF t \in InState("queued") THEN [tasks[t] EXCEPT !.st = "deleted"] ELSE tasks[t]
    BY <1>6 DEF ModelEvalQueueClear
  <2>2. tasks'[t].st = IF tasks[t].st = "queued" THEN "deleted" ELSE tasks[t].st
    BY <1>0, <2>1 DEF InState, Rows
  <2> QED
    BY <2>1, <2>2 DEF Moves, Running, Ended
<1> QED
  BY <1>1, <1>2, <1>3, <1>4, <1>5, <1>6

\* The schedulers and their workers: a row is given back when nobody works on it, taken from
\* the queue, and left or ended by its own worker.
LEMMA WorkMoves ==
  ASSUME EInv, EInv', NEW t \in TaskIds, NEW p \in Processes,
         \/ Start(p) \/ Stop(p) \/ requeueInflight(p) \/ Crash(p) \/ reapExpiredRunning(p) \/ dispatch(p)
         \/ \E u \in TaskIds : callUpstream(p, u) \/ saveHistory(p, u) \/ abandon(p, u) \/ markDone(p, u)
  PROVE  Moves(t)
<1> USE DEF EInv
<1>0. /\ tasks \in [TaskIds -> Rows] /\ tasks' \in [TaskIds -> Rows]
      /\ workers = [q \in Processes |-> workers[q]]
  BY DEF EvalTypeOK
<1>1. /\ Worked(t) => tasks[t].st = "running"
      /\ Worked(t)' => tasks'[t].st = "running"
  BY DEF Worked, Owned, InState
<1>2. ASSUME NEW S, tasks' = Requeued(S), UNCHANGED workers
      PROVE  Moves(t)
  <2>1. tasks'[t].st = IF t \in S /\ tasks[t].st = "running" THEN "queued" ELSE tasks[t].st
    BY <1>2, RequeuedFields
  <2>2. Worked(t)' <=> Worked(t)
    BY <1>2 DEF Worked, Running
  <2> QED
    BY <1>1, <1>2, <2>1, <2>2 DEF Moves, Running
<1>3. CASE Start(p) \/ requeueInflight(p) \/ reapExpiredRunning(p)
  <2>1. UNCHANGED workers /\ \E S : tasks' = Requeued(S)
    BY <1>3 DEF Start, requeueInflight, reapExpiredRunning, ModelEvalQueueResetRunningOnStart,
                ModelEvalQueueResetRunning, ModelEvalQueueRequeueRunning
  <2> QED
    BY <1>2, <2>1
<1>4. CASE Stop(p)
  BY <1>4 DEF Stop, Moves, Running
<1>5. ASSUME tasks' = tasks, \A q \in Processes : Running(q)' \subseteq Running(q)
      PROVE  Moves(t)
  <2>1. CASE \A q \in Processes : t \in Running(q)' <=> t \in Running(q)
    BY <1>5, <2>1 DEF Moves
  <2>2. CASE \E q \in Processes : t \in Running(q) /\ t \notin Running(q)'
    <3>1. PICK q \in Processes : t \in Running(q) /\ t \notin Running(q)'
      BY <2>2
    <3>2. ~Worked(t)'
      BY <1>5, <3>1 DEF Apart, Worked
    <3> QED
      BY <1>1, <1>5, <3>1, <3>2 DEF Moves, Worked
  <2> QED
    BY <2>1, <2>2, <1>5
<1>6. CASE Crash(p)
  <2>1. \A q \in Processes : Running(q)' \subseteq Running(q)
    BY <1>0, <1>6 DEF Crash, Running
  <2> QED
    BY <1>5, <1>6, <2>1 DEF Crash
<1>7. CASE dispatch(p)
  <2> DEFINE won == Popped(EvalConcurrency - Cardinality(Running(p)))
  <2>1. /\ tasks'[t] = IF t \in won THEN [tasks[t] EXCEPT !.st = "running", !.old = FALSE] ELSE tasks[t]
        /\ workers' = [workers EXCEPT ![p] = [u \in DOMAIN @ \cup won |-> IF u \in won THEN "start" ELSE @[u]]]
        /\ t \in won => tasks[t].st = "queued"
    BY <1>7 DEF dispatch, Popped, InState
  <2> HIDE DEF won
  <2>2. \A q \in Processes : Running(q)' = IF q = p THEN Running(q) \cup won ELSE Running(q)
    BY <1>0, <2>1 DEF Running
  <2>3. CASE t \in won
    BY <2>1, <2>2, <2>3 DEF Moves, Worked
  <2>4. CASE t \notin won
    BY <2>1, <2>2, <2>4 DEF Moves
  <2> QED
    BY <2>3, <2>4
<1>8. ASSUME NEW u \in TaskIds, callUpstream(p, u) \/ saveHistory(p, u)
      PROVE  Moves(t)
  <2>1. tasks' = tasks /\ \A q \in Processes : Running(q)' \subseteq Running(q)
    BY <1>0, <1>8 DEF callUpstream, saveHistory, Step, Running
  <2> QED
    BY <1>5, <2>1
<1>9. ASSUME NEW u \in TaskIds, abandon(p, u)
      PROVE  Moves(t)
  <2>1. tasks' = tasks /\ \A q \in Processes : Running(q)' \subseteq Running(q)
    BY <1>0, <1>9 DEF abandon, Leaves, Running
  <2> QED
    BY <1>5, <2>1
<1>10. ASSUME NEW u \in TaskIds, markDone(p, u)
       PROVE  Moves(t)
  <2>1. u \in Running(p) /\ workers' = [workers EXCEPT ![p] = [v \in DOMAIN @ \ {u} |-> @[v]]]
        /\ tasks' = IF tasks[u].st = "deleted" THEN tasks ELSE [tasks EXCEPT ![u].st = "done"]
    BY <1>10 DEF markDone, Leaves
  <2>2. CASE t = u
    <3>1. Worked(t) /\ tasks[t].st = "running"
      BY <1>1, <2>1, <2>2 DEF Worked
    <3>2. tasks'[t].st = "done"
      BY <1>0, <2>1, <2>2, <3>1 DEF Rows
    <3> QED
      BY <3>1, <3>2 DEF Moves, Ended
  <2>3. CASE t # u
    <3>1. tasks'[t].st = tasks[t].st
      BY <1>0, <2>1, <2>3
    <3>2. \A q \in Processes : t \in Running(q)' <=> t \in Running(q)
      BY <1>0, <2>1, <2>3 DEF Running
    <3> QED
      BY <3>1, <3>2 DEF Moves
  <2> QED
    BY <2>2, <2>3
<1> QED
  BY <1>3, <1>4, <1>6, <1>7, <1>8, <1>9, <1>10

\* Every step of the queue moves each task in one of those ways.
LEMMA EveryStepMoves ==
  ASSUME EInv, EInv', [EvalNext]_evalVars, NEW t \in TaskIds
  PROVE  Moves(t)
<1>1. CASE EvalNext
  BY <1>1, ConsoleMoves, WorkMoves DEF EvalNext
<1>2. CASE UNCHANGED evalVars
  BY <1>2 DEF evalVars, Moves, Running
<1> QED
  BY <1>1, <1>2

(* The queue with its schedulers implements the task board, for any number of tasks and         *)
(* processes: a task is handed out to one holder at a time, comes back only when the holder     *)
(* has let go of it, and never comes back once it has ended (ModelEvalQueuePopNext,             *)
(* ModelEvalQueueRequeueRunning, ModelEvalQueueMarkDone).                                       *)
THEOREM BoardImplemented ==
  ASSUME SharedSavesSucceed
  PROVE  EvalSpec => ImplementsBoard
<1>1. EvalInit => EInv
  BY EvalStarts
<1>2. EInv /\ [EvalNext]_evalVars => EInv'
  BY EvalStepKeeps
<1>6. BoardReads => BoardTyped
  BY BoardIsTyped
<1>3. EvalInit => Board!BoardInit
  BY DEF EvalInit, TheBoard, Board!BoardInit
<1>4. EInv => BoardReads
  BY BoardIsRead
<1>5. BoardTyped' /\ EInv /\ EInv' /\ BoardReads /\ BoardReads' /\ [EvalNext]_evalVars => [Board!BoardNext]_TheBoard
  <2> SUFFICES ASSUME BoardTyped', EInv, EInv', BoardReads, BoardReads', [EvalNext]_evalVars
               PROVE  Board!BoardNext
    OBVIOUS
  <2>1. \A t \in TaskIds : /\ TheBoard'[t] \in Board!States
                          /\ TheBoard'[t] # TheBoard[t] => <<TheBoard[t], TheBoard'[t]>> \in Board!Moves
    BY EveryStepMoves, MovesAreBoardMoves
  <2>2. TheBoard' \in [TaskIds -> Board!States]
    BY DEF BoardTyped
  <2> QED
    BY <2>1, <2>2 DEF Board!BoardNext
<1> QED
  BY <1>1, <1>2, <1>6, <1>3, <1>4, <1>5, PTL DEF EvalSpec, ImplementsBoard, Board!BoardSpec

-----------------------------------------------------------------------------
(***************************************************************************)
(* The history and the ranking (EvalRank) for any targets and any number   *)
(* of successes kept.                                                      *)
(***************************************************************************)

HistoryTypeOK ==
  /\ lastEval \in Nat /\ DOMAIN evals \subseteq 1..lastEval
  /\ \A id \in DOMAIN evals : evals[id].target \in RankTargets /\ evals[id].made \in Nat
  /\ pruning \in [RankProcesses -> SUBSET (1..lastEval)]
  /\ \A p \in RankProcesses : \A id \in pruning[p] \cap DOMAIN evals : evals[id].outcome \in Success

Recent(S, id) == {j \in S : Later(j, id)}

\* What is not among the newest of a set is not among the newest of a larger one.
LEMMA NewestShrinks ==
  ASSUME NEW A, NEW B, A \subseteq B, IsFiniteSet(B), ~(Cardinality(A) < KeptEvals)
  PROVE  ~(Cardinality(B) < KeptEvals)
<1>1. IsFiniteSet(A) /\ Cardinality(A) \in Nat /\ Cardinality(B) \in Nat /\ Cardinality(A) <= Cardinality(B)
  BY FS_Subset, FS_CardinalityType
<1> QED BY <1>1, RankAssumption

\* A nonempty set of records has a latest one.
LEMMA LatestExists ==
  ASSUME HistoryTypeOK, NEW D \in SUBSET DOMAIN evals, D # {}
  PROVE  \E m \in D : \A j \in D : ~Later(j, m)
<1> DEFINE M == {evals[j].made : j \in D}
           I == {j \in D : evals[j].made = Max(M)}
<1>1. D \subseteq Nat /\ IsFiniteSet(D) /\ \A j \in D : evals[j].made \in Nat
  <2>1. D \subseteq 1..lastEval /\ lastEval \in Nat
    BY DEF HistoryTypeOK
  <2>2. IsFiniteSet(1..lastEval)
    BY <2>1, FS_Interval
  <2> QED BY <2>1, <2>2, FS_Subset DEF HistoryTypeOK
<1>2. M \subseteq Nat /\ M # {}
  BY <1>1
<1>3. IsFiniteSet(M)
  <2> DEFINE f == [j \in D |-> evals[j].made]
  <2>1. f \in Surjection(D, M)
    BY DEF Surjection
  <2> HIDE DEF f, M
  <2> QED BY <1>1, <2>1, FS_Surjection
<1>4. Max(M) \in M /\ Max(M) \in Nat /\ \A x \in M : x <= Max(M)
  <2> HIDE DEF M
  <2> QED BY <1>2, <1>3, FiniteHasMax
<1> DEFINE top == Max(M)
<1>5. top \in Nat /\ (\E j \in D : evals[j].made = top) /\ \A j \in D : evals[j].made <= top
  BY <1>4
<1> HIDE DEF top, M
<1>6. I = {j \in D : evals[j].made = top}
  BY DEF top
<1> HIDE DEF I
<1>7. I \subseteq Nat /\ I # {} /\ IsFiniteSet(I)
  BY <1>1, <1>5, <1>6, FS_Subset
<1>8. Max(I) \in I /\ \A x \in I : x <= Max(I)
  BY <1>7, FiniteHasMax
<1>9. ASSUME NEW j \in D PROVE ~Later(j, Max(I))
  <2>1. Max(I) \in Nat /\ j \in Nat /\ evals[Max(I)].made = top /\ evals[j].made \in Nat /\ evals[j].made <= top
    BY <1>1, <1>5, <1>6, <1>7, <1>8
  <2>2. CASE evals[j].made = top
    BY <1>6, <1>8, <2>1, <2>2 DEF Later
  <2>3. CASE evals[j].made # top
    BY <1>5, <2>1, <2>3 DEF Later
  <2> QED BY <2>2, <2>3
<1> QED BY <1>6, <1>8, <1>9

\* Taking away records that are not among the newest brings no older one among them.
LEMMA PrunedStaysOld ==
  ASSUME HistoryTypeOK, NEW S \in SUBSET DOMAIN evals, NEW T \in SUBSET S,
         Newest(S) \subseteq T, NEW id \in T, id \notin Newest(S)
  PROVE  ~(Cardinality(Recent(T, id)) < KeptEvals)
<1> DEFINE Old == S \ Newest(S)
<1>1. PICK m \in Old : \A j \in Old : ~Later(j, m)
  <2>1. Old \in SUBSET DOMAIN evals /\ Old # {}
    OBVIOUS
  <2> HIDE DEF Old
  <2> QED BY <2>1, LatestExists
<1>2. ~(Cardinality(Recent(S, m)) < KeptEvals)
  BY <1>1 DEF Newest, Recent
<1>3. Recent(S, m) \subseteq T
  BY <1>1 DEF Recent
<1>4. Recent(S, m) \subseteq Recent(T, id)
  <2>1. ASSUME NEW j \in Recent(S, m) PROVE j \in Recent(T, id)
    <3>1. j \in T /\ Later(j, m) /\ ~Later(id, m)
      BY <1>1, <1>3 DEF Recent
    <3>2. /\ j \in Nat /\ m \in Nat /\ id \in Nat
          /\ evals[j].made \in Nat /\ evals[m].made \in Nat /\ evals[id].made \in Nat
      BY <1>1, <3>1 DEF HistoryTypeOK
    <3>3. Later(j, id)
      BY <3>1, <3>2 DEF Later
    <3> QED BY <3>1, <3>3 DEF Recent
  <2> QED BY <2>1
<1>5. IsFiniteSet(Recent(T, id))
  <2>1. Recent(T, id) \subseteq 1..lastEval /\ lastEval \in Nat
    BY DEF Recent, HistoryTypeOK
  <2>2. IsFiniteSet(1..lastEval)
    BY <2>1, FS_Interval
  <2> QED BY <2>1, <2>2, FS_Subset
<1> QED BY <1>2, <1>4, <1>5, NewestShrinks

LEMMA HistoryStep ==
  ASSUME HistoryTypeOK, HistoryKeepsNewest, [RankNext]_rankVars
  PROVE  HistoryTypeOK' /\ HistoryKeepsNewest'
<1>1. ASSUME NEW t \in RankTargets, NEW o, recordEval(t, o)
      PROVE  HistoryTypeOK' /\ HistoryKeepsNewest'
  <2>1. PICK id \in EvalIds, now \in Times : ModelEvalCreate(id, t, o, now)
    BY <1>1 DEF recordEval
  <2>2. /\ lastEval' = lastEval + 1 /\ id = lastEval + 1 /\ pruning' = pruning
        /\ DOMAIN evals' = DOMAIN evals \cup {id} /\ id \notin DOMAIN evals
        /\ evals'[id] = [target |-> t, outcome |-> o, made |-> now]
        /\ \A j \in DOMAIN evals : evals'[j] = evals[j]
    BY <1>1, <2>1 DEF recordEval, ModelEvalCreate, HistoryTypeOK
  <2>3. HistoryTypeOK'
    <3>1. lastEval' \in Nat /\ DOMAIN evals' \subseteq 1..lastEval'
      BY <2>2 DEF HistoryTypeOK
    <3>2. pruning' \in [RankProcesses -> SUBSET (1..lastEval')]
      <4>1. 1..lastEval \subseteq 1..lastEval'
        BY <2>2 DEF HistoryTypeOK
      <4> QED BY <2>2, <4>1 DEF HistoryTypeOK
    <3>3. \A j \in DOMAIN evals' : evals'[j].target \in RankTargets /\ evals'[j].made \in Nat
      BY <2>2, RankAssumption DEF HistoryTypeOK
    <3>4. ASSUME NEW p \in RankProcesses, NEW j \in pruning'[p] \cap DOMAIN evals'
          PROVE  evals'[j].outcome \in Success
      <4>1. j \in 1..lastEval /\ lastEval \in Nat
        BY <2>2, <3>4 DEF HistoryTypeOK
      <4>2. j # id /\ j \in DOMAIN evals /\ j \in pruning[p]
        BY <2>2, <4>1, <3>4
      <4> QED BY <2>2, <4>2 DEF HistoryTypeOK
    <3> QED BY <3>1, <3>2, <3>3, <3>4 DEF HistoryTypeOK
  <2>4. ASSUME NEW q \in RankProcesses, NEW u \in RankTargets, NEW e \in pruning'[q], e \in Newest(Successes(u))'
        PROVE  FALSE
    <3> DEFINE S == Successes(u)
    <3>0. e \in 1..lastEval /\ lastEval \in Nat /\ e \in pruning[q]
      BY <2>2, <2>4 DEF HistoryTypeOK
    <3>1. e # id
      BY <2>2, <3>0
    <3>2. e \in S' /\ e \in DOMAIN evals
      BY <2>2, <2>4, <3>1 DEF Newest, Successes
    <3>3. e \in S
      BY <3>1, <3>2, <2>2 DEF Successes
    <3>4. S \subseteq DOMAIN evals /\ S \subseteq S'
      BY <2>2 DEF Successes
    <3>5. Recent(S, e) \subseteq Recent(S, e)'
      BY <2>2, <3>2, <3>4 DEF Recent, Later
    <3>6. IsFiniteSet(Recent(S, e)')
      <4>1. Recent(S, e)' \subseteq 1..lastEval' /\ lastEval' \in Nat
        BY <2>3 DEF HistoryTypeOK, Successes, Recent
      <4>2. IsFiniteSet(1..lastEval')
        BY <4>1, FS_Interval
      <4> QED BY <4>1, <4>2, FS_Subset
    <3>7. e \notin Newest(S)
      BY <3>0 DEF HistoryKeepsNewest
    <3>8. ~(Cardinality(Recent(S, e)) < KeptEvals)
      BY <3>3, <3>7 DEF Newest, Recent
    <3> DEFINE A == Recent(S, e)
               B == Recent(S, e)'
    <3>9. ~(Cardinality(B) < KeptEvals)
      <4> HIDE DEF A
      <4>1. A \subseteq B /\ IsFiniteSet(B) /\ ~(Cardinality(A) < KeptEvals)
        BY <3>5, <3>6, <3>8 DEF A
      <4> HIDE DEF B
      <4> QED BY <4>1, NewestShrinks
    <3> QED BY <2>4, <3>9 DEF Newest, Recent
  <2> QED BY <2>3, <2>4 DEF HistoryKeepsNewest
<1>2. ASSUME NEW p \in RankProcesses, NEW t \in RankTargets, ModelEvalPruneTarget(p, t)
      PROVE  HistoryTypeOK' /\ HistoryKeepsNewest'
  <2>1. evals' = evals /\ lastEval' = lastEval
    BY <1>2 DEF ModelEvalPruneTarget
  <2>2. pruning' = [pruning EXCEPT ![p] = Successes(t) \ Newest(Successes(t))]
    BY <1>2 DEF ModelEvalPruneTarget
  <2> DEFINE Stale == Successes(t) \ Newest(Successes(t))
  <2>3. Stale \in SUBSET (1..lastEval) /\ \A id \in Stale : evals[id].outcome \in Success
    BY DEF Successes, HistoryTypeOK
  <2>4. /\ pruning' \in [RankProcesses -> SUBSET (1..lastEval)] /\ pruning'[p] = Stale
        /\ \A q \in RankProcesses \ {p} : pruning'[q] = pruning[q]
    <3> HIDE DEF Stale
    <3>1. pruning' = [pruning EXCEPT ![p] = Stale]
      BY <2>2 DEF Stale
    <3> QED BY <3>1, <2>3 DEF HistoryTypeOK
  <2>5. HistoryTypeOK'
    <3> HIDE DEF Stale
    <3> QED BY <2>1, <2>3, <2>4 DEF HistoryTypeOK
  <2>6. ASSUME NEW u \in RankTargets, NEW e \in Stale, e \in Newest(Successes(u))
        PROVE  FALSE
    <3>1. u = t
      BY <2>6 DEF Newest, Successes
    <3> QED BY <2>6, <3>1
  <2>7. \A u \in RankTargets : Newest(Successes(u))' = Newest(Successes(u))
    BY <2>1 DEF Newest, Successes, Later
  <2> HIDE DEF Stale
  <2>8. HistoryKeepsNewest'
    BY <2>4, <2>6, <2>7 DEF HistoryKeepsNewest
  <2> QED BY <2>5, <2>8
<1>3. ASSUME NEW p \in RankProcesses, pruneStale(p)
      PROVE  HistoryTypeOK' /\ HistoryKeepsNewest'
  <2>1. /\ lastEval' = lastEval /\ DOMAIN evals' = DOMAIN evals \ pruning[p]
        /\ \A id \in DOMAIN evals' : evals'[id] = evals[id]
        /\ pruning' \in [RankProcesses -> SUBSET (1..lastEval)] /\ pruning'[p] = {}
        /\ \A q \in RankProcesses \ {p} : pruning'[q] = pruning[q]
    BY <1>3 DEF pruneStale, HistoryTypeOK
  <2>2. HistoryTypeOK'
    BY <2>1 DEF HistoryTypeOK
  <2>3. ASSUME NEW q \in RankProcesses, NEW u \in RankTargets, NEW e \in pruning'[q], e \in Newest(Successes(u))'
        PROVE  FALSE
    <3> DEFINE S == Successes(u)
               T == Successes(u) \ pruning[p]
    <3>0. Successes(u)' = T
      BY <2>1 DEF Successes
    <3>1. q # p /\ e \in pruning[q] /\ e \in T
      BY <2>1, <2>3, <3>0 DEF Newest
    <3>2. S \in SUBSET DOMAIN evals /\ T \in SUBSET S
      BY DEF Successes
    <3>3. Newest(S) \subseteq T
      BY DEF Newest, HistoryKeepsNewest
    <3>4. e \notin Newest(S)
      BY <3>1 DEF HistoryKeepsNewest
    <3>5. Cardinality(Recent(Successes(u), e)') < KeptEvals
      BY <2>3 DEF Newest, Recent
    <3>6. Recent(Successes(u), e)' = Recent(T, e)
      <4>1. e \in DOMAIN evals' /\ \A j \in T : j \in DOMAIN evals'
        BY <2>1, <3>1, <3>2
      <4> HIDE DEF T
      <4> QED BY <2>1, <3>0, <4>1 DEF Recent, Later
    <3> HIDE DEF S, T
    <3>7. ~(Cardinality(Recent(T, e)) < KeptEvals)
      BY <3>1, <3>2, <3>3, <3>4, PrunedStaysOld
    <3> QED BY <3>5, <3>6, <3>7
  <2> QED BY <2>2, <2>3 DEF HistoryKeepsNewest
<1>4. ASSUME ModelEvalClearFailures PROVE HistoryTypeOK' /\ HistoryKeepsNewest'
  <2>1. /\ lastEval' = lastEval /\ pruning' = pruning
        /\ DOMAIN evals' = {j \in DOMAIN evals : evals[j].outcome # "error"}
        /\ \A j \in DOMAIN evals' : evals'[j] = evals[j]
    BY <1>4 DEF ModelEvalClearFailures
  <2>2. HistoryTypeOK'
    BY <2>1 DEF HistoryTypeOK
  <2>3. ASSUME NEW u \in RankTargets PROVE Newest(Successes(u))' = Newest(Successes(u))
    <3>1. Successes(u)' = Successes(u)
      BY <2>1 DEF Successes, Success
    <3>2. \A i \in Successes(u) : evals'[i] = evals[i]
      BY <2>1, <3>1 DEF Successes
    <3>3. \A i \in Successes(u) : {j \in Successes(u) : Later(j, i)}' = {j \in Successes(u) : Later(j, i)}
      BY <3>1, <3>2 DEF Later
    <3> QED BY <3>1, <3>3 DEF Newest
  <2> QED BY <2>1, <2>2, <2>3 DEF HistoryKeepsNewest
<1>5. ASSUME UNCHANGED historyVars PROVE HistoryTypeOK' /\ HistoryKeepsNewest'
  BY <1>5 DEF historyVars, HistoryTypeOK, HistoryKeepsNewest, Newest, Successes, Later
<1>6. ASSUME NEW p, RankingBegins(p) PROVE UNCHANGED historyVars
  BY <1>6 DEF RankingBegins, ModelEvalRankUpsert, ModelEvalRankFromHistory, ModelEvalRankManualAdd,
              ModelEvalRankMoveUp, ModelEvalRankMoveDown, ModelEvalRankSetPosition, modelEvalRankReorder
<1>7. ASSUME NEW p, RankingGoesOn(p) PROVE UNCHANGED historyVars
  BY <1>7 DEF RankingGoesOn, readNextPosition, createRows, replaceRow, renumberRows, rankWriteFails,
              ModelEvalRankRemove
<1>8. ASSUME NEW S, deleteEvalRanks(S) PROVE UNCHANGED historyVars
  BY <1>8 DEF deleteEvalRanks
<1>9. ASSUME UNCHANGED rankVars PROVE UNCHANGED historyVars
  BY <1>9 DEF rankVars
<1> QED BY <1>1, <1>2, <1>3, <1>4, <1>5, <1>6, <1>7, <1>8, <1>9 DEF RankNext, HistoryNext

-----------------------------------------------------------------------------
(* The ranking *)

\* What the holder of a lock has read fits together: the next place is past every place read,
\* and a renumbering gives each entry a place of its own and moves one of them.
ReadsFit(w) ==
  \/ w = NoWrite
  \/ w.at = "append" /\ w.new \in Seq(RankTargets)
  \/ /\ w.at = "create" /\ w.new \in Seq(RankTargets) /\ w.next \in Nat
     /\ \A r \in DOMAIN w.seen : w.seen[r] \in Nat /\ w.seen[r] < w.next
  \/ w.at = "replace" /\ w.row \in DOMAIN w.seen /\ w.place = w.seen[w.row] /\ w.place \in Nat
  \/ /\ w.at = "renumber" /\ DOMAIN w.places = DOMAIN w.seen
     /\ \A r \in DOMAIN w.seen : w.places[r] \in Nat /\ w.seen[r] \in Nat
     /\ \A a, b \in DOMAIN w.seen : w.places[a] = w.places[b] => a = b
     /\ \E m \in DOMAIN w.seen : \A a, b \in DOMAIN w.seen \ {m} :
          w.seen[a] < w.seen[b] \/ (w.seen[a] = w.seen[b] /\ a < b) <=> w.places[a] < w.places[b]

RanksTypeOK ==
  /\ lastRow \in Nat /\ RankRows \subseteq 1..lastRow
  /\ \A r \in RankRows : ranks[r] \in [target : RankTargets, place : Nat]

WritesTypeOK ==
  /\ write = [p \in RankProcesses |-> write[p]]
  /\ \A p \in RankProcesses : ReadsFit(write[p])

RankInv == HistoryTypeOK /\ HistoryKeepsNewest /\ RanksTypeOK /\ WritesTypeOK

\* The next position is past every position.
LEMMA NextPosition ==
  ASSUME RanksTypeOK
  PROVE  nextRankablePosition \in Nat /\ \A r \in RankRows : ranks[r].place < nextRankablePosition
<1> DEFINE P == {ranks[r].place : r \in RankRows}
<1>1. CASE RankRows = {}
  BY <1>1 DEF nextRankablePosition
<1>2. CASE RankRows # {}
  <2>1. IsFiniteSet(RankRows)
    <3>1. IsFiniteSet(1..lastRow)
      BY FS_Interval DEF RanksTypeOK
    <3> QED BY <3>1, FS_Subset DEF RanksTypeOK
  <2>2. IsFiniteSet(P)
    <3> DEFINE f == [r \in RankRows |-> ranks[r].place]
    <3>1. f \in Surjection(RankRows, P)
      BY DEF Surjection
    <3> HIDE DEF f, P
    <3> QED BY <2>1, <3>1, FS_Surjection
  <2>3. P # {} /\ P \subseteq Nat
    BY <1>2 DEF RanksTypeOK
  <2>4. nextRankablePosition = Max(P) + 1
    BY <1>2 DEF nextRankablePosition
  <2>5. Max(P) \in Nat /\ \A x \in P : x <= Max(P)
    <3> HIDE DEF P
    <3> QED BY <2>2, <2>3, FiniteHasMax
  <2>6. \A r \in RankRows : ranks[r].place \in Nat /\ ranks[r].place \in P
    BY DEF RanksTypeOK
  <2> HIDE DEF P
  <2> QED BY <2>4, <2>5, <2>6
<1> QED BY <1>1, <1>2

\* The order of the list is a strict total order.
LEMMA ListOrdered ==
  ASSUME RanksTypeOK
  PROVE  /\ \A a \in RankRows : ~Precedes(ranks, a, a)
         /\ \A a, b \in RankRows : a # b => Precedes(ranks, a, b) \/ Precedes(ranks, b, a)
         /\ \A a, b, c \in RankRows : Precedes(ranks, a, b) /\ Precedes(ranks, b, c) => Precedes(ranks, a, c)
<1>1. \A a \in RankRows : a \in Nat /\ ranks[a].place \in Nat
  BY DEF RanksTypeOK
<1> QED BY <1>1 DEF Precedes

\* The places within a part of the list are in the order of the list.
LEMMA PlacesOrdered ==
  ASSUME RanksTypeOK, NEW S \in SUBSET RankRows
  PROVE  /\ \A a \in RankRows : Place(S, a) \in Nat
         /\ \A a, b \in S : Precedes(ranks, a, b) <=> Place(S, a) < Place(S, b)
         /\ \A a, b \in S : Place(S, a) = Place(S, b) => a = b
<1> DEFINE Below(a) == {x \in S : Precedes(ranks, x, a)}
<1>1. IsFiniteSet(S)
  <2>1. IsFiniteSet(1..lastRow) /\ S \subseteq 1..lastRow
    BY FS_Interval DEF RanksTypeOK
  <2> QED BY <2>1, FS_Subset
<1>2. ASSUME NEW a \in RankRows
      PROVE  Place(S, a) = Cardinality(Below(a)) /\ IsFiniteSet(Below(a)) /\ Cardinality(Below(a)) \in Nat
  BY <1>1, FS_Subset, FS_CardinalityType DEF Place
<1>3. ASSUME NEW a \in S, NEW b \in S, Precedes(ranks, a, b)
      PROVE  Place(S, a) < Place(S, b)
  <2>1. Below(a) \subseteq Below(b) /\ a \in Below(b) /\ a \notin Below(a)
    BY <1>3, ListOrdered
  <2>2. /\ Place(S, a) = Cardinality(Below(a)) /\ Place(S, b) = Cardinality(Below(b))
        /\ IsFiniteSet(Below(b)) /\ Cardinality(Below(a)) \in Nat /\ Cardinality(Below(b)) \in Nat
    BY <1>2
  <2> HIDE DEF Below
  <2>3. Cardinality(Below(a)) <= Cardinality(Below(b)) /\ Cardinality(Below(a)) # Cardinality(Below(b))
    BY <2>1, <2>2, FS_Subset
  <2> QED BY <2>2, <2>3
<1>4. ASSUME NEW a \in S, NEW b \in S, ~Precedes(ranks, a, b)
      PROVE  ~(Place(S, a) < Place(S, b)) /\ (Place(S, a) = Place(S, b) => a = b)
  <2>1. Place(S, a) \in Nat /\ Place(S, b) \in Nat
    BY <1>2
  <2>2. a = b \/ Precedes(ranks, b, a)
    BY <1>4, ListOrdered
  <2>3. CASE a = b
    BY <2>1, <2>3
  <2>4. CASE Precedes(ranks, b, a)
    BY <1>3, <2>1, <2>4
  <2> QED BY <2>2, <2>3, <2>4
<1>5. ASSUME NEW a \in S, NEW b \in S, Place(S, a) = Place(S, b) PROVE a = b
  <2>1. Place(S, a) \in Nat /\ Place(S, b) \in Nat
    BY <1>2
  <2> QED BY <1>3, <1>4, <1>5, <2>1
<1> QED BY <1>2, <1>3, <1>4, <1>5

\* A renumbered list has one place per entry and moves the chosen entry only.
LEMMA NumberedFits ==
  ASSUME RanksTypeOK, NEW row \in RankRows, NEW next \in Nat
  PROVE  LET places == Numbered(row, next) IN
         /\ DOMAIN places = RankRows
         /\ \A r \in RankRows : places[r] \in Nat
         /\ \A a, b \in RankRows : places[a] = places[b] => a = b
         /\ \A a, b \in RankRows \ {row} : Precedes(ranks, a, b) <=> places[a] < places[b]
<1> DEFINE S == RankRows \ {row}
           place(r) == Place(S, r)
           places == Numbered(row, next)
<1>1. /\ \A a \in RankRows : place(a) \in Nat
      /\ \A a, b \in S : Precedes(ranks, a, b) <=> place(a) < place(b)
      /\ \A a, b \in S : place(a) = place(b) => a = b
  <2>1. S \in SUBSET RankRows
    OBVIOUS
  <2> HIDE DEF S
  <2> QED BY <2>1, PlacesOrdered
<1>2. /\ DOMAIN places = RankRows /\ places[row] = next
      /\ \A r \in S : places[r] = IF place(r) < next THEN place(r) ELSE place(r) + 1
  BY DEF Numbered
<1> HIDE DEF place, places
<1>3. \A r \in RankRows : places[r] \in Nat
  BY <1>1, <1>2
<1>4. \A a, b \in S : Precedes(ranks, a, b) <=> places[a] < places[b]
  BY <1>1, <1>2
<1>5. \A r \in S : places[r] # next
  BY <1>1, <1>2
<1>6. \A a, b \in S : places[a] = places[b] => a = b
  BY <1>1, <1>2
<1>7. \A a, b \in RankRows : places[a] = places[b] => a = b
  BY <1>2, <1>5, <1>6
<1> QED BY <1>2, <1>3, <1>4, <1>7 DEF places

\* Whatever a process holds to write next, the others keep theirs.
LEMMA WriteSet ==
  ASSUME WritesTypeOK, NEW p \in RankProcesses, NEW v, ReadsFit(v), write' = [write EXCEPT ![p] = v]
  PROVE  WritesTypeOK' /\ write'[p] = v /\ \A q \in RankProcesses \ {p} : write'[q] = write[q]
<1>1. DOMAIN write = RankProcesses
  BY DEF WritesTypeOK
<1>2. /\ DOMAIN write' = RankProcesses /\ write' = [q \in RankProcesses |-> write'[q]]
      /\ write'[p] = v /\ \A q \in RankProcesses \ {p} : write'[q] = write[q]
  BY <1>1
<1>3. \A q \in RankProcesses : ReadsFit(write'[q])
  BY <1>2 DEF WritesTypeOK
<1> QED BY <1>2, <1>3 DEF WritesTypeOK

\* A reading leaves the ranking alone, and what it has seen is the ranking.
ReadsNow(p) ==
  /\ WritesTypeOK' /\ ranks' = ranks /\ lastRow' = lastRow
  /\ write'[p].at = "append" \/ write'[p].seen = placesNow
  /\ \A q \in RankProcesses \ {p} : write'[q] = write[q]

LEMMA ReorderReads ==
  ASSUME RanksTypeOK, WritesTypeOK, NEW p \in RankProcesses, NEW row, NEW next \in Nat,
         modelEvalRankReorder(p, row, next)
  PROVE  ReadsNow(p)
<1>1. row \in RankRows
  BY DEF modelEvalRankReorder
<1>2. PICK places : places = Numbered(row, next)
  OBVIOUS
<1>3. /\ DOMAIN places = RankRows
      /\ \A r \in RankRows : places[r] \in Nat
      /\ \A a, b \in RankRows : places[a] = places[b] => a = b
      /\ \A a, b \in RankRows \ {row} : Precedes(ranks, a, b) <=> places[a] < places[b]
  BY <1>1, <1>2, NumberedFits
<1>4. PICK seen : seen = placesNow
  OBVIOUS
<1>5. DOMAIN seen = RankRows /\ \A r \in RankRows : seen[r] = ranks[r].place /\ seen[r] \in Nat
  BY <1>4 DEF placesNow, RanksTypeOK
<1>6. \A a, b \in RankRows \ {row} :
        seen[a] < seen[b] \/ (seen[a] = seen[b] /\ a < b) <=> places[a] < places[b]
  BY <1>3, <1>5 DEF Precedes
<1> DEFINE v == [at |-> "renumber", places |-> places, seen |-> seen]
<1>7. v.at = "renumber" /\ v.places = places /\ v.seen = seen
  OBVIOUS
<1>8. write' = [write EXCEPT ![p] = v] /\ ranks' = ranks /\ lastRow' = lastRow
  BY <1>2, <1>4 DEF modelEvalRankReorder
<1> HIDE DEF v
<1>9. ReadsFit(v)
  BY <1>1, <1>3, <1>5, <1>6, <1>7 DEF ReadsFit
<1>10. WritesTypeOK' /\ write'[p] = v /\ \A q \in RankProcesses \ {p} : write'[q] = write[q]
  BY <1>8, <1>9, WriteSet
<1> QED BY <1>4, <1>7, <1>8, <1>10 DEF ReadsNow

LEMMA AppendReads ==
  ASSUME WritesTypeOK, NEW p \in RankProcesses, NEW new \in Seq(RankTargets),
         write' = [write EXCEPT ![p] = [at |-> "append", new |-> new]],
         ranks' = ranks, lastRow' = lastRow
  PROVE  ReadsNow(p)
<1> DEFINE v == [at |-> "append", new |-> new]
<1>1. v.at = "append" /\ v.new = new /\ write' = [write EXCEPT ![p] = v]
  OBVIOUS
<1> HIDE DEF v
<1>2. ReadsFit(v)
  BY <1>1 DEF ReadsFit
<1>3. WritesTypeOK' /\ write'[p] = v /\ \A q \in RankProcesses \ {p} : write'[q] = write[q]
  BY <1>1, <1>2, WriteSet
<1> QED BY <1>1, <1>3 DEF ReadsNow

LEMMA UpsertReads ==
  ASSUME HistoryTypeOK, RanksTypeOK, WritesTypeOK, NEW p \in RankProcesses, NEW id, ModelEvalRankUpsert(p, id)
  PROVE  ReadsNow(p)
<1>1. PICK t : t = evals[id].target
  OBVIOUS
<1>2. t \in RankTargets /\ ranks' = ranks /\ lastRow' = lastRow
  BY <1>1 DEF ModelEvalRankUpsert, Made, HistoryTypeOK
<1>3. CASE write' = [write EXCEPT ![p] = [at |-> "append", new |-> <<t>>]]
  <2>1. PICK new : new = <<t>>
    OBVIOUS
  <2>2. new \in Seq(RankTargets)
    BY <1>2, <2>1
  <2> QED BY <1>2, <1>3, <2>1, <2>2, AppendReads
<1>4. ASSUME NEW row \in RankRows,
             write' = [write EXCEPT ![p] =
               [at |-> "replace", row |-> row, place |-> ranks[row].place, seen |-> placesNow]]
      PROVE  ReadsNow(p)
  <2>1. PICK seen : seen = placesNow
    OBVIOUS
  <2>2. PICK place : place = ranks[row].place
    OBVIOUS
  <2>3. row \in DOMAIN seen /\ place = seen[row] /\ place \in Nat
    BY <2>1, <2>2 DEF placesNow, RanksTypeOK
  <2> DEFINE v == [at |-> "replace", row |-> row, place |-> place, seen |-> seen]
  <2>4. v.at = "replace" /\ v.row = row /\ v.place = place /\ v.seen = seen
    OBVIOUS
  <2>5. write' = [write EXCEPT ![p] = v]
    BY <1>4, <2>1, <2>2
  <2> HIDE DEF v
  <2>6. ReadsFit(v)
    BY <2>3, <2>4 DEF ReadsFit
  <2>7. WritesTypeOK' /\ write'[p] = v /\ \A q \in RankProcesses \ {p} : write'[q] = write[q]
    BY <2>5, <2>6, WriteSet
  <2> QED BY <1>2, <2>1, <2>4, <2>7 DEF ReadsNow
<1> QED BY <1>1, <1>3, <1>4 DEF ModelEvalRankUpsert

LEMMA NextPositionReads ==
  ASSUME RanksTypeOK, WritesTypeOK, NEW p \in RankProcesses, readNextPosition(p)
  PROVE  ReadsNow(p)
<1>1. PICK seen : seen = placesNow
  OBVIOUS
<1>2. PICK next : next = nextRankablePosition
  OBVIOUS
<1>3. PICK new : new = write[p].new
  OBVIOUS
<1>4. new \in Seq(RankTargets)
  BY <1>3 DEF readNextPosition, WritesTypeOK, ReadsFit, NoWrite
<1>5. next \in Nat /\ \A r \in DOMAIN seen : seen[r] \in Nat /\ seen[r] < next
  BY <1>1, <1>2, NextPosition DEF placesNow, RanksTypeOK
<1> DEFINE v == [at |-> "create", new |-> new, next |-> next, seen |-> seen]
<1>6. v.at = "create" /\ v.new = new /\ v.next = next /\ v.seen = seen
  OBVIOUS
<1>7. write' = [write EXCEPT ![p] = v] /\ ranks' = ranks /\ lastRow' = lastRow
  BY <1>1, <1>2, <1>3 DEF readNextPosition
<1> HIDE DEF v
<1>8. ReadsFit(v)
  BY <1>4, <1>5, <1>6 DEF ReadsFit
<1>9. WritesTypeOK' /\ write'[p] = v /\ \A q \in RankProcesses \ {p} : write'[q] = write[q]
  BY <1>7, <1>8, WriteSet
<1> QED BY <1>1, <1>6, <1>7, <1>9 DEF ReadsNow

LEMMA BeginReads ==
  ASSUME HistoryTypeOK, RanksTypeOK, WritesTypeOK, NEW p \in RankProcesses, RankingBegins(p)
  PROVE  ReadsNow(p)
<1>1. ASSUME NEW id \in EvalIds, ModelEvalRankUpsert(p, id) \/ ModelEvalRankFromHistory(p, id)
      PROVE  ReadsNow(p)
  BY <1>1, UpsertReads DEF ModelEvalRankFromHistory
<1>2. ASSUME NEW b \in Batches, ModelEvalRankManualAdd(p, b) PROVE ReadsNow(p)
  BY <1>2, RankAssumption, AppendReads DEF ModelEvalRankManualAdd
<1>3. ASSUME NEW row \in RankRows, ModelEvalRankMoveUp(p, row) PROVE ReadsNow(p)
  <2>1. Place(RankRows, row) \in Nat /\ Place(RankRows, row) > 0
    BY <1>3, PlacesOrdered DEF ModelEvalRankMoveUp
  <2> DEFINE next == Place(RankRows, row) - 1
  <2>2. next \in Nat /\ modelEvalRankReorder(p, row, next)
    BY <1>3, <2>1 DEF ModelEvalRankMoveUp
  <2> HIDE DEF next
  <2> QED BY <2>2, ReorderReads
<1>4. ASSUME NEW row \in RankRows, ModelEvalRankMoveDown(p, row) PROVE ReadsNow(p)
  <2>1. Place(RankRows, row) \in Nat
    BY <1>4, PlacesOrdered DEF ModelEvalRankMoveDown
  <2> DEFINE next == Place(RankRows, row) + 1
  <2>2. next \in Nat /\ modelEvalRankReorder(p, row, next)
    BY <1>4, <2>1 DEF ModelEvalRankMoveDown
  <2> HIDE DEF next
  <2> QED BY <2>2, ReorderReads
<1>5. ASSUME NEW row \in RankRows, NEW n \in 1..Cardinality(RankRows) + 1,
             ModelEvalRankSetPosition(p, row, n)
      PROVE  ReadsNow(p)
  <2> DEFINE c == Cardinality(RankRows)
             next == Min({n, c}) - 1
  <2>1. modelEvalRankReorder(p, row, next)
    BY <1>5 DEF ModelEvalRankSetPosition
  <2>2. IsFiniteSet(RankRows)
    <3>1. IsFiniteSet(1..lastRow) /\ RankRows \subseteq 1..lastRow
      BY FS_Interval DEF RanksTypeOK
    <3> QED BY <3>1, FS_Subset
  <2>3. c \in Nat /\ c # 0
    BY <2>2, FS_CardinalityType, FS_EmptySet
  <2>4. n \in Nat /\ n > 0
    BY <2>2, FS_CardinalityType
  <2> HIDE DEF c
  <2>5. Min({n, c}) \in {n, c}
    <3>1. \E x \in {n, c} : \A y \in {n, c} : x <= y
      BY <2>3, <2>4
    <3> QED BY <3>1 DEF Min
  <2>6. next \in Nat
    BY <2>3, <2>4, <2>5
  <2> HIDE DEF next
  <2> QED BY <2>1, <2>6, ReorderReads
<1> QED BY <1>1, <1>2, <1>3, <1>4, <1>5 DEF RankingBegins

-----------------------------------------------------------------------------
\* What a process that nobody overtook has seen holds of the ranking.
LEMMA SeenHolds ==
  ASSUME NEW p \in RankProcesses, write[p].at \in Writing, ~Overtaken(p), NEW r \in RankRows
  PROVE  r \in DOMAIN write[p].seen /\ ranks[r].place = write[p].seen[r]
BY DEF Overtaken, Writing

\* Entries that keep their places keep their order.
LEMMA PlacesKept ==
  ASSUME DOMAIN ranks' \subseteq DOMAIN ranks,
         \A r \in DOMAIN ranks' : ranks'[r].place = ranks[r].place
  PROVE  OneMoves /\ (NoPlaceTwice(ranks) => NoPlaceTwice(ranks'))
<1>1. \A a, b \in (RankRows \cap RankRows') \ {0} : Precedes(ranks, a, b) <=> Precedes(ranks', a, b)
  BY DEF Precedes, RankRows
<1>2. OneMoves
  BY <1>1 DEF OneMoves
<1> QED BY <1>2 DEF NoPlaceTwice

LEMMA CreateIsSound ==
  ASSUME RanksTypeOK, WritesTypeOK, NEW p \in RankProcesses, createRows(p)
  PROVE  /\ RanksTypeOK'
         /\ ~Overtaken(p) => OneMoves /\ (NoPlaceTwice(ranks) => NoPlaceTwice(ranks'))
<1>1. PICK new, next : new = write[p].new /\ next = write[p].next
  OBVIOUS
<1>2. new \in Seq(RankTargets) /\ next \in Nat /\ write[p].at = "create"
      /\ \A r \in DOMAIN write[p].seen : write[p].seen[r] \in Nat /\ write[p].seen[r] < next
  BY <1>1 DEF createRows, WritesTypeOK, ReadsFit, NoWrite
<1> DEFINE n == Len(new)
           Fresh == (lastRow + 1)..(lastRow + n)
<1>3. /\ lastRow' = lastRow + n /\ DOMAIN ranks' = RankRows \cup Fresh
      /\ \A r \in RankRows : ranks'[r] = ranks[r]
      /\ \A r \in Fresh \ RankRows : ranks'[r] = [target |-> new[r - lastRow], place |-> next + (r - lastRow) - 1]
  BY <1>1 DEF createRows
<1>4. n \in Nat /\ lastRow \in Nat /\ \A i \in 1..n : new[i] \in RankTargets
  BY <1>2 DEF RanksTypeOK
<1>5. ASSUME NEW r \in Fresh
      PROVE  r \in Nat /\ r > lastRow /\ r <= lastRow + n /\ r - lastRow \in 1..n /\ r \notin RankRows
  BY <1>4 DEF RanksTypeOK
<1>6. RanksTypeOK'
  <2>1. lastRow' \in Nat /\ RankRows' \subseteq 1..lastRow'
    BY <1>3, <1>4 DEF RanksTypeOK, RankRows
  <2>2. ASSUME NEW r \in RankRows' PROVE ranks'[r] \in [target : RankTargets, place : Nat]
    <3>1. CASE r \in RankRows
      BY <1>3, <3>1 DEF RanksTypeOK
    <3>2. CASE r \in Fresh
      <4>1. r - lastRow \in 1..n /\ new[r - lastRow] \in RankTargets
            /\ ranks'[r] = [target |-> new[r - lastRow], place |-> next + (r - lastRow) - 1]
        BY <1>3, <1>4, <1>5, <3>2
      <4>2. next + (r - lastRow) - 1 \in Nat
        BY <1>2, <1>4, <4>1
      <4> QED BY <4>1, <4>2
    <3> QED BY <1>3, <2>2, <3>1, <3>2 DEF RankRows
  <2> QED BY <2>1, <2>2 DEF RanksTypeOK
<1>7. ASSUME ~Overtaken(p) PROVE OneMoves /\ (NoPlaceTwice(ranks) => NoPlaceTwice(ranks'))
  <2>1. \A r \in RankRows : ranks'[r].place \in Nat /\ ranks'[r].place < next
    <3>1. write[p].at \in Writing
      BY <1>2 DEF Writing
    <3>2. \A r \in RankRows : r \in DOMAIN write[p].seen /\ ranks[r].place = write[p].seen[r]
      BY <1>7, <3>1, SeenHolds
    <3> QED BY <1>2, <1>3, <3>2
  <2>2. \A r \in Fresh : ranks'[r].place = next + (r - lastRow) - 1
    <3>1. \A r \in Fresh : r \in Fresh \ RankRows
      BY <1>5
    <3> HIDE DEF Fresh
    <3> QED BY <1>3, <3>1
  <2>3. OneMoves
    <3>1. \A a, b \in (RankRows \cap RankRows') \ {0} : Precedes(ranks, a, b) <=> Precedes(ranks', a, b)
      BY <1>3 DEF Precedes
    <3> QED BY <3>1 DEF OneMoves
  <2>4. ASSUME NoPlaceTwice(ranks), NEW a \in DOMAIN ranks', NEW b \in DOMAIN ranks',
               ranks'[a].place = ranks'[b].place
        PROVE  a = b
    <3>1. CASE a \in RankRows /\ b \in RankRows
      BY <1>3, <2>4, <3>1 DEF NoPlaceTwice, RankRows
    <3>2. CASE a \in Fresh /\ b \in Fresh
      BY <1>2, <1>4, <1>5, <2>2, <2>4, <3>2
    <3>3. CASE a \in RankRows /\ b \in Fresh
      BY <1>2, <1>4, <1>5, <2>1, <2>2, <2>4, <3>3
    <3>4. CASE a \in Fresh /\ b \in RankRows
      BY <1>2, <1>4, <1>5, <2>1, <2>2, <2>4, <3>4
    <3> QED BY <1>3, <2>4, <3>1, <3>2, <3>3, <3>4
  <2> QED BY <2>3, <2>4 DEF NoPlaceTwice
<1> QED BY <1>6, <1>7

LEMMA ReplaceIsSound ==
  ASSUME RanksTypeOK, WritesTypeOK, NEW p \in RankProcesses, replaceRow(p)
  PROVE  /\ RanksTypeOK'
         /\ ~Overtaken(p) => OneMoves /\ (NoPlaceTwice(ranks) => NoPlaceTwice(ranks'))
<1>1. PICK row, place : row = write[p].row /\ place = write[p].place
  OBVIOUS
<1>2. write[p].at = "replace" /\ place \in Nat /\ place = write[p].seen[row]
  BY <1>1 DEF replaceRow, WritesTypeOK, ReadsFit, NoWrite
<1>3. /\ lastRow' = lastRow /\ DOMAIN ranks' = RankRows
      /\ \A r \in RankRows : ranks'[r] = IF r = row THEN [ranks[r] EXCEPT !.place = place] ELSE ranks[r]
  BY <1>1 DEF replaceRow
<1>4. \A r \in RankRows : /\ ranks'[r] \in [target : RankTargets, place : Nat]
                          /\ ranks'[r].place = IF r = row THEN place ELSE ranks[r].place
  BY <1>2, <1>3 DEF RanksTypeOK
<1>5. RanksTypeOK'
  BY <1>3, <1>4 DEF RanksTypeOK, RankRows
<1>6. ASSUME ~Overtaken(p) PROVE OneMoves /\ (NoPlaceTwice(ranks) => NoPlaceTwice(ranks'))
  <2>1. \A r \in RankRows : ranks'[r].place = ranks[r].place
    BY <1>2, <1>4, <1>6, SeenHolds DEF Writing
  <2> QED BY <1>3, <2>1, PlacesKept DEF RankRows
<1> QED BY <1>5, <1>6

LEMMA RenumberIsSound ==
  ASSUME RanksTypeOK, WritesTypeOK, NEW p \in RankProcesses, renumberRows(p)
  PROVE  RanksTypeOK' /\ (~Overtaken(p) => OneMoves /\ NoPlaceTwice(ranks'))
<1>1. PICK places, seen : places = write[p].places /\ seen = write[p].seen
  OBVIOUS
<1>2. /\ write[p].at = "renumber" /\ DOMAIN places = DOMAIN seen
      /\ \A r \in DOMAIN seen : places[r] \in Nat /\ seen[r] \in Nat
      /\ \A a, b \in DOMAIN seen : places[a] = places[b] => a = b
  BY <1>1 DEF renumberRows, WritesTypeOK, ReadsFit, NoWrite
<1>3. PICK m \in DOMAIN seen : \A a, b \in DOMAIN seen \ {m} :
        seen[a] < seen[b] \/ (seen[a] = seen[b] /\ a < b) <=> places[a] < places[b]
  <2>1. PICK w : w = write[p]
    OBVIOUS
  <2>2. ReadsFit(w) /\ w.at = "renumber" /\ places = w.places /\ seen = w.seen
    BY <1>1, <2>1 DEF renumberRows, WritesTypeOK
  <2>3. \E m \in DOMAIN w.seen : \A a, b \in DOMAIN w.seen \ {m} :
          w.seen[a] < w.seen[b] \/ (w.seen[a] = w.seen[b] /\ a < b) <=> w.places[a] < w.places[b]
    BY <2>2 DEF ReadsFit, NoWrite
  <2> QED BY <2>2, <2>3
<1>4. /\ lastRow' = lastRow /\ DOMAIN ranks' = RankRows
      /\ \A r \in RankRows : ranks'[r] = IF r \in DOMAIN places /\ places[r] # seen[r]
                                         THEN [ranks[r] EXCEPT !.place = places[r]] ELSE ranks[r]
  BY <1>1 DEF renumberRows
<1>5. \A r \in RankRows : /\ ranks'[r] \in [target : RankTargets, place : Nat]
                          /\ ranks'[r].place = IF r \in DOMAIN places /\ places[r] # seen[r]
                                               THEN places[r] ELSE ranks[r].place
  BY <1>2, <1>4 DEF RanksTypeOK
<1>6. RanksTypeOK'
  BY <1>4, <1>5 DEF RanksTypeOK, RankRows
<1>7. ASSUME ~Overtaken(p) PROVE OneMoves /\ NoPlaceTwice(ranks')
  <2>1. \A r \in RankRows : r \in DOMAIN seen /\ ranks[r].place = seen[r]
    BY <1>1, <1>2, <1>7, SeenHolds DEF Writing
  <2>2. \A r \in RankRows : ranks'[r].place = places[r]
    BY <1>2, <1>5, <2>1
  <2>3. NoPlaceTwice(ranks')
    BY <1>2, <1>4, <2>1, <2>2 DEF NoPlaceTwice
  <2>4. ASSUME NEW a \in RankRows \ {m}, NEW b \in RankRows \ {m}
        PROVE  Precedes(ranks, a, b) <=> Precedes(ranks', a, b)
    <3>1. Precedes(ranks, a, b) <=> places[a] < places[b]
      BY <1>3, <2>1 DEF Precedes
    <3>2. /\ places[a] \in Nat /\ places[b] \in Nat /\ a \in Nat
          /\ (places[a] = places[b] => a = b)
      BY <1>2, <2>1 DEF RanksTypeOK
    <3>3. Precedes(ranks', a, b) <=> places[a] < places[b]
      BY <2>2, <3>2 DEF Precedes
    <3> QED BY <3>1, <3>3
  <2>5. OneMoves
    <3>1. CASE m \in RankRows
      BY <1>4, <2>4, <3>1 DEF OneMoves, RankRows
    <3>2. CASE m \notin RankRows
      <4>1. \A a, b \in (RankRows \cap RankRows') \ {0} : Precedes(ranks, a, b) <=> Precedes(ranks', a, b)
        BY <2>4, <3>2
      <4> QED BY <4>1 DEF OneMoves
    <3> QED BY <3>1, <3>2
  <2> QED BY <2>3, <2>5
<1> QED BY <1>6, <1>7

\* A write ends with its lock given back.
Released(p) ==
  /\ WritesTypeOK' /\ write'[p] = NoWrite
  /\ \A q \in RankProcesses \ {p} : write'[q] = write[q]

LEMMA WriteReleases ==
  ASSUME WritesTypeOK, NEW p \in RankProcesses,
         createRows(p) \/ replaceRow(p) \/ renumberRows(p) \/ rankWriteFails(p)
  PROVE  Released(p)
<1>1. write' = [write EXCEPT ![p] = NoWrite]
  BY DEF createRows, replaceRow, renumberRows, rankWriteFails
<1>2. ReadsFit(NoWrite)
  BY DEF ReadsFit
<1> QED BY <1>1, <1>2, WriteSet DEF Released

\* A deletion keeps the places of the entries it leaves.
LEMMA RowsDeleted ==
  ASSUME RanksTypeOK, WritesTypeOK, NEW S, ranks' = Restrict(ranks, RankRows \ S),
         lastRow' = lastRow, write' = write
  PROVE  /\ RanksTypeOK' /\ WritesTypeOK'
         /\ DOMAIN ranks' \subseteq DOMAIN ranks /\ \A r \in DOMAIN ranks' : ranks'[r] = ranks[r]
<1>1. DOMAIN ranks' = RankRows \ S /\ \A r \in RankRows \ S : ranks'[r] = ranks[r]
  BY DEF Restrict
<1> QED BY <1>1 DEF RanksTypeOK, WritesTypeOK, RankRows

\* The three kinds of step the ranking takes.
Deletes ==
  /\ DOMAIN ranks' \subseteq DOMAIN ranks /\ write' = write
  /\ \A r \in DOMAIN ranks' : ranks'[r] = ranks[r]

LEMMA StepKinds ==
  ASSUME HistoryTypeOK, RanksTypeOK, WritesTypeOK, [RankNext]_rankVars
  PROVE  /\ RanksTypeOK' /\ WritesTypeOK'
         /\ \/ Deletes
            \/ \E p \in RankProcesses : ReadsNow(p)
            \/ \E p \in RankProcesses :
                 /\ Released(p) /\ write[p] # NoWrite
                 /\ \/ ranks' = ranks
                    \/ ~Overtaken(p) =>
                         /\ OneMoves /\ (NoPlaceTwice(ranks) => NoPlaceTwice(ranks'))
                         /\ write[p].at = "renumber" => NoPlaceTwice(ranks')
<1>1. ASSUME UNCHANGED <<ranks, lastRow, write>>
      PROVE  RanksTypeOK' /\ WritesTypeOK' /\ Deletes
  BY <1>1 DEF RanksTypeOK, WritesTypeOK, RankRows, Deletes
<1>2. CASE HistoryNext
  <2>1. UNCHANGED <<ranks, lastRow, write>>
    BY <1>2 DEF HistoryNext, recordEval, pruneStale, ModelEvalPruneTarget, ModelEvalClearFailures, rankingVars
  <2> QED BY <1>1, <2>1
<1>3. ASSUME NEW p \in RankProcesses, ReadsNow(p)
      PROVE  RanksTypeOK' /\ WritesTypeOK' /\ ReadsNow(p)
  BY <1>3 DEF ReadsNow, RanksTypeOK, RankRows
<1>4. ASSUME NEW p \in RankProcesses, RankingBegins(p)
      PROVE  RanksTypeOK' /\ WritesTypeOK' /\ ReadsNow(p)
  BY <1>3, <1>4, BeginReads
<1>5. ASSUME NEW p \in RankProcesses, readNextPosition(p)
      PROVE  RanksTypeOK' /\ WritesTypeOK' /\ ReadsNow(p)
  BY <1>3, <1>5, NextPositionReads
<1>6. ASSUME NEW p \in RankProcesses, createRows(p)
      PROVE  /\ RanksTypeOK' /\ Released(p) /\ write[p].at = "create"
             /\ ~Overtaken(p) => OneMoves /\ (NoPlaceTwice(ranks) => NoPlaceTwice(ranks'))
  BY <1>6, CreateIsSound, WriteReleases DEF createRows
<1>7. ASSUME NEW p \in RankProcesses, replaceRow(p)
      PROVE  /\ RanksTypeOK' /\ Released(p) /\ write[p].at = "replace"
             /\ ~Overtaken(p) => OneMoves /\ (NoPlaceTwice(ranks) => NoPlaceTwice(ranks'))
  BY <1>7, ReplaceIsSound, WriteReleases DEF replaceRow
<1>8. ASSUME NEW p \in RankProcesses, renumberRows(p)
      PROVE  /\ RanksTypeOK' /\ Released(p) /\ write[p].at = "renumber"
             /\ ~Overtaken(p) => OneMoves /\ NoPlaceTwice(ranks')
  BY <1>8, RenumberIsSound, WriteReleases DEF renumberRows
<1>9. ASSUME NEW p \in RankProcesses, rankWriteFails(p)
      PROVE  RanksTypeOK' /\ Released(p) /\ write[p] # NoWrite /\ ranks' = ranks
  <2>1. Released(p) /\ write[p] # NoWrite
    BY <1>9, WriteReleases DEF rankWriteFails
  <2> QED BY <1>9, <2>1 DEF rankWriteFails, RanksTypeOK, RankRows
<1>10. ASSUME NEW p \in RankProcesses, NEW row, ModelEvalRankRemove(p, row)
       PROVE  RanksTypeOK' /\ WritesTypeOK' /\ Deletes
  <2>1. ranks' = Restrict(ranks, RankRows \ {row}) /\ lastRow' = lastRow /\ write' = write
    BY <1>10 DEF ModelEvalRankRemove
  <2> QED BY <2>1, RowsDeleted DEF Deletes
<1>11. ASSUME NEW S, deleteEvalRanks(S) PROVE RanksTypeOK' /\ WritesTypeOK' /\ Deletes
  <2>1. ranks' = Restrict(ranks, RankRows \ S) /\ lastRow' = lastRow /\ write' = write
    BY <1>11 DEF deleteEvalRanks
  <2> QED BY <2>1, RowsDeleted DEF Deletes
<1>12. ASSUME NEW w, w.at \in Writing PROVE w # NoWrite
  BY <1>12 DEF NoWrite, Writing
<1>13. \A p : Released(p) => WritesTypeOK'
  BY DEF Released
<1>14. ASSUME NEW p \in RankProcesses, RankingGoesOn(p)
       PROVE  \/ RanksTypeOK' /\ WritesTypeOK' /\ (ReadsNow(p) \/ Deletes)
              \/ /\ RanksTypeOK' /\ Released(p) /\ write[p] # NoWrite
                 /\ \/ ranks' = ranks
                    \/ ~Overtaken(p) =>
                         /\ OneMoves /\ (NoPlaceTwice(ranks) => NoPlaceTwice(ranks'))
                         /\ write[p].at = "renumber" => NoPlaceTwice(ranks')
  <2>1. CASE readNextPosition(p)
    BY <1>5, <2>1
  <2>2. CASE createRows(p)
    <3>1. write[p].at = "create" /\ write[p] # NoWrite
      BY <1>6, <1>12, <2>2 DEF Writing
    <3> QED BY <1>6, <2>2, <3>1
  <2>3. CASE replaceRow(p)
    <3>1. write[p].at = "replace" /\ write[p] # NoWrite
      BY <1>7, <1>12, <2>3 DEF Writing
    <3> QED BY <1>7, <2>3, <3>1
  <2>4. CASE renumberRows(p)
    <3>1. write[p].at = "renumber" /\ write[p] # NoWrite
      BY <1>8, <1>12, <2>4 DEF Writing
    <3> QED BY <1>8, <2>4, <3>1
  <2>5. CASE rankWriteFails(p)
    BY <1>9, <2>5
  <2>6. ASSUME NEW row \in RankRows, ModelEvalRankRemove(p, row)
        PROVE  RanksTypeOK' /\ WritesTypeOK' /\ Deletes
    BY <1>10, <2>6
  <2> QED BY <1>14, <2>1, <2>2, <2>3, <2>4, <2>5, <2>6 DEF RankingGoesOn
<1>15. CASE UNCHANGED rankVars
  <2>1. UNCHANGED <<ranks, lastRow, write>>
    BY <1>15 DEF rankVars, rankingVars
  <2> QED BY <1>1, <2>1
<1> QED BY <1>2, <1>4, <1>11, <1>13, <1>14, <1>15 DEF RankNext

LEMMA StepIsSound ==
  ASSUME HistoryTypeOK, RanksTypeOK, WritesTypeOK, [RankNext]_rankVars
  PROVE  WriteIsSound
<1> SUFFICES ASSUME \A p \in RankProcesses : write'[p] # write[p] => ~Overtaken(p)
             PROVE  /\ OneMoves /\ (NoPlaceTwice(ranks) => NoPlaceTwice(ranks'))
                    /\ \A p \in RankProcesses :
                         write[p].at = "renumber" /\ write'[p] # write[p] /\ ranks' # ranks
                         => NoPlaceTwice(ranks')
  BY DEF WriteIsSound
<1>1. CASE Deletes
  <2>1. OneMoves /\ (NoPlaceTwice(ranks) => NoPlaceTwice(ranks'))
    BY <1>1, PlacesKept DEF Deletes
  <2> QED BY <1>1, <2>1 DEF Deletes
<1>2. CASE ranks' = ranks
  <2>1. OneMoves /\ (NoPlaceTwice(ranks) => NoPlaceTwice(ranks'))
    BY <1>2, PlacesKept
  <2> QED BY <1>2, <2>1
<1>3. ASSUME NEW p \in RankProcesses, Released(p), write[p] # NoWrite,
             ~Overtaken(p) =>
               /\ OneMoves /\ (NoPlaceTwice(ranks) => NoPlaceTwice(ranks'))
               /\ write[p].at = "renumber" => NoPlaceTwice(ranks')
      PROVE  /\ OneMoves /\ (NoPlaceTwice(ranks) => NoPlaceTwice(ranks'))
             /\ \A q \in RankProcesses :
                  write[q].at = "renumber" /\ write'[q] # write[q] /\ ranks' # ranks
                  => NoPlaceTwice(ranks')
  <2>1. ~Overtaken(p)
    BY <1>3 DEF Released
  <2> QED BY <1>3, <2>1 DEF Released
<1>4. (\E p \in RankProcesses : ReadsNow(p)) => ranks' = ranks
  BY DEF ReadsNow
<1> QED BY <1>1, <1>2, <1>3, <1>4, StepKinds

\* The ranking and the history of evaluations (op/model_eval_rank.go, op/model_eval_prune.go):
\* a write that no other process overtook moves at most one entry and gives no place twice, a
\* renumbering mends the places given twice before, and a pruning never deletes one of the newest
\* successes, for any processes, targets and number kept.
THEOREM RankHolds == RankSpec => RankSound
<1>1. RankInit => RankInv
  <2> SUFFICES ASSUME RankInit PROVE RankInv
    OBVIOUS
  <2>1. HistoryTypeOK /\ HistoryKeepsNewest
    BY DEF RankInit, HistoryTypeOK, HistoryKeepsNewest
  <2>2. RanksTypeOK
    BY DEF RankInit, RanksTypeOK, RankRows
  <2>3. WritesTypeOK
    BY DEF RankInit, WritesTypeOK, ReadsFit
  <2> QED BY <2>1, <2>2, <2>3 DEF RankInv
<1>2. RankInv /\ [RankNext]_rankVars => RankInv'
  BY HistoryStep, StepKinds DEF RankInv
<1>3. RankInv /\ [RankNext]_rankVars => [WriteIsSound]_rankVars
  BY StepIsSound DEF RankInv
<1>4. RankInv => HistoryKeepsNewest
  BY DEF RankInv
<1>5. RankSpec => []HistoryKeepsNewest /\ [][WriteIsSound]_rankVars
  BY <1>1, <1>2, <1>3, <1>4, PTL DEF RankSpec
<1> QED BY <1>5 DEF RankSound, RankingStable

\* With one process modelEvalRankMu does what its comment says (op/model_eval_rank.go): no place
\* is given twice and every change moves at most one entry, although the deletion of channels and
\* models takes entries out without the lock.
THEOREM OneProcessIsSound ==
  ASSUME NEW p, RankProcesses = {p}
  PROVE  RankSpec => [](~Overtaken(p) /\ NoPlaceTwice(ranks)) /\ [][OneMoves]_rankVars
<1> DEFINE Alone == RankInv /\ ~Overtaken(p) /\ NoPlaceTwice(ranks)
<1>1. RankInit => Alone
  <2> SUFFICES ASSUME RankInit PROVE Alone
    OBVIOUS
  <2>1. RankInv
    <3>1. HistoryTypeOK /\ HistoryKeepsNewest
      BY DEF RankInit, HistoryTypeOK, HistoryKeepsNewest
    <3>2. RanksTypeOK
      BY DEF RankInit, RanksTypeOK, RankRows
    <3>3. WritesTypeOK
      BY DEF RankInit, WritesTypeOK, ReadsFit
    <3> QED BY <3>1, <3>2, <3>3 DEF RankInv
  <2> QED BY <2>1 DEF RankInit, Overtaken, NoPlaceTwice, RankRows
<1>2. ASSUME Alone, [RankNext]_rankVars PROVE Alone' /\ OneMoves
  <2>1. HistoryTypeOK /\ HistoryKeepsNewest /\ RanksTypeOK /\ WritesTypeOK /\ ~Overtaken(p) /\ p \in RankProcesses
    BY <1>2 DEF RankInv
  <2>2. RankInv'
    BY <1>2, <2>1, HistoryStep, StepKinds DEF RankInv
  <2>3. WriteIsSound
    BY <1>2, <2>1, StepIsSound
  <2>4. OneMoves /\ NoPlaceTwice(ranks')
    BY <1>2, <2>1, <2>3 DEF WriteIsSound
  <2>5. ~Overtaken(p)'
    <3>1. CASE Deletes
      BY <2>1, <3>1 DEF Deletes, Overtaken, RankRows
    <3>2. CASE ReadsNow(p)
      BY <2>1, <3>2 DEF ReadsNow, Overtaken, placesNow, RankRows, Writing
    <3>3. CASE Released(p)
      BY <2>1, <3>3 DEF Released, Overtaken, NoWrite, Writing
    <3> QED BY <1>2, <2>1, <3>1, <3>2, <3>3, StepKinds
  <2> QED BY <2>2, <2>4, <2>5
<1>3. Alone /\ [RankNext]_rankVars => Alone'
  BY <1>2
<1>4. Alone /\ [RankNext]_rankVars => [OneMoves]_rankVars
  BY <1>2
<1> QED BY <1>1, <1>3, <1>4, PTL DEF RankSpec

=============================================================================
