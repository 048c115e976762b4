----------------------------- MODULE Lifecycle -----------------------------
(***************************************************************************)
(* How the process runs its periodic tasks and how it goes down: the task  *)
(* pumps of internal/task, the hooks and finalizers of utils/shutdown, the *)
(* HTTP ingress of internal/server, and the order in which cmd/start.go    *)
(* registers them.  Time only appears as what it allows: a ticker fires, a *)
(* deadline passes.  A hook's goroutine is not cancelled by its timeout.   *)
(*                                                                         *)
(* The four writers ("touch", "conv", "stat", "log") keep what requests    *)
(* leave them in memory until they are flushed; "stat" is also flushed by  *)
(* a task, which puts back what it could not store.                        *)
(***************************************************************************)
EXTENDS Naturals, Sequences, SequencesExt, FiniteSets

CONSTANTS Tasks,         \* the registered tasks
          StatTask,      \* the one of them that flushes "stat"
          Handlers,      \* HTTP handler goroutines
          Leaving,       \* the writers that handlers leave something with
          MaxLate,       \* bound: hooks that outlive their timeout
          MaxWaiting,    \* bound: executions of one task not yet past the guard
          UpdateBuffer,  \* capacity of a task's updateCh
          MaxIntervals   \* bound: interval changes

ASSUME LifeAssumption == StatTask \in Tasks /\ Leaving \subseteq {"touch", "conv", "stat", "log"}
                         /\ UpdateBuffer \in Nat /\ MaxWaiting \in Nat \ {0}

VARIABLES
  stage,    \* "up", "hooks", "outstanding", "final", "down"
  at,       \* index of the hook the shutdown sequence is at
  hook,     \* per hook: "idle", "run" or "done"; the steps of a hook's body between
  entry,    \* per task: pump, stopCh closed, executions waiting at the guard, busy, updates
  barrier,  \* runningStopped
  ingress,  \* "open", "cancelled", "closed"
  serving,  \* handlers that run
  worker,   \* the evaluation workers: "on", "told", "off"
  dbOpen,
  memory,   \* writers that hold something unflushed
  held,     \* the stat task has taken the statistics out and not stored them yet
  smooth,   \* no hook timed out, nothing was cut off and no flush failed
  changes   \* number of interval changes, for the bound
lifeVars == <<stage, at, hook, entry, barrier, ingress, serving, worker,
              dbOpen, memory, held, smooth, changes>>
sequenceVars == <<stage, at, hook, smooth>>
workVars == <<entry, barrier, ingress, serving, worker, memory, held, changes>>

Writers == {"touch", "conv", "stat", "log"}

\* start.go registers the flushes first and the ingress last.
Registered == <<"log", "stat", "conv", "touch", "tasks", "eval", "server">>

\* Fault: the hooks run in the order of their registration.
OrderAsRegistered == Registered

\* The hooks run in the reverse of the order of registration.
HookOrder == Reverse(Registered)

Hooks == Range(Registered)

\* Register: an entry whose pump is not started; runOnStart makes the first execution.
NewEntry == [pump |-> "off", stop |-> FALSE, waiting |-> 0, busy |-> FALSE, updates |-> 0]

LifeInit ==
  /\ stage = "up" /\ at = 1 /\ hook = [h \in Hooks |-> "idle"]
  /\ entry = [t \in Tasks |-> NewEntry] /\ barrier = FALSE
  /\ ingress = "open" /\ serving = {} /\ worker = "on"
  /\ dbOpen = TRUE /\ memory = {} /\ held = FALSE /\ smooth = TRUE /\ changes = 0

Alive == stage # "down"
-----------------------------------------------------------------------------
(* internal/task                                                            *)

\* RUN: one pump per registered task, in a goroutine of its own.
RUN ==
  /\ Alive /\ \A t \in Tasks : entry[t].pump = "off"
  /\ entry' = [t \in Tasks |-> [entry[t] EXCEPT !.pump = "fire"]]
  /\ UNCHANGED <<sequenceVars, barrier, ingress, serving, worker, dbOpen, memory, held, changes>>

\* The ticker's channel wins the select, though stopCh may be closed already.
Tick(t) ==
  /\ Alive /\ entry[t].pump = "loop"
  /\ entry' = [entry EXCEPT ![t].pump = "fire"]
  /\ UNCHANGED <<sequenceVars, barrier, ingress, serving, worker, dbOpen, memory, held, changes>>

\* goGuardedCall adds to the wait group and starts the goroutine, unless StopAll's barrier is up.
Admits(t) == ~barrier

goGuardedCall(t) ==
  /\ Alive /\ entry[t].pump = "fire"
  /\ \/ Admits(t) /\ entry[t].waiting < MaxWaiting
        /\ entry' = [entry EXCEPT ![t].pump = "loop", ![t].waiting = @ + 1]
     \/ ~Admits(t) /\ entry' = [entry EXCEPT ![t].pump = "loop"]
  /\ UNCHANGED <<sequenceVars, barrier, ingress, serving, worker, dbOpen, memory, held, changes>>

\* guardedCall lets one execution of a task in and turns the others away.
guardedCall(t) ==
  /\ Alive /\ entry[t].waiting > 0
  /\ entry' = [entry EXCEPT ![t].waiting = @ - 1, ![t].busy = TRUE]
  /\ held' = (held \/ (t = StatTask /\ ~entry[t].busy /\ "stat" \in memory))
  /\ memory' = IF t = StatTask /\ ~entry[t].busy THEN memory \ {"stat"} ELSE memory
  /\ UNCHANGED <<sequenceVars, barrier, ingress, serving, worker, dbOpen, changes>>

\* The task function returns or panics (safeCall); a statistics flush that fails puts back.
TaskReturns(t) ==
  /\ Alive /\ entry[t].busy
  /\ entry' = [entry EXCEPT ![t].busy = FALSE]
  /\ IF t = StatTask /\ held
     THEN held' = FALSE /\ memory' \in {memory, memory \cup {"stat"}}
     ELSE UNCHANGED <<held, memory>>
  /\ UNCHANGED <<sequenceVars, barrier, ingress, serving, worker, dbOpen, changes>>

\* Update, from the settings handlers, which only pass whole hours: a full channel drops it.
Update(t) ==
  /\ Alive /\ serving # {} /\ changes < MaxIntervals
  /\ changes' = changes + 1
  /\ entry' = [entry EXCEPT ![t].updates = IF @ < UpdateBuffer THEN @ + 1 ELSE @]
  /\ UNCHANGED <<sequenceVars, barrier, ingress, serving, worker, dbOpen, memory, held>>

\* runTask takes a new interval or sees stopCh closed.
runTask(t) ==
  /\ Alive /\ entry[t].pump = "loop"
  /\ \/ entry[t].updates > 0 /\ entry' = [entry EXCEPT ![t].updates = @ - 1]
     \/ entry[t].stop /\ entry' = [entry EXCEPT ![t].pump = "ended"]
  /\ UNCHANGED <<sequenceVars, barrier, ingress, serving, worker, dbOpen, memory, held, changes>>

\* runningWG is zero.
TasksQuiet == \A t \in Tasks : entry[t].waiting = 0 /\ ~entry[t].busy
-----------------------------------------------------------------------------
(* Requests and the evaluation workers                                      *)

Accept(h) ==
  /\ Alive /\ ingress # "closed" /\ h \notin serving
  /\ serving' = serving \cup {h}
  /\ UNCHANGED <<sequenceVars, entry, barrier, ingress, worker, dbOpen, memory, held, changes>>

\* A handler leaves something with a writer, and ends; cancelling its context hurries it, no more.
Record(h, w) ==
  /\ Alive /\ h \in serving
  /\ memory' = memory \cup {w}
  /\ UNCHANGED <<sequenceVars, entry, barrier, ingress, serving, worker, dbOpen, held, changes>>

HandlerReturns(h) ==
  /\ Alive /\ h \in serving
  /\ serving' = serving \ {h}
  /\ UNCHANGED <<sequenceVars, entry, barrier, ingress, worker, dbOpen, memory, held, changes>>

WorkersEnd ==
  /\ Alive /\ worker = "told"
  /\ worker' = "off"
  /\ UNCHANGED <<sequenceVars, entry, barrier, ingress, serving, dbOpen, memory, held, changes>>

-----------------------------------------------------------------------------
(* utils/shutdown                                                           *)

\* The signal: runShutdownHooks takes its copy of the hooks.
Signal ==
  /\ stage = "up" /\ stage' = "hooks"
  /\ UNCHANGED <<at, hook, smooth, workVars, dbOpen>>

\* runHookWithTimeout starts the hook's goroutine and waits for it...
StartHook ==
  /\ stage = "hooks" /\ at <= Len(HookOrder) /\ hook[HookOrder[at]] = "idle"
  /\ hook' = [hook EXCEPT ![HookOrder[at]] = "run"]
  /\ UNCHANGED <<stage, at, smooth, workVars, dbOpen>>

\* The hooks whose timeout has passed while they run on.
Late == {HookOrder[i] : i \in {j \in 1..(at - 1) : hook[HookOrder[j]] = "run"}}

\* ... until it is done, or for as long as its timeout says.
LeaveHook ==
  /\ stage = "hooks" /\ at <= Len(HookOrder) /\ hook[HookOrder[at]] # "idle"
  /\ hook[HookOrder[at]] = "run" => Cardinality(Late) < MaxLate
  /\ at' = at + 1 /\ smooth' = (smooth /\ hook[HookOrder[at]] = "done")
  /\ UNCHANGED <<stage, hook, workVars, dbOpen>>

AllHooksRun == stage = "hooks" /\ at > Len(HookOrder) /\ stage' = "outstanding"
               /\ UNCHANGED <<at, hook, smooth, workVars, dbOpen>>

\* waitOutstandingHooks: the finalizers run once no hook does, or not at all.
HooksOver == \A h \in Hooks : hook[h] = "done"

waitOutstandingHooks ==
  /\ stage = "outstanding"
  /\ stage' \in {s \in {"final", "down"} : s = "final" => HooksOver}
  /\ UNCHANGED <<at, hook, smooth, workVars, dbOpen>>

\* The finalizer is db.Close; then the process exits.
Finalize ==
  /\ stage = "final" /\ IF dbOpen THEN dbOpen' = FALSE /\ UNCHANGED stage
                                  ELSE stage' = "down" /\ UNCHANGED dbOpen
  /\ UNCHANGED <<at, hook, smooth, workVars>>
-----------------------------------------------------------------------------
(* The bodies of the hooks                                                  *)

Becomes(h, s) == hook' = [hook EXCEPT ![h] = s]

\* CancelInFlight, then Shutdown: no new request, wait for the handlers; after 8 s Close.
ServerHook ==
  /\ Alive /\ hook["server"] = "run"
  /\ \/ ingress = "open" /\ ingress' = "cancelled" /\ UNCHANGED <<hook, smooth>>
     \/ ingress = "cancelled" /\ ingress' = "closed" /\ UNCHANGED <<hook, smooth>>
     \/ ingress = "closed" /\ Becomes("server", "done") /\ UNCHANGED ingress
        /\ smooth' = (smooth /\ serving = {})
  /\ UNCHANGED <<stage, at, entry, barrier, serving, worker, dbOpen, memory, held, changes>>

\* Scheduler.Stop cancels the workers and waits for them.
EvalHook ==
  /\ Alive /\ hook["eval"] = "run"
  /\ \/ worker = "on" /\ worker' = "told" /\ UNCHANGED hook
     \/ worker = "off" /\ Becomes("eval", "done") /\ UNCHANGED worker
  /\ UNCHANGED <<stage, at, smooth, entry, barrier, ingress, serving, dbOpen, memory, held, changes>>

\* StopAll: the barrier, then every stopCh, then runningWG.Wait.
StopAll ==
  /\ Alive /\ hook["tasks"] = "run"
  /\ \/ ~barrier /\ barrier' = TRUE /\ UNCHANGED <<hook, entry>>
     \/ barrier /\ (\E t \in Tasks : ~entry[t].stop)
        /\ entry' = [t \in Tasks |-> [entry[t] EXCEPT !.stop = TRUE]] /\ UNCHANGED <<hook, barrier>>
     \/ (\A t \in Tasks : entry[t].stop) /\ TasksQuiet
        /\ Becomes("tasks", "done") /\ UNCHANGED <<entry, barrier>>
  /\ UNCHANGED <<stage, at, smooth, ingress, serving, worker, dbOpen, memory, held, changes>>

\* A flush stores what its writer holds, or fails, panics or passes its own deadline.
FlushHook(w) ==
  /\ Alive /\ hook[w] = "run" /\ Becomes(w, "done")
  /\ \/ memory' = memory \ {w} /\ UNCHANGED smooth
     \/ smooth' = FALSE /\ UNCHANGED memory
  /\ UNCHANGED <<stage, at, entry, barrier, ingress, serving, worker, dbOpen, held, changes>>

LifeNext ==
  \/ RUN \/ Signal \/ StartHook \/ LeaveHook \/ AllHooksRun \/ waitOutstandingHooks \/ Finalize
  \/ ServerHook \/ EvalHook \/ StopAll \/ WorkersEnd
  \/ \E t \in Tasks : Tick(t) \/ goGuardedCall(t) \/ guardedCall(t) \/ TaskReturns(t)
                      \/ Update(t) \/ runTask(t)
  \/ \E h \in Handlers : Accept(h) \/ HandlerReturns(h) \/ \E w \in Leaving : Record(h, w)
  \/ \E w \in Writers : FlushHook(w)

LifeSpec == LifeInit /\ [][LifeNext]_lifeVars
-----------------------------------------------------------------------------
(* Properties                                                               *)

\* The database is closed only when no task execution, no evaluation worker and no shutdown
\* hook is left to write to it: executions started by a tick that raced StopAll and hooks
\* that outlived their timeout included (task.go goGuardedCall, shutdown.go runShutdownHooks).
ClosedAlone ==
  ~dbOpen => TasksQuiet /\ worker = "off" /\ HooksOver

\* A shutdown in which every hook ended in time and every flush succeeded leaves nothing in
\* memory: ingress and tasks are down before the writers are flushed (start.go's order).
NothingUnflushed ==
  stage = "down" /\ smooth => memory = {} /\ ~held

\* Both: the order of start.go's registrations, the barrier of StopAll and the wait for late
\* hooks keep the database open for every writer and let every writer flush.
ShutdownSound == ClosedAlone /\ NothingUnflushed
====
