# NovaVeil: TLA+ models of the relay

NovaVeil is a relay in front of LLM providers. A client names a model; the model name is
a *group*; a group has *members* (a model of a channel, or a reference to another group);
the relay picks a member, sends the request upstream, and on failure retries, waits, or
moves to another member until the request is answered, refused or given up. Around that
loop are circuit breaking, quotas, rate limits, masking, accounting and an admin console.

This directory models the parts of `src/internal` in which goroutines share state, checks
them with TLC on small instances and proves the main safety properties with TLAPS for
instances of any size. `PROJECT.json` lists components, runs, mutants, the map from
definitions to source lines, findings, hazards and theorems.

## 1. Inventory

### Parts that share state, and how they interact

| Part | State | Operations | What is hard |
|---|---|---|---|
| Group routing, circuit breaker (`relay/route.go`, `prober.go`) | per group a `RouteState` under `routeMu`: current member, affinity, candidate (`ProbeItemID`), cooldowns, levels, half-open marks, post-commit strikes, emergency counts and blocks | pick, recovery batch, async probe, success, failure, post-commit failure, release, emergency claim, reset, cleanup, removal | each is one critical section, but a request goes through several with network calls between; group copies are stale; marks must have an owner |
| Forward loop (`relay/handler.go`) | locals of one request | admission, head of loop, selection, dispatch, RPM wait, send, stream, some twenty ends of a round | every exit must release hops, lifecycle, slot and lease exactly once; the operator, the client and two timers interfere at any point |
| Request state, round lifecycle (`relay/state.go`) | one `RequestState` per request under `mu`, one `roundLifecycle` per round | startRound, finishRound, releaseRoundLifecycle, the marks, wait, StopRequest, Interrupt, StopAllRequests, finish, Clear | the cancel is taken under the lock and called outside it; Stop races Attach |
| Body budget (`relay/bodylimit.go`) | one process-wide counter and a wake channel | acquire (waits), try-acquire (refuses), release | partial charges while waiting, exact refund on every error path, lost wake-ups |
| Channel concurrency (`relay/channellimit.go`) | a counter object per channel in a table | acquire with a one second budget, release, limit change, deletion of the entry | the object outlives its entry; wake-ups versus time-outs; limits differ between waiters |
| Channel RPM (`channellimit.go`), API key limits (`keylimit`) | sliding windows of time stamps, counter objects | permit, wait, refuse, cleanup | time stamps taken before the lock; deletion under waiters and holders |
| Session stickiness (`relay/sticky.go`) | session -> member with expiry, bounded | pick, bind, clear, evict | entries outlive members and cooldowns |
| Key selection (`relay/keyselect.go`) | cursor, cooldown per key | select, cool, prune, clear | a deadline is read and judged in two sections; all keys cooling |
| Request registry (`relay/state.go`) | table, history of final requests, ring of failures, watching consoles, addresses | register, publish, finish in two phases, trim, Clear, watch | phase one of finish runs unlocked while Clear and the trim work |
| Account pool (`opencode_proxy_pool.go`, `op/opencode_proxy.go`) | bindings, votes, cooldowns, leases; a ledger in the database | pick, verdicts, release with the context, saves, restart | one callback per pick; saves by goroutines land in any order |
| Account probes (`opencode_account_probe*.go`) | a bounded store of jobs | start, check, deadline, evict, daily check | the deadline races the workers' reports; a worker may panic |
| WARP slots (`warp_slots.go`, `warp_penalize.go`) | a snapshot of the container, reservations, pending rotations | refresh, lease, marks, release, rotate | rotation waits for the last user; the snapshot is old |
| Masking (`relay/mask`, `mask_integration.go`) | session mappings with TTL; per-stream buffers | apply, publish, restore, flush, evict | eviction while a response needs the mapping; placeholders split over events |
| Evaluation queue (`op/model_eval_*.go`, `eval`) | persistent tasks with leases, history, ranking | submit, claim, renew, finish, recover, move, prune, rank | crash between claim and result; reaper versus slow worker; two processes, whose ranking locks are their own |
| Entity caches (`op/channel.go`, `group.go`, `apikey.go`) | tables, and maps in front of them | create, update, delete, refresh, replace | read, transaction and publication are separate; other writers in between |
| Backup (`op/backup.go`) | all tables, the dump | export, analyse, import | ids and names that clash, references and cycles over two databases, masked secrets |
| Model synchronisation (`task/sync.go`) | a channel's list of models | read, fetch pages, ask the catalogue, write | the write is made from an old copy |
| Error log, conversations, usage, client addresses, key use (`op`) | bounded queues, files, counters | enqueue, batch, flush, expire, stop | full queues, failing writes, crash between two steps, eviction during a flush |
| Task scheduler, shutdown (`task`, `utils/shutdown`, `cmd/start.go`) | pumps, hooks, finalizers | register, reset, tick, stop, run hooks | hooks that overrun their time; a tick that races the stop |
| Console, protocol conversion, TLS, database drivers | - | - | I/O, user interface or data conversion: not modelled |

A request enters `Forward`, charges the *body budget*, registers a *request state*, and per
round copies the group from the *entity cache*, picks through *stickiness* and *routing*,
selects a *key*, an *account* or *WARP slot*, waits for the *RPM window*, takes a
*concurrency slot* inside the send, and reports to *routing*. The background prober and the
admin handlers act on the same route states. The operator acts on request states.

### What makes the parts correct

* Routing: no interleaving pins a group (a candidate or half-open mark nobody will give
  back), the emergency quota does not leak, and marks are eventually given up.
* Forward loop: each pick is answered exactly once; no round leaves a cancel, a live
  context or an open response; a final status stays; every request ends.
* Stop and interrupt: a stopped lifecycle holds no open response, an interrupt never hits a
  later round, a stopped request starts at most one more round.
* Body budget: the counter equals what is held, never exceeds the limit, nobody sleeps
  beside free room, and a lone request is never refused for its own sake.
* Channel gate: counters are exact across deletion of the table entry, no wake-up is lost,
  the limit in force is kept.
* Rate windows: never more than the limit in a window, measured in real time; nobody sleeps
  beside a free permit; key slots count their holders.
* Key selection: a mark stands for its whole time; a key cooling through the whole scan is not
  picked, and "all keys cooling" is only said of keys that were.
* Registry: the history is bounded, the consoles end up with the last state of every request,
  the failure ring holds the recent failures.
* Account pool: one session keeps its account, an account is lent to one session at a time, what
  is lent comes back. Probe jobs: every account asked for is reported once.
* WARP slots: one request per slot, and a rotation that is due is carried out.
* Masking: the text reaches the client once, whole and in order; a request restores every
  placeholder it sent; turns of a session agree on placeholders.
* Evaluation queue: a task is worked on by one holder at a time and does not come back after its
  end (the abstract `TaskBoard`); saved results are not repeated; a change of the ranking that no other
  process overtakes moves one entry at most and gives no place twice, and pruning keeps the newest
  evaluations.
* Caches: what is validated against them leaves no stored member whose model is gone, no stored
  reference without its group and no cycle; a revoked key never authenticates again.
* Backup: an import leaves no dangling member, no unresolvable or cyclic reference, and stores no
  mask in place of a secret. Synchronisation: no manual model and no metadata is lost.
* Records: what was accepted is written once or counted as dropped; files stay readable; series and
  cards of the dashboard agree; one row per address; no key is left marked as pending.
* Shutdown: the database is closed after its last writer, and a clean shutdown leaves nothing unflushed.

## 2. Modules

| Module | Models | State | Step |
|---|---|---|---|
| `GroupRoute` | `route.go`, `prober.go`, `task/probe.go`, the group edits of `op/group.go` and the group handlers | `route` (the `RouteState`), `group`, `req` (per request: place, copy of the group, batch, member), `probes`, `bg` | one critical section of `routeMu`, one cache edit, one tick past a deadline |
| `ForwardLoop` | the loop of `Forward`, `RequestState`, `roundLifecycle`, `StopRequest`, `Interrupt`, the stop switch | `pc`, `loop`, `seen` (locals), `rq` (record), `lc` (lifecycle), `resp`, `kill` (operator calls between lock and effect), `owed` and `late` (history) | what the goroutine does between two points where others can interfere |
| `BodyBudget` | `bodylimit.go` and the budget part of `Forward` | `used`, `reader` | one section of the budget's mutex or one read |
| `ChannelGate` | `acquireChannelConcurrency`, `release`, `cleanupChannelLimits` | `table`, `created`, `active`, `limit`, `round` | one section of the object's or the table's mutex |
| `RateGate` | `waitChannelRPM`, `tryChannelRPMPermit`, `keylimit`, their use in `auth.go` | `stamps` (ages), `caller`, `slots`, `granted` (history) | one section of a lock, one reading of the clock, one tick |
| `KeySelect` | `keyselect.go`, key rotation in `Forward` | `cooldowns` (time left), `picker`, `due` (history) | one section of the cooldowns' lock, one tick |
| `RequestRegistry` | the tables of `state.go` | `rec`, `entries`, `finished`, `failures`, `ring`, `watchers`, `addresses` | one section of `mu` |
| `AccountPool`, `ProbeJob` | the pool with its ledger; probe jobs | picks, bindings, votes, leases, ledger; jobs, rows, workers | one section of the pool's lock, one save, one answer |
| `WarpSlots` | slots, leases, penalties | `snap`, `reserved`, `pending`, `lease`, `penalties`, and `wire` for the container | one section of the pool's lock, one answer of the container |
| `MaskStream`, `MaskSession` | restoring a stream; sharing of mappings | held back and sent text; tables, turns | one event of the stream; one section of the table's lock |
| `TaskBoard` | what the evaluation queue promises | `board` | one change of a task |
| `EvalQueue`, `EvalRank` | queue and schedulers; history and ranking | tasks, workers, schedulers; evaluations, positions, what the holder of each process's ranking lock has read | one statement or transaction, a crash |
| `EntityCache`, `KeyCache` | tables and caches of channels, groups, keys | tables, caches, the operation each actor is in | read, transaction, publication |
| `Backup` | export, analysis, import | tables, dump | one transaction |
| `ModelSync` | `SyncModelsTask` against the console | the list, the task's copy, the form's copy | read, page, catalogue, write |
| `ErrorLog`, `Conversation`, `UsageTrend`, `ClientStat`, `KeyTouch` | the recorders of `op` | queue, writer, files, rows | one section of a lock, one write, a crash |
| `Lifecycle` | `task.go`, `shutdown.go`, `server.go`, the order of `start.go` | pumps, executions, hooks, database, writers' memory | one tick, one hook, one end |
| `MCRelay`, `MCRecords` | the parts that share no state, side by side | all of them, and `part` | a step of the part named |
| `MC*` | instances for TLC | | |
| `GroupRouteProofs`, `ForwardLoopProofs` | theorems about the module of that name | | |
| `RequestProofs` | theorems about `BodyBudget`, `MaskSession`, `RequestRegistry`, `UsageTrend`, `MaskStream` | | |
| `EvalQueueProofs` | theorems about `EvalQueue`, `EvalRank` | | |
| `ChannelGateProofs` | theorems about `ChannelGate`, `AccountPool`, `RateGate` | | |
| `SelectionProofs` | theorems about `WarpSlots`, `KeySelect`, `ProbeJob` | | |
| `RecordProofs` | theorems about `KeyTouch`, `ClientStat`, `Conversation`, `ErrorLog`, `Lifecycle` | | |
| `ConfigProofs` | theorems about `KeyCache`, `Backup`, `ModelSync`, `EntityCache` | | |

`GroupRoute` and `ForwardLoop` meet at the pick: `GroupRoute` lets every member that was
handed out be answered once by `Success`, `Failure`, `Release` or `PostCommitFailure`;
`ForwardLoop` leaves the choice of the member open and shows (`OneAnswer`) that the loop
answers exactly once. `Lifecycle` keeps of each recorder whether it holds anything unflushed; the
recorders themselves are `ErrorLog`, `Conversation`, `ClientStat` and `KeyTouch`. `EvalQueue`
implements `TaskBoard` (`Board == INSTANCE TaskBoard WITH ...`): a task whose worker is alive is
held by that worker's process, one whose process died is an orphan until the restart or the
reaper takes it back; leases, retries, moves and two deployments are steps or stutters of it.
Operators carry the names of the Go functions where there is one.

`MCRelay` and `MCRecords` put modules side by side that have no variable in common. The
initial state chooses a `part`, and only that part moves. The reachable states are therefore
the sum of the parts' own, not their product: an invariant of a part is checked on exactly the
states the part would have alone, and a counterexample is one of the part.

Abstractions worth knowing:

* *Time* is what the code compares with `now`. A cooldown is absent, running or past; an
  affinity or a block is in force or not. `Expire`, `AffinityExpire` and `BlockExpire` move
  it at any moment. Backoff levels saturate at `MaxLevel`, as the ceiling of
  `CooldownMaxSeconds` makes them do.
* *Reference chains*: `GroupRoute` is one group, `ForwardLoop` treats a member that is a
  reference as its leaf; a broken chain is the branch of `Pick` that releases at once.
* *Upstream*: a send returns any error class of `Errors` or a response, whatever the
  context; `canceled` only if the context has ended.
* *Comparisons of given-up members with `routableCandidateCount`* are left open: the group
  is edited and channels are disabled under the request.
* *Ages instead of clocks*: `RateGate` and `KeySelect` keep times relative to the present, so
  that no bound on the clock is needed; `MaxDelay` bounds how long a goroutine may be suspended
  between its reading of the clock and the lock, and the properties are stated up to it.
* *Failures*: a database write, a file operation or a save may fail at any time, as often as the
  named bound says; a crash drops the memory of a process and keeps rows and files.
* `Features` switches optional behaviour of an instance; the theorems hold for every value,
  but for `QuotaNeverLeaks` (section 5).

## 3. Runs

| Run | Instance | Shows |
|---|---|---|
| `requests` | 2 requests, 2 members in both protocol orders, one of them the emergency member | `HoldsOwned` (the candidate and every half-open mark have an owner) under picks, batches, probes, sessions, all outcomes, broken streams, reset |
| `edits` | 2 requests, 1 member that comes and goes | `HoldsOwned`, `EmergencyNoLeak` with stale copies: members, mode, active member and emergency member change; automatic clearing |
| `panic` | 2 requests, 1 member | `HoldsOwned` with panics, the background prober, disabled channels, a deleted group |
| `settles` | 2 requests, 2 members, fairness | `CandidateSettles`, `HalfOpenSettles` |
| `forward` | 1 request, 1 member, 2 rounds, 1 account retry, every interferer | `OneAnswer`, `NothingLeft`, `StoppedIsClosed`, `OneLateRound`, `FinalStays`, `InterruptHitsItsRound`, `Terminates` |
| `relay` | see below | `BudgetExact`, `BudgetNoLostWakeup`, `LoneAdmitted`, `ActiveExact`, `GateNoLostWakeup`, `LimitsKept`, `RateSound`, `KeysSound`, `PoolSound`, `ReportAddsUp`, `WarpSound`, `SentOnce`, `SessionsSound`, `RegistrySound` |
| `records` | see below | `LogSound`, `RetentionSound`, `DashboardSound`, `OneRowPerAddress`, `NoStrandedTouch`, `ShutdownSound`, `GroupsSound`, `RevokedStaysRevoked`, `RestoreSound`, `SyncKeeps`, `EvalOnce`, `ImplementsBoard`, `RankSound` |
| `affinity`, `budget_stall`, `gate_forget`, `stop_lost`, `sync_manual` | small | violations, section 4 |

The parts of `relay`: three bodies of up to 1 (compressed) and 3 (decompressed) units against a
budget of 6; three rounds at limits 0 to 2 with up to three counter objects; two callers of the
rate limits coming again and again, limits 0 to 2 in a window of 3 with a delay of 1; two
requests or probes over two keys with cooldowns of 1 and 2; two requests of two sessions over
two accounts (which entries a full ledger prunes, and for how long a Retry-After rests an account,
is left open), two days, saves in any order and a restart; three probe jobs with workers that may
panic; two rounds over one
slot with up to three marks; every answer of one or two pieces (text, a brace, a known and an
unknown placeholder) cut at every place into events of up to three characters, and one that is
longer than the buffer; five turns of two sessions and none, with room for one mapping; two
requests, one console and three addresses in a registry of one final request.

The parts of `records`: three log entries of two classes, a channel of two, one failing insert;
three records, one of which cannot be encoded, over three days, a file kept for two, with two
failures; usage reports of -1 and 1 tokens, two requests a row, over ten years in jumps of 73 and
167 hours that land inside and outside every window, with a card that lists one model of two; three
addresses with room for two, five visits and an age limit that may fall anywhere; three uses of two keys through a channel of two;
one task, one handler and four writers through start, ticks, interval change and shutdown; one
channel model, groups `a`, `b` and the ranked one, four edits and one racing actor; keys of
three values, two administrators, five writes; a foreign dump and the own one with seven
edits between export and import; a list of three models with two pages and one save, the
catalogue without an entry, with one that is silent, and with one that names everything; two
evaluation tasks, two processes in both deployments, two crashes; a ranking of three models with two
processes, three rows and four changes, over a history of one record, and a history of two with
no ranking (the two meet only where a record enters the ranking).

Why the bounds are enough. Two requests are what it takes for one to own a mark while the
other picks, fails or cleans up; a third adds no new relation, since no section looks at
two other requests at once, and the theorems cover any number. Two members give an order, a
batch of two, and an emergency member beside a regular one; one member suffices where the
edits are the subject, since it may leave and come back. `MemberMaxAttempts` is 2 in `panic`
so that strikes that do not yet cool occur. One round may follow another in `forward`, which
is what a stale Interrupt, a late round and a retry need. The budget keeps the ratio
16 : 64 : 128 MiB of the code where it matters, two full bodies filling the budget exactly,
with a compressed body half the size of a decompressed one and chunks of 1 and 2 units so
that limits are met exactly and overrun. In `relay` and `records` every queue, cache and table is
as small as makes it run full while something else is under way, and each failure may happen
once more than it takes to be seen. Requests are symmetric; symmetry is not used with liveness.

`forward`, `panic`, `relay` and `records` do not check deadlock: a finished request stays finished,
after a panic or a deletion requests may all be over, and a process that has shut down is down.

Each property of a passing run has a mutant in `PROJECT.json`: an operator beside the one it
replaces (`DropHoldKeepsCandidate`, `AttachBlindly`, `WakeOne`, ...) that changes the code
the way a slip would, and under which TLC finds the property violated.

### Fairness

* `settles`: a recovery batch, a request under way and an async probe each come to an end
  (weak fairness of `Recover`, `Outcome`, `AsyncProbeDone`). The code sees to it with the
  member timeouts (`armRoundTimeout`), the stream idle timeout and the deadline of a probe.
  Nothing makes clients send requests or the clock pass a cooldown.
* `forward`: weak fairness of the goroutine's own steps. A send ends by the member timeout, a
  wait and an RPM slot by the clock, a stream by its upstream, its budgets or its idle
  timer. A configuration with idle timeout 0 and an upstream that sends for ever without
  limit is outside this assumption. Nothing makes the operator or the client act.

## 4. Findings

Each is a violation run; the trace is the argument.

* `affinity` - `reopenItemLocked` cools a member without ending its affinity. When a request
  served earlier succeeds while the member is in a recovery batch, the member becomes
  current with affinity; the batch that fails afterwards cools it, and picks keep going to a
  member in cooldown. `recordPostCommitFailure` avoids exactly this, and says why.
* `budget_stall` - `acquireRelayBodyBudget` is called per chunk while earlier chunks stay
  charged: two requests that together fill the budget wait for each other until a client leaves.
* `gate_forget` - clearing a group's cooldowns deletes the concurrency counter too; requests in
  flight are forgotten and the limit is exceeded.
* `stop_lost` - a StopRequest between the check at the head of the loop and `startRound`
  (key, account, RPM wait and WARP slot lie between) has no cancel to call. The round starts after
  it, with a live context, and a second StopRequest does nothing. `OneLateRound` shows that it
  is one round at most.

* `sync_manual` - `SyncModelsTask` writes the whole list of a channel from the copy it took before it
  asked the upstream. A manual model saved meanwhile is deleted by that write, although rows with
  `Source=manual` are not to be replaced (docs/OPENCODE_MODEL_CAPABILITY_PLAN.md).

Seen while modelling, and not the subject of a run:

* Rate limits: a caller asleep is not woken when its window is cleared.
* Masking: a single `{` right after a closed placeholder is sent at once, so a placeholder
  that begins with it is not restored (`stream_restore.go:117`); a return before the text is
  looked at leaves reasoning unrestored; what is flushed may follow the terminal frame; `End`
  counts down by key, and after an eviction it may count down another mapping.
* Conversations: a second stop closes a closed channel although it is called idempotent; after a
  clear the writer is not started again; a record that cannot be encoded stays at the head of
  the queue; a failed compression is not tried again.
* API keys and backups: if a plaintext is used again, an import may revive it; an import of a
  dump older than edits of the same rows, or of another instance, may attach members to rows that
  took their ids, and close a cycle of references the analysis does not see.
* Accounts: the limit per account counts picks, not users; memory and ledger may disagree until
  a restart. Client totals shrink when an evicted address comes back. The "forever" series
  covers 87600 hours with 121 points of 720, 480 hours short: what was recorded last falls on point 121 and is
  left out (`usage_bucket.go:164-166`), although the last point is to hold the current hour (`:123`, `:114`). With
  "forever" in `UsageRanges`, TLC finds it after the first request.
* Ranking: `modelEvalRankMu` is there so that no place is given twice and no place under adjustment is
  overwritten ("避免并发分配相同位置或覆盖正在调整的名次", model_eval_rank.go:24), but belongs to one process. Two processes on one database
  both read the same `MAX(position)` and both create: two entries share a place, until the next renumbering.
  A move that another process overtook writes places it read before. `RankSound` therefore
  speaks of writes nobody overtook, and `OneProcessIsSound` of a database with one process; with two, TLC
  finds the shared place within two changes.
* Client addresses: a row that was adopted from the evicted ones and is evicted again while the flush writes
  is taken off the list with that flush: what it counted in its second stay is never stored.
* PostgreSQL: an import keeps the ids of the dump, and no statement moves the sequences along
  (`op/backup.go`). After the dump of another instance, creations fail until the sequence has passed the
  imported ids. It may also give the id of a deleted row again: with channel 1 dropped and made anew under
  1 with model 1, a second import of a dump whose model 2 is the same channel and name skips that model and
  stores the members that name it. `Backup` models counters that follow, as those of SQLite and MySQL do;
  for an instance's own dumps, whose ids are below its sequences, there is no difference.
* Evaluations: in a shared database a result that
  cannot be saved stays in the scheduler's `inflight` although its worker is gone. When its lease
  has ended another process takes the row back and works on it, and a Stop of the first process
  (`requeueInflight`, scheduler.go) then puts the row another process is working on back into the
  queue, so that it is evaluated twice; the comment of `inflight` says that Stop does not touch
  the running rows of other instances ("不碰其它实例的 running"). The attempt to prove `EvalOnce`
  without a hypothesis stopped here. The run `records` has no failing writes in the shared
  deployment; with one, TLC finds this trace.
* Error log: an entry accepted while the writer panics is stranded until the next start.
* Caches: two administrators who edit one group at the same time, outside the races `Racing` lists,
  leave the cache of the one that published last. With a rename, a deletion or an edit of the auto group
  among `Racing`, TLC finds within four edits a stored reference that names no group: one of the two
  publishes a group the other has changed meanwhile, and the next request is validated against that copy.
* Synchronisation: the free-tier filter runs after the guard against empty lists, and a list of
  more than 32 pages is cut.
* Shutdown: the synchronisation started with the process and handlers that survive the forced
  close are not waited for.
* Account probes: a worker that panics leaves its account as cancelled in a job that says "done".
* Routing: two probe paths may work on one member at once; a request with a stale copy may
  wipe the backoff of a member it does not know; a regular request's outcome on the
  emergency member gives back another request's share, so that more emergency requests than
  the constant may be under way; a request with a copy of a deleted group creates its route
  entry again; requests admitted while the limit was 0 are not counted when a limit is set;
  a panic does not return the emergency share (the code says so); an Interrupt in the middle
  of a stream counts against the member, while the comment of `AttemptCanceled` says an
  abort does not.

## 5. Proofs

The theorems hold for all sets of members and requests and all limits allowed by the
`ASSUME`s of the modules: finite sets where the code has finite sets (requests, readers, tasks,
accounts), positive bounds, lists of keys made of keys, markers for no administrator and no session
that are none, groups numbered as rows are and a walk along references of one step at least, a clock that does not go back, a fixed account that is not a generated one, providers whose lists come in pages or at once,
rings and tables with room for one entry at least, and for `BodyBudget` that two full
bodies fit the budget, as the constants of the code do. Some results have a hypothesis besides,
named with them below; each is a case in which the property is false.

* `GroupRouteProofs`. `IInv == TypeOK /\ LiveHolds /\ ReqShape /\ CandidateHeld /\
  HalfOpenOwned`. `CandidateHeld` alone is not inductive: a request may only be relied on to
  give a candidate back if its place says that it still will report (`ReqShape`), and a
  route without entry holds nothing (`LiveHolds`). Lemmas per route operation say which
  marks it drops or sets; then one lemma per action.
  The emergency quota has an invariant of its own on top, `Quota`: a route without entry has no charge, a
  request that claims a share has a copy of a group in failover mode, and a member's charge is at most the
  number of its emergency holders. Each report is shown to take one share at least from the count
  (`Reports`) as it takes one request from the holders. `QuotaNeverLeaks` assumes `"panic" \notin Features`:
  the deferred `releaseRefChainProbeHolds` returns marks and no share, so after a panic it is false.
  Results: `TypeCorrect`, `CandidateNeverOrphaned`, `HalfOpenNeverOrphaned`, of both
  `HoldsNeverOrphaned`, and `QuotaNeverLeaks`.
* `ForwardLoopProofs`. `IInv` adds to the properties: rounds and lifecycles are numbered
  below the loop's count (`RoundsCounted`), the record's cancel belongs to the current
  lifecycle in a round (`CancelIsCurrent`), a response is open only where somebody is bound
  to close it (`ResponseHeld`), a late round implies the flag (`LateIsStopped`), a final
  status implies that the goroutine returned (`FinalIsDone`), and a call in progress aims at
  the current lifecycle only for the round it was asked for (`CallsAim`). The shared steps
  (release, start, end, retry, give up) have lemmas about the record's fields; each action
  has its own.
  Results: `AnsweredOnce`, `LeavesNothing`, `StopCloses`, `AtMostOneLate`, `TypeCorrect`, and the
  action properties `FinalForGood`, `InterruptAims`.
* `RequestProofs`. For the budget, `IInv == BudgetTypeOK /\ BudgetNoLostWakeup`: a release wakes everyone, an acquire only
  sleeps without room, and `used` only shrinks in a release. `ExactInv` adds `Shape`, what a request
  can hold at each place of `Forward`, and `used = Total(Charges(reader), Readers)`. `Total` is a
  sum over a finite set; its lemmas (it does not depend on the order, one changed summand changes it
  by the difference, a summand is at most the total) are proved in the module from the definition of
  `FoldFunction`, with a smallest counterexample among the subsets in the place of induction.
  `SessionInv`: a mapping serves one key only (`OwnKey`), a placeholder in a body is bound in the mapping
  of its request (`BodyBound`), and the requests of a key whose record was never dropped hold one mapping
  (`KeyShared`). Before the first placeholder is published, there is no record to say so: then the
  in-flight entry counts exactly the requests that are masking, and all of them have its mapping.
  `RegistryInv`: stage, status and bodies of a request go together and what is done and still in the table
  waits in the queue that trims it (`StageInv`); the ring, counted back from its next slot, is the tail of
  the failures (`RingInv`). Filtering by class is the same filter of the same sequence, so no law of
  `SelectSeq` is needed.
  `UsageInv`, for the dashboard: every bucket is of an hour that was and of a known model, and has a token for each
  request it counts. A series, the totals by model and the heat map are sums of sums: what is sorted into parts
  adds up, part by part, to the whole (`TotalParts`), and a series loses nothing because the point of a bucket in
  its window lies on its axis (`PointsOnAxis`) - for the five bounded ranges, which is what `DashboardHolds`
  assumes of `UsageRanges`. The card by model lists the largest totals, ten of them in the code: what it lists
  is a part of the total, and all of it only if no model is cut off; the theorem holds for every such length.
  `MaskInv`, for the restored stream: the answer and what is held back hold no original, and `SentOnce`. Masking
  goes symbol by symbol (`RemaskedConcat`), so it undoes what `restoreComplete` did (`RestoreInverts`), a scan cuts
  the text in two (`ScanCuts`), and a push sends and keeps what was held and what came (`PushKeeps`). The
  recursive functions of the definitions exist because a shortest text, or a last place, without them would not
  be one (`FlattensExists`, `ChainExists`). `MaskAssumption` says that no answer holds the letter that stands for
  an original: masked again, it would look as if it had been restored.
  Results: `BudgetNeverExceeded`, `WakeupNeverLost`, `BudgetIsExact`, `AloneIsAdmitted`,
  `SessionsHold`, `RegistryHolds`, `DashboardHolds`, `SentOnceHolds`.
* `ChannelGateProofs`. `IInv == GateTypeOK /\ ReqShape /\ ActiveExact /\ GateNoLostWakeup`; the counter of
  an object is the cardinality of its holders, which each acquire and release changes by
  one. `LimitKept` adds that there is one counter object if the entry is never deleted and
  no limit is 0 - the two things under which the limit is not kept. For the proxy accounts the
  outstanding picks of an account are pairs of a request and a place in its list (`Pairs`), and `PoolInv`
  says that `active` is their number and each entry of `sessions` the number of those of its
  session, at most one session having any (`Exact`), for every account not removed in use; that an
  account outside the pool has none; that only accounts that were made are known; and that nothing is
  picked before the first load. `BanInv` says that no session is bound to an account it banned that day, and that
  every ban is of an account made by then - so that a fresh account, which is bound at once, is none of
  them. A release moves the later places of a list up, so that one pair
  fewer is left is shown with a bijection. For the rate, the clock is read before the lock, so the stamps
  are sorted only up to `MaxDelay` (`NearlySorted`); `Aligned` ties the n-th last stamp to the n-th last permit
  and says of a permit without a stamp that it has nearly left the window, `Spaced` keeps the distance of
  each permit to the one its limit counts back to, and `Covered` says which stamps keep a caller asleep. The slots of
  an API key count the callers whose counter object is that of its generation. Results:
  `CountersExact`, `WakeupNeverLost`, `LimitKept`, `PoolIsSound`, `RateHolds`.
* `EvalQueueProofs`. `EInv`: a process that is down has no workers (`Resting`), a worker's row is running,
  tracked and within its lease (`Owned`), workers of two processes are apart (`Apart`), in a shared database
  a process tracks only rows of its own (`Tracked`), and active tasks have distinct targets
  (`OnePerTarget`). `Tracked` is what Stop relies on, and what a failed write breaks: both theorems
  assume `SharedSavesSucceed`. The refinement names the ways one task may change (`Moves`), shows
  that each action makes such moves, and that each is a step or a stutter of the board. `RankInv`, for the
  history and the ranking: IDs are below the last one given out, what a pruning under way is about to
  delete is not among the newest successes - which stays so because a set that grows by later evaluations
  has later ones for its newest (`NewestShrinks`) - and what each process has read is of the shape of the
  ranking. That no place is given twice is no part of it: two processes give one twice. Of a write that
  nobody overtook, the ranking it meets is the one it read but for entries deleted with no lock; the
  order of places after it is then computed from the order before (`RankHolds`). With one process
  nobody is overtaken, and the places stay apart (`OneProcessIsSound`). Results:
  `EvaluatedOnce`, `BoardImplemented`, `RankHolds`, `OneProcessIsSound`.
* `SelectionProofs`. For the slots, `WarpInv` adds that the counter of a slot is one exactly while a
  round holds it and that a round has to finish at most the slot of its lease. For the keys, `KeyInv`
  relates a picker's place in its ring to the keys it has seen open and shut; that a full turn
  passes every key is a lemma on remainders. For account checks, `JobInv` says that the tally counts
  the workers that left with an outcome and that one leaves without only after the context ended or by a
  panic.
  Results: `SlotsAreSound`, `KeySelectionIsSound`, `ReportsAddUp`.
* `RecordProofs`. `TouchInv`: while an update runs, a key marked since is in the channel or about to be
  (`PendingPlaced`), what is unwritten is marked or in the batch (`MarkedCovered`), and the writer drains
  only after the stop (`StopFirst`). `OneRowPerAddress` is inductive as it stands. `LifeInv`: the shutdown is at
  one hook, earlier ones done in a smooth shutdown (`SequenceSound`), no hook runs on into the last stage
  (`FinalAlone`), who is stopped stays so (`StoppedStays`), a flushed writer holds nothing
  (`FlushedStays`). `ConvInv`, for the conversations: the batch and the queue are ascending and together
  the captured records (`QueueParts`, `InOrder`), only a day that is past and whose file is closed is
  compressed (`CompactionOK`), and a complete archive has all of the plain file of its day
  (`ArchivesComplete`), which is what the removal of that file relies on, after a crash too. `LogInv`, for the error log: what was
  accepted is in the table, in a channel, in the writer's batch or was deleted (`AcceptedKnown`), a writer
  that does not run has no batch, and once the hook has waited for the writer, what was accepted before the
  stop is settled or lies in a channel older than the one the hook captured, left by a writer that panicked
  (`EarlyOutOfWriter`). The part of a
  sequence at a set of places is shown to hold what is there (`AtPlacesFacts`). Results:
  `TouchesReachTheTable`, `RowsStayApart`, `RetentionIsSound`, `LogHolds`, `ShutdownIsSound`.
* `ConfigProofs`. `CacheInv`: every table, copy and dump has a plaintext under the same id (`OneId`), a
  withdrawn one is in no row (`Withdrawn`), the snapshot shows the database but for the row whose
  publication is under way (`Mirrors`), and its two maps agree (`PointsBack`). `OneId` fails if a
  plaintext may be chosen again, and so does the property: an import then restores the first key
  under its old id. Hence the hypothesis `~ReusePlaintext`.
  `BackupInv`, for the backups: ids in use are below the next one, in the tables and in the dump, groups
  have a name each and channels a model each (`Whole`), and unless the dump is stale a row of the dump and
  the row of the tables with its id have the same key (`Same`). From `Same` follows that an import skips no
  model its items name, and that the graph `detectGroupCycles` looks at has every reference that will
  be stored. `OwnDumpsRestore` assumes that no dump comes from another instance and that none is older than a
  rename or a resync. Without the first, a dump in which group 1 is `c` and refers to `b`, imported where
  group 1 is `b`, makes `b` refer to itself: the analysis has the reference under `c`. In `Backup` a
  channel has one model at a time, and the invariant relies on it. `SyncInv`, for the model list: what the
  task has read is the list until a save falls into it, and an empty answer it went on with is not
  suspect. `SyncHolds` is an action property, of the step that writes.
  `EntityInv`, for the groups: the tables are sound (`StoredSound`, the property with what keeps it: a name is
  used once); the caches follow them (`CachesFollow`: a cached group has the name and at least the references
  of the stored one, but for what the editor is about to publish, and the index is the inverse of the names);
  what the editor and a replacement know at each step (`EditorKnows`, `RankingKnows`). A transaction stores what
  was validated against the caches before. What that is worth by then is `MayReference`: some set of groups
  without the edited one has all the names and is closed under references, so that a cycle through the new
  references would have to leave it. The walk gives this set: its layers exist (`LayersExist`, with a
  smallest depth without them in the place of induction), and one that never meets the group and ends stays
  in a closed set (`WalkCloses`). What each kind of write does to the graph is a lemma about references
  alone (`RefsShrunk`, `Grown`, `Removed`, `Rewired`). `GroupsHold` assumes that only channel edits,
  creations, plain member edits and the choice of the active member overlap a replacement (`RacesKnown`); section
  4 says what each of the others does. Results: `RevokedKeysStayOut`, `OwnDumpsRestore`, `SyncHolds`,
  `GroupsHold`.

Only model-checked, and why:

* `CandidateSettles`, `HalfOpenSettles`, `Terminates`: liveness.
* `RestoreSound` with a dump of another instance (the run `records` has one).

## 6. Not modelled, and the plan

In order:

1. `RefChain`: several groups, hops held in each; an abstract breaker (closed, open, half-open per
   member) and `GroupRoute` as its refinement.
2. `SessionSticky`: the binding table, its expiry and its eviction. `GroupRoute` lets a session be
   bound to any member the code could have bound.
3. `ContextFit`: the search for a model's window and the choice by size, as operators against a
   reference definition; the arithmetic of the backoff at its bounds.
4. `BunSidecar` (start, probe, restart of the helper process) and `LoginLimit`.

Partly modelled: the background prober's interval table, settings and user row (single values
written through), the rules of masking (regular expressions), schema migrations (run once).

Inside the modelled parts, left out: a panic of `Forward` within the selection itself, between the claim of
a candidate or a batch and the assignment of `hops` (handler.go:343): the recover would not know
the marks, but nothing there calls foreign code but the probes, which have a recover of their own.
`SessionStore.Delete` (mask/session.go), which has no caller outside the tests. Counters of
PostgreSQL after an import (section 4). Failing writes in a shared evaluation database (section 4).

Left out for good: protocol conversion and header rewriting (data without shared state), the
console (user interface), cryptographic primitives, TLS dialing and database drivers (I/O).

## 7. Running

    tlc -config MCForwardLoop_request.cfg MCForwardLoop
    tlc -config MCRelay.cfg MCRelay
    tlapm ForwardLoopProofs.tla

and likewise for the other pairs of `PROJECT.json`.
