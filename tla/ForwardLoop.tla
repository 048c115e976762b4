---------------------------- MODULE ForwardLoop ----------------------------
(***************************************************************************)
(* One request of the relay: the loop of Forward (handler.go), the request *)
(* record it keeps (RequestState, state.go), the lifecycle that ties a     *)
(* round's context to its upstream response (roundLifecycle), and those    *)
(* who interfere with it: the client that leaves, the operator's           *)
(* StopRequest, Interrupt and StopAllRequests, the round's timers.         *)
(*                                                                         *)
(* Member selection is left open (any member that is neither excluded nor  *)
(* skipped); GroupRoute.tla models it, and relies on what is shown here:   *)
(* every pick is answered by exactly one verdict or release.               *)
(***************************************************************************)
EXTENDS Naturals, FiniteSets

CONSTANTS
  Members,           \* the members of the group, a reference standing for its leaf
  NoItem,            \* no member (item ID 0)
  MaxRounds,         \* maxRequestRounds(config)
  MaxAccountRetries, \* ocProxyMaxRetries
  Features           \* what may interfere: "client", "stop", "interrupt", "stopall", "panic"

ASSUME ConstantsOK ==
  /\ NoItem \notin Members
  /\ IsFiniteSet(Members)
  /\ MaxRounds \in Nat \ {0}
  /\ MaxAccountRetries \in Nat

VARIABLES
  pc,         \* where the goroutine of the request is
  streaming,  \* metadataStreaming
  loop,       \* the loop's locals: rounds, item, exclude, refSkips, maskDone
  seen,       \* its per-request member sets, and the account retries of each member
  result,     \* how the current send, or the stream, ended
  rq,         \* RequestState: Status, Round, cancel (a lifecycle or 0), stopRequested, stopCh
  lc,         \* roundLifecycle: its number, its context, stopped, and a response attached
  resp,       \* the upstream response, with the channel slot it holds
  owed,       \* verdicts or releases the picked members still wait for
  late,       \* rounds started after stopRequested was set
  client,     \* the client is still there (c.Request.Context() is live)
  allStopped, \* the global stop switch
  kill        \* StopRequest and Interrupt calls in progress

vars == <<pc, streaming, loop, seen, result, rq, lc, resp, owed, late, client, allStopped, kill>>

Holding == {"picked", "rpm", "ready", "sending", "sent", "attached", "failed", "streaming", "ended"}
InRound == {"sending", "sent", "attached", "failed", "streaming"}
PCs == Holding \cup {"entry", "top", "select", "writing", "waiting", "done"}
Final == {"success", "failed", "canceled"}
\* rotate: a rejected key of several; proxy: the exit account is refused; eof: closed before
\* any content; toolarge: 413; busy: no channel slot; badrequest: 400; rejected: 404 or 422;
\* canceled: the round's context ended; plain: anything else.
Errors ==
  {"rotate", "proxy", "eof", "toolarge", "busy", "badrequest", "rejected", "canceled", "plain"}
Results == Errors \cup {"none", "ok", "bad", "gone"}
Contexts == {"live", "client", "admin", "timeout", "idle", "over"}

Locals == [rounds : 0..MaxRounds + 1, item : Members \cup {NoItem}, exclude : Members \cup {NoItem},
           refSkips : 0..Cardinality(Members), maskDone : BOOLEAN]
Sets == [skipped : SUBSET Members, eof : SUBSET Members, sanitized : SUBSET Members,
         retries : [Members -> 0..MaxAccountRetries]]
Records == [status : {"none", "running", "committed"} \cup Final, round : 0..MaxRounds,
            cancel : 0..MaxRounds, stopRequested : BOOLEAN, stopCh : BOOLEAN]
Lifecycles == [id : 0..MaxRounds, ctx : Contexts, stopped : BOOLEAN, attached : BOOLEAN]
Calls == [step : {"idle", "cancel", "halt", "wake"}, id : 0..MaxRounds, asked : 0..MaxRounds]

NoCall == [step |-> "idle", id |-> 0, asked |-> 0]

\* One type invariant: the request's locals, record, lifecycle and the calls in progress.
TypeOK ==
  /\ pc \in PCs /\ streaming \in BOOLEAN /\ loop \in Locals /\ seen \in Sets
  /\ result \in Results /\ rq \in Records /\ lc \in Lifecycles
  /\ resp \in {"none", "open", "closed"} /\ owed \in 0..1 /\ late \in 0..MaxRounds
  /\ client \in BOOLEAN /\ allStopped \in BOOLEAN
  /\ kill \in [{"stop", "interrupt"} -> Calls]

Init ==
  /\ pc = "entry" /\ streaming \in BOOLEAN
  /\ loop = [rounds |-> 0, item |-> NoItem, exclude |-> NoItem, refSkips |-> 0, maskDone |-> FALSE]
  /\ seen = [skipped |-> {}, eof |-> {}, sanitized |-> {}, retries |-> [m \in Members |-> 0]]
  /\ result = "none"
  /\ rq = [status |-> "none", round |-> 0, cancel |-> 0, stopRequested |-> FALSE, stopCh |-> FALSE]
  /\ lc = [id |-> 0, ctx |-> "over", stopped |-> FALSE, attached |-> FALSE]
  /\ resp = "none" /\ owed = 0 /\ late = 0 /\ client = TRUE /\ allStopped = FALSE
  /\ kill = [p \in {"stop", "interrupt"} |-> NoCall]

---------------------------------------------------------------------------
(* The request record and the round's lifecycle. *)

\* The record after markFailed, markCanceled or markSucceeded.
Finished(status) == [rq EXCEPT !.status = status, !.cancel = 0]

\* The record after a round was released and the loop goes on.
Released == [rq EXCEPT !.cancel = 0]

\* context.CancelCauseFunc: the first cause stays.
Canceled(cause) == [lc EXCEPT !.ctx = IF @ = "live" THEN cause ELSE @]

\* roundLifecycle.Stop after its cancel: stopped is set and an attached response closed.
Halted(l) == [l EXCEPT !.stopped = TRUE]
ClosedIfAttached == IF lc.attached /\ resp = "open" THEN "closed" ELSE resp

\* The whole of Stop, as the owner of the round calls it.
Ended == Halted(Canceled("over"))

ReleaseWithoutCancel == UNCHANGED <<lc, resp>>

\* releaseRoundLifecycle: r.cancel is taken and called.
releaseRoundLifecycle ==
  IF rq.cancel = 0 THEN UNCHANGED <<lc, resp>>
  ELSE /\ lc' = Ended
       /\ resp' = ClosedIfAttached

\* newRoundLifecycle under a context derived from the client's.
newRoundLifecycle ==
  [id |-> lc.id + 1, ctx |-> IF client THEN "live" ELSE "client",
   stopped |-> FALSE, attached |-> FALSE]

\* The request ends with a status; what the caller owes is settled by the caller.
End(status) == pc' = "done" /\ rq' = Finished(status)

Loops == <<streaming, client, allStopped, kill>>
---------------------------------------------------------------------------
(* Forward: admission and the head of the loop. *)

\* The stop switch, the body, the key's models, the group and the title rule.
Enter ==
  /\ pc = "entry"
  /\ \/ pc' = "done" /\ UNCHANGED rq
     \/ ~allStopped /\ End("failed")
     \/ ~allStopped /\ pc' = "top" /\ rq' = [rq EXCEPT !.status = "running"]
  /\ UNCHANGED <<loop, seen, result, lc, resp, owed, late, Loops>>

\* The next iteration of the loop, its own locals fresh.
NextRound(n) == [loop EXCEPT !.rounds = n, !.item = NoItem]

\* The checks at the head of the loop, in their order, and the round counted.
LoopHead(stop, rounds) ==
  /\ pc = "top" /\ result' = "none"
  /\ IF ~client \/ stop THEN End("canceled") /\ UNCHANGED loop
     ELSE IF allStopped THEN End("failed") /\ UNCHANGED loop
     ELSE /\ loop' = NextRound(rounds)
          /\ \/ End("failed")          \* the rounds or the time of the request are spent
             \/ loop.rounds < MaxRounds /\ pc' = "select" /\ UNCHANGED rq
  /\ UNCHANGED <<seen, lc, resp, owed, late, Loops>>

TopIgnoresStop == LoopHead(FALSE, loop.rounds + 1)
TopSkipsCount ==
  LoopHead(rq.stopRequested, IF loop.exclude = NoItem THEN loop.rounds + 1 ELSE loop.rounds)
Top == LoopHead(rq.stopRequested, loop.rounds + 1)

Wait == pc' = "waiting" /\ UNCHANGED rq

\* The group is missing, the body cannot be masked, or the group is there and masking is done.
NoGroup ==
  /\ pc = "select"
  /\ \/ Wait
     \/ ~loop.maskDone /\ End("failed")
  /\ UNCHANGED <<loop, seen, result, lc, resp, owed, late, Loops>>

\* The member is out for the rest of this request (contextSkipped, infeasibleForRequest).
Skipping(s, S) == [s EXCEPT !.skipped = @ \cup S]

\* The body has been masked; and what the selection makes of exclude, item and refSkips.
Masked == [loop EXCEPT !.maskDone = TRUE]
Unexcluded == [loop EXCEPT !.exclude = NoItem]
Rescan == [loop EXCEPT !.maskDone = TRUE, !.exclude = NoItem]
Chosen(m) == [loop EXCEPT !.maskDone = TRUE, !.item = m, !.refSkips = 0]
BrokenRef(m) == [loop EXCEPT !.maskDone = TRUE, !.refSkips = @ + 1, !.exclude = m]
AllRefsBroken == [loop EXCEPT !.maskDone = TRUE, !.refSkips = 0, !.exclude = NoItem]

\* pickGroupItemSkipping returns nothing: no context fits, all members cool and are cleared,
\* or none is free and the exclusion is lifted.
NoMember ==
  /\ pc = "select"
  /\ \E skip \in SUBSET Members :
       /\ seen' = Skipping(seen, skip)
       /\ \/ End("failed") /\ loop' = Masked
          \/ Wait /\ loop' = Masked
          \/ Wait /\ loop' = Rescan
  /\ UNCHANGED <<result, lc, resp, owed, late, Loops>>

\* A member that is neither excluded nor skipped is taken; a reference that leads nowhere is
\* released on the spot, and after as many of those as there are members the request waits.
Pick ==
  /\ pc = "select"
  /\ \E skip \in SUBSET Members, m \in Members \ {loop.exclude} :
       /\ seen' = Skipping(seen, skip)
       /\ m \notin seen'.skipped
       /\ \/ /\ pc' = "picked" /\ owed' = owed + 1
             /\ loop' = Chosen(m)
          \/ /\ loop.refSkips < Cardinality(Members)
             /\ pc' = "top" /\ UNCHANGED owed
             /\ loop' = BrokenRef(m)
          \/ /\ loop.refSkips = Cardinality(Members)
             /\ pc' = "waiting" /\ UNCHANGED owed
             /\ loop' = AllRefsBroken
  /\ UNCHANGED <<result, rq, lc, resp, late, Loops>>

---------------------------------------------------------------------------
(* Forward: from the pick to the round's start. *)

SettleTwice == owed' = owed - 2
SettleNever == UNCHANGED owed

\* The hops are released or judged: the one answer a pick gets.
Settle == owed' = owed - 1

\* The member is passed over in the next selection.
Excluding == [loop EXCEPT !.exclude = loop.item]

\* The loop goes on with these locals.
Retry(l, s) == pc' = "top" /\ rq' = Released /\ loop' = l /\ seen' = s

\* The member is given up for this round.  If by now as many members were given up for the
\* same reason as are routable (routableCandidateCount, which edits of the group and disabled
\* channels move under the request), the request fails.
GiveUp(s) ==
  \/ Retry(Excluding, s)
  \/ End("failed") /\ seen' = s /\ UNCHANGED loop

\* The channel is gone or disabled, the model cannot be written, the context does not fit.
Unusable ==
  /\ pc = "picked" /\ Settle
  /\ \/ Wait /\ loop' = Unexcluded /\ UNCHANGED seen
     \/ End("failed") /\ UNCHANGED <<loop, seen>>
     \/ GiveUp(Skipping(seen, {loop.item}))
  /\ UNCHANGED <<result, lc, resp, late, Loops>>

\* startRound publishes the round and its cancel.
Started(id) == [rq EXCEPT !.round = @ + 1, !.cancel = id]
CountLate == late' = IF rq.stopRequested THEN late + 1 ELSE late

\* recordRouteFailureIfReal: the member cools and is left, or is tried again after a wait.
RouteFailure ==
  \/ pc' = "top" /\ loop' = Excluding
  \/ pc' = "waiting" /\ loop' = Unexcluded

\* No key or no exit account: a round that fails before anything is sent.
DispatchError ==
  /\ pc = "picked" /\ Settle
  /\ IF ~client THEN End("canceled") /\ UNCHANGED <<loop, lc, late>>
     ELSE /\ RouteFailure /\ CountLate
          /\ lc' = [Halted(newRoundLifecycle) EXCEPT !.ctx = "over"]
          /\ rq' = Started(0)
  /\ UNCHANGED <<seen, result, resp, Loops>>

Dispatch ==
  /\ pc = "picked" /\ pc' = "rpm"
  /\ UNCHANGED <<loop, seen, result, rq, lc, resp, owed, late, Loops>>

\* waitChannelRPM: admitted, or woken by the client's leaving or by stopCh.
WaitChannelRPM ==
  /\ pc = "rpm"
  /\ \/ pc' = "ready" /\ lc' = newRoundLifecycle /\ UNCHANGED <<rq, owed>>
     \/ (~client \/ rq.stopCh) /\ Settle /\ End("canceled") /\ UNCHANGED lc
  /\ UNCHANGED <<loop, seen, result, resp, late, Loops>>

\* pickWarpSlot under the round's context: no slot is free, or the proxy is misconfigured.
\* The lease is returned when that context ends.
NoWarpSlot ==
  /\ pc = "ready" /\ Settle
  /\ lc' = Ended
  /\ Wait \/ End("failed")
  /\ UNCHANGED <<loop, seen, result, resp, late, Loops>>

StartRound ==
  /\ pc = "ready" /\ pc' = "sending"
  /\ rq' = Started(lc.id) /\ CountLate
  /\ resp' = "none"
  /\ UNCHANGED <<loop, seen, result, lc, owed, Loops>>

---------------------------------------------------------------------------
(* Forward: the upstream call. *)

\* sendPassthrough or sendConverted returns; a context that ended does not keep a response
\* that was on its way from arriving.
Send ==
  /\ pc = "sending" /\ pc' = "sent"
  /\ \/ result' = "ok" /\ resp' = "open"
     \/ \E e \in Errors : /\ e = "canceled" => lc.ctx # "live"
                          /\ result' = e /\ UNCHANGED resp
  /\ UNCHANGED <<loop, seen, rq, lc, owed, late, Loops>>

AttachBlindly ==
  /\ pc = "sent" /\ pc' = "attached"
  /\ lc' = [lc EXCEPT !.attached = (result = "ok")]
  /\ UNCHANGED <<loop, seen, result, rq, resp, owed, late, Loops>>

\* lifecycle.Attach: a response that comes after Stop is closed at once.
Attach ==
  /\ pc = "sent" /\ pc' = "attached"
  /\ IF result = "ok"
     THEN /\ lc' = [lc EXCEPT !.attached = TRUE]
          /\ resp' = IF lc.stopped THEN "closed" ELSE resp
     ELSE UNCHANGED <<lc, resp>>
  /\ UNCHANGED <<loop, seen, result, rq, owed, late, Loops>>

\* The record after releaseRoundLifecycle and markCommitted.
Committed == [rq EXCEPT !.cancel = 0, !.status = "committed"]

\* The timer is stopped; a stream whose context has ended is closed and counts as timed out.
\* A complete answer is committed: the route learns of it, then the client.
Commit ==
  /\ pc = "attached"
  /\ IF result # "ok"
     THEN pc' = "failed" /\ UNCHANGED <<result, rq, lc, resp, owed>>
     ELSE IF streaming /\ lc.ctx # "live"
     THEN pc' = "failed" /\ result' = "plain" /\ resp' = "closed" /\ UNCHANGED <<rq, lc, owed>>
     ELSE IF streaming
     THEN pc' = "streaming" /\ UNCHANGED <<result, rq, lc, resp, owed>>
     ELSE /\ pc' = "writing" /\ Settle /\ resp' = "closed"
          /\ lc' = Ended
          /\ rq' = Committed
          /\ UNCHANGED result
  /\ UNCHANGED <<loop, seen, late, Loops>>

\* The answer reaches the client, or writing it fails.
Write ==
  /\ pc = "writing"
  /\ \/ End("success")
     \/ End(IF client THEN "failed" ELSE "canceled")
  /\ UNCHANGED <<loop, seen, result, lc, resp, owed, late, Loops>>

\* The round is over: nothing of it is left behind.
EndRound == releaseRoundLifecycle /\ Settle

\* The round's own timeout hides the upstream's error, save that the exit account was refused.
TrueError == IF lc.ctx = "timeout" /\ result # "proxy" THEN "plain" ELSE result
Aborted == lc.ctx \notin {"live", "timeout"}

\* What a member's one early EOF, one 400 and each refused account leave in the request.
EofRetried(m) == [seen EXCEPT !.eof = @ \cup {m}]
Sanitized(m) == [seen EXCEPT !.sanitized = @ \cup {m}]
AccountRetried(m) == [seen EXCEPT !.retries[m] = @ + 1]

\* The failed round, in the order of the code: a key is rotated; the request was stopped or
\* its client left; the round was interrupted; the account, an early EOF and a 400 are retried
\* once; 413 and a full channel exclude the member for this request; the rest is its failure.
FailedRound ==
  /\ pc = "failed" /\ EndRound
  /\ IF client /\ ~Aborted /\ TrueError = "rotate" THEN Retry(loop, seen)
     ELSE IF rq.stopRequested \/ ~client THEN End("canceled") /\ UNCHANGED <<loop, seen>>
     ELSE IF Aborted THEN Retry(loop, seen)
     ELSE LET m == loop.item
              e == TrueError
              strike == RouteFailure /\ rq' = Released /\ UNCHANGED seen
              reject(s) == GiveUp(Skipping(s, {m})) \/ GiveUp(s)
          IN CASE e = "proxy" /\ seen.retries[m] < MaxAccountRetries ->
                    Retry(loop, AccountRetried(m))
               [] e = "proxy" /\ seen.retries[m] = MaxAccountRetries ->
                    strike \/ (lc.ctx # "timeout" /\ reject(seen))
               [] e = "eof" /\ m \notin seen.eof ->
                    Retry(loop, EofRetried(m))
               [] e = "toolarge" -> GiveUp(Skipping(seen, {m}))
               [] e = "busy" -> GiveUp(seen)
               [] e = "badrequest" /\ m \notin seen.sanitized ->
                    Retry(loop, Sanitized(m)) \/ reject(Sanitized(m))
               [] e = "badrequest" /\ m \in seen.sanitized -> reject(seen)
               [] e = "rejected" -> reject(seen)
               [] OTHER -> strike
  /\ UNCHANGED <<result, late, Loops>>

---------------------------------------------------------------------------
(* Forward: the stream after the first event, and the waits between rounds. *)

\* The first event goes out: markCommitted.
StreamEvent ==
  /\ pc = "streaming" /\ rq.status = "running"
  /\ rq' = [rq EXCEPT !.status = "committed"]
  /\ UNCHANGED <<pc, loop, seen, result, lc, resp, owed, late, Loops>>

\* The stream ends whole, or broken (a read error, a bad event, a budget, an early close), or
\* the client cannot be written to; the idle timer's cause overrides a clean end.
StreamEnd ==
  /\ pc = "streaming" /\ pc' = "ended"
  /\ \E v \in {"ok", "bad", "gone"} :
       result' = IF v = "ok" /\ lc.ctx = "idle" THEN "bad" ELSE v
  /\ releaseRoundLifecycle
  /\ rq' = Released
  /\ UNCHANGED <<loop, seen, owed, late, Loops>>

\* A whole stream is the member's success; a broken one ends the request, and counts against
\* the member unless the operator stopped it or the client left.
StreamVerdict ==
  /\ pc = "ended" /\ Settle
  /\ IF result = "ok" THEN End("success")
     ELSE End(IF rq.stopRequested \/ ~client THEN "canceled" ELSE "failed")
  /\ UNCHANGED <<loop, seen, result, lc, resp, late, Loops>>

\* request.wait: the interval passes, or the client's leaving or stopCh ends the request.
RequestWait ==
  /\ pc = "waiting"
  /\ \/ pc' = "top" /\ UNCHANGED rq
     \/ (~client \/ rq.stopCh) /\ End("canceled")
  /\ UNCHANGED <<loop, seen, result, lc, resp, owed, late, Loops>>

AbandonAlways == Finished("failed")

\* abandonUnfinishedRequest: a final status is kept.
abandonUnfinishedRequest == IF rq.status \in Final THEN rq ELSE Finished("failed")

\* The recover of Forward: the lifecycle is stopped, the probe holds returned and the request
\* failed.  A panic after the final status was set (finish, the error log, the reply) counts too.
Panic ==
  /\ "panic" \in Features
  /\ pc \in PCs \ {"entry", "sent", "waiting"} /\ rq.status # "none"
  /\ pc' = "done" /\ owed' = 0
  /\ rq' = abandonUnfinishedRequest
  /\ lc' = IF lc.id = 0 THEN lc ELSE Ended
  /\ resp' = ClosedIfAttached
  /\ UNCHANGED <<loop, seen, result, late, Loops>>

---------------------------------------------------------------------------
(* The client, the timers and the operator. *)

Forwarding == <<pc, streaming, loop, seen, result, owed, late>>

ClientLeaves ==
  /\ "client" \in Features /\ client
  /\ client' = FALSE /\ lc' = Canceled("client")
  /\ UNCHANGED <<Forwarding, rq, resp, allStopped, kill>>

\* armRoundTimeout until it is stopped, and the idle timer of a blocked read.
Timer ==
  /\ lc.ctx = "live"
  /\ \/ pc \in {"sending", "sent", "attached"} /\ lc' = Canceled("timeout")
     \/ pc = "streaming" /\ lc' = Canceled("idle")
  /\ UNCHANGED <<Forwarding, rq, resp, client, allStopped, kill>>

\* StopRequest under the lock: the flag is set and the round's cancel taken; a second is a no-op.
StopRequest ==
  /\ "stop" \in Features
  /\ rq.status # "none" /\ ~rq.stopRequested
  /\ rq' = [rq EXCEPT !.stopRequested = TRUE]
  /\ kill' = [kill EXCEPT !["stop"] = [step |-> IF rq.cancel = 0 THEN "wake" ELSE "cancel",
                                       id |-> rq.cancel, asked |-> 0]]
  /\ UNCHANGED <<Forwarding, lc, resp, client, allStopped>>

\* Interrupt under the lock, for the round the operator saw: no match, no effect.
InterruptCall(asked, matches) ==
  /\ "interrupt" \in Features
  /\ kill["interrupt"].step = "idle"
  /\ rq.status # "none" /\ matches /\ rq.cancel # 0
  /\ kill' = [kill EXCEPT !["interrupt"] = [step |-> "cancel", id |-> rq.cancel, asked |-> asked]]
  /\ UNCHANGED <<Forwarding, rq, lc, resp, client, allStopped>>

InterruptAnyRound(asked) == InterruptCall(asked, TRUE)
Interrupt(asked) == InterruptCall(asked, rq.round = asked)

\* The taken cancel is called without the lock: the lifecycle's context ends, unless a later
\* round has a lifecycle of its own by now.
KillCancel(p) ==
  /\ kill[p].step = "cancel"
  /\ lc' = IF lc.id = kill[p].id THEN Canceled("admin") ELSE lc
  /\ kill' = [kill EXCEPT ![p].step = "halt"]
  /\ UNCHANGED <<Forwarding, rq, resp, client, allStopped>>

\* The second half of Stop: the lifecycle is stopped and the response it has is closed.
KillHalt(p) ==
  /\ kill[p].step = "halt"
  /\ IF lc.id = kill[p].id THEN lc' = Halted(lc) /\ resp' = ClosedIfAttached
     ELSE UNCHANGED <<lc, resp>>
  /\ kill' = [kill EXCEPT ![p] = IF p = "stop" THEN [NoCall EXCEPT !.step = "wake"] ELSE NoCall]
  /\ UNCHANGED <<Forwarding, rq, client, allStopped>>

\* close(ch).
StopWake ==
  /\ kill["stop"].step = "wake"
  /\ rq' = [rq EXCEPT !.stopCh = TRUE]
  /\ kill' = [kill EXCEPT !["stop"] = NoCall]
  /\ UNCHANGED <<Forwarding, lc, resp, client, allStopped>>

\* StopAllRequests sets the switch and goes on to stop the requests one by one; ClearStopAll.
SwitchAll ==
  /\ "stopall" \in Features
  /\ allStopped' = ~allStopped
  /\ UNCHANGED <<Forwarding, rq, lc, resp, client, kill>>

---------------------------------------------------------------------------
Forward ==
  \/ Enter \/ Top \/ NoGroup \/ NoMember \/ Pick \/ Unusable \/ DispatchError \/ Dispatch
  \/ WaitChannelRPM \/ NoWarpSlot \/ StartRound \/ Send \/ Attach \/ Commit \/ Write
  \/ FailedRound \/ StreamEvent \/ StreamEnd \/ StreamVerdict \/ RequestWait

Operator ==
  \/ StopRequest \/ (\E n \in 1..MaxRounds : Interrupt(n)) \/ StopWake \/ SwitchAll
  \/ \E p \in {"stop", "interrupt"} : KillCancel(p) \/ KillHalt(p)

Next == Forward \/ Panic \/ ClientLeaves \/ Timer \/ Operator

\* The goroutine runs; a send ends by its timeout, a wait and an RPM slot by the clock, a
\* stream by its upstream, its budget or its idle timer.
Spec == Init /\ [][Next]_vars /\ WF_vars(Forward)

---------------------------------------------------------------------------
(* What the rest of the system relies on. *)

\* Every pick of a member is answered exactly once, by a verdict or a release, on every path
\* of the loop: retries, exclusions, timeouts, aborts and ends.
OneAnswer == owed = IF pc \in Holding THEN 1 ELSE 0

\* Between rounds and at the end nothing of a round is left: no cancel in the record, no live
\* context (which holds the WARP lease), no open response (which holds the channel slot); and
\* a request that is over has a final status, or was never registered.
NothingLeft ==
  /\ pc \notin InRound => rq.cancel = 0 /\ resp # "open" /\ (lc.ctx = "live" => pc = "ready")
  /\ pc = "done" => rq.status \in Final \cup {"none"}

\* A lifecycle that was stopped keeps no response open, whether Stop or Attach came first.
StoppedIsClosed == lc.stopped /\ lc.attached => resp # "open"

\* After StopRequest has set its flag at most one more round starts: the one already past the
\* check at the head of the loop.
OneLateRound == late <= 1

\* A final status is never replaced: not by a late panic, a stop or a second verdict.
FinalStays == [][rq.status \in Final => rq'.status = rq.status]_vars

\* An Interrupt ends the context of the round the operator saw, never that of a later one.
InterruptHitsItsRound ==
  [][lc.ctx = "live" /\ lc'.ctx = "admin" /\ ~rq.stopRequested
       => kill["interrupt"].asked = rq.round]_vars

\* Every request ends: no path round the loop escapes the round limit.
Terminates == <>(pc = "done")

\* What StopRequest promises: once it has returned, no round of the request is in flight with
\* a live context.
StopReachesRound ==
  rq.stopRequested /\ kill["stop"].step = "idle" => ~(pc \in InRound /\ lc.ctx = "live")

---------------------------------------------------------------------------
(* The inductive invariant behind the safety properties. *)

\* Each pass of the loop creates at most one lifecycle and starts at most one round.
RoundsCounted ==
  /\ lc.id <= loop.rounds /\ rq.round <= loop.rounds
  /\ pc \in {"select", "picked", "rpm"} => lc.id < loop.rounds
  /\ pc \in {"select", "picked", "rpm", "ready"} => rq.round < loop.rounds
  /\ pc # "done" => loop.rounds <= MaxRounds

\* While a pick is unanswered the loop knows its member.
ItemChosen == pc \in Holding => loop.item \in Members

\* The record's cancel is the current lifecycle's while a round runs.
CancelIsCurrent ==
  /\ pc \in InRound => rq.cancel = lc.id
  /\ pc \in InRound \cup {"ready"} => lc.id > 0

\* A response is open only where somebody is bound to close it.
ResponseHeld ==
  /\ pc \in {"ready", "sending", "sent"} => ~lc.attached
  /\ resp = "open" => \/ pc = "sent" /\ result = "ok"
                      \/ pc = "attached" /\ result = "ok" /\ lc.attached
                      \/ pc = "streaming" /\ lc.attached

\* A round that starts late is the last: the flag is there when the loop comes round again.
LateIsStopped ==
  /\ late > 0 => rq.stopRequested
  /\ pc \in {"select", "picked", "rpm", "ready"} => late = 0

\* A request is registered with its entry, and only returns once its status is final.
FinalIsDone ==
  /\ pc = "entry" => rq.status = "none"
  /\ rq.status \in Final => pc = "done"

\* A call in progress aims at the current lifecycle only for the round it was asked for.
CallsAim ==
  /\ kill["stop"].step # "idle" => rq.stopRequested
  /\ kill["interrupt"].step # "idle" =>
       /\ kill["interrupt"].id <= lc.id
       /\ pc = "ready" => kill["interrupt"].id < lc.id
       /\ kill["interrupt"].id = lc.id => kill["interrupt"].asked = rq.round

IInv ==
  /\ TypeOK /\ OneAnswer /\ NothingLeft /\ StoppedIsClosed /\ OneLateRound
  /\ RoundsCounted /\ ItemChosen /\ CancelIsCurrent /\ ResponseHeld /\ LateIsStopped
  /\ FinalIsDone /\ CallsAim

=============================================================================
