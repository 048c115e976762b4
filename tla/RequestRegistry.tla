--------------------------- MODULE RequestRegistry ---------------------------
(***************************************************************************)
(* The table of requests (relay/state.go) behind the log page of the        *)
(* console: registration, publication to the watching consoles, the two    *)
(* phases of finish, the bounded history of final requests, the ring of    *)
(* failure summaries, the set of client addresses, and Clear.              *)
(*                                                                         *)
(* Everything but the client addresses is guarded by one mutex, and each   *)
(* action is one section of it.  The first phase of finish runs outside    *)
(* the mutex: between it and the second one the request is final, still    *)
(* carries its full bodies, and is not yet in the history.                 *)
(***************************************************************************)
EXTENDS Naturals, Sequences, SequencesExt, FiniteSets

CONSTANTS
  Ids,               \* request IDs
  Consoles,          \* connections of streamOverview
  Addresses,         \* client addresses
  FailureKinds,      \* the errors a request may fail with, a subset of ErrorKinds
  MaxFinished,       \* maxFinished
  MaxFailureRecords, \* maxFailureRecords
  StreamBuffer,      \* streamBuffer
  MaxClientIPs,      \* maxClientIPs
  MaxRegistryRounds, \* bound: rounds of a request
  MaxInFlight        \* bound: requests in flight at once

ASSUME RegistryAssumption ==
  MaxFinished \in Nat /\ MaxFailureRecords \in Nat \ {0} /\ MaxClientIPs \in Nat \ {0, 1}

VARIABLES
  entries,     \* requests: the IDs that are registered
  rec,       \* the records themselves, which their goroutines keep when they leave the table
  finished,  \* finishedRequestQueue
  ring,      \* failureRing, failureNext, failureCount
  watchers,  \* the streams of the consoles, and what each console shows
  addresses, \* clientIPSet, ordered by last visit
  failures   \* history: the failures summarised since the last Clear

registryVars == <<entries, rec, finished, ring, watchers, addresses, failures>>

Finals == {"success", "failed", "canceled"}
Statuses == {"running", "committed"} \cup Finals

(* Errors by what tells them apart: the sentinels, an infrastructure error without an HTTP *)
(* status, and the HTTP status of an answer.                                               *)
ErrorKinds ==
  {"zeroOutput", "noAnswer", "earlyEof", "streamIdle", "streamBudget", "windowBudget",
   "memberTimeout", "roundsExceeded", "deadlineExceeded", "concurrencyFull", "allBusy",
   "titleRejected", "tooLarge", "contextWindow", "network", "status4xx", "status5xx", "other"}

\* isInfrastructureError: a network error, or an answer without an HTTP status.
InfrastructureErrors == {"network"}

classifyUpstreamStatus(e) ==
  CASE e = "status5xx" -> "upstream_5xx" [] e = "status4xx" -> "upstream_4xx" [] OTHER -> "upstream_error"

ClassifyError(e) ==
  CASE e \in {"zeroOutput", "noAnswer", "earlyEof", "streamIdle"} -> e
    [] e \in {"streamBudget", "windowBudget"}       -> "stream_budget"
    [] e = "memberTimeout"                          -> "timeout"
    [] e \in {"roundsExceeded", "deadlineExceeded"} -> "rounds_exhausted"
    [] e \in {"concurrencyFull", "allBusy"}         -> "channel_busy"
    [] e = "titleRejected"                          -> "client_rejected"
    [] e \in {"tooLarge", "contextWindow"}          -> "upstream_4xx"
    [] e \in InfrastructureErrors                   -> "upstream_network"
    [] OTHER                                        -> classifyUpstreamStatus(e)

\* The fields of a snapshot that a console compares; bodies are never sent.
Item(id) == [id |-> id, st |-> rec[id].st, round |-> rec[id].round, masked |-> rec[id].masked]

NoRing == [slot |-> [i \in 0..MaxFailureRecords - 1 |-> <<>>], next |-> 0, count |-> 0]
\* A stream is first-in first-out, so what its console will show of a request is the last
\* item sent; "pending" counts the items the console has not read yet.
Disconnected == [open |-> FALSE, pending |-> 0, sent |-> [id \in Ids |-> <<>>]]

RegistryInit ==
  /\ entries = {} /\ finished = <<>> /\ addresses = <<>> /\ failures = <<>>
  /\ rec = [id \in Ids |-> [st |-> "none", stage |-> "new", round |-> 0, sending |-> FALSE,
                            masked |-> FALSE, body |-> "none", error |-> "none"]]
  /\ ring = NoRing
  /\ watchers = [c \in Consoles |-> Disconnected]

-----------------------------------------------------------------------------
(* Publication: to every open stream without blocking; a full one is closed. *)

publishRequestLocked(item) ==
  watchers' = [c \in Consoles |->
    LET w == watchers[c] IN
    CASE ~w.open -> w
      [] w.open /\ w.pending < StreamBuffer -> [w EXCEPT !.pending = @ + 1, !.sent[item.id] = item]
      [] OTHER -> [Disconnected EXCEPT !.pending = w.pending]]

Publish(id, r) ==
  /\ rec' = [rec EXCEPT ![id] = r]
  /\ publishRequestLocked([id |-> id, st |-> r.st, round |-> r.round, masked |-> r.masked])

\* Half of the addresses, the ones not seen for longest, make room for a new one.
trackClientRequest(a) ==
  LET others == IF a \in Range(addresses)
                THEN RemoveAt(addresses, CHOOSE i \in DOMAIN addresses : addresses[i] = a)
                ELSE addresses
      full == a \notin Range(addresses) /\ Len(addresses) >= MaxClientIPs
      kept == IF full THEN SubSeq(addresses, Len(addresses) \div 2 + 1, Len(addresses)) ELSE others
  IN addresses' = Append(kept, a)

\* The addresses have a mutex of their own and are touched nowhere else.
newRequestState(id, a) ==
  /\ rec[id].stage = "new"
  /\ \A j \in Ids : j < id => rec[j].stage # "new"
  /\ Cardinality({j \in Ids : rec[j].stage \in {"live", "finishing"}}) < MaxInFlight
  /\ Publish(id, [rec[id] EXCEPT !.st = "running", !.stage = "live", !.body = "full"])
  /\ entries' = entries \cup {id}
  /\ trackClientRequest(a)
  /\ UNCHANGED <<finished, ring, failures>>

applyMaskResult(id) ==
  /\ rec[id].stage = "live" /\ rec[id].round = 0 /\ ~rec[id].masked
  /\ Publish(id, [rec[id] EXCEPT !.masked = TRUE])
  /\ UNCHANGED <<entries, finished, ring, addresses, failures>>

startRound(id) ==
  /\ rec[id].stage = "live" /\ rec[id].st = "running" /\ ~rec[id].sending
  /\ rec[id].round < MaxRegistryRounds
  /\ Publish(id, [rec[id] EXCEPT !.round = @ + 1, !.sending = TRUE])
  /\ UNCHANGED <<entries, finished, ring, addresses, failures>>

finishRound(id) ==
  /\ rec[id].stage = "live" /\ rec[id].sending
  /\ Publish(id, [rec[id] EXCEPT !.sending = FALSE])
  /\ UNCHANGED <<entries, finished, ring, addresses, failures>>

\* A change of the display fields only: the snapshot is sent again.
setRelayMode(id) ==
  /\ rec[id].stage = "live" /\ rec[id].sending
  /\ Publish(id, rec[id])
  /\ UNCHANGED <<entries, finished, ring, addresses, failures>>

noteOutputChars(id) ==
  /\ rec[id].stage = "live" /\ rec[id].st = "committed"
  /\ Publish(id, rec[id])
  /\ UNCHANGED <<entries, finished, ring, addresses, failures>>

markCommitted(id) ==
  /\ rec[id].stage = "live" /\ rec[id].st = "running" /\ rec[id].round > 0
  /\ Publish(id, [rec[id] EXCEPT !.st = "committed"])
  /\ UNCHANGED <<entries, finished, ring, addresses, failures>>

-----------------------------------------------------------------------------
(* The end of a request. *)

\* markSucceeded, markFailed, markCanceled: the status, which nobody publishes yet.
mark(id, outcome, e) ==
  /\ rec[id].stage = "live"
  /\ rec[id].st \in {"running", "committed"}
  /\ outcome = "success" => rec[id].st = "committed"
  /\ rec' = [rec EXCEPT ![id].st = outcome, ![id].sending = FALSE, ![id].stage = "finishing",
                        ![id].error = e]
  /\ UNCHANGED <<entries, finished, ring, watchers, addresses, failures>>

appendFailureLocked(summary) ==
  ring' = [slot |-> [ring.slot EXCEPT ![ring.next] = summary],
           next |-> (ring.next + 1) % MaxFailureRecords,
           count |-> IF ring.count < MaxFailureRecords THEN ring.count + 1 ELSE ring.count]

\* trimFinishedRequestsLocked after the append of id.
TrimFinished(id) ==
  LET queue == Append(finished, id)
      over == Len(queue) - MaxFinished
  IN IF Len(queue) > MaxFinished
     THEN [queue |-> SubSeq(queue, over + 1, Len(queue)), gone |-> Range(SubSeq(queue, 1, over))]
     ELSE [queue |-> queue, gone |-> {}]

\* The second phase: bodies shrink to previews, the failure is summarised, the final state
\* published and the history trimmed, also when Clear has removed the record in between.
finish(id) ==
  /\ rec[id].stage = "finishing"
  /\ Publish(id, [rec[id] EXCEPT !.stage = "done", !.body = "preview"])
  /\ LET summary == [id |-> id, class |-> ClassifyError(rec[id].error)] IN
     IF rec[id].st = "failed"
     THEN appendFailureLocked(summary) /\ failures' = Append(failures, summary)
     ELSE UNCHANGED <<ring, failures>>
  /\ finished' = TrimFinished(id).queue
  /\ entries' = entries \ TrimFinished(id).gone
  /\ UNCHANGED addresses

\* Fault: the ring of failures is left as it is.
ClearKeepsRing ==
  /\ entries' = {id \in entries : rec[id].st \in {"running", "committed"}}
  /\ finished' = <<>> /\ failures' = <<>>
  /\ UNCHANGED <<rec, ring, watchers, addresses>>

Clear ==
  /\ entries' = {id \in entries : rec[id].st \in {"running", "committed"}}
  /\ ring' = [ring EXCEPT !.next = 0, !.count = 0]
  /\ finished' = <<>> /\ failures' = <<>>
  /\ UNCHANGED <<rec, watchers, addresses>>

OfClass(summaries, class) == SelectSeq(summaries, LAMBDA s : s.class = class)

\* The ring, newest first.
NewestSummaries ==
  [i \in 1..ring.count |-> ring.slot[(ring.next - i + MaxFailureRecords) % MaxFailureRecords]]

FailureSummaries(class) == OfClass(NewestSummaries, class)

-----------------------------------------------------------------------------
(* The consoles: streamOverview sends the snapshot, then what its stream brings. *)

OpenRequestStream(c) ==
  /\ ~watchers[c].open /\ watchers[c].pending = 0
  /\ watchers' = [watchers EXCEPT ![c] =
       [open |-> TRUE, pending |-> 0,
        sent |-> [id \in Ids |-> IF id \in entries THEN Item(id) ELSE <<>>]]]
  /\ UNCHANGED <<entries, rec, finished, ring, addresses, failures>>

\* A stream that was closed still hands out what it had buffered.
ReadStream(c) ==
  /\ watchers[c].pending > 0
  /\ watchers' = [watchers EXCEPT ![c].pending = @ - 1]
  /\ UNCHANGED <<entries, rec, finished, ring, addresses, failures>>

CloseRequestStream(c) ==
  /\ watchers[c].open
  /\ watchers' = [watchers EXCEPT ![c] = Disconnected]
  /\ UNCHANGED <<entries, rec, finished, ring, addresses, failures>>

streamOverview(c) == OpenRequestStream(c) \/ ReadStream(c) \/ CloseRequestStream(c)

RegistryNext ==
  \/ \E id \in Ids :
       \/ applyMaskResult(id) \/ startRound(id) \/ finishRound(id)
       \/ setRelayMode(id) \/ noteOutputChars(id) \/ markCommitted(id) \/ finish(id)
       \/ \E a \in Addresses : newRequestState(id, a)
       \/ mark(id, "success", "none") \/ mark(id, "canceled", "none")
       \/ \E e \in FailureKinds : mark(id, "failed", e)
  \/ Clear
  \/ \E c \in Consoles : streamOverview(c)

RegistrySpec == RegistryInit /\ [][RegistryNext]_registryVars

-----------------------------------------------------------------------------
(* The memory of the table is bounded whatever Clear and the two phases of finish do to     *)
(* each other: a final request of the table is still being finished or waits in the queue   *)
(* that trims it, at most maxFinished of them are kept, none of those holds a full body,    *)
(* and the client addresses stay below their limit.                                         *)
HistoryBounded ==
  /\ \A id \in entries : rec[id].st \in Finals => rec[id].stage = "finishing" \/ id \in Range(finished)
  /\ Cardinality({id \in entries : rec[id].stage = "done"}) <= MaxFinished
  /\ \A id \in Ids : rec[id].stage = "done" => rec[id].body = "preview"
  /\ IsInjective(addresses) /\ Len(addresses) <= MaxClientIPs

(* A console that is still connected misses nothing: once it has read its buffer it shows   *)
(* the status, the round and the mask of every request of the table; only a request between *)
(* the two phases of finish is shown as it was before (publishRequestLocked, finish).       *)
ConsoleCurrent ==
  \A c \in Consoles : watchers[c].open => \A id \in entries :
    LET shown == watchers[c].sent[id]
    IN \/ shown = Item(id)
       \/ rec[id].stage = "finishing" /\ shown = [Item(id) EXCEPT !.st = shown.st]
                                      /\ shown.st \in {"running", "committed"}

(* The failure page lists, for each class, the failures among the last maxFailureRecords    *)
(* ones since Clear, newest first: the ring never shows a slot that Clear or a wrap-around  *)
(* made stale (appendFailureLocked, FailureSummaries).                                      *)
FailuresRecent ==
  LET n == Len(failures)
      recent == SubSeq(failures, IF n > MaxFailureRecords THEN n - MaxFailureRecords + 1 ELSE 1, n)
  IN \A class \in {ClassifyError(e) : e \in FailureKinds} :
       FailureSummaries(class) = OfClass(Reverse(recent), class)

(* What the log page relies on: bounded memory, a current list, a truthful failure page.    *)
RegistrySound == HistoryBounded /\ ConsoleCurrent /\ FailuresRecent
=============================================================================
