------------------------------- MODULE ErrorLog -------------------------------
(***************************************************************************)
(* The queue of error logs (op/error_log.go).  A failed request hands its  *)
(* entry to a bounded channel without ever blocking; one writer goroutine  *)
(* collects batches and inserts them; the shutdown hook stops the writer   *)
(* and drains the channel before the database is closed.                   *)
(*                                                                         *)
(* errorLogLifeMu guards only the life of the channel and of the writer:   *)
(* an enqueuer takes the channel under it and sends after releasing it, so *)
(* it may send to a channel whose writer has ended since.                  *)
(***************************************************************************)
EXTENDS Naturals, Sequences, SequencesExt, FiniteSets, FiniteSetsExt

CONSTANTS
  LogEntries,     \* entries, numbered in the order of their creation
  ClassOf,        \* the err_class of every entry
  LogQueueCap,    \* errorLogQueueCapacity
  LogThreshold,   \* errorLogFlushThreshold
  KeptRows,       \* ErrorLogRetentionMaxCount, 0: no limit
  KeptPerClass,   \* rows kept per class by the deduplication
  MaxLogFaults    \* bound: failed inserts and panics of the writer

VARIABLES
  channels,   \* the channels made so far, each the entries in it; the last one is errorLogQueue
  writer,     \* the writer of the last channel: phase and batch
  enqueuer,   \* per entry: where its ErrorLogEnqueue stands, and the channel it took
  shutting,   \* errorLogShuttingDown
  flusher,    \* FlushErrorLogQueue
  flushQueue, \* the channel it captured when it stopped the writer
  rows,       \* the table error_logs: sanitized entries in the order of their row IDs
  deleted,    \* history: entries that a failed insert, a panic or the retention removed
  early,      \* history: the entries accepted when the shutdown hook stopped the writer
  sweep,      \* what a run of the deduplication is about to delete
  logFaults

logVars == <<channels, writer, enqueuer, shutting, flusher, flushQueue, rows, deleted, early, sweep, logFaults>>

NoWriter == [phase |-> "none", batch |-> <<>>, stop |-> FALSE]
errorLogWriterAlive == writer.phase \in {"run", "drain"}
Channel == channels[Len(channels)]

\* The boundary every row crosses: truncation, the tail of the key, redaction of credentials.
truncateErrorLogForEnqueue(e) == [id |-> e, redacted |-> FALSE]
redactRequestBody(x) == [x EXCEPT !.redacted = TRUE]
sanitizeErrorLog(x) == redactRequestBody(x)

Stored == {rows[i].id : i \in 1..Len(rows)}
Ids(xs) == {xs[i].id : i \in 1..Len(xs)}

\* The part of xs at some of its places, in the same order.
AtPlaces(xs, places) ==
  [k \in 1..Cardinality(places) |->
     xs[CHOOSE i \in places : Cardinality({j \in places : j <= i}) = k]]
RowsWithout(xs, ids) == AtPlaces(xs, {i \in 1..Len(xs) : xs[i].id \notin ids})
Accepted == {e \in LogEntries : enqueuer[e].pc = "accepted"}

LogInit ==
  /\ channels = << <<>> >> /\ writer = NoWriter
  /\ enqueuer = [e \in LogEntries |-> [pc |-> "new", ch |-> 0]]
  /\ shutting = FALSE /\ flusher = "idle" /\ flushQueue = 0
  /\ rows = <<>> /\ deleted = {} /\ early = {} /\ sweep = {} /\ logFaults = 0

-----------------------------------------------------------------------------
(* ErrorLogEnqueue. *)

\* Under errorLogLifeMu: while shutting down the entry is written directly; otherwise a dead
\* writer is started with a channel of its own, and the enqueuer leaves with the channel.
EnqueueTake(e) ==
  /\ enqueuer[e].pc = "new"
  /\ IF shutting
     THEN /\ enqueuer' = [enqueuer EXCEPT ![e].pc = "direct"]
          /\ UNCHANGED <<channels, writer>>
     ELSE /\ channels' = IF writer.phase = "ended" THEN Append(channels, <<>>) ELSE channels
          /\ writer' = IF errorLogWriterAlive THEN writer ELSE [NoWriter EXCEPT !.phase = "run"]
          /\ enqueuer' = [enqueuer EXCEPT ![e] = [pc |-> "sending", ch |-> Len(channels')]]
  /\ UNCHANGED <<shutting, flusher, flushQueue, rows, deleted, early, sweep, logFaults>>

\* The send outside the lock; a full channel refuses the entry.
EnqueueSend(e) ==
  /\ enqueuer[e].pc = "sending"
  /\ LET c == enqueuer[e].ch IN
     \/ /\ Len(channels[c]) < LogQueueCap
        /\ channels' = [channels EXCEPT ![c] = Append(@, truncateErrorLogForEnqueue(e))]
        /\ enqueuer' = [enqueuer EXCEPT ![e].pc = "accepted"]
     \/ /\ Len(channels[c]) >= LogQueueCap
        /\ enqueuer' = [enqueuer EXCEPT ![e].pc = "refused"]
        /\ UNCHANGED channels
  /\ UNCHANGED <<writer, shutting, flusher, flushQueue, rows, deleted, early, sweep, logFaults>>

Fails == logFaults < MaxLogFaults /\ logFaults' = logFaults + 1

\* insertErrorLogBatch: one transaction, all of the batch or nothing of it.
insertErrorLogBatch(batch) ==
  \/ /\ rows' = rows \o batch
     /\ UNCHANGED <<deleted, logFaults>>
  \/ /\ batch # <<>> /\ Fails
     /\ deleted' = deleted \cup Ids(batch)
     /\ UNCHANGED rows

\* ErrorLogCreate while shutting down: the caller learns whether its row is there.
ErrorLogCreate(e) ==
  /\ enqueuer[e].pc = "direct"
  /\ \/ /\ rows' = Append(rows, sanitizeErrorLog(truncateErrorLogForEnqueue(e)))
        /\ enqueuer' = [enqueuer EXCEPT ![e].pc = "accepted"]
        /\ UNCHANGED logFaults
     \/ /\ Fails
        /\ enqueuer' = [enqueuer EXCEPT ![e].pc = "refused"]
        /\ UNCHANGED rows
  /\ UNCHANGED <<channels, writer, shutting, flusher, flushQueue, deleted, early, sweep>>

-----------------------------------------------------------------------------
(* errorLogWriterLoop. *)

writerFlush ==
  /\ insertErrorLogBatch(writer.batch)
  /\ writer' = [writer EXCEPT !.batch = <<>>]
  /\ UNCHANGED <<channels, enqueuer, shutting, flusher, flushQueue, early, sweep>>

\* One entry is received and sanitized, from the loop or from the drain that follows the stop.
writerTake ==
  /\ errorLogWriterAlive /\ Channel # <<>>
  /\ writer.phase = "run" => Len(writer.batch) < LogThreshold
  /\ writer' = [writer EXCEPT !.batch = Append(@, sanitizeErrorLog(Head(Channel)))]
  /\ channels' = [channels EXCEPT ![Len(channels)] = Tail(@)]
  /\ UNCHANGED <<enqueuer, shutting, flusher, flushQueue, rows, deleted, early, sweep, logFaults>>

\* The batch is full, or the ticker fired.
writerTick == writer.phase = "run" /\ writer.batch # <<>> /\ writerFlush

writerSeesStop ==
  /\ writer.phase = "run" /\ writer.stop /\ Len(writer.batch) < LogThreshold
  /\ writer' = [writer EXCEPT !.phase = "drain"]
  /\ UNCHANGED <<channels, enqueuer, shutting, flusher, flushQueue, rows, deleted, early, sweep, logFaults>>

\* Fault: the writer ends without inserting the batch it holds.
writerEndsAtOnce ==
  /\ writer.phase = "drain" /\ Channel = <<>>
  /\ writer' = [NoWriter EXCEPT !.phase = "ended"]
  /\ UNCHANGED <<channels, enqueuer, shutting, flusher, flushQueue, rows, deleted, early, sweep, logFaults>>

\* The channel was found empty: the last batch is inserted and errorLogDone is closed.
writerEnds ==
  /\ writer.phase = "drain" /\ Channel = <<>>
  /\ insertErrorLogBatch(writer.batch)
  /\ writer' = [NoWriter EXCEPT !.phase = "ended"]
  /\ UNCHANGED <<channels, enqueuer, shutting, flusher, flushQueue, early, sweep>>

\* A panic while an entry is sanitized: recovered, the batch is gone and the writer is dead.
writerPanics ==
  /\ errorLogWriterAlive /\ Channel # <<>> /\ Fails
  /\ deleted' = deleted \cup Ids(writer.batch) \cup {Head(Channel).id}
  /\ channels' = [channels EXCEPT ![Len(channels)] = Tail(@)]
  /\ writer' = [NoWriter EXCEPT !.phase = "ended"]
  /\ UNCHANGED <<enqueuer, shutting, flusher, flushQueue, rows, early, sweep>>

-----------------------------------------------------------------------------
(* FlushErrorLogQueue, and the retention. *)

FlushStop ==
  /\ flusher = "idle" /\ writer.phase # "none"
  /\ flusher' = IF errorLogWriterAlive THEN "wait" ELSE "drain"
  /\ writer' = [writer EXCEPT !.stop = errorLogWriterAlive]
  /\ shutting' = errorLogWriterAlive
  /\ flushQueue' = Len(channels)
  /\ early' = Accepted
  /\ UNCHANGED <<channels, enqueuer, rows, deleted, sweep, logFaults>>

\* 35 seconds: the insert in progress ends after 30, so only a stuck database misses it.
FlushWaited ==
  /\ flusher = "wait"
  /\ \/ writer.phase = "ended" /\ flusher' = "drain" /\ UNCHANGED logFaults
     \/ errorLogWriterAlive /\ Fails /\ flusher' = "timeout"
  /\ UNCHANGED <<flushQueue, channels, writer, enqueuer, shutting, rows, deleted, early, sweep>>

Excess(xs) == IF KeptRows > 0 /\ Len(xs) > KeptRows THEN Ids(SubSeq(xs, 1, Len(xs) - KeptRows)) ELSE {}
Delete(ids) ==
  /\ rows' = RowsWithout(rows, ids)
  /\ deleted' = deleted \cup (ids \cap Stored)

\* What the captured channel still holds is inserted, and the table is cut to its limit.  Where
\* no writer ran, a request may have started one since, with a channel of its own.
FlushDrain ==
  /\ flusher = "drain"
  /\ LET held == channels[flushQueue]
         batch == [i \in 1..Len(held) |-> sanitizeErrorLog(held[i])]
         all == rows \o batch
         ErrorLogTrimToMaxCount == IF batch = <<>> THEN {} ELSE Excess(all)
     IN \/ /\ rows' = RowsWithout(all, ErrorLogTrimToMaxCount)
           /\ deleted' = deleted \cup ErrorLogTrimToMaxCount
           /\ UNCHANGED logFaults
        \/ /\ batch # <<>> /\ Fails
           /\ deleted' = deleted \cup Ids(batch)
           /\ UNCHANGED rows
  /\ channels' = [channels EXCEPT ![flushQueue] = <<>>]
  /\ flusher' = "done"
  /\ UNCHANGED <<flushQueue, writer, enqueuer, shutting, early, sweep>>

\* The rows older than the days of the retention; then the limit on their number.
ErrorLogCleanExpired ==
  /\ \E cutoff \in LogEntries :
       LET kept == RowsWithout(rows, {e \in LogEntries : e < cutoff}) IN
       /\ Len(kept) < Len(rows) \/ Excess(kept) # {}
       /\ Delete((Stored \ Ids(kept)) \cup Excess(kept))
  /\ UNCHANGED <<channels, writer, enqueuer, shutting, flusher, flushQueue, early, sweep, logFaults>>

ErrorLogDeleteAll ==
  /\ rows # <<>> /\ Delete(Stored)
  /\ UNCHANGED <<channels, writer, enqueuer, shutting, flusher, flushQueue, early, sweep, logFaults>>

\* The cutoff is read in one statement and the rows older than it are deleted in another.
OfClass(c) == {e \in Stored : ClassOf[e] = c}
ErrorLogDedupPerClass(c) ==
  /\ sweep = {} /\ Cardinality(OfClass(c)) > KeptPerClass
  /\ sweep' = {e \in LogEntries : ClassOf[e] = c /\
                 Cardinality({x \in OfClass(c) : x > e}) >= KeptPerClass}
  /\ UNCHANGED <<channels, writer, enqueuer, shutting, flusher, flushQueue, rows, deleted, early, logFaults>>

dedupDelete ==
  /\ sweep # {} /\ Delete(sweep) /\ sweep' = {}
  /\ UNCHANGED <<channels, writer, enqueuer, shutting, flusher, flushQueue, early, logFaults>>

LogNext ==
  \/ \E e \in LogEntries : EnqueueTake(e) \/ EnqueueSend(e) \/ ErrorLogCreate(e)
  \/ writerTake \/ writerTick \/ writerSeesStop \/ writerEnds \/ writerPanics
  \/ FlushStop \/ FlushWaited \/ FlushDrain
  \/ ErrorLogCleanExpired \/ ErrorLogDeleteAll \/ dedupDelete
  \/ \E c \in {ClassOf[e] : e \in LogEntries} : ErrorLogDedupPerClass(c)

LogSpec == LogInit /\ [][LogNext]_logVars

-----------------------------------------------------------------------------
(* What the shutdown hook promises before the database is closed: when FlushErrorLogQueue      *)
(* returns without a timeout, every entry that a request had handed over before the stop is    *)
(* in the table, or a failure or the retention removed it; only a channel older than the one   *)
(* the hook captured, left by a writer that panicked, may still hold entries                   *)
(* (errorLogWriterLoop, FlushErrorLogQueue).                                                   *)
StrandedByPanic == UNION {Ids(channels[c]) : c \in 1..(flushQueue - 1)}

EarlyEntriesStored ==
  flusher = "done" => early \subseteq Stored \cup deleted \cup StrandedByPanic

(* No row is written without the redaction, on whichever of the four paths the entry took:     *)
(* batch, final batch of the writer, drain of the hook, direct write (sanitizeErrorLog).       *)
RowsRedacted == \A i \in 1..Len(rows) : rows[i].redacted

(* What the error log promises: nothing handed over in time is missing, nothing is in clear.   *)
LogSound == EarlyEntriesStored /\ RowsRedacted

=============================================================================
