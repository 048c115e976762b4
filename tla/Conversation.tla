----------------------------- MODULE Conversation -----------------------------
(***************************************************************************)
(* The retention of conversations (op/conversation.go): final requests are *)
(* captured into a bounded queue, a writer goroutine appends them to the   *)
(* file of the day, compresses the file of the day before, and deletes     *)
(* archives by age and by the budget of the directory.  The shutdown hook  *)
(* and the console's "clear" stop the writer first.                        *)
(*                                                                         *)
(* conversationMu guards the queue; the writer takes the whole queue under *)
(* it and writes outside it, then hangs back what was not written.  The    *)
(* process may crash at any step; the directory survives.                  *)
(***************************************************************************)
EXTENDS Naturals, Sequences, SequencesExt, FiniteSets, FiniteSetsExt

CONSTANTS
  Records,        \* records, numbered in the order of their capture
  Unencodable,    \* records that json.Marshal refuses
  PendingMax,     \* ConversationPendingMaxBytes, a record counts one
  DirMax,         \* conversationDirMaxBytes, a record in a file counts one
  RetentionDays,  \* conversationRetentionDays
  LastDay,        \* bound: days
  MaxConvFaults   \* bound: failed writes, failed compactions, crashes

ASSUME ConvAssumption == /\ Records \subseteq Nat \ {0}
                         /\ PendingMax \in Nat \ {0} /\ LastDay \in Nat \ {0}

VARIABLES
  pending,        \* conversationPending; conversationBytes is its length
  convWriter,     \* the writer: phase, the batch it took, the day it compresses
  stopClosed,     \* conversationStop is closed
  stopper,        \* FlushConversations or ClearConversationArchives, serialised by a mutex
  day,            \* the calendar
  file,           \* conversationFile and conversationWriter: day, linked in the directory, broken
  compactDay,     \* conversationCompactDay
  plain,          \* day -> the records of its .jsonl, for the files that exist
  gz,             \* day -> the records of its .jsonl.gz; Truncated if it cannot be read
  temp,           \* the days whose .jsonl.gz.tmp exists
  fate,           \* history: what became of every record
  convFaults

convVars == <<pending, convWriter, stopClosed, stopper, day, file, compactDay, plain, gz, temp, fate, convFaults>>

Days == 1..LastDay
Truncated == {0}
NoArchive == [day |-> 0, linked |-> TRUE, broken |-> FALSE]
NewWriter == [phase |-> "idle", batch |-> <<>>, target |-> 0]
conversationAlive == convWriter.phase # "ended"
ConvFails == convFaults < MaxConvFaults /\ convFaults' = convFaults + 1
Fate(ids, f) == [r \in Records |-> IF r \in ids THEN f ELSE fate[r]]

\* A file of an earlier version may have left a truncated archive.
ConvInit ==
  /\ pending = <<>> /\ convWriter = NewWriter /\ stopClosed = FALSE
  /\ stopper = [who |-> "none", pc |-> "idle"]
  /\ day = 1 /\ file = NoArchive /\ compactDay = 0
  /\ plain = <<>> /\ gz \in {<<>>, [d \in {1} |-> Truncated]} /\ temp = {}
  /\ fate = [r \in Records |-> "new"] /\ convFaults = 0

-----------------------------------------------------------------------------
(* CaptureConversation. *)

\* Refused when the setting is off or the writer has ended; the oldest records leave a full
\* queue.
CaptureConversation(r) ==
  /\ fate[r] = "new" /\ \A q \in Records : q < r => fate[q] # "new"
  /\ LET excess == IF Len(pending) < PendingMax THEN 0 ELSE Len(pending) + 1 - PendingMax IN
     \/ fate' = Fate({r}, "dropped") /\ UNCHANGED pending
     \/ /\ conversationAlive
        /\ fate' = [Fate(ToSet(SubSeq(pending, 1, excess)), "dropped") EXCEPT ![r] = "captured"]
        /\ pending' = Append(SubSeq(pending, excess + 1, Len(pending)), r)
  /\ UNCHANGED <<convWriter, stopClosed, stopper, day, file, compactDay, plain, gz, temp, convFaults>>

-----------------------------------------------------------------------------
(* Files. *)

Files(f, d, ids) == [x \in DOMAIN f \cup {d} |-> IF x = d THEN ids ELSE f[x]]
Content(d) == IF d \in DOMAIN plain THEN plain[d] ELSE {}

\* ensureConversationFileLocked: the file of the day before is closed and registered for
\* compression; an open file of this day is taken as it is, and a broken writer with it.
ensureConversationFileLocked ==
  IF file.day = day THEN [file |-> file, compact |-> compactDay]
  ELSE [file |-> [NoArchive EXCEPT !.day = day],
        compact |-> IF file.day # 0 THEN file.day ELSE compactDay]

\* writeConversationBatch: encoding stops at the first record that cannot be encoded.
Encodable(batch) ==
  LET bad == {i \in 1..Len(batch) : batch[i] \in Unencodable}
  IN IF bad = {} THEN Len(batch) ELSE Min(bad) - 1

\* A file that was removed from the directory while open takes writes that nobody can read.
Appended(f, xs) == IF f.linked THEN Files(plain, f.day, Content(f.day) \cup ToSet(xs)) ELSE plain
Append2File(f, batch, n) ==
  /\ plain' = Appended(f, SubSeq(batch, 1, n))
  /\ fate' = Fate(ToSet(SubSeq(batch, 1, n)), IF f.linked THEN "written" ELSE "unlinked")

-----------------------------------------------------------------------------
(* The writer. *)

\* conversationFlushBatch, first section: the queue becomes the batch.
FlushSwap ==
  /\ convWriter.phase = "idle" /\ pending # <<>>
  /\ convWriter' = [convWriter EXCEPT !.phase = "io", !.batch = pending]
  /\ pending' = <<>>
  /\ file' = ensureConversationFileLocked.file
  /\ compactDay' = ensureConversationFileLocked.compact
  /\ plain' = IF file'.linked THEN Files(plain, day, Content(day)) ELSE plain
  /\ UNCHANGED <<stopClosed, stopper, day, gz, temp, fate, convFaults>>

\* writeConversationBatch outside the lock, and the section that hangs the rest back in front
\* of the queue.  A bufio.Writer that has failed once fails until the file is opened again;
\* what it had written before the failure is in the file, and is written again later.
FlushWrite ==
  LET batch == convWriter.batch
      n == Encodable(batch)
  IN
  /\ convWriter.phase = "io"
  /\ \/ /\ ~file.broken
        /\ Append2File(file, batch, n)
        /\ pending' = SubSeq(batch, n + 1, Len(batch)) \o pending
        /\ UNCHANGED <<file, convFaults>>
     \/ /\ file.broken
        /\ pending' = batch \o pending
        /\ UNCHANGED <<file, plain, fate, convFaults>>
     \/ /\ ~file.broken /\ ConvFails
        /\ \E k \in 0..n : plain' = Appended(file, SubSeq(batch, 1, k))
        /\ file' = [file EXCEPT !.broken = TRUE]
        /\ pending' = batch \o pending
        /\ UNCHANGED fate
  /\ convWriter' = [convWriter EXCEPT !.phase = "house", !.batch = <<>>]
  /\ UNCHANGED <<stopClosed, stopper, day, compactDay, gz, temp>>

\* The watermark of the disk or a failed open leaves the queue as it is.
FlushSkipped ==
  /\ convWriter.phase = "idle"
  /\ convWriter' = [convWriter EXCEPT !.phase = "house"]
  /\ UNCHANGED <<pending, stopClosed, stopper, day, file, compactDay, plain, gz, temp, fate, convFaults>>

\* runConversationHousekeeping: the registered day is taken, once.
HousekeepingTake ==
  /\ convWriter.phase = "house"
  /\ convWriter' = [convWriter EXCEPT !.phase = IF compactDay = 0 THEN "cleanup" ELSE "compact", !.target = compactDay]
  /\ compactDay' = 0
  /\ UNCHANGED <<pending, stopClosed, stopper, day, file, plain, gz, temp, fate, convFaults>>

Without(f, S) == [d \in DOMAIN f \ S |-> f[d]]

\* compactYesterday up to the rename: an archive that is complete makes the plain file
\* redundant, a bad one is replaced; a failure leaves the plain file and no temporary one.
compressGzipAtomic ==
  LET d == convWriter.target IN
  /\ convWriter.phase = "compact"
  /\ \/ /\ Content(d) = {} /\ temp' = temp \ {d}
        /\ convWriter' = [convWriter EXCEPT !.phase = "cleanup"]
        /\ UNCHANGED <<gz, convFaults>>
     \/ /\ Content(d) # {} /\ d \in DOMAIN gz /\ gz[d] # Truncated
        /\ convWriter' = [convWriter EXCEPT !.phase = "remove"]
        /\ UNCHANGED <<gz, temp, convFaults>>
     \/ /\ Content(d) # {} /\ (d \in DOMAIN gz => gz[d] = Truncated)
        /\ gz' = Without(gz, {d}) /\ temp' = temp \cup {d}
        /\ convWriter' = [convWriter EXCEPT !.phase = "copied"]
        /\ UNCHANGED convFaults
  /\ UNCHANGED <<pending, stopClosed, stopper, day, file, compactDay, plain, fate>>

\* Fault: the plain file is removed although the rename failed.
renameUnchecked ==
  LET d == convWriter.target IN
  /\ convWriter.phase = "copied" /\ temp' = temp \ {d}
  /\ \/ gz' = Files(gz, d, Content(d)) /\ UNCHANGED convFaults
     \/ ConvFails /\ UNCHANGED gz
  /\ convWriter' = [convWriter EXCEPT !.phase = "remove"]
  /\ UNCHANGED <<pending, stopClosed, stopper, day, file, compactDay, plain, fate>>

\* The temporary file is complete, synced and verified, and takes the name of the archive.
renameArchive ==
  LET d == convWriter.target IN
  /\ convWriter.phase = "copied" /\ temp' = temp \ {d}
  /\ \/ /\ gz' = Files(gz, d, Content(d))
        /\ convWriter' = [convWriter EXCEPT !.phase = "remove"]
        /\ UNCHANGED convFaults
     \/ /\ ConvFails
        /\ convWriter' = [convWriter EXCEPT !.phase = "cleanup"]
        /\ UNCHANGED gz
  /\ UNCHANGED <<pending, stopClosed, stopper, day, file, compactDay, plain, fate>>

removePlain ==
  /\ convWriter.phase = "remove"
  /\ plain' = Without(plain, {convWriter.target})
  /\ convWriter' = [convWriter EXCEPT !.phase = "cleanup"]
  /\ UNCHANGED <<pending, stopClosed, stopper, day, file, compactDay, gz, temp, fate, convFaults>>

\* The files of the directory, and the records in one of them.
Held == {<<"jsonl", d>> : d \in DOMAIN plain} \cup {<<"gz", d>> : d \in DOMAIN gz}
In(x) == IF x[1] = "jsonl" THEN plain[x[2]] ELSE gz[x[2]]
DirSize(S) == FoldSet(LAMBDA x, n : n + Cardinality(In(x)), 0, S)
WrittenIn(S) == {r \in UNION {In(x) : x \in S} : r \in Records /\ fate[r] = "written"}

\* Archives older than the retention go; then one by one, in the order of their modification,
\* until the rest fits the budget, the open file of this day included.
cleanupConversations ==
  LET expired == {x \in Held : x[2] + RetentionDays <= day} IN
  /\ convWriter.phase = "cleanup"
  /\ \E over \in SUBSET (Held \ expired) :
       LET gone == expired \cup over
           kept == Held \ gone
       IN
       /\ DirSize(kept) <= DirMax
       /\ over = {} \/ \E last \in over : DirSize(kept \cup {last}) > DirMax
       /\ plain' = Without(plain, {x[2] : x \in {y \in gone : y[1] = "jsonl"}})
       /\ gz' = Without(gz, {x[2] : x \in {y \in gone : y[1] = "gz"}})
       /\ file' = IF <<"jsonl", file.day>> \in gone THEN [file EXCEPT !.linked = FALSE] ELSE file
       /\ fate' = Fate(WrittenIn(gone) \ WrittenIn(kept), "expired")
  /\ convWriter' = NewWriter
  /\ UNCHANGED <<pending, stopClosed, stopper, day, compactDay, temp, convFaults>>

\* flushConversationLocked and closeConversationFileLocked, under the lock: what is pending is
\* written to the file of the day, which is closed.
FlushAndClose ==
  LET f == ensureConversationFileLocked.file IN
  /\ \E n \in {0, Encodable(pending)} :     \* 0: no room on the disk, or the write failed
       /\ f.broken => n = 0
       /\ IF n = 0 THEN UNCHANGED <<plain, fate>> ELSE Append2File(f, pending, n)
       /\ pending' = SubSeq(pending, n + 1, Len(pending))
  /\ compactDay' = IF pending = <<>> THEN compactDay ELSE ensureConversationFileLocked.compact
  /\ file' = NoArchive
  /\ UNCHANGED convFaults

\* The stop branch of conversationWriterLoop.
writerStops ==
  /\ convWriter.phase = "idle" /\ stopClosed
  /\ FlushAndClose
  /\ convWriter' = [NewWriter EXCEPT !.phase = "ended"]
  /\ UNCHANGED <<stopClosed, stopper, day, gz, temp>>

-----------------------------------------------------------------------------
(* FlushConversations and ClearConversationArchives. *)

\* The writer is told to stop; closing a channel that is closed already is a panic.
StopWriter(who) ==
  /\ stopper.pc = "idle"
  /\ stopper' = [who |-> who, pc |-> IF ~conversationAlive THEN "work" ELSE IF stopClosed THEN "panic" ELSE "wait"]
  /\ stopClosed' = (stopClosed \/ conversationAlive)
  /\ UNCHANGED <<pending, convWriter, day, file, compactDay, plain, gz, temp, fate, convFaults>>

\* The context of the hook or of the HTTP request may end first.
WaitDone ==
  /\ stopper.pc = "wait"
  /\ \/ ~conversationAlive /\ stopper' = [stopper EXCEPT !.pc = "work"] /\ UNCHANGED convFaults
     \/ conversationAlive /\ ConvFails /\ stopper' = [stopper EXCEPT !.pc = "idle"]
  /\ UNCHANGED <<pending, convWriter, stopClosed, day, file, compactDay, plain, gz, temp, fate>>

FlushConversations ==
  /\ stopper = [who |-> "shutdown", pc |-> "work"]
  /\ FlushAndClose
  /\ stopper' = [stopper EXCEPT !.pc = "ended"]
  /\ UNCHANGED <<convWriter, stopClosed, day, gz, temp>>

\* What can be written is written out, and every archive is deleted.
ClearConversationArchives ==
  /\ stopper = [who |-> "clear", pc |-> "work"]
  /\ \E n \in {0, Encodable(pending)} :
       /\ pending' = SubSeq(pending, n + 1, Len(pending))
       /\ fate' = Fate(ToSet(SubSeq(pending, 1, n)) \cup {r \in Records : fate[r] = "written"}, "expired")
  /\ file' = NoArchive /\ compactDay' = 0
  /\ plain' = <<>> /\ gz' = <<>>
  /\ stopper' = [who |-> "none", pc |-> "idle"]
  /\ UNCHANGED <<convWriter, stopClosed, day, temp, convFaults>>

\* Midnight.
NextDay ==
  /\ day < LastDay /\ day' = day + 1
  /\ UNCHANGED <<pending, convWriter, stopClosed, stopper, file, compactDay, plain, gz, temp, fate, convFaults>>

\* The process dies and InitConversationStore starts the next one: the memory is gone.
InitConversationStore ==
  /\ ConvFails
  /\ fate' = [r \in Records |-> IF fate[r] = "captured" THEN "lost" ELSE fate[r]]
  /\ pending' = <<>> /\ convWriter' = NewWriter /\ stopClosed' = FALSE
  /\ stopper' = [who |-> "none", pc |-> "idle"] /\ file' = NoArchive /\ compactDay' = 0
  /\ UNCHANGED <<day, plain, gz, temp>>

ConvNext ==
  \/ \E r \in Records : CaptureConversation(r)
  \/ FlushSwap \/ FlushWrite \/ FlushSkipped
  \/ HousekeepingTake \/ compressGzipAtomic \/ renameArchive \/ removePlain \/ cleanupConversations
  \/ writerStops \/ \E who \in {"shutdown", "clear"} : StopWriter(who)
  \/ WaitDone \/ FlushConversations \/ ClearConversationArchives
  \/ NextDay \/ InitConversationStore

ConvSpec == ConvInit /\ [][ConvNext]_convVars

-----------------------------------------------------------------------------
(* The queue through a flush: the records that are neither written nor counted as dropped are *)
(* exactly those of the batch in flight and of the queue, each once, in the order of their    *)
(* capture, whatever part of a batch was hung back (conversationFlushBatch).                  *)
QueueExact ==
  LET q == convWriter.batch \o pending IN
  /\ ToSet(q) = {r \in Records : fate[r] = "captured"}
  /\ \A i, j \in 1..Len(q) : i < j => q[i] < q[j]

(* A record that was written stays readable through compression, failures and crashes: it is  *)
(* in the plain file of its day or in a complete archive until the retention, the budget or a *)
(* clear deletes it (compactYesterday, compressGzipAtomic, cleanupConversations).             *)
WrittenIsReadable ==
  \A r \in Records : fate[r] = "written" =>
    \E d \in Days : r \in Content(d) \/ (d \in DOMAIN gz /\ gz[d] # Truncated /\ r \in gz[d])

(* What the retention promises, from the capture of a record to its deletion.                 *)
RetentionSound == QueueExact /\ WrittenIsReadable

=============================================================================
