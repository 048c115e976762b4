------------------------------- MODULE KeyTouch -------------------------------
(***************************************************************************)
(* The time of last use of API keys (op/apikey_lastused.go): a request     *)
(* marks its key as pending and then sends the key to a bounded channel    *)
(* outside the lock; one writer collects keys and updates them in batches. *)
(***************************************************************************)
EXTENDS Naturals, Sequences, SequencesExt, FiniteSets

CONSTANTS
  TouchKeys,      \* API keys
  Touchers,       \* requests
  TouchQueueSize, \* apiKeyTouchQueueSize, of the channel and of the set
  TouchBatchSize  \* apiKeyTouchBatchSize

VARIABLES
  touchPending,   \* apiKeyTouchPending
  touchCh,        \* apiKeyTouchCh
  touchBatch,     \* the writer's batch
  toucher,        \* per request: where its APIKeyTouchLastUsed stands, and its key
  touchWriter,    \* the writer's phase
  touchStopped,   \* apiKeyTouchStopped, and then apiKeyTouchStopCh closed
  marked          \* history: keys marked pending whose update has not been written since

touchVars == <<touchPending, touchCh, touchBatch, toucher, touchWriter, touchStopped, marked>>

TouchInit ==
  /\ touchPending = {} /\ touchCh = <<>> /\ touchBatch = <<>> /\ marked = {}
  /\ toucher = [t \in Touchers |-> [pc |-> "new", key |-> "none"]]
  /\ touchWriter = "run" /\ touchStopped = FALSE

\* Dropped when the writer is stopping, when the key is pending, or when the set is full.
TouchMark(t, k) ==
  /\ toucher[t].pc = "new"
  /\ IF touchStopped \/ k \in touchPending \/ Cardinality(touchPending) >= TouchQueueSize
     THEN /\ toucher' = [toucher EXCEPT ![t].pc = "done"]
          /\ UNCHANGED <<touchPending, marked>>
     ELSE /\ toucher' = [toucher EXCEPT ![t] = [pc |-> "send", key |-> k]]
          /\ touchPending' = touchPending \cup {k} /\ marked' = marked \cup {k}
  /\ UNCHANGED <<touchCh, touchBatch, touchWriter, touchStopped>>

\* A full channel takes the mark back.
TouchSend(t) ==
  /\ toucher[t].pc = "send"
  /\ IF Len(touchCh) < TouchQueueSize
     THEN touchCh' = Append(touchCh, toucher[t].key) /\ UNCHANGED <<touchPending, marked>>
     ELSE /\ touchPending' = touchPending \ {toucher[t].key}
          /\ marked' = marked \ {toucher[t].key} /\ UNCHANGED touchCh
  /\ toucher' = [toucher EXCEPT ![t].pc = "done"]
  /\ UNCHANGED <<touchBatch, touchWriter, touchStopped>>

TouchReceive ==
  /\ touchWriter \in {"run", "drain"} /\ touchCh # <<>>
  /\ Len(touchBatch) < TouchBatchSize
  /\ touchBatch' = Append(touchBatch, Head(touchCh)) /\ touchCh' = Tail(touchCh)
  /\ UNCHANGED <<touchPending, toucher, touchWriter, touchStopped, marked>>

\* apiKeyTouchFlushBatch: the marks are released before the UPDATE, so that a key used while
\* the update runs is marked and sent again.
touchRelease ==
  /\ touchWriter \in {"run", "drain"} /\ touchBatch # <<>>
  /\ touchPending' = touchPending \ ToSet(touchBatch)
  /\ touchWriter' = IF touchWriter = "run" THEN "update" ELSE "drainUpdate"
  /\ UNCHANGED <<touchCh, touchBatch, toucher, touchStopped, marked>>

apiKeyTouchFlushBatch ==
  /\ touchWriter \in {"update", "drainUpdate"}
  /\ marked' = marked \ (ToSet(touchBatch) \ touchPending)
  /\ touchBatch' = <<>>
  /\ touchWriter' = IF touchWriter = "update" THEN "run" ELSE "drain"
  /\ UNCHANGED <<touchPending, touchCh, toucher, touchStopped>>

\* The stop: the channel is drained, then the marks left are adopted, then the last update.
TouchDrain ==
  /\ touchWriter = "run" /\ touchStopped /\ Len(touchBatch) < TouchBatchSize
  /\ touchWriter' = "drain"
  /\ UNCHANGED <<touchPending, touchCh, touchBatch, toucher, touchStopped, marked>>

\* Fault: the writer ends with the channel drained and leaves the marks of suspended requests.
TouchEnds ==
  /\ touchWriter = "drain" /\ touchCh = <<>>
  /\ touchBatch' = <<>> /\ marked' = marked \ ToSet(touchBatch)
  /\ touchWriter' = "ended"
  /\ UNCHANGED <<touchCh, touchPending, toucher, touchStopped>>

TouchAdopt ==
  /\ touchWriter = "drain" /\ touchCh = <<>>
  /\ touchBatch' = <<>> /\ touchPending' = {}
  /\ marked' = marked \ (ToSet(touchBatch) \cup touchPending)
  /\ touchWriter' = "ended"
  /\ UNCHANGED <<touchCh, toucher, touchStopped>>

APIKeyTouchLastUsedFlush ==
  /\ ~touchStopped /\ touchStopped' = TRUE
  /\ UNCHANGED <<touchPending, touchCh, touchBatch, toucher, touchWriter, marked>>

TouchNext ==
  \/ \E t \in Touchers : TouchSend(t) \/ \E k \in TouchKeys : TouchMark(t, k)
  \/ TouchReceive \/ touchRelease \/ apiKeyTouchFlushBatch
  \/ TouchDrain \/ TouchAdopt \/ APIKeyTouchLastUsedFlush

TouchSpec == TouchInit /\ [][TouchNext]_touchVars

-----------------------------------------------------------------------------
(* No touch is stranded: a key whose use was accepted and not yet written is in the channel,   *)
(* in the batch, or about to be sent, and when the writer has ended none is left, although a   *)
(* request may be suspended between the mark and the send (APIKeyTouchLastUsed,                *)
(* apiKeyTouchWriter).                                                                         *)
NoStrandedTouch ==
  /\ marked \subseteq ToSet(touchCh) \cup ToSet(touchBatch)
                      \cup {toucher[t].key : t \in {x \in Touchers : toucher[x].pc = "send"}}
  /\ touchWriter = "ended" => marked = {}
=============================================================================
