----------------------------- MODULE RecordProofs -----------------------------
(***************************************************************************)
(* Proofs about what the process records while it runs and about how it    *)
(* goes down: the time of last use of API keys (KeyTouch), the counters of *)
(* client addresses (ClientStat), the retention of conversations           *)
(* (Conversation), the error log (ErrorLog), and the order of the shutdown *)
(* (Lifecycle).                                                            *)
(***************************************************************************)
EXTENDS KeyTouch, ClientStat, Conversation, Lifecycle, ErrorLog, FiniteSetTheorems, SequenceTheorems,
        FunctionTheorems, TLAPS

-----------------------------------------------------------------------------
(* Sequences as sets *)

\* Appending adds the element, and nothing else.
LEMMA AppendToSet ==
  ASSUME NEW S, NEW s \in Seq(S), NEW e \in S
  PROVE  Append(s, e) \in Seq(S) /\ ToSet(Append(s, e)) = ToSet(s) \cup {e}
<1>1. Append(s, e) \in Seq(S) /\ Len(Append(s, e)) = Len(s) + 1 /\ Len(s) \in Nat
  OBVIOUS
<1>2. \A i \in 1..(Len(s) + 1) : Append(s, e)[i] = IF i = Len(s) + 1 THEN e ELSE s[i]
  OBVIOUS
<1>3. DOMAIN s = 1..Len(s) /\ DOMAIN Append(s, e) = 1..(Len(s) + 1)
  OBVIOUS
<1> QED
  BY <1>1, <1>2, <1>3 DEF ToSet

\* Receiving moves the first element out of the channel.
LEMMA HeadAndTail ==
  ASSUME NEW S, NEW s \in Seq(S), s # <<>>
  PROVE  /\ Head(s) \in S /\ Tail(s) \in Seq(S)
         /\ ToSet(s) = {Head(s)} \cup ToSet(Tail(s))
<1>1. Len(s) \in Nat /\ Len(s) > 0 /\ DOMAIN s = 1..Len(s) /\ Head(s) = s[1]
  OBVIOUS
<1>2. Tail(s) \in Seq(S) /\ DOMAIN Tail(s) = 1..(Len(s) - 1) /\ \A i \in 1..(Len(s) - 1) : Tail(s)[i] = s[i + 1]
  OBVIOUS
<1>3. ASSUME NEW x \in ToSet(s) PROVE x \in {Head(s)} \cup ToSet(Tail(s))
  <2>1. PICK i \in 1..Len(s) : s[i] = x
    BY <1>1 DEF ToSet
  <2>2. CASE i = 1
    BY <2>1, <2>2, <1>1
  <2>3. CASE i # 1
    <3>1. i - 1 \in 1..(Len(s) - 1) /\ Tail(s)[i - 1] = x
      BY <2>1, <2>3, <1>1, <1>2
    <3> QED
      BY <3>1, <1>2 DEF ToSet
  <2> QED
    BY <2>2, <2>3
<1>4. ASSUME NEW x \in ToSet(Tail(s)) PROVE x \in ToSet(s)
  <2>1. PICK i \in 1..(Len(s) - 1) : Tail(s)[i] = x
    BY <1>2 DEF ToSet
  <2>2. i + 1 \in 1..Len(s) /\ s[i + 1] = x
    BY <1>1, <1>2, <2>1
  <2> QED
    BY <2>2, <1>1 DEF ToSet
<1>5. Head(s) \in S /\ Head(s) \in ToSet(s)
  BY <1>1 DEF ToSet
<1> QED
  BY <1>2, <1>3, <1>4, <1>5

LEMMA NothingToSet == ToSet(<<>>) = {}
  BY DEF ToSet

-----------------------------------------------------------------------------
(* The time of last use of API keys *)

TouchTypeOK ==
  /\ touchCh \in Seq(TouchKeys) /\ touchBatch \in Seq(TouchKeys)
  /\ toucher \in [Touchers -> [pc : {"new", "send", "done"}, key : TouchKeys \cup {"none"}]]
  /\ \A t \in Touchers : toucher[t].pc = "send" => toucher[t].key \in TouchKeys
  /\ touchWriter \in {"run", "update", "drain", "drainUpdate", "ended"}
  /\ touchStopped \in BOOLEAN

\* The keys of the requests between the mark and the send.
AboutToSend == {toucher[t].key : t \in {x \in Touchers : toucher[x].pc = "send"}}

\* While an update runs, the batch is no longer what keeps a mark: a key marked since then is
\* in the channel or about to be.
PendingPlaced ==
  touchPending \subseteq
    ToSet(touchCh) \cup AboutToSend \cup (IF touchWriter \in {"run", "drain"} THEN ToSet(touchBatch) ELSE {})

\* What is not written yet is either still marked or in the batch, so the last update, which
\* adopts every mark, misses none.
MarkedCovered == marked \subseteq touchPending \cup ToSet(touchBatch)

\* The writer drains and ends only after the stop, which turns new marks away.
StopFirst == touchWriter \in {"drain", "drainUpdate", "ended"} => touchStopped

TouchInv == TouchTypeOK /\ PendingPlaced /\ MarkedCovered /\ StopFirst /\ NoStrandedTouch

LEMMA TouchStarts == TouchInit => TouchInv
<1> SUFFICES ASSUME TouchInit PROVE TouchInv
  OBVIOUS
<1>1. TouchTypeOK
  <2>1. touchCh \in Seq(TouchKeys) /\ touchBatch \in Seq(TouchKeys)
    BY DEF TouchInit
  <2>2. /\ toucher \in [Touchers -> [pc : {"new", "send", "done"}, key : TouchKeys \cup {"none"}]]
        /\ \A t \in Touchers : toucher[t].pc = "new"
    BY DEF TouchInit
  <2> QED
    BY <2>1, <2>2 DEF TouchInit, TouchTypeOK
<1>2. touchPending = {} /\ marked = {} /\ touchWriter = "run"
  BY DEF TouchInit
<1> QED
  BY <1>1, <1>2 DEF TouchInv, PendingPlaced, MarkedCovered, StopFirst, NoStrandedTouch

\* A request leaves the set of those about to send, or enters it.
LEMMA ToucherMoves ==
  ASSUME TouchTypeOK, NEW t \in Touchers, NEW u \in [pc : {"send", "done"}, key : TouchKeys \cup {"none"}],
         u.pc = "send" => u.key \in TouchKeys,
         toucher' = [toucher EXCEPT ![t] = u]
  PROVE  /\ toucher' \in [Touchers -> [pc : {"new", "send", "done"}, key : TouchKeys \cup {"none"}]]
         /\ \A x \in Touchers : toucher'[x].pc = "send" => toucher'[x].key \in TouchKeys
         /\ AboutToSend \subseteq AboutToSend' \cup (IF toucher[t].pc = "send" THEN {toucher[t].key} ELSE {})
         /\ u.pc = "send" => u.key \in AboutToSend'
  BY DEF TouchTypeOK, AboutToSend

\* The requests: a mark is placed, sent, or taken back (APIKeyTouchLastUsed).
LEMMA ToucherKeeps ==
  ASSUME TouchInv, NEW t \in Touchers, TouchSend(t) \/ \E k \in TouchKeys : TouchMark(t, k)
  PROVE  TouchInv'
<1> USE DEF TouchInv
<1>0. toucher[t] \in [pc : {"new", "send", "done"}, key : TouchKeys \cup {"none"}]
  BY DEF TouchTypeOK
<1> DEFINE gone == [toucher[t] EXCEPT !.pc = "done"]
<1>1. gone \in [pc : {"send", "done"}, key : TouchKeys \cup {"none"}] /\ gone.pc = "done"
  BY <1>0
<1>2. CASE TouchSend(t)
  <2>1. /\ toucher[t].pc = "send" /\ toucher' = [toucher EXCEPT ![t] = gone]
        /\ UNCHANGED <<touchBatch, touchWriter, touchStopped>>
    BY <1>2 DEF TouchSend
  <2>2. toucher[t].key \in TouchKeys
    BY <2>1 DEF TouchTypeOK
  <2> HIDE DEF gone
  <2>3. /\ toucher' \in [Touchers -> [pc : {"new", "send", "done"}, key : TouchKeys \cup {"none"}]]
        /\ \A x \in Touchers : toucher'[x].pc = "send" => toucher'[x].key \in TouchKeys
        /\ AboutToSend \subseteq AboutToSend' \cup {toucher[t].key}
    BY <1>1, <2>1, ToucherMoves
  <2>4. CASE Len(touchCh) < TouchQueueSize
    <3>1. touchCh' = Append(touchCh, toucher[t].key) /\ UNCHANGED <<touchPending, marked>>
      BY <1>2, <2>4 DEF TouchSend
    <3>2. touchCh' \in Seq(TouchKeys) /\ ToSet(touchCh') = ToSet(touchCh) \cup {toucher[t].key}
      BY <2>2, <3>1, AppendToSet DEF TouchTypeOK
    <3>3. TouchTypeOK'
      BY <2>1, <2>3, <3>2 DEF TouchTypeOK
    <3> QED
      BY <2>1, <2>3, <3>1, <3>2, <3>3
         DEF PendingPlaced, MarkedCovered, StopFirst, NoStrandedTouch, AboutToSend
  <2>5. CASE ~(Len(touchCh) < TouchQueueSize)
    <3>1. /\ touchPending' = touchPending \ {toucher[t].key}
          /\ marked' = marked \ {toucher[t].key} /\ UNCHANGED touchCh
      BY <1>2, <2>5 DEF TouchSend
    <3>2. TouchTypeOK'
      BY <2>1, <2>3, <3>1 DEF TouchTypeOK
    <3> QED
      BY <2>1, <2>3, <3>1, <3>2
         DEF PendingPlaced, MarkedCovered, StopFirst, NoStrandedTouch, AboutToSend
  <2> QED
    BY <2>4, <2>5
<1>3. ASSUME NEW k \in TouchKeys, TouchMark(t, k)
      PROVE  TouchInv'
  <2>1. toucher[t].pc = "new" /\ UNCHANGED <<touchCh, touchBatch, touchWriter, touchStopped>>
    BY <1>3 DEF TouchMark
  <2>2. CASE touchStopped \/ k \in touchPending \/ Cardinality(touchPending) >= TouchQueueSize
    <3>1. toucher' = [toucher EXCEPT ![t] = gone] /\ UNCHANGED <<touchPending, marked>>
      BY <1>3, <2>2 DEF TouchMark
    <3> HIDE DEF gone
    <3>2. /\ toucher' \in [Touchers -> [pc : {"new", "send", "done"}, key : TouchKeys \cup {"none"}]]
          /\ \A x \in Touchers : toucher'[x].pc = "send" => toucher'[x].key \in TouchKeys
          /\ AboutToSend \subseteq AboutToSend'
      BY <1>1, <2>1, <3>1, ToucherMoves
    <3>3. TouchTypeOK'
      BY <2>1, <3>2 DEF TouchTypeOK
    <3> QED
      BY <2>1, <3>1, <3>2, <3>3
         DEF PendingPlaced, MarkedCovered, StopFirst, NoStrandedTouch, AboutToSend
  <2>3. CASE ~(touchStopped \/ k \in touchPending \/ Cardinality(touchPending) >= TouchQueueSize)
    <3> DEFINE u == [pc |-> "send", key |-> k]
    <3>1. /\ toucher' = [toucher EXCEPT ![t] = u]
          /\ touchPending' = touchPending \cup {k} /\ marked' = marked \cup {k}
      BY <1>3, <2>3 DEF TouchMark
    <3>2. u \in [pc : {"send", "done"}, key : TouchKeys \cup {"none"}] /\ u.pc = "send" /\ u.key = k
      OBVIOUS
    <3> HIDE DEF u
    <3>3. /\ toucher' \in [Touchers -> [pc : {"new", "send", "done"}, key : TouchKeys \cup {"none"}]]
          /\ \A x \in Touchers : toucher'[x].pc = "send" => toucher'[x].key \in TouchKeys
          /\ AboutToSend \subseteq AboutToSend' /\ k \in AboutToSend'
      BY <2>1, <3>1, <3>2, ToucherMoves
    <3>4. TouchTypeOK'
      BY <2>1, <3>3 DEF TouchTypeOK
    <3> QED
      BY <2>1, <2>3, <3>1, <3>3, <3>4
         DEF PendingPlaced, MarkedCovered, StopFirst, NoStrandedTouch, AboutToSend
  <2> QED
    BY <2>2, <2>3
<1> QED
  BY <1>2, <1>3

\* The writer: it receives, releases the marks before the update, and adopts them at the end
\* (apiKeyTouchWriter, apiKeyTouchFlushBatch).
LEMMA TouchWriterKeeps ==
  ASSUME TouchInv,
         TouchReceive \/ touchRelease \/ apiKeyTouchFlushBatch \/ TouchDrain \/ TouchAdopt \/ APIKeyTouchLastUsedFlush
  PROVE  TouchInv'
<1> USE DEF TouchInv, PendingPlaced, MarkedCovered, StopFirst, NoStrandedTouch, AboutToSend
<1>1. CASE TouchReceive
  <2>1. /\ touchCh # <<>> /\ touchBatch' = Append(touchBatch, Head(touchCh)) /\ touchCh' = Tail(touchCh)
        /\ touchWriter \in {"run", "drain"}
        /\ UNCHANGED <<touchPending, toucher, touchWriter, touchStopped, marked>>
    BY <1>1 DEF TouchReceive
  <2>2. /\ Head(touchCh) \in TouchKeys /\ touchCh' \in Seq(TouchKeys)
        /\ ToSet(touchCh) = {Head(touchCh)} \cup ToSet(touchCh')
    BY <2>1, HeadAndTail DEF TouchTypeOK
  <2>3. touchBatch' \in Seq(TouchKeys) /\ ToSet(touchBatch') = ToSet(touchBatch) \cup {Head(touchCh)}
    BY <2>1, <2>2, AppendToSet DEF TouchTypeOK
  <2>4. TouchTypeOK'
    BY <2>1, <2>2, <2>3 DEF TouchTypeOK
  <2> QED
    BY <2>1, <2>2, <2>3, <2>4
<1>2. CASE touchRelease
  <2>1. TouchTypeOK'
    BY <1>2 DEF touchRelease, TouchTypeOK
  <2> QED
    BY <1>2, <2>1 DEF touchRelease, TouchTypeOK
<1>3. CASE apiKeyTouchFlushBatch
  <2>1. TouchTypeOK'
    BY <1>3 DEF apiKeyTouchFlushBatch, TouchTypeOK
  <2>2. ToSet(touchBatch') = {}
    BY <1>3, NothingToSet DEF apiKeyTouchFlushBatch
  <2> QED
    BY <1>3, <2>1, <2>2 DEF apiKeyTouchFlushBatch
<1>4. CASE TouchDrain
  <2>1. TouchTypeOK'
    BY <1>4 DEF TouchDrain, TouchTypeOK
  <2> QED
    BY <1>4, <2>1 DEF TouchDrain
<1>5. CASE TouchAdopt
  <2>1. TouchTypeOK'
    BY <1>5 DEF TouchAdopt, TouchTypeOK
  <2>2. ToSet(touchBatch') = {} /\ ToSet(touchCh) = {}
    BY <1>5, NothingToSet DEF TouchAdopt
  <2> QED
    BY <1>5, <2>1, <2>2 DEF TouchAdopt
<1>6. CASE APIKeyTouchLastUsedFlush
  <2>1. TouchTypeOK'
    BY <1>6 DEF APIKeyTouchLastUsedFlush, TouchTypeOK
  <2> QED
    BY <1>6, <2>1 DEF APIKeyTouchLastUsedFlush
<1> QED
  BY <1>1, <1>2, <1>3, <1>4, <1>5, <1>6

(* No use of a key is lost once it was accepted, for any number of requests and keys and any   *)
(* sizes of the queue and the batch: it is in the channel, in the batch or about to be sent,   *)
(* and when the writer has ended none is left, although a request may stand between its mark   *)
(* and its send (APIKeyTouchLastUsed, apiKeyTouchWriter).                                      *)
THEOREM TouchesReachTheTable == TouchSpec => []NoStrandedTouch
<1>1. TouchInv /\ [TouchNext]_touchVars => TouchInv'
  <2> SUFFICES ASSUME TouchInv, [TouchNext]_touchVars PROVE TouchInv'
    OBVIOUS
  <2>1. CASE TouchNext
    BY <2>1, ToucherKeeps, TouchWriterKeeps DEF TouchNext
  <2>2. CASE UNCHANGED touchVars
    BY <2>2 DEF touchVars, TouchInv, TouchTypeOK, PendingPlaced, MarkedCovered, StopFirst, NoStrandedTouch, AboutToSend
  <2> QED
    BY <2>1, <2>2
<1>2. TouchInv => NoStrandedTouch
  BY DEF TouchInv
<1> QED
  BY <1>1, <1>2, TouchStarts, PTL DEF TouchSpec

-----------------------------------------------------------------------------
(* The counters of client addresses *)

(* One row per address, for any number of addresses and any size of the cache: no batch of     *)
(* the flush holds an address twice (TrackClientStat, ClientStatFlush, ClientStatLoad).        *)
THEOREM RowsStayApart == ClientSpec => []OneRowPerAddress
<1>1. ClientInit => OneRowPerAddress
  BY DEF ClientInit, OneRowPerAddress, NoClients
<1>2. OneRowPerAddress /\ [ClientNext]_clientVars => OneRowPerAddress'
  <2> SUFFICES ASSUME OneRowPerAddress, [ClientNext]_clientVars PROVE OneRowPerAddress'
    OBVIOUS
  <2>1. ASSUME NEW ip \in ClientIPs, TrackClientStat(ip)
        PROVE  OneRowPerAddress'
    <3>1. CASE ip \in DOMAIN clientCache
      BY <2>1, <3>1 DEF TrackClientStat, OneRowPerAddress
    <3>2. CASE ip \notin DOMAIN clientCache
      <4>1. PICK evicted : /\ clientCache' = Put(Drop(clientCache, evicted), ip, Row(ip))
                           /\ DOMAIN orphaned' = (DOMAIN orphaned \cup evicted) \ {ip}
        BY <2>1, <3>2 DEF TrackClientStat
      <4>2. DOMAIN clientCache' = (DOMAIN clientCache \ evicted) \cup {ip}
        BY <4>1 DEF Put, Drop
      <4>3. DOMAIN orphaned' = (DOMAIN orphaned \cup evicted) \ {ip}
        BY <4>1
      <4> QED
        BY <4>2, <4>3 DEF OneRowPerAddress
    <3> QED
      BY <3>1, <3>2
  <2>2. CASE ClientStatFlush
    <3>1. clientCache' = clientCache /\ DOMAIN orphaned' \subseteq DOMAIN orphaned
      BY <2>2 DEF ClientStatFlush, Drop
    <3> QED
      BY <3>1 DEF OneRowPerAddress
  <2>3. CASE ClientStatLoad
    <3>1. orphaned' = orphaned /\ DOMAIN clientCache' \cap DOMAIN orphaned \subseteq DOMAIN clientCache
      BY <2>3 DEF ClientStatLoad
    <3> QED
      BY <3>1 DEF OneRowPerAddress
  <2>4. CASE UNCHANGED <<clientCache, orphaned>>
    BY <2>4 DEF OneRowPerAddress
  <2> QED
    BY <2>1, <2>2, <2>3, <2>4 DEF ClientNext, FlushSnapshot, ClientStatRetention, clientVars
<1> QED
  BY <1>1, <1>2, PTL DEF ClientSpec

-----------------------------------------------------------------------------
(* The life of the process *)

Entries == [pump : {"off", "fire", "loop", "ended"}, stop : BOOLEAN,
            waiting : Nat, busy : BOOLEAN, updates : Nat]

LifeTypeOK ==
  /\ stage \in {"up", "hooks", "outstanding", "final", "down"} /\ at \in 1..8
  /\ hook \in [Hooks -> {"idle", "run", "done"}]
  /\ entry \in [Tasks -> Entries]
  /\ barrier \in BOOLEAN /\ ingress \in {"open", "cancelled", "closed"} /\ serving \subseteq Handlers
  /\ worker \in {"on", "told", "off"} /\ dbOpen \in BOOLEAN /\ memory \subseteq Writers
  /\ held \in BOOLEAN /\ smooth \in BOOLEAN

\* The sequence is at one hook: the later ones have not started, and in a smooth shutdown the
\* earlier ones are done.
SequenceSound ==
  /\ stage = "up" => at = 1 /\ hook[HookOrder[1]] = "idle"
  /\ stage \in {"outstanding", "final", "down"} => at = 8
  /\ \A i \in 1..7 : /\ i > at => hook[HookOrder[i]] = "idle"
                     /\ smooth /\ i < at => hook[HookOrder[i]] = "done"

\* The database is closed in the last stage, which no hook that runs on has entered with.
FinalAlone == (stage = "final" => HooksOver) /\ (~dbOpen => stage \in {"final", "down"} /\ HooksOver)

\* Who is stopped stays stopped: the barrier is up before any stop, a stopped set of tasks is
\* quiet, and the statistics are held by an execution that runs.
StoppedStays ==
  /\ (\E t \in Tasks : entry[t].stop) => barrier
  /\ hook["tasks"] = "done" => barrier /\ TasksQuiet
  /\ hook["eval"] = "done" => worker = "off"
  /\ held => entry[StatTask].busy

\* In a smooth shutdown the handlers are gone when the server's hook is done, and a writer
\* whose flush is done holds nothing.
FlushedStays ==
  smooth => /\ hook["server"] = "done" => serving = {} /\ ingress = "closed"
            /\ \A w \in Writers : hook[w] = "done" => w \notin memory

LifeInv == LifeTypeOK /\ SequenceSound /\ FinalAlone /\ StoppedStays /\ FlushedStays

\* The order of the hooks, spelled out: the ingress goes first, the writers last.
LEMMA HookPlaces ==
  /\ Len(HookOrder) = 7 /\ Hooks = {"server", "eval", "tasks", "touch", "conv", "stat", "log"}
  /\ HookOrder[1] = "server" /\ HookOrder[2] = "eval" /\ HookOrder[3] = "tasks"
  /\ HookOrder[4] = "touch" /\ HookOrder[5] = "conv" /\ HookOrder[6] = "stat" /\ HookOrder[7] = "log"
<1>1. /\ Len(Registered) = 7 /\ DOMAIN Registered = 1..7
      /\ Registered[1] = "log" /\ Registered[2] = "stat" /\ Registered[3] = "conv" /\ Registered[4] = "touch"
      /\ Registered[5] = "tasks" /\ Registered[6] = "eval" /\ Registered[7] = "server"
  BY DEF Registered
<1>2. HookOrder = [i \in 1..7 |-> Registered[7 - i + 1]]
  BY <1>1 DEF HookOrder, Reverse
<1>3. Len(HookOrder) = 7
  BY <1>2
<1>4. Hooks = {"server", "eval", "tasks", "touch", "conv", "stat", "log"}
  <2>1. Hooks = {Registered[i] : i \in 1..7}
    BY <1>1 DEF Hooks, Range
  <2> QED
    BY <1>1, <2>1
<1> QED
  BY <1>1, <1>2, <1>3, <1>4

\* In a smooth shutdown a writer is flushed when the ingress and the tasks are down.
LEMMA WritersLast ==
  ASSUME LifeTypeOK, SequenceSound, smooth, NEW w \in Writers, hook[w] # "idle"
  PROVE  hook["server"] = "done" /\ hook["tasks"] = "done"
<1>1. PICK i \in 4..7 : w = HookOrder[i]
  BY HookPlaces DEF Writers
<1>2. ~(i > at) /\ at \in 1..8
  BY <1>1 DEF SequenceSound, LifeTypeOK
<1>3. 1 < at /\ 3 < at
  BY <1>2
<1> QED
  BY <1>3, HookPlaces DEF SequenceSound

LEMMA LifeStarts == LifeInit => LifeInv
<1> SUFFICES ASSUME LifeInit PROVE LifeInv
  OBVIOUS
<1>1. LifeTypeOK
  <2>1. NewEntry \in Entries
    BY DEF NewEntry, Entries
  <2>2. entry \in [Tasks -> Entries]
    BY <2>1 DEF LifeInit
  <2>3. hook \in [Hooks -> {"idle", "run", "done"}]
    BY DEF LifeInit
  <2>4. at \in 1..8
    BY DEF LifeInit
  <2>5. barrier \in BOOLEAN /\ dbOpen \in BOOLEAN /\ held \in BOOLEAN /\ smooth \in BOOLEAN
    BY Zenon DEF LifeInit
  <2>6. serving \subseteq Handlers /\ memory \subseteq Writers
    BY DEF LifeInit
  <2>7. /\ stage \in {"up", "hooks", "outstanding", "final", "down"}
        /\ ingress \in {"open", "cancelled", "closed"} /\ worker \in {"on", "told", "off"}
    BY DEF LifeInit
  <2> QED
    BY <2>2, <2>3, <2>4, <2>5, <2>6, <2>7, Zenon DEF LifeTypeOK
<1>2. \A h \in Hooks : hook[h] = "idle"
  BY DEF LifeInit
<1>3. \A i \in 1..7 : HookOrder[i] \in Hooks
  BY HookPlaces
<1>4. /\ at = 1 /\ stage = "up" /\ dbOpen /\ ~held /\ \A t \in Tasks : ~entry[t].stop
  BY DEF LifeInit, NewEntry
<1>5. SequenceSound
  BY <1>2, <1>3, <1>4 DEF SequenceSound
<1> QED
  BY <1>1, <1>2, <1>4, <1>5, HookPlaces DEF LifeInv, FinalAlone, StoppedStays, FlushedStays, Writers

\* What the tasks may do to their entries, to the statistics held and to the memory.
TasksMove ==
  /\ entry' \in [Tasks -> Entries] /\ held' \in BOOLEAN /\ memory' \subseteq Writers
  /\ \A t \in Tasks : entry'[t].stop = entry[t].stop
  /\ \A t \in Tasks : barrier /\ entry[t].waiting = 0 /\ ~entry[t].busy => entry'[t].waiting = 0 /\ ~entry'[t].busy
  /\ held' => entry'[StatTask].busy
  /\ memory' \subseteq memory \cup (IF held THEN {"stat"} ELSE {})
  /\ UNCHANGED <<stage, at, hook, smooth, barrier, ingress, serving, worker, dbOpen>>

\* An execution starts before the barrier or not at all, and what one holds comes back while
\* it runs (goGuardedCall, guardedCall).
LEMMA TaskSteps ==
  ASSUME LifeInv,
         RUN \/ \E t \in Tasks : Tick(t) \/ goGuardedCall(t) \/ guardedCall(t) \/ TaskReturns(t)
                                 \/ Update(t) \/ runTask(t)
  PROVE  TasksMove
<1> USE DEF LifeInv
<1>1. UNCHANGED <<stage, at, hook, smooth, barrier, ingress, serving, worker, dbOpen>>
  BY DEF RUN, Tick, goGuardedCall, guardedCall, TaskReturns, Update, runTask, sequenceVars
<1>2. /\ entry \in [Tasks -> Entries] /\ held \in BOOLEAN /\ memory \subseteq Writers
      /\ held => entry[StatTask].busy
  BY DEF LifeTypeOK, Entries, StoppedStays
<1>3. ASSUME UNCHANGED <<held, memory>>, entry' \in [Tasks -> Entries],
             \A t \in Tasks : /\ entry'[t].stop = entry[t].stop
                              /\ entry'[t].busy = entry[t].busy
                              /\ barrier /\ entry[t].waiting = 0 => entry'[t].waiting = 0
      PROVE  TasksMove
  BY <1>1, <1>2, <1>3, LifeAssumption DEF TasksMove
<1>4. CASE RUN
  <2>1. UNCHANGED <<held, memory>> /\ entry' = [t \in Tasks |-> [entry[t] EXCEPT !.pump = "fire"]]
    BY <1>4 DEF RUN
  <2>2. entry' \in [Tasks -> Entries]
    BY <1>2, <2>1 DEF Entries
  <2>3. \A t \in Tasks : entry'[t].stop = entry[t].stop /\ entry'[t].busy = entry[t].busy /\ entry'[t].waiting = entry[t].waiting
    BY <1>2, <2>1 DEF Entries
  <2> QED
    BY <1>3, <2>1, <2>2, <2>3
\* An entry of which neither the stop nor the busy mark changes.
<1>5. ASSUME NEW t \in Tasks, NEW e \in Entries, entry' = [entry EXCEPT ![t] = e], UNCHANGED <<held, memory>>,
             e.stop = entry[t].stop, e.busy = entry[t].busy, barrier /\ entry[t].waiting = 0 => e.waiting = 0
      PROVE  TasksMove
  BY <1>2, <1>3, <1>5
<1>6. ASSUME NEW t \in Tasks, Tick(t) \/ goGuardedCall(t) \/ Update(t) \/ runTask(t)
      PROVE  TasksMove
  <2> DEFINE old == entry[t]
  <2>1. old \in Entries
    BY <1>2
  <2>2. CASE Tick(t)
    <3>1. [old EXCEPT !.pump = "fire"] \in Entries
      BY <2>1 DEF Entries
    <3> QED
      BY <1>5, <2>1, <2>2, <3>1 DEF Tick, Entries
  <2>3. CASE goGuardedCall(t)
    <3>0. \A e \in Entries : [e EXCEPT !.waiting = @ + 1] \in Entries
      BY DEF Entries
    <3>1. [old EXCEPT !.pump = "loop"] \in Entries /\ [[old EXCEPT !.pump = "loop"] EXCEPT !.waiting = @ + 1] \in Entries
      <4>1. [old EXCEPT !.pump = "loop"] \in Entries
        BY <2>1 DEF Entries
      <4> QED
        BY <3>0, <4>1
    <3>2. CASE ~barrier /\ entry' = [entry EXCEPT ![t] = [[old EXCEPT !.pump = "loop"] EXCEPT !.waiting = @ + 1]]
      BY <1>5, <2>1, <2>3, <3>1, <3>2 DEF goGuardedCall, Entries
    <3>3. CASE entry' = [entry EXCEPT ![t] = [old EXCEPT !.pump = "loop"]]
      BY <1>5, <2>1, <2>3, <3>1, <3>3 DEF goGuardedCall, Entries
    <3>4. [entry EXCEPT ![t].pump = "loop", ![t].waiting = @ + 1]
            = [entry EXCEPT ![t] = [[old EXCEPT !.pump = "loop"] EXCEPT !.waiting = @ + 1]]
      BY <1>2 DEF Entries
    <3> QED
      BY <2>3, <3>2, <3>3, <3>4 DEF goGuardedCall, Admits
  <2>4. CASE Update(t)
    <3> DEFINE n == IF old.updates < UpdateBuffer THEN old.updates + 1 ELSE old.updates
    <3>1. n \in Nat /\ entry' = [entry EXCEPT ![t] = [old EXCEPT !.updates = n]]
      BY <1>2, <2>1, <2>4 DEF Update, Entries
    <3> HIDE DEF n
    <3>2. [old EXCEPT !.updates = n] \in Entries
      BY <2>1, <3>1 DEF Entries
    <3> QED
      BY <1>5, <2>1, <2>4, <3>1, <3>2 DEF Update, Entries
  <2>5. CASE runTask(t)
    <3>1. CASE entry[t].updates > 0 /\ entry' = [entry EXCEPT ![t].updates = @ - 1]
      <4>1. [old EXCEPT !.updates = @ - 1] \in Entries
        BY <2>1, <3>1 DEF Entries
      <4> QED
        BY <1>5, <2>1, <2>5, <3>1, <4>1 DEF runTask, Entries
    <3>2. CASE entry' = [entry EXCEPT ![t].pump = "ended"]
      <4>1. [old EXCEPT !.pump = "ended"] \in Entries
        BY <2>1, <3>2 DEF Entries
      <4> QED
        BY <1>5, <2>1, <2>5, <3>2, <4>1 DEF runTask, Entries
    <3> QED
      BY <2>5, <3>1, <3>2 DEF runTask
  <2> QED
    BY <1>6, <2>2, <2>3, <2>4, <2>5
<1>7. ASSUME NEW t \in Tasks, guardedCall(t)
      PROVE  TasksMove
  <2> DEFINE e == [[entry[t] EXCEPT !.waiting = @ - 1] EXCEPT !.busy = TRUE]
  <2>1. /\ entry[t].waiting > 0 /\ entry' = [entry EXCEPT ![t].waiting = @ - 1, ![t].busy = TRUE]
        /\ held' = (held \/ (t = StatTask /\ ~entry[t].busy /\ "stat" \in memory))
        /\ memory' = IF t = StatTask /\ ~entry[t].busy THEN memory \ {"stat"} ELSE memory
    BY <1>7 DEF guardedCall
  <2>2. entry' = [entry EXCEPT ![t] = e]
    BY <1>2, <2>1 DEF Entries
  <2>3. e \in Entries /\ e.busy /\ e.stop = entry[t].stop /\ entry[t].waiting \in Nat
    <3>1. entry[t] \in Entries /\ entry[t].waiting - 1 \in Nat
      BY <1>2, <2>1 DEF Entries
    <3>2. [entry[t] EXCEPT !.waiting = @ - 1] \in Entries
      BY <3>1 DEF Entries
    <3>3. \A x \in Entries : [x EXCEPT !.busy = TRUE] \in Entries
      BY DEF Entries
    <3> QED
      BY <3>1, <3>2, <3>3 DEF Entries
  <2> HIDE DEF e
  <2>4. /\ entry' \in [Tasks -> Entries] /\ \A u \in Tasks : entry'[u] = IF u = t THEN e ELSE entry[u]
    BY <1>2, <2>2, <2>3
  <2>5. held' => entry'[StatTask].busy
    BY <1>2, <2>1, <2>3, <2>4, LifeAssumption
  <2>6. held' \in BOOLEAN
    BY <1>2, <2>1
  <2>7. memory' \subseteq memory
    BY <2>1
  <2> QED
    BY <1>1, <1>2, <2>1, <2>3, <2>4, <2>5, <2>6, <2>7 DEF TasksMove
<1>8. ASSUME NEW t \in Tasks, TaskReturns(t)
      PROVE  TasksMove
  <2> DEFINE e == [entry[t] EXCEPT !.busy = FALSE]
  <2>1. /\ entry[t].busy /\ entry' = [entry EXCEPT ![t] = e]
        /\ IF t = StatTask /\ held
           THEN held' = FALSE /\ memory' \in {memory, memory \cup {"stat"}}
           ELSE UNCHANGED <<held, memory>>
    BY <1>8 DEF TaskReturns
  <2>2. e \in Entries /\ ~e.busy /\ e.stop = entry[t].stop
    BY <1>2, <2>1 DEF Entries
  <2> HIDE DEF e
  <2>3. /\ entry' \in [Tasks -> Entries] /\ \A u \in Tasks : entry'[u] = IF u = t THEN e ELSE entry[u]
    BY <1>2, <2>1, <2>2
  <2>4. held' => entry'[StatTask].busy
    BY <1>2, <2>1, <2>3, LifeAssumption
  <2>5. held' \in BOOLEAN /\ memory' \subseteq Writers /\ memory' \subseteq memory \cup (IF held THEN {"stat"} ELSE {})
    BY <1>2, <2>1 DEF Writers
  <2> QED
    BY <1>1, <1>2, <2>1, <2>2, <2>3, <2>4, <2>5 DEF TasksMove
<1> QED
  BY <1>4, <1>6, <1>7, <1>8

\* The tasks keep the invariant: a quiet set stays quiet, and nothing is put back behind the
\* flush of the statistics.
LEMMA TaskKeeps ==
  ASSUME LifeInv, TasksMove
  PROVE  LifeInv'
<1> USE DEF LifeInv, TasksMove
<1>1. LifeTypeOK'
  BY DEF LifeTypeOK, Entries
<1>2. SequenceSound'
  BY DEF SequenceSound
<1>3. FinalAlone'
  BY DEF FinalAlone, HooksOver
<1>4. StoppedStays'
  <2>1. (\E t \in Tasks : entry'[t].stop) => barrier
    BY DEF StoppedStays
  <2>2. hook["tasks"] = "done" => barrier /\ TasksQuiet'
    BY DEF StoppedStays, TasksQuiet
  <2> QED
    BY <2>1, <2>2 DEF StoppedStays
<1>5. FlushedStays'
  <2> SUFFICES ASSUME smooth, NEW w \in Writers, hook[w] = "done"
               PROVE  w \notin memory'
    BY DEF FlushedStays
  <2>1. hook["tasks"] = "done"
    BY WritersLast
  <2>2. ~held
    BY <2>1, LifeAssumption DEF StoppedStays, TasksQuiet
  <2> QED
    BY <2>2 DEF FlushedStays
<1> QED
  BY <1>1, <1>2, <1>3, <1>4, <1>5

\* Requests and evaluation workers: nobody leaves anything once the server's hook is done in a
\* smooth shutdown.
LEMMA ServingKeeps ==
  ASSUME LifeInv,
         \/ WorkersEnd
         \/ \E h \in Handlers : Accept(h) \/ HandlerReturns(h) \/ \E w \in Leaving : Record(h, w)
  PROVE  LifeInv'
<1> USE DEF LifeInv
<1>1. UNCHANGED <<stage, at, hook, smooth, entry, barrier, ingress, dbOpen, held>>
  BY DEF WorkersEnd, Accept, HandlerReturns, Record, sequenceVars
<1>2. /\ worker' \in {"on", "told", "off"} /\ serving' \subseteq Handlers /\ memory' \subseteq Writers
      /\ worker = "off" => worker' = "off"
      /\ serving = {} /\ ingress = "closed" => serving' = {} /\ memory' = memory
  <2>1. CASE WorkersEnd
    BY <2>1 DEF WorkersEnd, LifeTypeOK
  <2>2. CASE \E h \in Handlers : Accept(h) \/ HandlerReturns(h) \/ \E w \in Leaving : Record(h, w)
    BY <2>2, LifeAssumption DEF Accept, HandlerReturns, Record, LifeTypeOK, Writers
  <2> QED
    BY <2>1, <2>2
<1>3. LifeTypeOK'
  BY <1>1, <1>2 DEF LifeTypeOK
<1>4. SequenceSound' /\ FinalAlone' /\ StoppedStays'
  BY <1>1, <1>2 DEF SequenceSound, FinalAlone, HooksOver, StoppedStays, TasksQuiet
<1>5. FlushedStays'
  <2>1. ASSUME smooth, NEW w \in Writers, hook[w] = "done"
        PROVE  w \notin memory'
    <3>1. hook["server"] = "done"
      BY <2>1, WritersLast
    <3> QED
      BY <1>2, <2>1, <3>1 DEF FlushedStays
  <2> QED
    BY <1>1, <1>2, <2>1 DEF FlushedStays
<1> QED
  BY <1>3, <1>4, <1>5

\* The sequence of the shutdown: a hook is left behind when it is done, or with the shutdown no
\* longer smooth, and the finalizers wait for all of them (runShutdownHooks).
LEMMA SequenceKeeps ==
  ASSUME LifeInv,
         Signal \/ StartHook \/ LeaveHook \/ AllHooksRun \/ waitOutstandingHooks \/ Finalize
  PROVE  LifeInv'
<1> USE DEF LifeInv
<1>0. /\ Len(HookOrder) = 7 /\ \A i \in 1..7 : HookOrder[i] \in Hooks
      /\ at \in 1..8 /\ hook \in [Hooks -> {"idle", "run", "done"}]
  BY HookPlaces DEF LifeTypeOK
<1>1. UNCHANGED <<entry, barrier, ingress, serving, worker, memory, held>>
  BY DEF Signal, StartHook, LeaveHook, AllHooksRun, waitOutstandingHooks, Finalize, workVars
<1>2. CASE Signal
  <2>1. /\ stage = "up" /\ stage' = "hooks" /\ UNCHANGED <<at, hook, smooth, dbOpen>>
    BY <1>2 DEF Signal
  <2>2. LifeTypeOK'
    BY <1>1, <2>1 DEF LifeTypeOK
  <2>3. StoppedStays' /\ FlushedStays'
    BY <1>1, <2>1 DEF StoppedStays, TasksQuiet, FlushedStays
  <2>4. SequenceSound' /\ FinalAlone'
    BY <2>1 DEF SequenceSound, FinalAlone, HooksOver
  <2> QED
    BY <2>2, <2>3, <2>4
<1>3. CASE StartHook
  <2> DEFINE h == HookOrder[at]
  <2>1. /\ stage = "hooks" /\ at \in 1..7 /\ h \in Hooks /\ hook[h] = "idle"
        /\ hook' = [hook EXCEPT ![h] = "run"] /\ UNCHANGED <<stage, at, smooth, dbOpen>>
    BY <1>0, <1>3 DEF StartHook
  <2>2. LifeTypeOK'
    BY <1>1, <2>1 DEF LifeTypeOK
  <2>3. \A g \in Hooks : hook'[g] = IF g = h THEN "run" ELSE hook[g]
    BY <1>0, <2>1
  <2>4. StoppedStays' /\ FlushedStays'
    BY <1>1, <2>1, <2>3, HookPlaces DEF StoppedStays, TasksQuiet, FlushedStays, Writers
  <2>5. SequenceSound'
    <3>1. \A i \in 1..7 : i # at => HookOrder[i] # HookOrder[at]
      BY <2>1, HookPlaces
    <3> QED
      BY <1>0, <2>1, <2>3, <3>1 DEF SequenceSound
  <2>6. FinalAlone'
    BY <2>1, <2>3 DEF FinalAlone, HooksOver
  <2> QED
    BY <2>2, <2>4, <2>5, <2>6
<1>4. CASE LeaveHook
  <2>1. /\ stage = "hooks" /\ at \in 1..7 /\ at' = at + 1
        /\ smooth' = (smooth /\ hook[HookOrder[at]] = "done") /\ UNCHANGED <<stage, hook, dbOpen>>
    BY <1>0, <1>4 DEF LeaveHook
  <2>2. at' \in 1..8 /\ smooth' \in BOOLEAN /\ (smooth' => smooth /\ hook[HookOrder[at]] = "done")
    <3>1. at' \in 1..8
      BY <2>1
    <3>2. smooth' \in BOOLEAN /\ (smooth' => smooth /\ hook[HookOrder[at]] = "done")
      BY <2>1, Zenon
    <3> QED
      BY <3>1, <3>2
  <2>3. LifeTypeOK'
    BY <1>1, <2>1, <2>2 DEF LifeTypeOK
  <2>4. StoppedStays' /\ FlushedStays'
    BY <1>1, <2>1, <2>2 DEF StoppedStays, TasksQuiet, FlushedStays
  <2>5. SequenceSound'
    BY <1>0, <2>1, <2>2 DEF SequenceSound
  <2>6. FinalAlone'
    BY <2>1 DEF FinalAlone, HooksOver
  <2> QED
    BY <2>3, <2>4, <2>5, <2>6
<1>5. CASE AllHooksRun
  <2>1. /\ stage = "hooks" /\ at = 8 /\ stage' = "outstanding" /\ UNCHANGED <<at, hook, smooth, dbOpen>>
    BY <1>0, <1>5 DEF AllHooksRun
  <2>2. LifeTypeOK'
    BY <1>1, <2>1 DEF LifeTypeOK
  <2>3. StoppedStays' /\ FlushedStays'
    BY <1>1, <2>1 DEF StoppedStays, TasksQuiet, FlushedStays
  <2>4. SequenceSound' /\ FinalAlone'
    BY <2>1 DEF SequenceSound, FinalAlone, HooksOver
  <2> QED
    BY <2>2, <2>3, <2>4
<1>6. CASE waitOutstandingHooks
  <2>1. /\ stage = "outstanding" /\ stage' \in {"final", "down"} /\ (stage' = "final" => HooksOver)
        /\ UNCHANGED <<at, hook, smooth, dbOpen>>
    BY <1>6 DEF waitOutstandingHooks
  <2>2. LifeTypeOK'
    BY <1>1, <2>1 DEF LifeTypeOK
  <2>3. StoppedStays' /\ FlushedStays'
    BY <1>1, <2>1 DEF StoppedStays, TasksQuiet, FlushedStays
  <2>4. SequenceSound' /\ FinalAlone'
    BY <2>1 DEF SequenceSound, FinalAlone, HooksOver
  <2> QED
    BY <2>2, <2>3, <2>4
<1>7. CASE Finalize
  <2>1. /\ stage = "final" /\ stage' \in {"final", "down"} /\ dbOpen' \in BOOLEAN
        /\ UNCHANGED <<at, hook, smooth>>
    BY <1>7 DEF Finalize, LifeTypeOK
  <2>2. LifeTypeOK'
    BY <1>1, <2>1 DEF LifeTypeOK
  <2>3. StoppedStays' /\ FlushedStays'
    BY <1>1, <2>1 DEF StoppedStays, TasksQuiet, FlushedStays
  <2>4. SequenceSound' /\ FinalAlone'
    BY <2>1 DEF SequenceSound, FinalAlone, HooksOver
  <2> QED
    BY <2>2, <2>3, <2>4
<1> QED
  BY <1>2, <1>3, <1>4, <1>5, <1>6, <1>7

\* The end of a hook's body: the sequence does not notice.
LEMMA HookEnds ==
  ASSUME LifeInv, NEW h \in Hooks, hook[h] = "run", Becomes(h, "done"),
         UNCHANGED <<stage, at, dbOpen>>, smooth' \in BOOLEAN, smooth' => smooth
  PROVE  /\ hook' \in [Hooks -> {"idle", "run", "done"}]
         /\ \A g \in Hooks : hook'[g] = IF g = h THEN "done" ELSE hook[g]
         /\ SequenceSound' /\ FinalAlone'
<1> USE DEF LifeInv
<1>1. /\ hook' \in [Hooks -> {"idle", "run", "done"}]
      /\ \A g \in Hooks : hook'[g] = IF g = h THEN "done" ELSE hook[g]
  BY DEF LifeTypeOK, Becomes
<1>2. /\ \A i \in 1..7 : HookOrder[i] \in Hooks /\ (hook[HookOrder[i]] = "idle" => hook'[HookOrder[i]] = "idle")
      /\ \A i \in 1..7 : hook[HookOrder[i]] = "done" => hook'[HookOrder[i]] = "done"
  BY <1>1, HookPlaces
<1>3. SequenceSound'
  <2>1. at \in 1..8 /\ 1 \in 1..7
    BY DEF LifeTypeOK
  <2> QED
    BY <1>2, <2>1 DEF SequenceSound
<1>4. FinalAlone'
  BY <1>1 DEF FinalAlone, HooksOver
<1> QED
  BY <1>1, <1>3, <1>4

\* The bodies of the hooks (CancelInFlight and Shutdown, Scheduler.Stop, StopAll, the flushes).
LEMMA HookKeeps ==
  ASSUME LifeInv, ServerHook \/ EvalHook \/ StopAll \/ \E w \in Writers : FlushHook(w)
  PROVE  LifeInv'
<1> USE DEF LifeInv
<1>0. {"server", "eval", "tasks"} \subseteq Hooks /\ Writers \subseteq Hooks
      /\ \A w \in Writers : w # "server" /\ w # "eval" /\ w # "tasks"
  BY HookPlaces DEF Writers
<1>1. CASE ServerHook
  <2>1. /\ hook["server"] = "run" /\ ingress' \in {"open", "cancelled", "closed"}
        /\ UNCHANGED <<stage, at, entry, barrier, serving, worker, dbOpen, memory, held>>
    BY <1>1 DEF ServerHook, LifeTypeOK
  <2>2. CASE UNCHANGED <<hook, smooth>>
    <3>1. LifeTypeOK'
      BY <2>1, <2>2 DEF LifeTypeOK
    <3> QED
      BY <2>1, <2>2, <3>1 DEF SequenceSound, FinalAlone, HooksOver, StoppedStays, TasksQuiet, FlushedStays
  <2>3. CASE /\ ingress = "closed" /\ Becomes("server", "done") /\ UNCHANGED ingress
             /\ smooth' = (smooth /\ serving = {})
    <3>1. smooth' \in BOOLEAN /\ (smooth' => smooth /\ serving = {})
      BY <2>3
    <3>2. /\ hook' \in [Hooks -> {"idle", "run", "done"}]
          /\ \A g \in Hooks : hook'[g] = IF g = "server" THEN "done" ELSE hook[g]
          /\ SequenceSound' /\ FinalAlone'
      BY <1>0, <2>1, <2>3, <3>1, HookEnds
    <3>3. LifeTypeOK'
      BY <2>1, <3>1, <3>2 DEF LifeTypeOK
    <3> QED
      BY <1>0, <2>1, <2>3, <3>1, <3>2, <3>3 DEF StoppedStays, TasksQuiet, FlushedStays
  <2> QED
    BY <1>1, <2>2, <2>3 DEF ServerHook
<1>2. CASE EvalHook
  <2>1. /\ hook["eval"] = "run"
        /\ UNCHANGED <<stage, at, smooth, entry, barrier, ingress, serving, dbOpen, memory, held>>
    BY <1>2 DEF EvalHook
  <2>2. CASE worker = "on" /\ worker' = "told" /\ UNCHANGED hook
    <3>1. LifeTypeOK'
      BY <2>1, <2>2 DEF LifeTypeOK
    <3> QED
      BY <2>1, <2>2, <3>1 DEF SequenceSound, FinalAlone, HooksOver, StoppedStays, TasksQuiet, FlushedStays
  <2>3. CASE worker = "off" /\ Becomes("eval", "done") /\ UNCHANGED worker
    <3>1. smooth' \in BOOLEAN /\ smooth' = smooth
      BY <2>1 DEF LifeTypeOK
    <3>2. /\ hook' \in [Hooks -> {"idle", "run", "done"}]
          /\ \A g \in Hooks : hook'[g] = IF g = "eval" THEN "done" ELSE hook[g]
          /\ SequenceSound' /\ FinalAlone'
      BY <1>0, <2>1, <2>3, <3>1, HookEnds
    <3>3. LifeTypeOK'
      BY <2>1, <2>3, <3>2 DEF LifeTypeOK
    <3> QED
      BY <1>0, <2>1, <2>3, <3>2, <3>3 DEF StoppedStays, TasksQuiet, FlushedStays
  <2> QED
    BY <1>2, <2>2, <2>3 DEF EvalHook
<1>3. CASE StopAll
  <2>1. /\ hook["tasks"] = "run"
        /\ UNCHANGED <<stage, at, smooth, ingress, serving, worker, dbOpen, memory, held>>
    BY <1>3 DEF StopAll
  <2>2. CASE ~barrier /\ barrier' = TRUE /\ UNCHANGED <<hook, entry>>
    <3>1. LifeTypeOK'
      BY <2>1, <2>2 DEF LifeTypeOK
    <3> QED
      BY <2>1, <2>2, <3>1 DEF SequenceSound, FinalAlone, HooksOver, StoppedStays, TasksQuiet, FlushedStays
  <2>3. CASE barrier /\ entry' = [t \in Tasks |-> [entry[t] EXCEPT !.stop = TRUE]] /\ UNCHANGED <<hook, barrier>>
    <3>1. /\ entry' \in [Tasks -> Entries]
          /\ \A t \in Tasks : entry'[t].busy = entry[t].busy
      BY <2>3 DEF LifeTypeOK, Entries
    <3>2. LifeTypeOK'
      BY <2>1, <2>3, <3>1 DEF LifeTypeOK
    <3>3. SequenceSound' /\ FinalAlone' /\ FlushedStays'
      BY <2>1, <2>3 DEF SequenceSound, FinalAlone, HooksOver, FlushedStays
    <3> QED
      BY <2>1, <2>3, <3>1, <3>2, <3>3, LifeAssumption DEF StoppedStays
  <2>4. CASE (\A t \in Tasks : entry[t].stop) /\ TasksQuiet /\ Becomes("tasks", "done") /\ UNCHANGED <<entry, barrier>>
    <3>1. smooth' \in BOOLEAN /\ smooth' = smooth
      BY <2>1 DEF LifeTypeOK
    <3>2. /\ hook' \in [Hooks -> {"idle", "run", "done"}]
          /\ \A g \in Hooks : hook'[g] = IF g = "tasks" THEN "done" ELSE hook[g]
          /\ SequenceSound' /\ FinalAlone'
      BY <1>0, <2>1, <2>4, <3>1, HookEnds
    <3>3. LifeTypeOK'
      BY <2>1, <2>4, <3>2 DEF LifeTypeOK
    <3>4. StoppedStays'
      BY <1>0, <2>1, <2>4, <3>2, LifeAssumption DEF StoppedStays, TasksQuiet
    <3> QED
      BY <1>0, <2>1, <2>4, <3>2, <3>3, <3>4 DEF FlushedStays
  <2> QED
    BY <1>3, <2>2, <2>3, <2>4 DEF StopAll
<1>4. ASSUME NEW w \in Writers, FlushHook(w)
      PROVE  LifeInv'
  <2>1. /\ hook[w] = "run" /\ Becomes(w, "done") /\ w \in Hooks
        /\ UNCHANGED <<stage, at, entry, barrier, ingress, serving, worker, dbOpen, held>>
        /\ \/ memory' = memory \ {w} /\ smooth' = smooth
           \/ smooth' = FALSE /\ memory' = memory
    BY <1>0, <1>4 DEF FlushHook
  <2>2. /\ smooth' \in BOOLEAN /\ (smooth' => smooth /\ memory' = memory \ {w})
        /\ memory' \subseteq memory
    <3>1. smooth \in BOOLEAN
      BY DEF LifeTypeOK
    <3>2. CASE memory' = memory \ {w} /\ smooth' = smooth
      BY <3>1, <3>2, Zenon
    <3>3. CASE smooth' = FALSE /\ memory' = memory
      BY <3>3, Zenon
    <3> QED
      BY <2>1, <3>2, <3>3
  <2>3. /\ hook' \in [Hooks -> {"idle", "run", "done"}]
        /\ \A g \in Hooks : hook'[g] = IF g = w THEN "done" ELSE hook[g]
        /\ SequenceSound' /\ FinalAlone'
    BY <2>1, <2>2, HookEnds
  <2>4. LifeTypeOK'
    BY <2>1, <2>2, <2>3 DEF LifeTypeOK
  <2>5. StoppedStays'
    BY <1>0, <2>1, <2>3 DEF StoppedStays, TasksQuiet
  <2> QED
    BY <1>0, <2>1, <2>2, <2>3, <2>4, <2>5 DEF FlushedStays
<1> QED
  BY <1>1, <1>2, <1>3, <1>4

(* The shutdown is sound for any tasks, handlers and timeouts: the database is closed when no  *)
(* task execution, no evaluation worker and no hook can write to it any more, and a shutdown   *)
(* in which every hook ended in time and every flush succeeded leaves nothing in memory        *)
(* (start.go's order of registration, StopAll's barrier, waitOutstandingHooks).                *)
THEOREM ShutdownIsSound == LifeSpec => []ShutdownSound
<1>1. LifeInv /\ [LifeNext]_lifeVars => LifeInv'
  <2> SUFFICES ASSUME LifeInv, [LifeNext]_lifeVars PROVE LifeInv'
    OBVIOUS
  <2>1. CASE LifeNext
    BY <2>1, TaskSteps, TaskKeeps, ServingKeeps, SequenceKeeps, HookKeeps DEF LifeNext
  <2>2. CASE UNCHANGED lifeVars
    <3>1. TasksMove
      BY <2>2 DEF lifeVars, TasksMove, LifeInv, LifeTypeOK, StoppedStays
    <3> QED
      BY <3>1, TaskKeeps
  <2> QED
    BY <2>1, <2>2
<1>2. LifeInv => ShutdownSound
  <2> SUFFICES ASSUME LifeInv PROVE ShutdownSound
    OBVIOUS
  <2>1. ClosedAlone
    BY HookPlaces DEF LifeInv, FinalAlone, StoppedStays, ClosedAlone, HooksOver
  <2>2. ASSUME stage = "down", smooth
        PROVE  memory = {} /\ ~held
    <3>1. at = 8
      BY <2>2 DEF LifeInv, SequenceSound
    <3>2. \A i \in 1..7 : hook[HookOrder[i]] = "done"
      BY <2>2, <3>1 DEF LifeInv, SequenceSound
    <3>3. hook["tasks"] = "done" /\ \A w \in Writers : hook[w] = "done"
      BY <3>2, HookPlaces DEF Writers
    <3> QED
      BY <2>2, <3>3, LifeAssumption DEF LifeInv, LifeTypeOK, StoppedStays, TasksQuiet, FlushedStays
  <2> QED
    BY <2>1, <2>2 DEF ShutdownSound, NothingUnflushed
<1> QED
  BY <1>1, <1>2, LifeStarts, PTL DEF LifeSpec

-----------------------------------------------------------------------------
(* The retention of conversations *)

Ascending(s) == \A i, j \in 1..Len(s) : i < j => s[i] < s[j]

\* A queue cut in two: the parts share no record.
LEMMA CutInTwo ==
  ASSUME NEW s \in Seq(Records), Ascending(s), NEW n \in 0..Len(s)
  PROVE  LET pre == SubSeq(s, 1, n)
             post == SubSeq(s, n + 1, Len(s))
         IN /\ post \in Seq(Records) /\ Ascending(post)
            /\ ToSet(pre) \subseteq ToSet(s) /\ ToSet(post) = ToSet(s) \ ToSet(pre)
            /\ ToSet(s) \subseteq Records
<1>r. Records \subseteq Nat
  BY ConvAssumption
<1> DEFINE pre == SubSeq(s, 1, n)
           post == SubSeq(s, n + 1, Len(s))
<1>0. n \in Nat /\ Len(s) \in Nat /\ n <= Len(s) /\ DOMAIN s = 1..Len(s)
  OBVIOUS
<1>a. \A i \in 1..Len(s) : s[i] \in Records /\ s[i] \in Nat
  <2>1. \A i \in 1..Len(s) : s[i] \in Records
    OBVIOUS
  <2> QED
    BY <2>1, <1>r
<1>1. pre \in Seq(Records) /\ Len(pre) = n /\ DOMAIN pre = 1..n /\ \A i \in 1..n : pre[i] = s[i]
  BY <1>0
<1>2. /\ post \in Seq(Records) /\ Len(post) = Len(s) - n /\ DOMAIN post = 1..(Len(s) - n)
      /\ \A i \in 1..(Len(s) - n) : post[i] = s[n + i]
  <2>1. \A i \in (n + 1)..Len(s) : s[i] \in Records
    BY <1>0, <1>a
  <2>2. /\ post \in Seq(Records) /\ Len(post) = IF n + 1 <= Len(s) THEN Len(s) - (n + 1) + 1 ELSE 0
        /\ \A i \in 1..(Len(s) - (n + 1) + 1) : post[i] = s[n + 1 + i - 1]
    BY <1>0, <2>1, SubSeqProperties
  <2> HIDE DEF post
  <2>3. PICK l \in Nat : l = Len(s)
    BY <1>0
  <2>4. Len(post) = Len(s) - n
    <3>1. n \in Nat /\ n <= l
      BY <1>0, <2>3
    <3>2. (IF n + 1 <= l THEN l - (n + 1) + 1 ELSE 0) = l - n
      BY <3>1, <2>3
    <3> QED
      BY <2>2, <2>3, <3>2
  <2>5. ASSUME NEW i \in 1..(Len(s) - n) PROVE post[i] = s[n + i]
    <3>1. i \in 1..(Len(s) - (n + 1) + 1) /\ n + 1 + i - 1 = n + i
      BY <1>0, <2>3, <2>5
    <3> QED
      BY <3>1, <2>2
  <2> QED
    BY <2>2, <2>4, <2>5
<1> HIDE DEF pre, post
<1>3. ToSet(pre) \subseteq ToSet(s) /\ ToSet(s) \subseteq Records
  BY <1>0, <1>1, <1>a DEF ToSet
<1>4. Ascending(post)
  BY <1>0, <1>2 DEF Ascending
<1>5. ASSUME NEW x \in ToSet(post) PROVE x \in ToSet(s) \ ToSet(pre)
  <2>1. PICK i \in 1..(Len(s) - n) : x = s[n + i]
    BY <1>2 DEF ToSet
  <2>2. n + i \in 1..Len(s)
    BY <2>1, <1>0
  <2>3. \A k \in 1..n : s[k] < s[n + i]
    BY <2>2, <1>0 DEF Ascending
  <2>4. \A k \in 1..n : s[k] # x
    BY <2>1, <2>2, <2>3, <1>0, <1>a
  <2> QED
    BY <2>1, <2>2, <2>4, <1>0, <1>1 DEF ToSet
<1>6. ASSUME NEW x \in ToSet(s), x \notin ToSet(pre) PROVE x \in ToSet(post)
  <2>1. PICK i \in 1..Len(s) : x = s[i]
    BY <1>0 DEF ToSet
  <2>2. i > n
    BY <2>1, <1>6, <1>0, <1>1 DEF ToSet
  <2>3. i - n \in 1..(Len(s) - n) /\ post[i - n] = x
    BY <2>1, <2>2, <1>0, <1>2
  <2> QED
    BY <2>3, <1>2 DEF ToSet
<1> QED
  BY <1>2, <1>3, <1>4, <1>5, <1>6 DEF pre, post

\* One queue after another.
LEMMA Joined ==
  ASSUME NEW s \in Seq(Records), NEW t \in Seq(Records), Ascending(s), Ascending(t),
         \A x \in ToSet(s), y \in ToSet(t) : x < y
  PROVE  s \o t \in Seq(Records) /\ Ascending(s \o t) /\ ToSet(s \o t) = ToSet(s) \cup ToSet(t)
<1>r. Records \subseteq Nat
  BY ConvAssumption
<1> DEFINE u == s \o t
<1>0. Len(s) \in Nat /\ Len(t) \in Nat /\ DOMAIN s = 1..Len(s) /\ DOMAIN t = 1..Len(t)
  OBVIOUS
<1>1. u \in Seq(Records) /\ Len(u) = Len(s) + Len(t) /\ DOMAIN u = 1..(Len(s) + Len(t))
  BY <1>0
<1>2. \A i \in 1..(Len(s) + Len(t)) : u[i] = IF i <= Len(s) THEN s[i] ELSE t[i - Len(s)]
  BY <1>0
<1>3. (\A i \in 1..Len(s) : s[i] \in ToSet(s)) /\ (\A i \in 1..Len(t) : t[i] \in ToSet(t))
  BY <1>0 DEF ToSet
<1> HIDE DEF u
<1>4. Ascending(u)
  <2> SUFFICES ASSUME NEW i \in 1..Len(u), NEW j \in 1..Len(u), i < j PROVE u[i] < u[j]
    BY DEF Ascending
  <2>1. CASE j <= Len(s)
    BY <2>1, <1>0, <1>1, <1>2 DEF Ascending
  <2>2. CASE i <= Len(s) /\ j > Len(s)
    <3>1. i \in 1..Len(s) /\ j - Len(s) \in 1..Len(t) /\ u[i] = s[i] /\ u[j] = t[j - Len(s)]
      BY <2>2, <1>0, <1>1, <1>2
    <3> QED
      BY <3>1, <1>3
  <2>3. CASE i > Len(s) /\ j > Len(s)
    <3>1. /\ i - Len(s) \in 1..Len(t) /\ j - Len(s) \in 1..Len(t) /\ i - Len(s) < j - Len(s)
          /\ u[i] = t[i - Len(s)] /\ u[j] = t[j - Len(s)]
      BY <2>3, <1>0, <1>1, <1>2
    <3> QED
      BY <3>1 DEF Ascending
  <2> QED
    BY <2>1, <2>2, <2>3, <1>0, <1>1
<1>5. ASSUME NEW x \in ToSet(u) PROVE x \in ToSet(s) \cup ToSet(t)
  <2>1. PICK i \in 1..(Len(s) + Len(t)) : x = u[i]
    BY <1>1 DEF ToSet
  <2>2. CASE i <= Len(s)
    BY <2>1, <2>2, <1>0, <1>2, <1>3
  <2>3. CASE i > Len(s)
    <3>1. i - Len(s) \in 1..Len(t) /\ x = t[i - Len(s)]
      BY <2>1, <2>3, <1>0, <1>2
    <3> QED
      BY <3>1, <1>3
  <2> QED
    BY <2>2, <2>3, <1>0
<1>6. ASSUME NEW i \in 1..Len(s) PROVE s[i] \in ToSet(u)
  <2>1. i \in 1..(Len(s) + Len(t)) /\ u[i] = s[i]
    BY <1>0, <1>2
  <2> QED
    BY <2>1, <1>1 DEF ToSet
<1>7. ASSUME NEW i \in 1..Len(t) PROVE t[i] \in ToSet(u)
  <2>1. Len(s) + i \in 1..(Len(s) + Len(t)) /\ u[Len(s) + i] = t[i]
    BY <1>0, <1>2
  <2> QED
    BY <2>1, <1>1 DEF ToSet
<1>8. ToSet(u) = ToSet(s) \cup ToSet(t)
  BY <1>0, <1>5, <1>6, <1>7 DEF ToSet
<1> QED
  BY <1>1, <1>4, <1>8 DEF u

\* A record newer than all of the queue is appended.
LEMMA Appending ==
  ASSUME NEW s \in Seq(Records), Ascending(s), NEW r \in Records, \A x \in ToSet(s) : x < r
  PROVE  Append(s, r) \in Seq(Records) /\ Ascending(Append(s, r)) /\ ToSet(Append(s, r)) = ToSet(s) \cup {r}
<1>r. Records \subseteq Nat
  BY ConvAssumption
<1>1. <<r>> \in Seq(Records) /\ Ascending(<<r>>) /\ ToSet(<<r>>) = {r}
  BY DEF Ascending, ToSet
<1>2. Append(s, r) = s \o <<r>>
  OBVIOUS
<1>3. \A x \in ToSet(s), y \in ToSet(<<r>>) : x < y
  BY <1>1, <1>r
<1>4. /\ s \o <<r>> \in Seq(Records) /\ Ascending(s \o <<r>>)
      /\ ToSet(s \o <<r>>) = ToSet(s) \cup ToSet(<<r>>)
  BY <1>1, <1>3, Joined
<1> QED
  BY <1>1, <1>2, <1>4

\* A finite set of natural numbers that is not empty has a smallest element: otherwise take a
\* smallest subset without one.
LEMMA FiniteHasMin ==
  ASSUME NEW S, S \subseteq Nat, IsFiniteSet(S), S # {}
  PROVE  Min(S) \in S
<1> DEFINE HasMin(U) == \E x \in U : \A y \in U : x <= y
           Bad == {U \in SUBSET S : U # {} /\ ~HasMin(U)}
<1>1. SUFFICES Bad = {}
  <2>1. HasMin(S)
    BY <1>1
  <2> QED
    BY <2>1 DEF Min
<1>2. SUFFICES ASSUME Bad # {} PROVE FALSE
  OBVIOUS
<1>3. Bad \subseteq FiniteSubsetsOf(S)
  BY FS_FiniteSubsetsOfFinite
<1>4. PICK U \in Bad : \A V \in Bad : ~(<<V, U>> \in StrictSubsetOrdering(S))
  <2> HIDE DEF Bad
  <2> QED
    BY <1>2, <1>3, FS_StrictSubsetOrderingWellFounded, WFMin
<1>5. PICK x \in U : TRUE
  BY <1>4
<1>6. \A V : V \subseteq U /\ V # U /\ V # {} => HasMin(V)
  BY <1>4 DEF StrictSubsetOrdering
<1>7. CASE U \ {x} = {}
  BY <1>4, <1>5, <1>7
<1>8. CASE U \ {x} # {}
  <2>1. PICK y \in U \ {x} : \A z \in U \ {x} : y <= z
    BY <1>6, <1>8, <1>5
  <2>2. x \in Nat /\ y \in Nat /\ U \subseteq Nat
    BY <1>4, <1>5, <2>1
  <2>3. HasMin(U)
    <3>1. CASE x <= y
      <4>1. \A z \in U : x <= z
        BY <2>1, <2>2, <3>1
      <4> QED
        BY <4>1, <1>5
    <3>2. CASE ~(x <= y)
      <4>1. \A z \in U : y <= z
        BY <2>1, <2>2, <3>2
      <4> QED
        BY <4>1, <2>1
    <3> QED
      BY <3>1, <3>2
  <2> QED
    BY <2>3, <1>4
<1> QED
  BY <1>7, <1>8

\* The records up to the first that cannot be encoded.
LEMMA EncodableRange ==
  ASSUME NEW s \in Seq(Records)
  PROVE  Encodable(s) \in 0..Len(s)
<1> DEFINE bad == {i \in 1..Len(s) : s[i] \in Unencodable}
<1>2. Encodable(s) = IF bad = {} THEN Len(s) ELSE Min(bad) - 1
  BY DEF Encodable
<1>3. Len(s) \in Nat /\ bad \subseteq 1..Len(s)
  OBVIOUS
<1> HIDE DEF bad
<1>4. IsFiniteSet(bad) /\ bad \subseteq Nat
  <2>1. IsFiniteSet(1..Len(s))
    BY <1>3, FS_Interval
  <2>2. IsFiniteSet(bad)
    BY <2>1, <1>3, FS_Subset
  <2>3. 1..Len(s) \subseteq Nat
    BY <1>3
  <2> QED
    BY <2>2, <2>3, <1>3
<1>5. CASE bad = {}
  BY <1>2, <1>3, <1>5
<1>6. CASE bad # {}
  <2>1. PICK m \in 1..Len(s) : m = Min(bad)
    BY <1>3, <1>4, <1>6, FiniteHasMin
  <2>2. Encodable(s) = m - 1
    BY <2>1, <1>2, <1>6
  <2> QED
    BY <2>1, <2>2, <1>3
<1> QED
  BY <1>5, <1>6

Phases == {"idle", "io", "house", "compact", "copied", "remove", "cleanup", "ended"}
Fates == {"new", "captured", "dropped", "written", "unlinked", "expired", "lost"}

ConvWriters == [phase : Phases, batch : Seq(Records), target : Nat]

ConvTypeOK ==
  /\ pending \in Seq(Records)
  /\ convWriter \in ConvWriters
  /\ day \in Days /\ compactDay \in Nat
  /\ file \in [day : Nat, linked : BOOLEAN, broken : BOOLEAN]
  /\ fate \in [Records -> Fates]

\* The directory: files of days, with records in them.
DirOK ==
  /\ DOMAIN plain \subseteq Days /\ DOMAIN gz \subseteq Days
  /\ \A d \in Days : Content(d) \subseteq Records

Captured == {r \in Records : fate[r] = "captured"}

\* QueueExact, in parts.
QueueParts ==
  /\ ToSet(convWriter.batch) \cup ToSet(pending) = Captured
  /\ Ascending(convWriter.batch) /\ Ascending(pending)
  /\ \A x \in ToSet(convWriter.batch), y \in ToSet(pending) : x < y

\* Records are captured in order.
InOrder == \A q, r \in Records : fate[q] # "new" /\ fate[r] = "new" => q < r

\* Only a write under way has a batch, and an open file; the stops work on an ended writer.
WriterOK ==
  /\ convWriter.phase # "io" => convWriter.batch = <<>>
  /\ file.day <= day /\ (convWriter.phase = "io" => file.day # 0)
  /\ stopper.pc = "work" => convWriter.phase = "ended"

\* A day that is over and whose file is closed.
Past(d) == d \in Days /\ d < day /\ d # file.day

\* Only a day that is past is compressed, and its file is removed for a complete archive.
CompactionOK ==
  /\ compactDay # 0 => Past(compactDay)
  /\ convWriter.phase \in {"compact", "copied", "remove"} => Past(convWriter.target)
  /\ convWriter.phase = "copied" => convWriter.target \notin DOMAIN gz
  /\ convWriter.phase = "remove" => convWriter.target \in DOMAIN gz /\ gz[convWriter.target] # Truncated

\* A complete archive is of a past day and has all of its file.
ArchivesComplete ==
  \A d \in DOMAIN gz : gz[d] # Truncated => Past(d) /\ Content(d) \subseteq gz[d] /\ gz[d] \subseteq Records

ConvInv == ConvTypeOK /\ DirOK /\ QueueParts /\ InOrder /\ WriterOK /\ CompactionOK
           /\ ArchivesComplete /\ WrittenIsReadable

QueueFacts == QueueParts /\ InOrder
DirFacts == DirOK /\ ArchivesComplete /\ WrittenIsReadable

LEMMA ConvStarts == ConvInit => ConvInv
<1> SUFFICES ASSUME ConvInit PROVE ConvInv
  OBVIOUS
<1>0. 1 \in Days /\ Records \subseteq Nat
  BY ConvAssumption DEF Days
<1>1. NewWriter \in ConvWriters /\ NewWriter.phase = "idle" /\ NewWriter.batch = <<>> /\ NoArchive.day = 0
  BY DEF NewWriter, ConvWriters, Phases, NoArchive
<1>2. ConvTypeOK
  BY <1>0, <1>1 DEF ConvInit, ConvTypeOK, Fates, NoArchive
<1>3. \A d \in Days : Content(d) = {}
  BY DEF Content, ConvInit
<1>4. DOMAIN gz \subseteq {1} /\ \A d \in DOMAIN gz : gz[d] = Truncated
  BY DEF ConvInit
<1>5. DirFacts
  BY <1>0, <1>3, <1>4 DEF DirFacts, DirOK, ArchivesComplete, WrittenIsReadable, ConvInit
<1>6. QueueFacts
  <2>1. ToSet(convWriter.batch) = {} /\ ToSet(pending) = {} /\ convWriter.batch = <<>> /\ pending = <<>>
    BY <1>1, NothingToSet DEF ConvInit
  <2>2. Captured = {}
    BY DEF Captured, ConvInit
  <2>3. Ascending(<<>>)
    BY DEF Ascending
  <2>4. InOrder
    BY DEF InOrder, ConvInit
  <2> QED
    BY <2>1, <2>2, <2>3, <2>4 DEF QueueFacts, QueueParts
<1>7. WriterOK /\ CompactionOK
  BY <1>1 DEF WriterOK, CompactionOK, ConvInit
<1> QED
  BY <1>2, <1>5, <1>6, <1>7 DEF ConvInv, DirFacts, QueueFacts

\* What is known of the numbers.
LEMMA Numbers ==
  ASSUME ConvInv
  PROVE  /\ Records \subseteq Nat /\ 0 \notin Records /\ Days \subseteq Nat /\ 0 \notin Days
         /\ day \in Days /\ day \in Nat /\ file.day \in Nat /\ file.day <= day
         /\ file \in [day : Nat, linked : BOOLEAN, broken : BOOLEAN]
         /\ convWriter \in ConvWriters /\ pending \in Seq(Records) /\ convWriter.batch \in Seq(Records)
         /\ fate \in [Records -> Fates]
<1>1. ConvTypeOK /\ WriterOK
  BY DEF ConvInv
<1>2. Records \subseteq Nat /\ 0 \notin Records /\ Days \subseteq Nat /\ 0 \notin Days
  BY ConvAssumption DEF Days
<1>3. convWriter.batch \in Seq(Records)
  BY <1>1 DEF ConvTypeOK, ConvWriters
<1> QED
  BY <1>1, <1>2, <1>3 DEF ConvTypeOK, WriterOK

\* The queue is untouched, and nothing is captured or new that was not.
LEMMA QueueStays ==
  ASSUME ConvInv, convWriter'.batch = convWriter.batch, pending' = pending,
         fate' \in [Records -> Fates],
         \A r \in Records : /\ fate'[r] = "captured" <=> fate[r] = "captured"
                            /\ fate'[r] = "new" <=> fate[r] = "new"
  PROVE  QueueFacts'
<1>1. Captured' = Captured
  BY DEF Captured
<1>2. InOrder'
  BY DEF ConvInv, InOrder
<1>3. QueueParts'
  BY <1>1 DEF ConvInv, QueueParts, Ascending
<1> QED
  BY <1>2, <1>3 DEF QueueFacts

\* Days that are past stay so, and with them what their archives are relied on for, if no file
\* of such a day grows and every record still counted as written can be read.
LEMMA DirStays ==
  ASSUME ConvInv, day' \in Days, day' >= day, file'.day \in {0, file.day, day},
         DOMAIN plain' \subseteq Days,
         \A d \in Days : Content(d)' \subseteq Records /\ (Past(d) => Content(d)' \subseteq Content(d)),
         \A d \in DOMAIN gz' : d \in DOMAIN gz /\ gz'[d] = gz[d],
         WrittenIsReadable'
  PROVE  DirFacts' /\ \A d : Past(d) => Past(d)'
<1>1. DOMAIN gz' \subseteq Days
  BY DEF ConvInv, DirOK
<1>2. \A d : Past(d) => Past(d)'
  BY Numbers DEF Past
<1>3. ArchivesComplete'
  <2> SUFFICES ASSUME NEW d \in DOMAIN gz', gz'[d] # Truncated
               PROVE  Past(d)' /\ Content(d)' \subseteq gz'[d] /\ gz'[d] \subseteq Records
    BY DEF ArchivesComplete, Truncated
  <2>1. Past(d) /\ Content(d) \subseteq gz[d] /\ gz[d] \subseteq Records
    BY DEF ConvInv, ArchivesComplete
  <2>2. d \in Days
    BY <1>1
  <2> QED
    BY <2>1, <2>2, <1>2
<1> QED
  BY <1>1, <1>2, <1>3 DEF DirFacts, DirOK, Days

\* The same when the directory is left alone.
LEMMA DirAlone ==
  ASSUME ConvInv, day' \in Days, day' >= day, file'.day \in {0, file.day, day}, UNCHANGED <<plain, gz>>,
         \A r \in Records : fate'[r] = "written" => fate[r] = "written"
  PROVE  DirFacts' /\ \A d : Past(d) => Past(d)'
<1>1. \A d : Content(d)' = Content(d)
  BY DEF Content
<1>2. WrittenIsReadable'
  BY <1>1 DEF ConvInv, WrittenIsReadable, Truncated, Days
<1> QED
  BY <1>1, <1>2, DirStays DEF ConvInv, DirOK

\* Steps of the writer that keep its batch and leave the queue, the files, the records and the
\* calendar alone.
LEMMA WriterMoves ==
  ASSUME ConvInv, UNCHANGED <<pending, day, file, plain, fate>>, convWriter' \in ConvWriters,
         convWriter.phase # "io", convWriter'.batch = <<>>, convWriter'.phase # "io", convWriter.phase # "ended",
         compactDay' \in Nat, UNCHANGED stopper
  PROVE  ConvTypeOK' /\ QueueFacts' /\ WriterOK' /\ \A d : Past(d)' = Past(d) /\ Content(d)' = Content(d)
<1>1. convWriter.batch = <<>> /\ stopper.pc # "work"
  BY DEF ConvInv, WriterOK
<1>2. QueueFacts'
  BY <1>1, Numbers, QueueStays
<1>3. ConvTypeOK'
  BY DEF ConvInv, ConvTypeOK, Days
<1>4. WriterOK'
  BY <1>1 DEF ConvInv, WriterOK
<1> QED
  BY <1>2, <1>3, <1>4 DEF Past, Content, Days

\* Capture: what a full queue drops is its oldest part.
LEMMA CaptureKeeps ==
  ASSUME ConvInv, NEW r \in Records, CaptureConversation(r) PROVE ConvInv'
<1> USE Numbers
<1> DEFINE excess == IF Len(pending) < PendingMax THEN 0 ELSE Len(pending) + 1 - PendingMax
           pre == SubSeq(pending, 1, excess)
           post == SubSeq(pending, excess + 1, Len(pending))
<1>0. UNCHANGED <<convWriter, stopper, day, file, compactDay, plain, gz>>
  BY DEF CaptureConversation
<1>1. fate[r] = "new" /\ \A q \in Records : q < r => fate[q] # "new"
  BY DEF CaptureConversation
<1>2. \A q \in Records : fate[q] # "new" => q < r
  BY <1>1 DEF ConvInv, InOrder
<1>3. QueueFacts' /\ pending' \in Seq(Records) /\ fate' \in [Records -> Fates]
      /\ \A q \in Records : fate'[q] = "written" => fate[q] = "written"
  <2>1. CASE fate' = Fate({r}, "dropped") /\ UNCHANGED pending
    <3>1. fate' = [q \in Records |-> IF q = r THEN "dropped" ELSE fate[q]]
      BY <2>1 DEF Fate
    <3>2. fate' \in [Records -> Fates] /\ \A q \in Records : fate'[q] = IF q = r THEN "dropped" ELSE fate[q]
      BY <3>1 DEF Fates
    <3>3. Captured' = Captured
      BY <3>2, <1>1 DEF Captured
    <3>4. QueueParts'
      BY <3>3, <2>1, <1>0 DEF ConvInv, QueueParts, Ascending
    <3>5. InOrder'
      BY <3>2, <1>1, <1>2 DEF ConvInv, InOrder
    <3> QED
      BY <2>1, <3>2, <3>4, <3>5 DEF QueueFacts
  <2>2. CASE /\ fate' = [Fate(ToSet(pre), "dropped") EXCEPT ![r] = "captured"]
             /\ pending' = Append(post, r)
    <3>1. excess \in 0..Len(pending) /\ Len(pending) \in Nat
      BY ConvAssumption
    <3>2. Ascending(pending) /\ Ascending(convWriter.batch)
      BY DEF ConvInv, QueueParts
    <3> HIDE DEF excess
    <3>3. /\ post \in Seq(Records) /\ Ascending(post) /\ ToSet(pre) \subseteq ToSet(pending)
          /\ ToSet(post) = ToSet(pending) \ ToSet(pre) /\ ToSet(pending) \subseteq Records
      BY <3>1, <3>2, CutInTwo
    <3> HIDE DEF pre, post
    <3>4. /\ ToSet(convWriter.batch) \cup ToSet(pending) = Captured
          /\ \A x \in ToSet(convWriter.batch), y \in ToSet(pending) : x < y
      BY DEF ConvInv, QueueParts
    <3>5. \A x \in Captured : x \in Records /\ x < r
      BY <1>2 DEF Captured
    <3>6. /\ pending' \in Seq(Records) /\ Ascending(pending') /\ ToSet(pending') = ToSet(post) \cup {r}
      <4>1. \A x \in ToSet(post) : x < r
        BY <3>3, <3>4, <3>5
      <4>2. Records \subseteq Nat
        OBVIOUS
      <4>3. /\ Append(post, r) \in Seq(Records) /\ Ascending(Append(post, r))
            /\ ToSet(Append(post, r)) = ToSet(post) \cup {r}
        BY <4>1, <4>2, <3>3, Appending
      <4> QED
        BY <2>2, <4>3 DEF Ascending
    <3>7. fate' \in [Records -> Fates]
          /\ \A q \in Records : fate'[q] = IF q = r THEN "captured" ELSE IF q \in ToSet(pre) THEN "dropped" ELSE fate[q]
      BY <2>2 DEF Fate, Fates
    <3>8. \A q \in Captured : q # r
      BY <1>1 DEF Captured
    <3>9. Captured' = (Captured \ ToSet(pre)) \cup {r}
      BY <3>7, <3>8 DEF Captured
    <3>10. ToSet(pre) \cap ToSet(convWriter.batch) = {}
      <4> SUFFICES ASSUME NEW x \in ToSet(pre), x \in ToSet(convWriter.batch) PROVE FALSE
        OBVIOUS
      <4>1. x < x /\ x \in Nat
        BY <3>3, <3>4
      <4> QED
        BY <4>1
    <3>11. QueueParts'
      <4>1. ToSet(convWriter.batch) \cup ToSet(pending') = Captured'
        BY <3>3, <3>4, <3>6, <3>9, <3>10
      <4>2. \A x \in ToSet(convWriter.batch), y \in ToSet(pending') : x < y
        BY <3>3, <3>4, <3>5, <3>6
      <4> QED
        BY <4>1, <4>2, <3>2, <3>6, <1>0 DEF QueueParts, Ascending
    <3>12. InOrder'
      <4> SUFFICES ASSUME NEW q \in Records, NEW u \in Records, fate'[q] # "new", fate'[u] = "new" PROVE q < u
        BY DEF InOrder
      <4>1. fate[u] = "new" /\ u # r
        BY <3>7
      <4>2. r < u
        BY <4>1, <1>1
      <4>3. fate[q] # "new" \/ q = r
        BY <3>7, <3>3, <3>4 DEF Captured
      <4> QED
        BY <4>2, <4>3, <1>2
    <3> QED
      BY <3>6, <3>7, <3>11, <3>12 DEF QueueFacts
  <2> QED
    BY <2>1, <2>2 DEF CaptureConversation
<1>4. DirFacts' /\ \A d : Past(d)' = Past(d)
  <2>1. day' \in Days /\ day' >= day /\ file'.day \in {0, file.day, day}
    BY <1>0
  <2> QED
    BY <2>1, <1>0, <1>3, DirAlone DEF Past, Days
<1>5. ConvTypeOK'
  BY <1>0, <1>3 DEF ConvInv, ConvTypeOK, Days
<1>6. WriterOK' /\ CompactionOK'
  BY <1>0, <1>4 DEF ConvInv, WriterOK, CompactionOK, Truncated
<1> QED
  BY <1>3, <1>4, <1>5, <1>6 DEF ConvInv, QueueFacts, DirFacts

\* ensureConversationFileLocked opens the file of this day or keeps it, and registers a day that
\* is past.
LEMMA Ensured ==
  ASSUME ConvInv
  PROVE  LET f == ensureConversationFileLocked.file
             c == ensureConversationFileLocked.compact
         IN /\ f \in [day : Nat, linked : BOOLEAN, broken : BOOLEAN] /\ f.day = day
            /\ c \in Nat /\ (c # 0 => c \in Days /\ c < day)
<1> USE Numbers
<1>0. compactDay \in Nat /\ (compactDay # 0 => compactDay \in Days /\ compactDay < day)
  BY DEF ConvInv, ConvTypeOK, CompactionOK, Past
<1>1. CASE file.day = day
  BY <1>0, <1>1 DEF ensureConversationFileLocked
<1>2. CASE file.day # day
  <2>1. /\ [NoArchive EXCEPT !.day = day] \in [day : Nat, linked : BOOLEAN, broken : BOOLEAN]
        /\ [NoArchive EXCEPT !.day = day].day = day
    BY DEF NoArchive
  <2>2. /\ ensureConversationFileLocked.file = [NoArchive EXCEPT !.day = day]
        /\ ensureConversationFileLocked.compact = IF file.day # 0 THEN file.day ELSE compactDay
    BY <1>2 DEF ensureConversationFileLocked
  <2>3. file.day # 0 => file.day \in Days /\ file.day < day
    BY <1>2, ConvAssumption DEF Days
  <2> QED
    BY <2>1, <2>2, <2>3, <1>0
<1> QED
  BY <1>1, <1>2

\* A write to the file of day f.day.
LEMMA Appends ==
  ASSUME DirOK, NEW f, f.day \in Days, NEW xs, plain' = Appended(f, xs)
  PROVE  /\ DOMAIN plain' \subseteq Days
         /\ \A d \in Days : Content(d)' = IF f.linked /\ d = f.day THEN Content(d) \cup ToSet(xs) ELSE Content(d)
<1>1. CASE f.linked
  BY <1>1 DEF Appended, Files, Content, DirOK
<1>2. CASE ~f.linked
  BY <1>2 DEF Appended, Content, DirOK
<1> QED
  BY <1>1, <1>2

LEMMA FlushSwapKeeps == ASSUME ConvInv, FlushSwap PROVE ConvInv'
<1> USE Numbers
<1>0. convWriter.phase = "idle" /\ convWriter.batch = <<>> /\ stopper.pc # "work"
  BY DEF FlushSwap, ConvInv, WriterOK
<1>1. /\ file' = ensureConversationFileLocked.file /\ compactDay' = ensureConversationFileLocked.compact
      /\ pending' = <<>> /\ UNCHANGED <<stopper, day, gz, fate>>
      /\ plain' = IF file'.linked THEN Files(plain, day, Content(day)) ELSE plain
      /\ convWriter' = [convWriter EXCEPT !.phase = "io", !.batch = pending]
  BY DEF FlushSwap
<1>2. /\ file' \in [day : Nat, linked : BOOLEAN, broken : BOOLEAN] /\ file'.day = day
      /\ compactDay' \in Nat /\ (compactDay' # 0 => compactDay' \in Days /\ compactDay' < day)
  BY <1>1, Ensured
<1>3. convWriter' \in ConvWriters /\ convWriter'.phase = "io" /\ convWriter'.batch = pending
  BY <1>1 DEF ConvWriters, Phases
<1>4. QueueFacts'
  <2>1. Captured' = Captured
    BY <1>1 DEF Captured
  <2>2. ToSet(convWriter.batch) = {} /\ ToSet(pending') = {}
    BY <1>0, <1>1, NothingToSet
  <2>3. ToSet(convWriter'.batch) \cup ToSet(pending') = Captured'
    BY <2>1, <2>2, <1>3 DEF ConvInv, QueueParts
  <2>4. Ascending(convWriter'.batch) /\ Ascending(pending')
    BY <1>1, <1>3 DEF ConvInv, QueueParts, Ascending
  <2>5. QueueParts'
    BY <2>2, <2>3, <2>4 DEF QueueParts, Ascending
  <2> QED
    BY <1>1, <2>5 DEF ConvInv, QueueFacts, InOrder
<1>5. \A d \in Days : Content(d)' = Content(d)
  BY <1>1 DEF Content, Files
<1>6. DOMAIN plain' \subseteq Days
  BY <1>1 DEF Files, ConvInv, DirOK
<1>7. WrittenIsReadable'
  BY <1>1, <1>5 DEF ConvInv, WrittenIsReadable, Truncated, Days
<1>8. DirFacts'
  BY <1>1, <1>2, <1>5, <1>6, <1>7, DirStays DEF ConvInv, DirOK
<1>9. CompactionOK'
  <2>1. compactDay' # 0 => Past(compactDay)'
    BY <1>1, <1>2 DEF Past, Days
  <2> QED
    BY <2>1, <1>3 DEF CompactionOK
<1>10. WriterOK'
  BY <1>0, <1>1, <1>2, <1>3 DEF WriterOK
<1>11. ConvTypeOK'
  BY <1>1, <1>2, <1>3 DEF ConvTypeOK, Days
<1> QED
  BY <1>4, <1>8, <1>9, <1>10, <1>11 DEF ConvInv, QueueFacts, DirFacts

\* A part of the batch is written to the open file and the rest hung back in front of the queue.
LEMMA FlushWriteKeeps == ASSUME ConvInv, FlushWrite PROVE ConvInv'
<1> USE Numbers
<1> DEFINE batch == convWriter.batch
           n == Encodable(batch)
<1>0. convWriter.phase = "io" /\ file.day # 0 /\ stopper.pc # "work" /\ file.day \in Days
  BY ConvAssumption DEF FlushWrite, ConvInv, WriterOK, Days
<1>1. /\ UNCHANGED <<stopper, day, compactDay, gz>>
      /\ convWriter' = [convWriter EXCEPT !.phase = "house", !.batch = <<>>]
  BY DEF FlushWrite
<1>2. convWriter' \in ConvWriters /\ convWriter'.phase = "house" /\ convWriter'.batch = <<>>
  <2>1. <<>> \in Seq(Records)
    OBVIOUS
  <2> QED
    BY <1>1, <2>1 DEF ConvWriters, Phases
<1>3. n \in 0..Len(batch)
  BY EncodableRange
<1>4. /\ ToSet(batch) \cup ToSet(pending) = Captured /\ Ascending(batch) /\ Ascending(pending)
      /\ \A x \in ToSet(batch), y \in ToSet(pending) : x < y
  BY DEF ConvInv, QueueParts
<1>5. file' \in [day : Nat, linked : BOOLEAN, broken : BOOLEAN] /\ file'.day = file.day
  BY DEF FlushWrite
<1> HIDE DEF batch, n
<1>6. ASSUME NEW k \in 0..Len(batch), plain' = Appended(file, SubSeq(batch, 1, k))
      PROVE  /\ DOMAIN plain' \subseteq Days
             /\ \A d \in Days : /\ Content(d) \subseteq Content(d)' /\ Content(d)' \subseteq Records
                                /\ Past(d) => Content(d)' \subseteq Content(d)
             /\ file.linked => ToSet(SubSeq(batch, 1, k)) \subseteq Content(file.day)'
  <2>1. DirOK
    BY DEF ConvInv
  <2>2. ToSet(SubSeq(batch, 1, k)) \subseteq Records
    <3>1. batch \in Seq(Records) /\ Records \subseteq Nat
      BY DEF batch
    <3> QED
      BY <3>1, <1>4, CutInTwo
  <2>3. /\ DOMAIN plain' \subseteq Days
        /\ \A d \in Days : Content(d)' = IF file.linked /\ d = file.day THEN Content(d) \cup ToSet(SubSeq(batch, 1, k)) ELSE Content(d)
    BY <1>0, <1>6, <2>1, Appends
  <2>4. \A d \in Days : Content(d)' \subseteq Records
    BY <2>1, <2>2, <2>3 DEF DirOK
  <2>5. \A d \in Days : Past(d) => Content(d)' \subseteq Content(d)
    BY <2>3 DEF Past
  <2> QED
    BY <2>3, <2>4, <2>5, <1>0, <1>5
\* The queue and the directory after the write.
<1>7. /\ QueueFacts' /\ pending' \in Seq(Records) /\ fate' \in [Records -> Fates]
      /\ WrittenIsReadable' /\ DOMAIN plain' \subseteq Days
      /\ \A d \in Days : Content(d)' \subseteq Records /\ (Past(d) => Content(d)' \subseteq Content(d))
  <2>0. ToSet(convWriter'.batch) = {} /\ Ascending(convWriter'.batch)
    BY <1>2, NothingToSet DEF Ascending
  <2>1. CASE ~file.broken /\ Append2File(file, batch, n) /\ pending' = SubSeq(batch, n + 1, Len(batch)) \o pending
    <3> DEFINE pre == SubSeq(batch, 1, n)
               post == SubSeq(batch, n + 1, Len(batch))
    <3>0. batch \in Seq(Records) /\ Records \subseteq Nat
      BY DEF batch
    <3>1. /\ post \in Seq(Records) /\ Ascending(post) /\ ToSet(pre) \subseteq ToSet(batch)
          /\ ToSet(post) = ToSet(batch) \ ToSet(pre) /\ ToSet(batch) \subseteq Records
      BY <1>3, <1>4, <3>0, CutInTwo
    <3>2. plain' = Appended(file, pre) /\ fate' = Fate(ToSet(pre), IF file.linked THEN "written" ELSE "unlinked")
          /\ pending' = post \o pending
      BY <2>1 DEF Append2File
    <3>3. /\ DOMAIN plain' \subseteq Days
          /\ \A d \in Days : /\ Content(d) \subseteq Content(d)' /\ Content(d)' \subseteq Records
                             /\ Past(d) => Content(d)' \subseteq Content(d)
          /\ file.linked => ToSet(pre) \subseteq Content(file.day)'
      BY <1>3, <1>6, <3>2
    <3> HIDE DEF pre, post
    <3>4. /\ post \o pending \in Seq(Records) /\ Ascending(post \o pending)
          /\ ToSet(post \o pending) = ToSet(post) \cup ToSet(pending)
      BY <1>4, <3>0, <3>1, Joined
    <3>5. /\ fate' \in [Records -> Fates]
          /\ \A r \in Records : fate'[r] = IF r \in ToSet(pre) THEN (IF file.linked THEN "written" ELSE "unlinked") ELSE fate[r]
      BY <3>2 DEF Fate, Fates
    <3>6. Captured' = Captured \ ToSet(pre)
      BY <3>5 DEF Captured
    <3>7. ToSet(pre) \cap ToSet(pending) = {}
      <4> SUFFICES ASSUME NEW x \in ToSet(pre), x \in ToSet(pending) PROVE FALSE
        OBVIOUS
      <4>1. x < x /\ x \in Nat
        BY <3>0, <3>1, <1>4
      <4> QED
        BY <4>1
    <3>8. QueueParts'
      <4>1. ToSet(pending') = Captured'
        BY <3>1, <3>2, <3>4, <3>6, <3>7, <1>4
      <4>2. Ascending(pending')
        BY <3>2, <3>4 DEF Ascending
      <4> QED
        BY <4>1, <4>2, <2>0 DEF QueueParts, Ascending
    <3>9. InOrder'
      <4>1. \A r \in ToSet(pre) : fate[r] = "captured"
        BY <3>1, <1>4 DEF Captured
      <4> QED
        BY <4>1, <3>5 DEF ConvInv, InOrder
    <3>10. WrittenIsReadable'
      <4> SUFFICES ASSUME NEW r \in Records, fate'[r] = "written"
                   PROVE  \E d \in Days : r \in Content(d)' \/ (d \in DOMAIN gz' /\ gz'[d] # Truncated /\ r \in gz'[d])
        BY DEF WrittenIsReadable, Truncated, Days
      <4>1. CASE r \in ToSet(pre)
        BY <4>1, <3>3, <3>5, <1>0, <1>5
      <4>2. CASE r \notin ToSet(pre)
        <5>1. fate[r] = "written"
          BY <4>2, <3>5
        <5> QED
          BY <5>1, <3>3, <1>1 DEF ConvInv, WrittenIsReadable
      <4> QED
        BY <4>1, <4>2
    <3> QED
      BY <3>2, <3>3, <3>4, <3>5, <3>8, <3>9, <3>10 DEF QueueFacts
  <2>2. CASE pending' = batch \o pending /\ UNCHANGED fate
             /\ (UNCHANGED plain \/ \E k \in 0..n : plain' = Appended(file, SubSeq(batch, 1, k)))
    <3>0. batch \in Seq(Records) /\ Records \subseteq Nat
      BY DEF batch
    <3>1. /\ batch \o pending \in Seq(Records) /\ Ascending(batch \o pending)
          /\ ToSet(batch \o pending) = ToSet(batch) \cup ToSet(pending)
      BY <1>4, <3>0, Joined
    <3>2. Captured' = Captured
      BY <2>2 DEF Captured
    <3>3. QueueParts'
      <4>1. ToSet(pending') = Captured' /\ Ascending(pending')
        BY <2>2, <3>1, <3>2, <1>4 DEF Ascending
      <4> QED
        BY <4>1, <2>0 DEF QueueParts, Ascending
    <3>4. /\ DOMAIN plain' \subseteq Days
          /\ \A d \in Days : /\ Content(d) \subseteq Content(d)' /\ Content(d)' \subseteq Records
                             /\ Past(d) => Content(d)' \subseteq Content(d)
      <4>1. CASE UNCHANGED plain
        BY <4>1 DEF Content, ConvInv, DirOK
      <4>2. ASSUME NEW k \in 0..n, plain' = Appended(file, SubSeq(batch, 1, k))
            PROVE  /\ DOMAIN plain' \subseteq Days
                   /\ \A d \in Days : /\ Content(d) \subseteq Content(d)' /\ Content(d)' \subseteq Records
                                      /\ Past(d) => Content(d)' \subseteq Content(d)
        <5>1. k \in 0..Len(batch)
          BY <1>3, <3>0
        <5> QED
          BY <4>2, <5>1, <1>6
      <4> QED
        BY <2>2, <4>1, <4>2
    <3>5. WrittenIsReadable'
      BY <2>2, <3>4, <1>1 DEF ConvInv, WrittenIsReadable, Truncated, Days
    <3>6. InOrder'
      BY <2>2 DEF ConvInv, InOrder
    <3> QED
      BY <2>2, <3>1, <3>3, <3>4, <3>5, <3>6 DEF QueueFacts
  <2> QED
    BY <2>1, <2>2 DEF FlushWrite, batch, n
<1>8. DirFacts' /\ \A d : Past(d) => Past(d)'
  BY <1>1, <1>5, <1>7, DirStays
<1>9. CompactionOK'
  BY <1>1, <1>2, <1>8 DEF ConvInv, CompactionOK
<1>10. WriterOK'
  BY <1>0, <1>1, <1>2, <1>5 DEF WriterOK
<1>11. ConvTypeOK'
  BY <1>1, <1>2, <1>5, <1>7 DEF ConvInv, ConvTypeOK, Days
<1> QED
  BY <1>7, <1>8, <1>9, <1>10, <1>11 DEF ConvInv, QueueFacts, DirFacts

\* The steps that leave the directory, the queue and the records alone.
LEMMA QuietKeeps ==
  ASSUME ConvInv, FlushSkipped \/ HousekeepingTake PROVE ConvInv'
<1> USE Numbers
<1>0. convWriter.phase \in {"idle", "house"} /\ convWriter.batch = <<>> /\ compactDay \in Nat
  BY DEF FlushSkipped, HousekeepingTake, ConvInv, WriterOK, ConvTypeOK
<1>1. UNCHANGED <<pending, stopper, day, file, plain, gz, fate>>
  BY DEF FlushSkipped, HousekeepingTake
<1>2. /\ convWriter' \in ConvWriters /\ convWriter'.batch = <<>>
      /\ convWriter'.phase \in {"house", "cleanup", "compact"}
      /\ convWriter'.phase = "compact" => compactDay # 0 /\ convWriter'.target = compactDay
      /\ compactDay' \in {0, compactDay}
  <2>1. CASE FlushSkipped
    BY <1>0, <2>1 DEF FlushSkipped, ConvWriters, Phases
  <2>2. CASE HousekeepingTake
    <3>1. convWriter' = [convWriter EXCEPT !.phase = IF compactDay = 0 THEN "cleanup" ELSE "compact", !.target = compactDay]
          /\ compactDay' = 0
      BY <2>2 DEF HousekeepingTake
    <3> QED
      BY <1>0, <3>1 DEF ConvWriters, Phases
  <2> QED
    BY <2>1, <2>2
<1>3. ConvTypeOK' /\ QueueFacts' /\ WriterOK' /\ \A d : Past(d)' = Past(d) /\ Content(d)' = Content(d)
  <2>1. convWriter.phase # "io" /\ convWriter.phase # "ended" /\ convWriter'.phase # "io" /\ compactDay' \in Nat
    BY <1>0, <1>2
  <2> QED
    BY <2>1, <1>1, <1>2, WriterMoves
<1>4. DirFacts'
  BY <1>1, DirAlone
<1>5. CompactionOK'
  BY <1>2, <1>3 DEF ConvInv, CompactionOK, Past
<1> QED
  BY <1>3, <1>4, <1>5 DEF ConvInv, QueueFacts, DirFacts

\* The compression of a past day: only a bad archive is removed, and a new one has all of the file.
LEMMA CompressionKeeps ==
  ASSUME ConvInv, compressGzipAtomic \/ renameArchive PROVE ConvInv'
<1> USE Numbers
<1> DEFINE d == convWriter.target
<1>0. convWriter.phase \in {"compact", "copied"} /\ convWriter.batch = <<>> /\ compactDay \in Nat
  BY DEF compressGzipAtomic, renameArchive, ConvInv, WriterOK, ConvTypeOK
<1>1. UNCHANGED <<pending, stopper, day, file, compactDay, plain, fate>>
  BY DEF compressGzipAtomic, renameArchive
<1>2. Past(d) /\ d \in Days
  BY <1>0 DEF ConvInv, CompactionOK, Past
<1>3. PICK p \in {"cleanup", "remove", "copied"} : convWriter' = [convWriter EXCEPT !.phase = p]
  BY DEF compressGzipAtomic, renameArchive
<1>4. convWriter' \in ConvWriters /\ convWriter'.batch = <<>> /\ convWriter'.phase = p /\ convWriter'.target = d
  BY <1>0, <1>3 DEF ConvWriters, Phases
<1>5. ConvTypeOK' /\ QueueFacts' /\ WriterOK' /\ \A x : Past(x)' = Past(x) /\ Content(x)' = Content(x)
  <2>1. convWriter.phase # "io" /\ convWriter.phase # "ended" /\ convWriter'.phase # "io" /\ compactDay' \in Nat
    BY <1>0, <1>1, <1>4
  <2> QED
    BY <2>1, <1>1, <1>4, WriterMoves
<1>6. \/ UNCHANGED gz
      \/ gz' = Without(gz, {d}) /\ (d \in DOMAIN gz => gz[d] = Truncated)
      \/ gz' = Files(gz, d, Content(d)) /\ d \notin DOMAIN gz
  BY DEF compressGzipAtomic, renameArchive, ConvInv, CompactionOK
<1>7. p = "remove" => d \in DOMAIN gz' /\ gz'[d] # Truncated
  <2>0. ASSUME p = "remove" PROVE convWriter'.phase = "remove"
    BY <2>0, <1>4
  <2>1. CASE compressGzipAtomic
    <3> SUFFICES ASSUME p = "remove" PROVE d \in DOMAIN gz' /\ gz'[d] # Truncated
      OBVIOUS
    <3>1. convWriter.phase = "compact" /\ convWriter \in ConvWriters
      BY <2>1 DEF compressGzipAtomic
    <3>2. \A q : q # "remove" => convWriter' # [convWriter EXCEPT !.phase = q]
      BY <2>0, <3>1 DEF ConvWriters
    <3> QED
      BY <2>1, <3>2 DEF compressGzipAtomic
  <2>2. CASE renameArchive
    <3> SUFFICES ASSUME p = "remove" PROVE d \in DOMAIN gz' /\ gz'[d] # Truncated
      OBVIOUS
    <3>2. \A q : q # "remove" => convWriter' # [convWriter EXCEPT !.phase = q]
      BY <2>0 DEF ConvWriters
    <3>3. gz' = Files(gz, d, Content(d))
      BY <2>2, <3>2 DEF renameArchive
    <3>4. Content(d) # {0}
      BY <1>2 DEF ConvInv, DirOK
    <3> QED
      BY <3>3, <3>4 DEF Files, Truncated
  <2> QED
    BY <2>1, <2>2
<1>7a. p = "copied" => d \notin DOMAIN gz'
  <2> SUFFICES ASSUME p = "copied" PROVE d \notin DOMAIN gz'
    OBVIOUS
  <2>1. \A q : q # "copied" => convWriter' # [convWriter EXCEPT !.phase = q]
    BY <1>4 DEF ConvWriters
  <2> QED
    BY <2>1 DEF compressGzipAtomic, renameArchive, Without
<1> HIDE DEF d
<1>8. DOMAIN gz' \subseteq Days
  BY <1>2, <1>6 DEF Files, Without, ConvInv, DirOK
<1>9. \A x \in DOMAIN gz' : gz'[x] # Truncated =>
        \/ x \in DOMAIN gz /\ gz'[x] = gz[x] /\ gz[x] # Truncated
        \/ x = d /\ gz'[x] = Content(d)
  BY <1>6 DEF Files, Without
<1>10. \A x \in DOMAIN gz : gz[x] # Truncated => x \in DOMAIN gz' /\ gz'[x] = gz[x]
  BY <1>6 DEF Files, Without
<1>11. ArchivesComplete'
  <2> SUFFICES ASSUME NEW x \in DOMAIN gz', gz'[x] # Truncated
               PROVE  Past(x)' /\ Content(x)' \subseteq gz'[x] /\ gz'[x] \subseteq Records
    BY DEF ArchivesComplete, Truncated
  <2>1. CASE x \in DOMAIN gz /\ gz'[x] = gz[x] /\ gz[x] # Truncated
    BY <2>1, <1>5 DEF ConvInv, ArchivesComplete
  <2>2. CASE x = d /\ gz'[x] = Content(d)
    BY <2>2, <1>2, <1>5 DEF ConvInv, DirOK
  <2> QED
    BY <2>1, <2>2, <1>9
<1>12. WrittenIsReadable'
  <2> SUFFICES ASSUME NEW r \in Records, fate'[r] = "written"
               PROVE  \E x \in Days : r \in Content(x)' \/ (x \in DOMAIN gz' /\ gz'[x] # Truncated /\ r \in gz'[x])
    BY DEF WrittenIsReadable, Truncated, Days
  <2>1. PICK x \in Days : r \in Content(x) \/ (x \in DOMAIN gz /\ gz[x] # Truncated /\ r \in gz[x])
    BY <1>1 DEF ConvInv, WrittenIsReadable
  <2>2. CASE r \in Content(x)
    BY <2>2, <1>5
  <2>3. CASE x \in DOMAIN gz /\ gz[x] # Truncated /\ r \in gz[x]
    BY <2>3, <1>10
  <2> QED
    BY <2>1, <2>2, <2>3
<1>13. DirOK'
  BY <1>1, <1>5, <1>8 DEF ConvInv, DirOK, Days
<1>14. CompactionOK'
  <2>1. p = "copied" => d \notin DOMAIN gz'
    BY <1>7a
  <2> QED
    BY <2>1, <1>1, <1>2, <1>4, <1>5, <1>7 DEF ConvInv, CompactionOK, Past, Truncated, d
<1> QED
  BY <1>5, <1>11, <1>12, <1>13, <1>14 DEF ConvInv, QueueFacts

\* The plain file goes when a complete archive has all of it.
LEMMA RemoveKeeps == ASSUME ConvInv, removePlain PROVE ConvInv'
<1> USE Numbers
<1> DEFINE d == convWriter.target
<1>0. convWriter.phase = "remove" /\ convWriter.batch = <<>> /\ compactDay \in Nat
  BY DEF removePlain, ConvInv, WriterOK, ConvTypeOK
<1>1. /\ UNCHANGED <<pending, stopper, day, file, compactDay, gz, fate>> /\ plain' = Without(plain, {d})
      /\ convWriter' = [convWriter EXCEPT !.phase = "cleanup"]
  BY DEF removePlain
<1>2. Past(d) /\ d \in DOMAIN gz /\ gz[d] # Truncated /\ Content(d) \subseteq gz[d]
  BY <1>0 DEF ConvInv, CompactionOK, ArchivesComplete
<1>3. convWriter' \in ConvWriters /\ convWriter'.batch = <<>> /\ convWriter'.phase = "cleanup"
  BY <1>0, <1>1 DEF ConvWriters, Phases
<1> HIDE DEF d
<1>4. DOMAIN plain' \subseteq Days /\ \A x \in Days : Content(x)' = IF x = d THEN {} ELSE Content(x)
  BY <1>1 DEF Content, Without, ConvInv, DirOK
<1>5. WrittenIsReadable'
  <2> SUFFICES ASSUME NEW r \in Records, fate'[r] = "written"
               PROVE  \E x \in Days : r \in Content(x)' \/ (x \in DOMAIN gz' /\ gz'[x] # Truncated /\ r \in gz'[x])
    BY DEF WrittenIsReadable, Truncated, Days
  <2>1. PICK x \in Days : r \in Content(x) \/ (x \in DOMAIN gz /\ gz[x] # Truncated /\ r \in gz[x])
    BY <1>1 DEF ConvInv, WrittenIsReadable
  <2> QED
    BY <2>1, <1>1, <1>2, <1>4
<1>6. DirFacts' /\ \A x : Past(x) => Past(x)'
  <2>1. /\ day' \in Days /\ day' >= day /\ file'.day \in {0, file.day, day}
        /\ \A x \in DOMAIN gz' : x \in DOMAIN gz /\ gz'[x] = gz[x]
    BY <1>1
  <2>2. \A x \in Days : Content(x)' \subseteq Records /\ (Past(x) => Content(x)' \subseteq Content(x))
    BY <1>4 DEF ConvInv, DirOK
  <2> QED
    BY <2>1, <2>2, <1>4, <1>5, DirStays
<1>7. QueueFacts'
  BY <1>0, <1>1, <1>3, QueueStays
<1>8. ConvTypeOK' /\ WriterOK'
  BY <1>0, <1>1, <1>3 DEF ConvInv, ConvTypeOK, WriterOK, Days
<1>9. CompactionOK'
  BY <1>1, <1>3, <1>6 DEF ConvInv, CompactionOK
<1> QED
  BY <1>6, <1>7, <1>8, <1>9 DEF ConvInv, QueueFacts, DirFacts

\* Deleting archives: a record of which no copy is left is counted as expired.
LEMMA CleanupKeeps == ASSUME ConvInv, cleanupConversations PROVE ConvInv'
<1> USE Numbers
<1>0. convWriter.phase = "cleanup" /\ convWriter.batch = <<>> /\ compactDay \in Nat /\ stopper.pc # "work"
  BY DEF cleanupConversations, ConvInv, WriterOK, ConvTypeOK
<1>1. UNCHANGED <<pending, stopper, day, compactDay>> /\ convWriter' = NewWriter
  BY DEF cleanupConversations
<1>2. PICK gone \in SUBSET Held :
        /\ plain' = Without(plain, {x[2] : x \in {y \in gone : y[1] = "jsonl"}})
        /\ gz' = Without(gz, {x[2] : x \in {y \in gone : y[1] = "gz"}})
        /\ file' = IF <<"jsonl", file.day>> \in gone THEN [file EXCEPT !.linked = FALSE] ELSE file
        /\ fate' = Fate(WrittenIn(gone) \ WrittenIn(Held \ gone), "expired")
  <2> DEFINE expired == {x \in Held : x[2] + RetentionDays <= day}
  <2>1. PICK over \in SUBSET (Held \ expired) :
        /\ plain' = Without(plain, {x[2] : x \in {y \in expired \cup over : y[1] = "jsonl"}})
        /\ gz' = Without(gz, {x[2] : x \in {y \in expired \cup over : y[1] = "gz"}})
        /\ file' = IF <<"jsonl", file.day>> \in expired \cup over THEN [file EXCEPT !.linked = FALSE] ELSE file
        /\ fate' = Fate(WrittenIn(expired \cup over) \ WrittenIn(Held \ (expired \cup over)), "expired")
    BY DEF cleanupConversations
  <2>2. expired \cup over \in SUBSET Held
    OBVIOUS
  <2> HIDE DEF expired
  <2> QED
    BY <2>1, <2>2
<1> DEFINE files == {x[2] : x \in {y \in gone : y[1] = "jsonl"}}
           packs == {x[2] : x \in {y \in gone : y[1] = "gz"}}
<1>3. /\ \A x : x \in files <=> <<"jsonl", x>> \in gone
      /\ \A x : x \in packs <=> <<"gz", x>> \in gone
  <2>1. \A y \in gone : \E u : y = <<"jsonl", u>> \/ y = <<"gz", u>>
    BY DEF Held
  <2>2. \A y \in gone : /\ y[1] = "jsonl" => y = <<"jsonl", y[2]>>
                        /\ y[1] = "gz" => y = <<"gz", y[2]>>
    BY <2>1
  <2>3. \A x : <<"jsonl", x>>[1] = "jsonl" /\ <<"jsonl", x>>[2] = x /\ <<"gz", x>>[1] = "gz" /\ <<"gz", x>>[2] = x
    OBVIOUS
  <2>4. ASSUME NEW x PROVE x \in files <=> <<"jsonl", x>> \in gone
    <3>1. ASSUME x \in files PROVE <<"jsonl", x>> \in gone
      BY <2>2, <3>1
    <3>2. ASSUME <<"jsonl", x>> \in gone PROVE x \in files
      BY <2>3, <3>2
    <3> QED
      BY <3>1, <3>2
  <2>5. ASSUME NEW x PROVE x \in packs <=> <<"gz", x>> \in gone
    <3>1. ASSUME x \in packs PROVE <<"gz", x>> \in gone
      BY <2>2, <3>1
    <3>2. ASSUME <<"gz", x>> \in gone PROVE x \in packs
      BY <2>3, <3>2
    <3> QED
      BY <3>1, <3>2
  <2> HIDE DEF files, packs
  <2> QED
    BY <2>4, <2>5
<1>4. plain' = Without(plain, files) /\ gz' = Without(gz, packs)
  BY <1>2
<1> HIDE DEF files, packs
<1>5. file' \in [day : Nat, linked : BOOLEAN, broken : BOOLEAN] /\ file'.day = file.day
  BY <1>2
<1>6. NewWriter \in ConvWriters /\ NewWriter.phase = "idle" /\ NewWriter.batch = <<>>
  BY DEF NewWriter, ConvWriters, Phases
<1>7. /\ fate' \in [Records -> Fates]
      /\ \A r \in Records : fate'[r] = IF r \in WrittenIn(gone) \ WrittenIn(Held \ gone) THEN "expired" ELSE fate[r]
  BY <1>2 DEF Fate, Fates
<1>8. \A r \in WrittenIn(gone) : fate[r] = "written"
  BY DEF WrittenIn
<1>9. QueueFacts'
  <2>1. \A r \in Records : /\ fate'[r] = "captured" <=> fate[r] = "captured"
                           /\ fate'[r] = "new" <=> fate[r] = "new"
    BY <1>7, <1>8
  <2> QED
    BY <2>1, <1>0, <1>1, <1>6, <1>7, QueueStays
<1>10. /\ DOMAIN plain' \subseteq Days
       /\ \A x \in Days : Content(x)' = IF x \in files THEN {} ELSE Content(x)
       /\ \A x \in DOMAIN gz' : x \in DOMAIN gz /\ gz'[x] = gz[x]
       /\ \A x \in DOMAIN gz \ packs : x \in DOMAIN gz' /\ gz'[x] = gz[x]
  BY <1>4 DEF Content, Without, ConvInv, DirOK
<1>11. WrittenIsReadable'
  <2> SUFFICES ASSUME NEW r \in Records, fate'[r] = "written"
               PROVE  \E x \in Days : r \in Content(x)' \/ (x \in DOMAIN gz' /\ gz'[x] # Truncated /\ r \in gz'[x])
    BY DEF WrittenIsReadable, Truncated, Days
  <2>1. fate[r] = "written" /\ (r \in WrittenIn(gone) => r \in WrittenIn(Held \ gone))
    BY <1>7
  <2>2. PICK x \in Days : r \in Content(x) \/ (x \in DOMAIN gz /\ gz[x] # Truncated /\ r \in gz[x])
    BY <2>1 DEF ConvInv, WrittenIsReadable
  <2>3. PICK z \in Held : r \in In(z)
    <3>1. CASE r \in Content(x)
      <4>1. <<"jsonl", x>> \in Held /\ In(<<"jsonl", x>>) = plain[x] /\ r \in plain[x]
        BY <3>1 DEF Held, In, Content
      <4> QED
        BY <4>1
    <3>2. CASE x \in DOMAIN gz /\ gz[x] # Truncated /\ r \in gz[x]
      <4>1. <<"gz", x>> \in Held /\ In(<<"gz", x>>) = gz[x]
        BY <3>2 DEF Held, In
      <4> QED
        BY <4>1, <3>2
    <3> QED
      BY <2>2, <3>1, <3>2
  <2>4. PICK y \in Held \ gone : r \in In(y)
    <3>1. CASE z \in gone
      <4>1. r \in WrittenIn(gone)
        BY <3>1, <2>1, <2>3 DEF WrittenIn
      <4> QED
        BY <4>1, <2>1 DEF WrittenIn
    <3>2. CASE z \notin gone
      BY <3>2, <2>3
    <3> QED
      BY <3>1, <3>2
  <2>5. ASSUME NEW u \in DOMAIN plain, y = <<"jsonl", u>> PROVE u \in Days /\ r \in Content(u)'
    <3>1. u \in Days /\ u \notin files /\ r \in plain[u]
      BY <2>4, <2>5, <1>3 DEF In, ConvInv, DirOK
    <3> QED
      BY <3>1, <1>10 DEF Content
  <2>6. ASSUME NEW u \in DOMAIN gz, y = <<"gz", u>>
        PROVE  u \in Days /\ u \in DOMAIN gz' /\ gz'[u] # Truncated /\ r \in gz'[u]
    <3>1. u \in Days /\ u \notin packs /\ r \in gz[u]
      BY <2>4, <2>6, <1>3 DEF In, ConvInv, DirOK
    <3>2. gz[u] # Truncated
      BY <3>1 DEF Truncated
    <3> QED
      BY <3>1, <3>2, <1>10
  <2> QED
    BY <2>4, <2>5, <2>6 DEF Held
<1>12. DirFacts' /\ \A x : Past(x) => Past(x)'
  <2>1. \A x \in Days : Content(x)' \subseteq Records /\ (Past(x) => Content(x)' \subseteq Content(x))
    BY <1>10 DEF ConvInv, DirOK
  <2>2. day' \in Days /\ day' >= day /\ file'.day \in {0, file.day, day}
    BY <1>1, <1>5
  <2> QED
    BY <2>1, <2>2, <1>10, <1>11, DirStays
<1>13. ConvTypeOK' /\ WriterOK'
  BY <1>0, <1>1, <1>5, <1>6, <1>7 DEF ConvInv, ConvTypeOK, WriterOK, Days
<1>14. CompactionOK'
  BY <1>1, <1>6, <1>12 DEF ConvInv, CompactionOK
<1> QED
  BY <1>9, <1>12, <1>13, <1>14 DEF ConvInv, QueueFacts, DirFacts

\* flushConversationLocked and closeConversationFileLocked, by a writer that stops or by a hook
\* that found it ended: what can be written is written to the file of this day.
LEMMA ClosingKeeps ==
  ASSUME ConvInv, FlushAndClose, convWriter.phase \in {"idle", "ended"}, UNCHANGED <<day, gz>>,
         convWriter' \in ConvWriters, convWriter'.batch = <<>>, convWriter'.phase = "ended"
  PROVE  ConvInv'
<1> USE Numbers
<1> DEFINE f == ensureConversationFileLocked.file
<1>0. convWriter.batch = <<>> /\ compactDay \in Nat
  BY DEF ConvInv, WriterOK, ConvTypeOK
<1>1. f.day = day /\ f.day \in Days
  BY Ensured
<1>2. file' = NoArchive /\ NoArchive \in [day : Nat, linked : BOOLEAN, broken : BOOLEAN] /\ NoArchive.day = 0
  BY DEF FlushAndClose, NoArchive
<1>3. compactDay' \in Nat /\ (compactDay' # 0 => compactDay' \in Days /\ compactDay' < day)
  <2>1. compactDay # 0 => compactDay \in Days /\ compactDay < day
    BY DEF ConvInv, CompactionOK, Past
  <2> QED
    BY <2>1, <1>0, Ensured DEF FlushAndClose
<1>4. PICK n \in {0, Encodable(pending)} :
        /\ IF n = 0 THEN UNCHANGED <<plain, fate>> ELSE Append2File(f, pending, n)
        /\ pending' = SubSeq(pending, n + 1, Len(pending))
  BY DEF FlushAndClose
<1> DEFINE pre == SubSeq(pending, 1, n)
           post == SubSeq(pending, n + 1, Len(pending))
<1>5. n \in 0..Len(pending)
  BY <1>4, EncodableRange
<1>6. Ascending(pending) /\ ToSet(pending) = Captured
  BY <1>0, NothingToSet DEF ConvInv, QueueParts
<1>7. /\ post \in Seq(Records) /\ Ascending(post) /\ ToSet(pre) \subseteq ToSet(pending)
      /\ ToSet(post) = ToSet(pending) \ ToSet(pre) /\ ToSet(pending) \subseteq Records
  BY <1>5, <1>6, CutInTwo
<1>8. n = 0 => ToSet(pre) = {}
  BY DEF ToSet
<1>9. pending' = post
  BY <1>4
<1> HIDE DEF f, post
\* The records of the first part are written, or go to a file that is no longer linked.
<1>10. /\ fate' \in [Records -> Fates]
       /\ \A r \in Records : fate'[r] = IF r \in ToSet(pre) THEN (IF f.linked THEN "written" ELSE "unlinked") ELSE fate[r]
       /\ DOMAIN plain' \subseteq Days
       /\ \A d \in Days : Content(d)' = IF f.linked /\ d = day THEN Content(d) \cup ToSet(pre) ELSE Content(d)
  <2>1. CASE n = 0
    <3>1. UNCHANGED <<plain, fate>> /\ ToSet(pre) = {}
      BY <2>1, <1>4, <1>8
    <3> HIDE DEF pre
    <3> QED
      BY <3>1 DEF Content, ConvInv, DirOK
  <2>2. CASE n # 0
    <3>1. plain' = Appended(f, pre) /\ fate' = Fate(ToSet(pre), IF f.linked THEN "written" ELSE "unlinked")
      BY <2>2, <1>4 DEF Append2File
    <3> HIDE DEF pre
    <3>2. DirOK
      BY DEF ConvInv
    <3>3. /\ DOMAIN plain' \subseteq Days
          /\ \A d \in Days : Content(d)' = IF f.linked /\ d = f.day THEN Content(d) \cup ToSet(pre) ELSE Content(d)
      BY <1>1, <3>1, <3>2, Appends
    <3> QED
      BY <3>1, <3>3, <1>1 DEF Fate, Fates
  <2> QED
    BY <2>1, <2>2
<1> HIDE DEF pre
<1>11. Captured' = Captured \ ToSet(pre)
  BY <1>10 DEF Captured
<1>12. QueueFacts'
  <2>1. ToSet(convWriter'.batch) = {} /\ Ascending(convWriter'.batch)
    BY NothingToSet DEF Ascending
  <2>2. ToSet(pending') = Captured' /\ Ascending(pending')
    BY <1>6, <1>7, <1>9, <1>11 DEF Ascending
  <2>3. QueueParts'
    BY <2>1, <2>2 DEF QueueParts, Ascending
  <2>4. \A r \in ToSet(pre) : fate[r] = "captured"
    BY <1>6, <1>7 DEF Captured
  <2>5. InOrder'
    BY <2>4, <1>10 DEF ConvInv, InOrder
  <2> QED
    BY <2>3, <2>5 DEF QueueFacts
<1>13. WrittenIsReadable'
  <2> SUFFICES ASSUME NEW r \in Records, fate'[r] = "written"
               PROVE  \E d \in Days : r \in Content(d)' \/ (d \in DOMAIN gz' /\ gz'[d] # Truncated /\ r \in gz'[d])
    BY DEF WrittenIsReadable, Truncated, Days
  <2>1. CASE r \in ToSet(pre)
    <3>1. f.linked /\ day \in Days /\ r \in Content(day) \cup ToSet(pre)
      BY <2>1, <1>10
    <3>2. \A d \in Days : d = day => r \in Content(d)'
      BY <3>1, <1>10
    <3> QED
      BY <3>1, <3>2
  <2>2. CASE r \notin ToSet(pre)
    <3>1. fate[r] = "written"
      BY <2>2, <1>10
    <3>2. PICK d \in Days : r \in Content(d) \/ (d \in DOMAIN gz /\ gz[d] # Truncated /\ r \in gz[d])
      BY <3>1 DEF ConvInv, WrittenIsReadable
    <3> QED
      BY <3>2, <1>10
  <2> QED
    BY <2>1, <2>2
<1>14. DirFacts'
  <2>1. \A d \in Days : Content(d)' \subseteq Records /\ (Past(d) => Content(d)' \subseteq Content(d))
    BY <1>6, <1>7, <1>10 DEF ConvInv, DirOK, Past
  <2>2. day' \in Days /\ day' >= day /\ file'.day \in {0, file.day, day}
    BY <1>2
  <2> QED
    BY <2>1, <2>2, <1>10, <1>13, DirStays
<1>15. ConvTypeOK'
  BY <1>2, <1>3, <1>7, <1>9, <1>10 DEF ConvTypeOK, Days
<1>16. WriterOK'
  BY <1>2 DEF WriterOK
<1>17. CompactionOK'
  <2>1. compactDay' # 0 => Past(compactDay)'
    BY <1>2, <1>3 DEF Past, Days
  <2> QED
    BY <2>1 DEF CompactionOK
<1> QED
  BY <1>12, <1>14, <1>15, <1>16, <1>17 DEF ConvInv, QueueFacts, DirFacts

\* The console clears the archives: nothing is left that counts as written.
LEMMA ClearKeeps == ASSUME ConvInv, ClearConversationArchives PROVE ConvInv'
<1> USE Numbers
<1>0. /\ UNCHANGED <<convWriter, day>> /\ file' = NoArchive /\ compactDay' = 0
      /\ plain' = <<>> /\ gz' = <<>> /\ stopper'.pc = "idle"
  BY DEF ClearConversationArchives
<1>1. convWriter.phase = "ended" /\ convWriter.batch = <<>>
  BY DEF ClearConversationArchives, ConvInv, WriterOK
<1>2. NoArchive \in [day : Nat, linked : BOOLEAN, broken : BOOLEAN] /\ NoArchive.day = 0
  BY DEF NoArchive
<1>3. PICK n \in {0, Encodable(pending)} :
        /\ pending' = SubSeq(pending, n + 1, Len(pending))
        /\ fate' = Fate(ToSet(SubSeq(pending, 1, n)) \cup {r \in Records : fate[r] = "written"}, "expired")
  BY DEF ClearConversationArchives
<1> DEFINE pre == SubSeq(pending, 1, n)
           post == SubSeq(pending, n + 1, Len(pending))
<1>4. n \in 0..Len(pending)
  BY <1>3, EncodableRange
<1>5. Ascending(pending) /\ ToSet(pending) = Captured
  BY <1>1, NothingToSet DEF ConvInv, QueueParts
<1>6. /\ post \in Seq(Records) /\ Ascending(post) /\ ToSet(pre) \subseteq ToSet(pending)
      /\ ToSet(post) = ToSet(pending) \ ToSet(pre) /\ ToSet(pending) \subseteq Records
  BY <1>4, <1>5, CutInTwo
<1>7. pending' = post /\ fate' = Fate(ToSet(pre) \cup {r \in Records : fate[r] = "written"}, "expired")
  BY <1>3
<1> HIDE DEF pre, post
<1>8. /\ fate' \in [Records -> Fates]
      /\ \A r \in Records : fate'[r] = IF r \in ToSet(pre) \/ fate[r] = "written" THEN "expired" ELSE fate[r]
  BY <1>7 DEF Fate, Fates
<1>9. Captured' = Captured \ ToSet(pre)
  BY <1>8 DEF Captured
<1>10. QueueFacts'
  <2>1. ToSet(convWriter'.batch) = {} /\ Ascending(convWriter'.batch)
    BY <1>0, <1>1, NothingToSet DEF Ascending
  <2>2. ToSet(pending') = Captured' /\ Ascending(pending')
    BY <1>5, <1>6, <1>7, <1>9 DEF Ascending
  <2>3. QueueParts'
    BY <2>1, <2>2 DEF QueueParts, Ascending
  <2>4. \A r \in ToSet(pre) : fate[r] = "captured"
    BY <1>5, <1>6 DEF Captured
  <2>5. InOrder'
    BY <2>4, <1>8 DEF ConvInv, InOrder
  <2> QED
    BY <2>3, <2>5 DEF QueueFacts
<1>11. DirFacts'
  <2>1. \A d \in Days : Content(d)' = {}
    BY <1>0 DEF Content
  <2>2. DOMAIN plain' = {} /\ DOMAIN gz' = {}
    BY <1>0
  <2>3. WrittenIsReadable'
    BY <1>8 DEF WrittenIsReadable
  <2> QED
    BY <2>1, <2>2, <2>3 DEF DirFacts, DirOK, ArchivesComplete, Days
<1>12. ConvTypeOK' /\ WriterOK' /\ CompactionOK'
  BY <1>0, <1>1, <1>2, <1>6, <1>7, <1>8 DEF ConvTypeOK, WriterOK, CompactionOK, Days
<1> QED
  BY <1>10, <1>11, <1>12 DEF ConvInv, QueueFacts, DirFacts

\* The process dies: the directory stays as it was.
LEMMA RestartKeeps == ASSUME ConvInv, InitConversationStore PROVE ConvInv'
<1> USE Numbers
<1>0. /\ UNCHANGED <<day, plain, gz>> /\ file' = NoArchive /\ compactDay' = 0 /\ stopper'.pc = "idle"
      /\ pending' = <<>> /\ convWriter' = NewWriter
      /\ fate' = [r \in Records |-> IF fate[r] = "captured" THEN "lost" ELSE fate[r]]
  BY DEF InitConversationStore
<1>1. NewWriter \in ConvWriters /\ NewWriter.phase = "idle" /\ NewWriter.batch = <<>> /\ <<>> \in Seq(Records)
  BY DEF NewWriter, ConvWriters, Phases
<1>2. NoArchive \in [day : Nat, linked : BOOLEAN, broken : BOOLEAN] /\ NoArchive.day = 0
  BY DEF NoArchive
<1>3. /\ fate' \in [Records -> Fates]
      /\ \A r \in Records : fate'[r] = IF fate[r] = "captured" THEN "lost" ELSE fate[r]
  BY <1>0 DEF Fates
<1>4. QueueFacts'
  <2>1. ToSet(convWriter'.batch) = {} /\ ToSet(pending') = {} /\ Ascending(convWriter'.batch) /\ Ascending(pending')
    BY <1>0, <1>1, NothingToSet DEF Ascending
  <2>2. Captured' = {}
    BY <1>3 DEF Captured
  <2>3. QueueParts'
    BY <2>1, <2>2 DEF QueueParts, Ascending
  <2>4. InOrder'
    BY <1>3 DEF ConvInv, InOrder
  <2> QED
    BY <2>3, <2>4 DEF QueueFacts
<1>5. DirFacts'
  <2>1. day' \in Days /\ day' >= day /\ file'.day \in {0, file.day, day}
    BY <1>0, <1>2
  <2>2. \A r \in Records : fate'[r] = "written" => fate[r] = "written"
    BY <1>3
  <2> QED
    BY <2>1, <2>2, <1>0, DirAlone
<1>6. ConvTypeOK' /\ WriterOK' /\ CompactionOK'
  BY <1>0, <1>1, <1>2, <1>3 DEF ConvTypeOK, WriterOK, CompactionOK, Days
<1> QED
  BY <1>4, <1>5, <1>6 DEF ConvInv, QueueFacts, DirFacts

\* A stop that is asked for, a wait that ends, a day that passes.
LEMMA WaitingKeeps ==
  ASSUME ConvInv, (\E who \in {"shutdown", "clear"} : StopWriter(who)) \/ WaitDone \/ NextDay \/ UNCHANGED convVars
  PROVE  ConvInv'
<1> USE Numbers
<1>0. UNCHANGED <<pending, convWriter, file, compactDay, plain, gz, fate>>
  BY DEF StopWriter, WaitDone, NextDay, convVars
<1>1. day' \in Days /\ day' >= day
  BY ConvAssumption DEF StopWriter, WaitDone, NextDay, convVars, Days
<1>2. stopper'.pc = "work" => convWriter.phase = "ended"
  <2>1. ASSUME NEW who, StopWriter(who) PROVE stopper'.pc = "work" => convWriter.phase = "ended"
    BY <2>1 DEF StopWriter, conversationAlive
  <2>2. CASE WaitDone
    <3>1. CASE ~conversationAlive
      BY <3>1 DEF conversationAlive
    <3>2. CASE stopper' = [stopper EXCEPT !.pc = "idle"] /\ conversationAlive
      <4>1. stopper.pc = "wait"
        BY <2>2 DEF WaitDone
      <4>2. stopper'.pc # "work"
        BY <3>2, <4>1
      <4> QED
        BY <4>2
    <3> QED
      BY <2>2, <3>1, <3>2 DEF WaitDone
  <2>3. CASE NextDay \/ UNCHANGED convVars
    BY <2>3 DEF NextDay, convVars, ConvInv, WriterOK
  <2> QED
    BY <2>1, <2>2, <2>3
<1>3. QueueFacts'
  BY <1>0, QueueStays
<1>4. DirFacts' /\ \A d : Past(d) => Past(d)'
  BY <1>0, <1>1, DirAlone
<1>5. ConvTypeOK' /\ WriterOK' /\ CompactionOK'
  BY <1>0, <1>1, <1>2, <1>4 DEF ConvInv, ConvTypeOK, WriterOK, CompactionOK, Days, Truncated
<1> QED
  BY <1>3, <1>4, <1>5 DEF ConvInv, QueueFacts, DirFacts

LEMMA ConvStep == ConvInv /\ [ConvNext]_convVars => ConvInv'
<1> SUFFICES ASSUME ConvInv, [ConvNext]_convVars PROVE ConvInv'
  OBVIOUS
<1>1. CASE writerStops
  <2>1. [NewWriter EXCEPT !.phase = "ended"] \in ConvWriters
        /\ [NewWriter EXCEPT !.phase = "ended"].batch = <<>> /\ [NewWriter EXCEPT !.phase = "ended"].phase = "ended"
    <3>0. NewWriter \in ConvWriters /\ NewWriter.batch = <<>>
      BY DEF NewWriter, ConvWriters, Phases
    <3>1. PICK w \in ConvWriters : w = NewWriter /\ w.batch = <<>>
      BY <3>0
    <3>2. /\ [w EXCEPT !.phase = "ended"] \in ConvWriters /\ [w EXCEPT !.phase = "ended"].batch = <<>>
          /\ [w EXCEPT !.phase = "ended"].phase = "ended"
      BY <3>1 DEF ConvWriters, Phases
    <3> QED
      BY <3>1, <3>2
  <2> QED
    BY <1>1, <2>1, ClosingKeeps DEF writerStops
<1>2. CASE FlushConversations
  <2>1. convWriter.phase = "ended" /\ convWriter.batch = <<>> /\ convWriter \in ConvWriters
    BY <1>2, Numbers DEF FlushConversations, ConvInv, WriterOK
  <2> QED
    BY <1>2, <2>1, ClosingKeeps DEF FlushConversations
<1> QED
  BY <1>1, <1>2, CaptureKeeps, FlushSwapKeeps, FlushWriteKeeps, QuietKeeps, CompressionKeeps, RemoveKeeps,
     CleanupKeeps, ClearKeeps, RestartKeeps, WaitingKeeps DEF ConvNext

\* For any records, days, sizes of the queue and of the directory, and any number of failures and
\* crashes: the queue holds exactly the records that are neither written nor accounted for, in
\* the order of their capture, and a record that was written stays readable until it is deleted
\* on purpose (conversation.go).
THEOREM RetentionIsSound == ConvSpec => []RetentionSound
<1>1. ConvInv => RetentionSound
  <2> SUFFICES ASSUME ConvInv PROVE RetentionSound
    OBVIOUS
  <2> DEFINE q == convWriter.batch \o pending
  <2>1. /\ ToSet(convWriter.batch) \cup ToSet(pending) = Captured
        /\ Ascending(convWriter.batch) /\ Ascending(pending)
        /\ \A x \in ToSet(convWriter.batch), y \in ToSet(pending) : x < y
    BY DEF ConvInv, QueueParts
  <2>2. Ascending(q) /\ ToSet(q) = Captured
    BY <2>1, Numbers, Joined
  <2>3. QueueExact
    BY <2>2 DEF QueueExact, Ascending, Captured
  <2> QED
    BY <2>3 DEF RetentionSound, ConvInv
<1> QED
  BY <1>1, ConvStarts, ConvStep, PTL DEF ConvSpec

-----------------------------------------------------------------------------
(***************************************************************************)
(* The error log (ErrorLog) for any entries, classes, capacity and limits. *)
(***************************************************************************)

RawEntry == [id : LogEntries, redacted : {FALSE}]
CleanEntry == [id : LogEntries, redacted : {TRUE}]
RawQueue == Seq(RawEntry)
CleanRows == Seq(CleanEntry)
WriterStates == [phase : {"none", "run", "drain", "ended"}, batch : CleanRows, stop : BOOLEAN]
Enqueuers == [pc : {"new", "direct", "sending", "accepted", "refused"}, ch : Nat]

LogTypeOK ==
  /\ channels \in Seq(RawQueue) /\ channels # <<>>
  /\ writer \in WriterStates
  /\ enqueuer \in [LogEntries -> Enqueuers]
  /\ \A e \in LogEntries : enqueuer[e].pc = "sending" => enqueuer[e].ch \in 1..Len(channels)
  /\ rows \in CleanRows
  /\ flushQueue \in 0..Len(channels)

\* Where an entry can be that was handed over: settled, in a channel, or in the batch.
Settled == Stored \cup deleted
Queued == UNION {Ids(channels[c]) : c \in 1..Len(channels)}
Known == Settled \cup Queued \cup Ids(writer.batch)

\* A writer that does not run holds nothing, and what was accepted is somewhere.
IdleWriterEmpty == ~errorLogWriterAlive => writer.batch = <<>>
AcceptedKnown == Accepted \subseteq Known

\* While the hook waits no channel is made; once it has waited for the writer, an entry of
\* before the stop is in no writer and in no channel younger than the one it captured.
InChannels(n) == UNION {Ids(channels[c]) : c \in 1..n}
EarlyOutOfWriter ==
  /\ early \subseteq Accepted
  /\ flusher = "wait" => shutting /\ flushQueue = Len(channels)
  /\ flusher = "drain" =>
       /\ flushQueue > 0 /\ (flushQueue = Len(channels) => writer.phase = "ended")
       /\ early \subseteq Settled \cup InChannels(flushQueue)
  /\ flusher = "done" => early \subseteq Settled \cup StrandedByPanic

LogInv == LogTypeOK /\ IdleWriterEmpty /\ AcceptedKnown /\ EarlyOutOfWriter

\* The part at some places holds what is there, and nothing else.
LEMMA AtPlacesFacts ==
  ASSUME NEW S, NEW xs \in Seq(S), NEW P \in SUBSET (1..Len(xs))
  PROVE  /\ AtPlaces(xs, P) \in Seq(S)
         /\ \A i \in P : \E k \in 1..Len(AtPlaces(xs, P)) : AtPlaces(xs, P)[k] = xs[i]
<1> DEFINE Upto(i) == {j \in P : j <= i}
           n == Cardinality(P)
           f == [i \in P |-> Cardinality(Upto(i))]
           At(k) == CHOOSE i \in P : Cardinality(Upto(i)) = k
<1>1. Len(xs) \in Nat /\ P \subseteq Nat /\ IsFiniteSet(P) /\ n \in Nat
  <2>1. Len(xs) \in Nat /\ 1 \in Int /\ Len(xs) \in Int
    OBVIOUS
  <2>2. IsFiniteSet(1..Len(xs))
    BY <2>1, FS_Interval
  <2>3. IsFiniteSet(P)
    BY <2>2, FS_Subset
  <2>4. n \in Nat
    BY <2>3, FS_CardinalityType
  <2> HIDE DEF n
  <2> QED BY <2>1, <2>3, <2>4
<1>2. ASSUME NEW i \in P
      PROVE  IsFiniteSet(Upto(i)) /\ Cardinality(Upto(i)) \in 1..n /\ Cardinality(Upto(i)) \in Nat
  <2>1. Upto(i) \subseteq P /\ i \in Upto(i)
    BY <1>1
  <2> HIDE DEF Upto
  <2>2. IsFiniteSet(Upto(i)) /\ Cardinality(Upto(i)) <= n /\ Cardinality(Upto(i)) \in Nat
    BY <1>1, <2>1, FS_Subset, FS_CardinalityType
  <2>3. Cardinality(Upto(i)) # 0
    BY <2>1, <2>2, FS_EmptySet
  <2> QED BY <1>1, <2>2, <2>3
<1>3. ASSUME NEW i \in P, NEW k \in P, i < k PROVE Cardinality(Upto(i)) < Cardinality(Upto(k))
  <2>1. Upto(i) \subseteq Upto(k) /\ k \in Upto(k) /\ k \notin Upto(i)
    <3>1. i \in Nat /\ k \in Nat
      BY <1>1
    <3>2. \A j \in P : j <= i => j <= k
      BY <1>1, <1>3, <3>1
    <3>3. Upto(i) \subseteq Upto(k)
      BY <3>2
    <3>4. k \in Upto(k) /\ k \notin Upto(i)
      BY <1>3, <3>1
    <3> QED BY <3>3, <3>4
  <2>2. IsFiniteSet(Upto(k)) /\ Cardinality(Upto(i)) \in Nat /\ Cardinality(Upto(k)) \in Nat
    BY <1>1, <1>2
  <2> HIDE DEF Upto
  <2>3. Cardinality(Upto(i)) <= Cardinality(Upto(k)) /\ Cardinality(Upto(i)) # Cardinality(Upto(k))
    BY <2>1, <2>2, FS_Subset
  <2> QED BY <2>2, <2>3
<1>4. ASSUME NEW i \in P, NEW k \in P, Cardinality(Upto(i)) = Cardinality(Upto(k)) PROVE i = k
  <2>1. Cardinality(Upto(i)) \in Nat /\ Cardinality(Upto(k)) \in Nat /\ i \in Nat /\ k \in Nat
    BY <1>1, <1>2
  <2> HIDE DEF Upto
  <2>2. ~(i < k) /\ ~(k < i)
    BY <1>3, <1>4, <2>1
  <2> QED BY <2>1, <2>2
<1>5. f \in Injection(P, 1..n)
  <2>1. f \in [P -> 1..n]
    BY <1>2
  <2>2. \A i, k \in P : f[i] = f[k] => i = k
    BY <1>4
  <2> HIDE DEF f, n
  <2> QED BY <2>1, <2>2, Fun_IsInj
<1>6. IsFiniteSet(1..n) /\ Cardinality(1..n) = n
  <2>1. 1 \in Int /\ n \in Int /\ n \in Nat
    BY <1>1
  <2> HIDE DEF n
  <2>2. IsFiniteSet(1..n) /\ Cardinality(1..n) = IF 1 > n THEN 0 ELSE n - 1 + 1
    BY <2>1, FS_Interval
  <2> QED BY <2>1, <2>2
<1>7. f \in Surjection(P, 1..n)
  <2> HIDE DEF f
  <2> QED BY <1>5, <1>6, FS_Injection
<1>8. ASSUME NEW k \in 1..n PROVE At(k) \in P /\ Cardinality(Upto(At(k))) = k
  <2>1. \E i \in P : f[i] = k
    <3> HIDE DEF f, n
    <3> QED BY <1>7 DEF Surjection
  <2>2. \E i \in P : Cardinality(Upto(i)) = k
    BY <2>1
  <2> HIDE DEF Upto
  <2> QED BY <2>2
<1>9. AtPlaces(xs, P) = [k \in 1..n |-> xs[At(k)]]
  BY DEF AtPlaces
<1> HIDE DEF At, n
<1>10. ASSUME NEW k \in 1..n PROVE xs[At(k)] \in S
  <2> DEFINE i == At(k)
  <2>1. i \in 1..Len(xs)
    BY <1>8
  <2> HIDE DEF i
  <2>2. xs[i] \in S
    BY <2>1
  <2> QED BY <2>2 DEF i
<1>11. AtPlaces(xs, P) \in Seq(S) /\ Len(AtPlaces(xs, P)) = n
  <2> DEFINE g(k) == xs[At(k)]
  <2>1. \A k \in 1..n : g(k) \in S
    BY <1>10
  <2> HIDE DEF g
  <2>2. [k \in 1..n |-> g(k)] \in Seq(S) /\ Len([k \in 1..n |-> g(k)]) = n
    BY <2>1, <1>1 DEF n
  <2> QED BY <2>2, <1>9 DEF g
<1>12. ASSUME NEW i \in P PROVE \E k \in 1..n : AtPlaces(xs, P)[k] = xs[i]
  <2> DEFINE k == Cardinality(Upto(i))
  <2>1. k \in 1..n /\ At(k) \in P /\ Cardinality(Upto(At(k))) = k
    BY <1>2, <1>8
  <2>2. At(k) = i
    BY <1>4, <2>1
  <2>3. AtPlaces(xs, P)[k] = xs[i]
    <3> HIDE DEF k
    <3> QED BY <1>9, <2>1, <2>2
  <2> HIDE DEF k
  <2> QED BY <2>1, <2>3
<1> QED BY <1>11, <1>12

LEMMA WithoutFacts ==
  ASSUME NEW xs \in CleanRows, NEW ids
  PROVE  RowsWithout(xs, ids) \in CleanRows /\ Ids(xs) \subseteq Ids(RowsWithout(xs, ids)) \cup ids
<1> DEFINE P == {i \in 1..Len(xs) : xs[i].id \notin ids}
           ys == AtPlaces(xs, P)
<1>1. ys \in CleanRows /\ \A i \in P : \E k \in 1..Len(ys) : ys[k] = xs[i]
  <2>1. P \in SUBSET (1..Len(xs))
    OBVIOUS
  <2> HIDE DEF P
  <2> QED BY <2>1, AtPlacesFacts DEF CleanRows
<1>2. RowsWithout(xs, ids) = ys
  BY DEF RowsWithout
<1> HIDE DEF ys
<1>3. ASSUME NEW i \in 1..Len(xs), xs[i].id \notin ids PROVE xs[i].id \in Ids(ys)
  <2>1. i \in P
    BY <1>3
  <2>2. PICK k \in 1..Len(ys) : ys[k] = xs[i]
    BY <1>1, <2>1
  <2> QED BY <2>2 DEF Ids
<1>4. Ids(xs) \subseteq Ids(ys) \cup ids
  BY <1>3 DEF Ids
<1> QED BY <1>1, <1>2, <1>4

LEMMA IdsEmpty == Ids(<<>>) = {}
BY DEF Ids

LEMMA IdsAppend ==
  ASSUME NEW S, NEW s \in Seq(S), NEW x \in S
  PROVE  Ids(Append(s, x)) = Ids(s) \cup {x.id}
<1> DEFINE t == Append(s, x)
<1>1. /\ Len(s) \in Nat /\ Len(t) = Len(s) + 1 /\ t[Len(s) + 1] = x
      /\ \A i \in 1..Len(s) : t[i] = s[i]
  OBVIOUS
<1> HIDE DEF t
<1>2. ASSUME NEW i \in 1..Len(t) PROVE t[i].id \in Ids(s) \cup {x.id}
  <2>1. i \in 1..Len(s) \/ i = Len(s) + 1
    BY <1>1
  <2> QED BY <1>1, <2>1 DEF Ids
<1>3. Len(s) + 1 \in 1..Len(t) /\ \A i \in 1..Len(s) : i \in 1..Len(t)
  BY <1>1
<1>4. x.id \in Ids(t)
  BY <1>1, <1>3 DEF Ids
<1>5. Ids(s) \subseteq Ids(t)
  BY <1>1, <1>3 DEF Ids
<1>6. Ids(t) \subseteq Ids(s) \cup {x.id}
  BY <1>2 DEF Ids
<1> QED BY <1>4, <1>5, <1>6 DEF t

LEMMA IdsConcat ==
  ASSUME NEW S, NEW s \in Seq(S), NEW t \in Seq(S)
  PROVE  Ids(s) \cup Ids(t) \subseteq Ids(s \o t)
<1> DEFINE u == s \o t
<1>1. /\ Len(s) \in Nat /\ Len(t) \in Nat /\ Len(u) = Len(s) + Len(t)
      /\ \A i \in 1..(Len(s) + Len(t)) : u[i] = IF i <= Len(s) THEN s[i] ELSE t[i - Len(s)]
  BY ConcatProperties
<1> HIDE DEF u
<1>2. ASSUME NEW i \in 1..Len(s) PROVE s[i].id \in Ids(u)
  <2>1. i \in 1..Len(u) /\ u[i] = s[i]
    BY <1>1
  <2> QED BY <2>1 DEF Ids
<1>3. ASSUME NEW i \in 1..Len(t) PROVE t[i].id \in Ids(u)
  <2> DEFINE k == Len(s) + i
  <2>1. k \in 1..Len(u) /\ ~(k <= Len(s)) /\ k - Len(s) = i /\ k \in 1..(Len(s) + Len(t))
    BY <1>1
  <2> HIDE DEF k
  <2>2. u[k] = t[i]
    BY <1>1, <2>1
  <2> QED BY <2>1, <2>2 DEF Ids
<1>4. Ids(s) \subseteq Ids(u) /\ Ids(t) \subseteq Ids(u)
  BY <1>2, <1>3 DEF Ids
<1> QED BY <1>4 DEF u

LEMMA IdsHeadTail ==
  ASSUME NEW S, NEW s \in Seq(S), s # <<>>
  PROVE  Ids(s) \subseteq {Head(s).id} \cup Ids(Tail(s))
<1> DEFINE t == Tail(s)
<1>1. Len(s) \in Nat /\ Len(t) = Len(s) - 1 /\ \A i \in 1..Len(t) : t[i] = s[i + 1]
  BY HeadTailProperties
<1>2. Head(s) = s[1]
  OBVIOUS
<1> HIDE DEF t
<1>3. ASSUME NEW i \in 1..Len(s), i # 1 PROVE s[i].id \in Ids(t)
  <2> DEFINE k == i - 1
  <2>1. k \in 1..Len(t) /\ k + 1 = i
    BY <1>1, <1>3
  <2> HIDE DEF k
  <2>2. t[k] = s[i]
    BY <1>1, <2>1
  <2> QED BY <2>1, <2>2 DEF Ids
<1>4. Ids(s) \subseteq {s[1].id} \cup Ids(t)
  BY <1>3 DEF Ids
<1> QED BY <1>2, <1>4 DEF t

-----------------------------------------------------------------------------
(* The steps of the log *)

\* What a step outside the hook must show.
LEMMA LogCombine ==
  ASSUME LogInv, LogTypeOK', IdleWriterEmpty',
         Settled \subseteq Settled', Len(channels) <= Len(channels'),
         \A c \in 1..(Len(channels) - 1) : Ids(channels[c]) \subseteq Ids(channels'[c]),
         Known \subseteq Known', Accepted \subseteq Accepted', Accepted' \subseteq Known',
         UNCHANGED <<early, flusher, flushQueue, shutting>>,
         shutting => Len(channels') = Len(channels),
         writer.phase = "ended" =>
           /\ Ids(Channel) \subseteq Ids(channels'[Len(channels)])
           /\ writer'.phase = "ended" \/ Len(channels) < Len(channels')
  PROVE  LogInv'
<1> DEFINE n == Len(channels)
           m == Len(channels')
           k == flushQueue
<1>1. n \in Nat /\ m \in Nat /\ n > 0 /\ n <= m /\ k \in 0..n /\ k' = k
  BY DEF LogInv, LogTypeOK
<1>2. \A c \in 1..(n - 1) : Ids(channels[c]) \subseteq Ids(channels'[c])
  OBVIOUS
<1>3. writer.phase = "ended" => Ids(channels[n]) \subseteq Ids(channels'[n])
  BY DEF Channel
<1>4. writer.phase = "ended" => writer'.phase = "ended" \/ n < m
  OBVIOUS
<1>5. early' \subseteq Accepted' /\ (flusher' = "wait" => shutting' /\ k' = m)
  BY <1>1 DEF LogInv, EarlyOutOfWriter
<1>6. ASSUME flusher' = "drain"
      PROVE  /\ k' > 0 /\ (k' = m => writer'.phase = "ended")
             /\ early' \subseteq Settled' \cup InChannels(k)'
  <2>1. /\ k > 0 /\ (k = n => writer.phase = "ended")
        /\ early \subseteq Settled \cup InChannels(k)
    BY <1>6 DEF LogInv, EarlyOutOfWriter
  <2>2. k = m => k = n /\ ~(n < m)
    BY <1>1
  <2>3. ASSUME NEW c \in 1..k PROVE Ids(channels[c]) \subseteq InChannels(k)'
    <3>1. Ids(channels[c]) \subseteq Ids(channels'[c])
      <4>1. CASE c = n
        <5>1. k = n
          BY <1>1, <4>1
        <5> QED BY <1>3, <2>1, <4>1, <5>1
      <4>2. CASE c # n
        <5>1. c \in 1..(n - 1)
          BY <1>1, <4>2
        <5> QED BY <1>2, <5>1
      <4> QED BY <4>1, <4>2
    <3> QED BY <1>1, <3>1 DEF InChannels
  <2>4. InChannels(k) \subseteq InChannels(k)'
    <3> HIDE DEF k
    <3> QED BY <2>3 DEF InChannels
  <2> HIDE DEF k, n, m
  <2> QED BY <1>1, <1>4, <2>1, <2>2, <2>4
<1>7. StrandedByPanic \subseteq StrandedByPanic'
  <2>1. ASSUME NEW c \in 1..(k - 1) PROVE c \in 1..(n - 1)
    BY <1>1
  <2> QED BY <1>1, <1>2, <2>1 DEF StrandedByPanic
<1>8. flusher' = "done" => early' \subseteq Settled' \cup StrandedByPanic'
  BY <1>7 DEF LogInv, EarlyOutOfWriter
<1>9. EarlyOutOfWriter'
  BY <1>5, <1>6, <1>8 DEF EarlyOutOfWriter
<1> QED BY <1>9 DEF LogInv, AcceptedKnown

\* The channels when one of them is replaced.
LEMMA ChannelReplaced ==
  ASSUME LogTypeOK, NEW c \in 1..Len(channels), NEW q \in RawQueue,
         channels' = [channels EXCEPT ![c] = q]
  PROVE  /\ channels' \in Seq(RawQueue) /\ channels' # <<>> /\ Len(channels') = Len(channels)
         /\ channels'[c] = q /\ \A d \in 1..Len(channels) : d # c => channels'[d] = channels[d]
<1>1. channels \in Seq(RawQueue) /\ channels # <<>> /\ Len(channels) \in Nat
  BY DEF LogTypeOK
<1>2. /\ channels' \in Seq(RawQueue) /\ Len(channels') = Len(channels)
      /\ \A d \in 1..Len(channels) : channels'[d] = IF d = c THEN q ELSE channels[d]
  BY <1>1, ExceptSeq
<1> QED BY <1>1, <1>2

\* The entries received and cleaned are those in the channel.
LEMMA SanitizedEntry ==
  ASSUME NEW x \in RawEntry
  PROVE  sanitizeErrorLog(x) \in CleanEntry /\ sanitizeErrorLog(x).id = x.id
BY DEF sanitizeErrorLog, redactRequestBody, RawEntry, CleanEntry

LEMMA TruncatedEntry ==
  ASSUME NEW e \in LogEntries
  PROVE  truncateErrorLogForEnqueue(e) \in RawEntry /\ truncateErrorLogForEnqueue(e).id = e
BY DEF truncateErrorLogForEnqueue, RawEntry

LEMMA LogTypes ==
  ASSUME LogInv
  PROVE  /\ Len(channels) \in Nat /\ Len(channels) \in 1..Len(channels)
         /\ \A c \in 1..Len(channels) : channels[c] \in RawQueue
         /\ Channel \in RawQueue /\ writer.batch \in CleanRows /\ rows \in CleanRows
         /\ writer \in WriterStates
<1>1. channels \in Seq(RawQueue) /\ channels # <<>>
  BY DEF LogInv, LogTypeOK
<1>2. Len(channels) \in Nat /\ Len(channels) # 0
  BY <1>1
<1>3. \A c \in 1..Len(channels) : channels[c] \in RawQueue
  BY <1>1
<1>4. writer \in WriterStates /\ rows \in CleanRows
  BY DEF LogInv, LogTypeOK
<1>5. writer.batch \in CleanRows
  BY <1>4 DEF WriterStates
<1>6. Len(channels) \in 1..Len(channels)
  BY <1>2
<1>7. Channel \in RawQueue
  BY <1>3, <1>6 DEF Channel
<1> QED BY <1>2, <1>3, <1>4, <1>5, <1>6, <1>7

LEMMA StoredIsIds == Stored = Ids(rows)
BY DEF Stored, Ids

\* A step that leaves channels and writer alone, and what an enqueuer may be changed to.
LEMMA EnqueuerSet ==
  ASSUME LogTypeOK, NEW e \in LogEntries, NEW x \in Enqueuers,
         enqueuer' = [enqueuer EXCEPT ![e] = x]
  PROVE  /\ enqueuer' \in [LogEntries -> Enqueuers] /\ enqueuer'[e] = x
         /\ \A d \in LogEntries : d # e => enqueuer'[d] = enqueuer[d]
BY DEF LogTypeOK

LEMMA EnqueuePcSet ==
  ASSUME LogTypeOK, NEW e \in LogEntries, NEW p \in {"direct", "accepted", "refused"},
         enqueuer' = [enqueuer EXCEPT ![e].pc = p]
  PROVE  /\ enqueuer' \in [LogEntries -> Enqueuers] /\ enqueuer'[e].pc = p
         /\ \A d \in LogEntries : d # e => enqueuer'[d] = enqueuer[d]
<1> DEFINE old == enqueuer[e]
           x == [old EXCEPT !.pc = p]
<1>1. old \in Enqueuers /\ enqueuer' = [enqueuer EXCEPT ![e] = x]
  BY DEF LogTypeOK
<1> HIDE DEF old
<1>2. x \in Enqueuers /\ x.pc = p
  BY <1>1 DEF Enqueuers
<1> HIDE DEF x
<1> QED BY <1>1, <1>2, EnqueuerSet

LEMMA TakeKeeps ==
  ASSUME LogInv, NEW e \in LogEntries, EnqueueTake(e)
  PROVE  LogInv'
<1> USE LogTypes
<1>0. /\ LogTypeOK /\ rows' = rows /\ deleted' = deleted
      /\ UNCHANGED <<early, flusher, flushQueue, shutting>>
  BY DEF LogInv, EnqueueTake
<1>1. CASE shutting
  <2>1. enqueuer' = [enqueuer EXCEPT ![e].pc = "direct"] /\ UNCHANGED <<channels, writer>>
        /\ enqueuer[e].pc = "new"
    BY <1>1 DEF EnqueueTake
  <2>2. /\ enqueuer' \in [LogEntries -> Enqueuers] /\ enqueuer'[e].pc = "direct"
        /\ \A d \in LogEntries : d # e => enqueuer'[d] = enqueuer[d]
    BY <1>0, <2>1, EnqueuePcSet
  <2>3. Accepted' = Accepted
    BY <2>1, <2>2 DEF Accepted
  <2>4. LogTypeOK'
    BY <1>0, <2>1, <2>2 DEF LogTypeOK
  <2>5. Settled' = Settled /\ Known' = Known /\ IdleWriterEmpty'
    BY <1>0, <2>1 DEF Settled, Stored, Known, Queued, LogInv, IdleWriterEmpty, errorLogWriterAlive
  <2>6. Accepted' \subseteq Known' /\ Ids(Channel) \subseteq Ids(channels'[Len(channels)])
    BY <2>1, <2>3, <2>5 DEF LogInv, AcceptedKnown, Channel
  <2> QED BY <1>0, <2>1, <2>3, <2>4, <2>5, <2>6, LogCombine
<1>2. CASE ~shutting
  <2> DEFINE n == Len(channels)
             x == [pc |-> "sending", ch |-> Len(channels')]
  <2>1. /\ channels' = IF writer.phase = "ended" THEN Append(channels, <<>>) ELSE channels
        /\ writer' = IF errorLogWriterAlive THEN writer ELSE [NoWriter EXCEPT !.phase = "run"]
        /\ enqueuer' = [enqueuer EXCEPT ![e] = x] /\ enqueuer[e].pc = "new"
    BY <1>2 DEF EnqueueTake
  <2>2. <<>> \in RawQueue /\ <<>> \in CleanRows
    BY DEF RawQueue, CleanRows
  <2>3. channels \in Seq(RawQueue) /\ channels # <<>>
    BY <1>0 DEF LogTypeOK
  <2>4. /\ channels' \in Seq(RawQueue) /\ channels' # <<>> /\ n \in Nat /\ Len(channels') \in Nat
        /\ n <= Len(channels') /\ \A c \in 1..n : channels'[c] = channels[c]
        /\ writer.phase = "ended" => n < Len(channels')
    BY <2>1, <2>2, <2>3
  <2>5. x \in Enqueuers
    BY <2>4 DEF Enqueuers
  <2>6. /\ enqueuer' \in [LogEntries -> Enqueuers] /\ enqueuer'[e] = x
        /\ \A d \in LogEntries : d # e => enqueuer'[d] = enqueuer[d]
    <3> HIDE DEF x
    <3> QED BY <1>0, <2>1, <2>5, EnqueuerSet
  <2>7. Accepted' = Accepted
    BY <2>1, <2>6 DEF Accepted
  <2>8. writer' \in WriterStates /\ Ids(writer'.batch) = Ids(writer.batch) /\ IdleWriterEmpty'
    <3>1. CASE errorLogWriterAlive
      <4>1. writer' = writer
        BY <2>1, <3>1
      <4> QED BY <4>1 DEF LogInv, IdleWriterEmpty, errorLogWriterAlive
    <3>2. CASE ~errorLogWriterAlive
      <4>1. writer' = [phase |-> "run", batch |-> <<>>, stop |-> FALSE]
        BY <2>1, <3>2 DEF NoWriter
      <4>2. writer.batch = <<>>
        BY <3>2 DEF LogInv, IdleWriterEmpty
      <4>3. writer' \in WriterStates
        BY <4>1, <2>2 DEF WriterStates
      <4> QED BY <4>1, <4>2, <4>3 DEF IdleWriterEmpty, errorLogWriterAlive
    <3> QED BY <3>1, <3>2
  <2>9. LogTypeOK'
    <3>1. ASSUME NEW d \in LogEntries, enqueuer'[d].pc = "sending"
          PROVE  enqueuer'[d].ch \in 1..Len(channels')
      <4>1. CASE d = e
        <5>1. Len(channels') \in 1..Len(channels')
          BY <2>4
        <5> QED BY <4>1, <5>1, <2>6
      <4>2. CASE d # e
        <5>1. enqueuer[d].ch \in 1..n
          BY <4>2, <3>1, <2>6, <1>0 DEF LogTypeOK
        <5> QED BY <5>1, <4>2, <2>4, <2>6
      <4> QED BY <4>1, <4>2
    <3>2. flushQueue' \in 0..Len(channels')
      BY <1>0, <2>4 DEF LogTypeOK
    <3> QED BY <3>1, <3>2, <1>0, <2>4, <2>6, <2>8 DEF LogTypeOK
  <2>10. Settled' = Settled
    BY <1>0 DEF Settled, Stored
  <2>11. Queued \subseteq Queued'
    <3>1. ASSUME NEW c \in 1..n PROVE c \in 1..Len(channels') /\ Ids(channels[c]) = Ids(channels'[c])
      BY <2>4
    <3> QED BY <3>1 DEF Queued
  <2>12. Known \subseteq Known' /\ Accepted' \subseteq Known'
    BY <2>7, <2>8, <2>10, <2>11 DEF Known, LogInv, AcceptedKnown
  <2>13. \A c \in 1..(n - 1) : Ids(channels[c]) \subseteq Ids(channels'[c])
    BY <2>4
  <2>14. writer.phase = "ended" => n < Len(channels') /\ Ids(Channel) \subseteq Ids(channels'[n])
    BY <2>4 DEF Channel
  <2> QED BY <1>0, <1>2, <2>4, <2>7, <2>8, <2>9, <2>10, <2>12, <2>13, <2>14, LogCombine
<1> QED BY <1>1, <1>2

LEMMA SendKeeps ==
  ASSUME LogInv, NEW e \in LogEntries, EnqueueSend(e)
  PROVE  LogInv'
<1> USE LogTypes
<1> DEFINE c == enqueuer[e].ch
           n == Len(channels)
<1>0. /\ LogTypeOK /\ rows' = rows /\ deleted' = deleted
      /\ UNCHANGED <<early, flusher, flushQueue, shutting>>
      /\ writer' = writer /\ enqueuer[e].pc = "sending"
  BY DEF LogInv, EnqueueSend
<1>1. c \in 1..n
  BY <1>0 DEF LogTypeOK
<1>2. Settled' = Settled /\ IdleWriterEmpty' /\ Ids(writer'.batch) = Ids(writer.batch)
  BY <1>0 DEF Settled, Stored, LogInv, IdleWriterEmpty, errorLogWriterAlive
<1>3. CASE enqueuer' = [enqueuer EXCEPT ![e].pc = "refused"] /\ channels' = channels
  <2>2. /\ enqueuer' \in [LogEntries -> Enqueuers] /\ enqueuer'[e].pc = "refused"
        /\ \A d \in LogEntries : d # e => enqueuer'[d] = enqueuer[d]
    BY <1>0, <1>3, EnqueuePcSet
  <2>3. Accepted' = Accepted
    BY <1>0, <2>2 DEF Accepted
  <2>4. LogTypeOK'
    BY <1>0, <1>3, <2>2 DEF LogTypeOK
  <2>5. Known' = Known /\ Ids(Channel) \subseteq Ids(channels'[Len(channels)])
    BY <1>2, <1>3 DEF Known, Queued, Channel
  <2>6. Accepted' \subseteq Known'
    BY <2>3, <2>5 DEF LogInv, AcceptedKnown
  <2> QED BY <1>0, <1>2, <1>3, <2>3, <2>4, <2>5, <2>6, LogCombine
<1>4. CASE /\ channels' = [channels EXCEPT ![c] = Append(channels[c], truncateErrorLogForEnqueue(e))]
           /\ enqueuer' = [enqueuer EXCEPT ![e].pc = "accepted"]
  <2> DEFINE x == truncateErrorLogForEnqueue(e)
             q == Append(channels[c], x)
  <2>1. x \in RawEntry /\ x.id = e /\ channels[c] \in Seq(RawEntry)
    BY <1>1, TruncatedEntry DEF RawQueue
  <2> HIDE DEF x
  <2>2. q \in RawQueue /\ Ids(q) = Ids(channels[c]) \cup {e}
    BY <2>1, IdsAppend DEF RawQueue
  <2>3. channels' = [channels EXCEPT ![c] = q]
    BY <1>4 DEF x
  <2> HIDE DEF q, c
  <2>4. /\ channels' \in Seq(RawQueue) /\ channels' # <<>> /\ Len(channels') = n
        /\ channels'[c] = q /\ \A d \in 1..n : d # c => channels'[d] = channels[d]
    BY <1>0, <1>1, <2>2, <2>3, ChannelReplaced
  <2>5. /\ enqueuer' \in [LogEntries -> Enqueuers] /\ enqueuer'[e].pc = "accepted"
        /\ \A d \in LogEntries : d # e => enqueuer'[d] = enqueuer[d]
    BY <1>0, <1>4, EnqueuePcSet
  <2>6. Accepted' = Accepted \cup {e}
    BY <2>5 DEF Accepted
  <2>7. LogTypeOK'
    <3>1. \A d \in LogEntries : enqueuer'[d].pc = "sending" => enqueuer'[d].ch \in 1..Len(channels')
      BY <1>0, <2>4, <2>5 DEF LogTypeOK
    <3>2. flushQueue' \in 0..Len(channels')
      BY <1>0, <2>4 DEF LogTypeOK
    <3> QED BY <3>1, <3>2, <1>0, <2>4, <2>5 DEF LogTypeOK
  <2>8. \A d \in 1..n : Ids(channels[d]) \subseteq Ids(channels'[d])
    <3> SUFFICES ASSUME NEW d \in 1..n PROVE Ids(channels[d]) \subseteq Ids(channels'[d])
      OBVIOUS
    <3>1. CASE d = c
      BY <3>1, <2>2, <2>4
    <3>2. CASE d # c
      BY <3>2, <2>4
    <3> QED BY <3>1, <3>2
  <2>9. Queued \subseteq Queued' /\ e \in Queued'
    BY <1>1, <2>2, <2>4, <2>8 DEF Queued
  <2>10. Known \subseteq Known' /\ Accepted' \subseteq Known'
    BY <1>2, <2>6, <2>9 DEF Known, LogInv, AcceptedKnown
  <2>11. \A d \in 1..(n - 1) : Ids(channels[d]) \subseteq Ids(channels'[d])
    BY <2>8
  <2>12. /\ Settled \subseteq Settled' /\ n <= Len(channels') /\ Accepted \subseteq Accepted'
         /\ Ids(Channel) \subseteq Ids(channels'[n])
    BY <1>2, <2>4, <2>6, <2>8 DEF Channel
  <2> QED BY <1>0, <1>2, <2>4, <2>7, <2>10, <2>11, <2>12, LogCombine
<1> QED BY <1>3, <1>4 DEF EnqueueSend

LEMMA BatchInserted ==
  ASSUME LogInv, NEW b \in CleanRows, insertErrorLogBatch(b)
  PROVE  rows' \in CleanRows /\ Settled \cup Ids(b) \subseteq Settled'
<1>1. rows \in CleanRows
  BY LogTypes
<1>2. CASE rows' = rows \o b /\ deleted' = deleted
  <2>1. rows' \in CleanRows
    BY <1>1, <1>2, ConcatProperties DEF CleanRows
  <2>2. Ids(rows) \cup Ids(b) \subseteq Ids(rows')
    BY <1>1, <1>2, IdsConcat DEF CleanRows
  <2> QED BY <1>2, <2>1, <2>2 DEF Settled, Stored, Ids
<1>3. CASE deleted' = deleted \cup Ids(b) /\ rows' = rows
  BY <1>1, <1>3 DEF Settled, Stored
<1> QED BY <1>2, <1>3 DEF insertErrorLogBatch

\* A step of the writer, or of the retention, that leaves the enqueuers and the hook alone.
LEMMA WriterCombine ==
  ASSUME LogInv, enqueuer' = enqueuer, UNCHANGED <<early, flusher, flushQueue, shutting>>,
         channels' \in Seq(RawQueue), channels' # <<>>, Len(channels') = Len(channels),
         \A c \in 1..Len(channels) : c # Len(channels) => channels'[c] = channels[c],
         writer' \in WriterStates, rows' \in CleanRows, IdleWriterEmpty',
         Settled \subseteq Settled',
         Ids(writer.batch) \subseteq Settled' \cup Ids(writer'.batch),
         Ids(Channel) \subseteq Ids(channels'[Len(channels)]) \cup Settled' \cup Ids(writer'.batch),
         writer.phase = "ended" =>
           writer'.phase = "ended" /\ Ids(Channel) \subseteq Ids(channels'[Len(channels)])
  PROVE  LogInv'
<1> USE LogTypes
<1>1. LogTypeOK'
  BY DEF LogInv, LogTypeOK
<1>2. Queued \subseteq Known'
  <2> DEFINE n == Len(channels)
  <2>1. \A c \in 1..n : Ids(channels'[c]) \subseteq Queued'
    BY DEF Queued
  <2>2. ASSUME NEW c \in 1..n PROVE Ids(channels[c]) \subseteq Known'
    <3>1. CASE c = n
      BY <2>1, <3>1 DEF Channel, Known
    <3>2. CASE c # n
      BY <2>1, <3>2 DEF Known
    <3> QED BY <3>1, <3>2
  <2> QED BY <2>2 DEF Queued
<1>3. Known \subseteq Known'
  BY <1>2 DEF Known
<1>4. Accepted' = Accepted
  BY DEF Accepted
<1>5. Accepted' \subseteq Known'
  BY <1>3, <1>4 DEF LogInv, AcceptedKnown
<1>6. \A c \in 1..(Len(channels) - 1) : Ids(channels[c]) \subseteq Ids(channels'[c])
  <2> SUFFICES ASSUME NEW c \in 1..(Len(channels) - 1)
               PROVE  channels'[c] = channels[c]
    OBVIOUS
  <2>1. Len(channels) \in Nat
    OBVIOUS
  <2>2. c \in 1..Len(channels) /\ c # Len(channels)
    BY <2>1
  <2> QED BY <2>2
<1>7. Len(channels) <= Len(channels')
  OBVIOUS
<1> QED BY <1>1, <1>3, <1>4, <1>5, <1>6, <1>7, LogCombine

LEMMA CreateKeeps ==
  ASSUME LogInv, NEW e \in LogEntries, ErrorLogCreate(e)
  PROVE  LogInv'
<1> USE LogTypes
<1>0. /\ LogTypeOK /\ channels' = channels /\ deleted' = deleted
      /\ UNCHANGED <<early, flusher, flushQueue, shutting>> /\ writer' = writer /\ enqueuer[e].pc = "direct"
  BY DEF LogInv, ErrorLogCreate
<1>1. /\ IdleWriterEmpty' /\ Ids(writer'.batch) = Ids(writer.batch) /\ Queued' = Queued
      /\ Ids(Channel) \subseteq Ids(channels'[Len(channels)])
  BY <1>0 DEF LogInv, IdleWriterEmpty, errorLogWriterAlive, Queued, Channel
<1>2. CASE rows' = rows /\ enqueuer' = [enqueuer EXCEPT ![e].pc = "refused"]
  <2>1. /\ enqueuer' \in [LogEntries -> Enqueuers] /\ enqueuer'[e].pc = "refused"
        /\ \A d \in LogEntries : d # e => enqueuer'[d] = enqueuer[d]
    BY <1>0, <1>2, EnqueuePcSet
  <2>2. Accepted' = Accepted
    BY <1>0, <2>1 DEF Accepted
  <2>3. LogTypeOK'
    BY <1>0, <1>2, <2>1 DEF LogTypeOK
  <2>4. Settled' = Settled /\ Known' = Known
    BY <1>0, <1>1, <1>2 DEF Settled, Stored, Known
  <2>5. Accepted' \subseteq Known'
    BY <2>2, <2>4 DEF LogInv, AcceptedKnown
  <2> QED BY <1>0, <1>1, <2>2, <2>3, <2>4, <2>5, LogCombine
<1>3. CASE /\ rows' = Append(rows, sanitizeErrorLog(truncateErrorLogForEnqueue(e)))
           /\ enqueuer' = [enqueuer EXCEPT ![e].pc = "accepted"]
  <2> DEFINE x == sanitizeErrorLog(truncateErrorLogForEnqueue(e))
  <2>1. x \in CleanEntry /\ x.id = e
    BY TruncatedEntry, SanitizedEntry
  <2>2. rows' = Append(rows, x) /\ rows \in Seq(CleanEntry)
    BY <1>3 DEF CleanRows
  <2> HIDE DEF x
  <2>3. rows' \in CleanRows /\ Ids(rows') = Ids(rows) \cup {e}
    BY <2>1, <2>2, IdsAppend DEF CleanRows
  <2>4. /\ enqueuer' \in [LogEntries -> Enqueuers] /\ enqueuer'[e].pc = "accepted"
        /\ \A d \in LogEntries : d # e => enqueuer'[d] = enqueuer[d]
    BY <1>0, <1>3, EnqueuePcSet
  <2>5. Accepted' = Accepted \cup {e}
    BY <2>4 DEF Accepted
  <2>6. Settled' = Settled \cup {e}
    BY <1>0, <2>3 DEF Settled, Stored, Ids
  <2>7. LogTypeOK'
    BY <1>0, <2>3, <2>4 DEF LogTypeOK
  <2>8. Known \subseteq Known' /\ Accepted' \subseteq Known' /\ Accepted \subseteq Accepted'
        /\ Settled \subseteq Settled'
    BY <1>1, <2>5, <2>6 DEF Known, LogInv, AcceptedKnown
  <2> QED BY <1>0, <1>1, <2>7, <2>8, LogCombine
<1> QED BY <1>2, <1>3 DEF ErrorLogCreate

\* The last channel gives up its first entry.
LEMMA ChannelTail ==
  ASSUME LogInv, Channel # <<>>, channels' = [channels EXCEPT ![Len(channels)] = Tail(@)]
  PROVE  /\ channels' \in Seq(RawQueue) /\ channels' # <<>> /\ Len(channels') = Len(channels)
         /\ \A c \in 1..Len(channels) : c # Len(channels) => channels'[c] = channels[c]
         /\ Ids(Channel) \subseteq {Head(Channel).id} \cup Ids(channels'[Len(channels)])
         /\ Head(Channel) \in RawEntry
<1> DEFINE q == Tail(Channel)
<1>1. Channel \in Seq(RawEntry) /\ Len(channels) \in 1..Len(channels) /\ LogTypeOK
  BY LogTypes DEF RawQueue, LogInv
<1>2. q \in RawQueue /\ Ids(Channel) \subseteq {Head(Channel).id} \cup Ids(q) /\ Head(Channel) \in RawEntry
  BY <1>1, HeadTailProperties, IdsHeadTail DEF RawQueue
<1>3. channels' = [channels EXCEPT ![Len(channels)] = q]
  BY DEF Channel
<1> HIDE DEF q
<1> QED BY <1>1, <1>2, <1>3, ChannelReplaced

LEMMA WriterTakeKeeps ==
  ASSUME LogInv, writerTake
  PROVE  LogInv'
<1> USE LogTypes
<1> DEFINE x == sanitizeErrorLog(Head(Channel))
           b == Append(writer.batch, x)
<1>0. /\ Channel # <<>> /\ channels' = [channels EXCEPT ![Len(channels)] = Tail(@)]
      /\ writer' = [writer EXCEPT !.batch = b] /\ errorLogWriterAlive
      /\ UNCHANGED <<enqueuer, shutting, flusher, flushQueue, rows, deleted, early>>
  BY DEF writerTake
<1>1. /\ channels' \in Seq(RawQueue) /\ channels' # <<>> /\ Len(channels') = Len(channels)
      /\ \A c \in 1..Len(channels) : c # Len(channels) => channels'[c] = channels[c]
      /\ Ids(Channel) \subseteq {Head(Channel).id} \cup Ids(channels'[Len(channels)])
      /\ Head(Channel) \in RawEntry
  BY <1>0, ChannelTail
<1>2. x \in CleanEntry /\ x.id = Head(Channel).id /\ writer.batch \in Seq(CleanEntry)
  BY <1>1, SanitizedEntry DEF CleanRows
<1> HIDE DEF x
<1>3. b \in CleanRows /\ Ids(b) = Ids(writer.batch) \cup {Head(Channel).id}
  BY <1>2, IdsAppend DEF CleanRows
<1> HIDE DEF b
<1>4. writer' \in WriterStates /\ writer'.batch = b /\ writer'.phase = writer.phase
  BY <1>0, <1>3 DEF WriterStates
<1>5. IdleWriterEmpty' /\ writer.phase # "ended"
  BY <1>0, <1>4 DEF IdleWriterEmpty, errorLogWriterAlive
<1>6. Settled' = Settled
  BY <1>0 DEF Settled, Stored
<1> QED BY <1>0, <1>1, <1>3, <1>4, <1>5, <1>6, WriterCombine

\* The writer hands its batch over, and goes on or ends.
LEMMA WriterInsertKeeps ==
  ASSUME LogInv, insertErrorLogBatch(writer.batch), writer' \in WriterStates, writer'.batch = <<>>,
         UNCHANGED <<channels, enqueuer, shutting, flusher, flushQueue, early>>, writer.phase = "ended" => writer'.phase = "ended"
  PROVE  LogInv'
<1> USE LogTypes
<1>1. rows' \in CleanRows /\ Settled \cup Ids(writer.batch) \subseteq Settled'
  BY BatchInserted
<1>2. channels' \in Seq(RawQueue) /\ channels' # <<>>
  BY DEF LogInv, LogTypeOK
<1>3. IdleWriterEmpty'
  BY DEF IdleWriterEmpty
<1>4. Ids(Channel) \subseteq Ids(channels'[Len(channels)])
  BY DEF Channel
<1> QED BY <1>1, <1>2, <1>3, <1>4, WriterCombine

LEMMA WriterKeeps ==
  ASSUME LogInv, writerTick \/ writerSeesStop \/ writerEnds \/ writerPanics
  PROVE  LogInv'
<1> USE LogTypes
<1>0. <<>> \in CleanRows
  BY DEF CleanRows
<1>1. CASE writerTick
  <2>1. /\ insertErrorLogBatch(writer.batch) /\ writer' = [writer EXCEPT !.batch = <<>>]
        /\ UNCHANGED <<channels, enqueuer, shutting, flusher, flushQueue, early>> /\ writer.phase = "run"
    BY <1>1 DEF writerTick, writerFlush
  <2>2. writer' \in WriterStates /\ writer'.batch = <<>>
    BY <1>0, <2>1 DEF WriterStates
  <2> QED BY <2>1, <2>2, WriterInsertKeeps
<1>2. CASE writerSeesStop
  <2>1. /\ writer' = [writer EXCEPT !.phase = "drain"] /\ writer.phase = "run"
        /\ UNCHANGED <<channels, enqueuer, shutting, flusher, flushQueue, rows, deleted, early>>
    BY <1>2 DEF writerSeesStop
  <2>2. writer' \in WriterStates /\ writer'.batch = writer.batch /\ writer'.phase = "drain"
    BY <2>1 DEF WriterStates
  <2>3. IdleWriterEmpty' /\ Settled' = Settled /\ Ids(Channel) \subseteq Ids(channels'[Len(channels)])
    BY <2>1, <2>2 DEF IdleWriterEmpty, errorLogWriterAlive, Settled, Stored, Channel
  <2>4. channels' \in Seq(RawQueue) /\ channels' # <<>>
    BY <2>1 DEF LogInv, LogTypeOK
  <2> QED BY <2>1, <2>2, <2>3, <2>4, WriterCombine
<1>3. CASE writerEnds
  <2>1. /\ insertErrorLogBatch(writer.batch) /\ writer' = [NoWriter EXCEPT !.phase = "ended"]
        /\ UNCHANGED <<channels, enqueuer, shutting, flusher, flushQueue, early>>
    BY <1>3 DEF writerEnds
  <2>2. writer' \in WriterStates /\ writer'.batch = <<>> /\ writer'.phase = "ended"
    BY <1>0, <2>1 DEF WriterStates, NoWriter
  <2> QED BY <2>1, <2>2, WriterInsertKeeps
<1>4. CASE writerPanics
  <2>1. /\ Channel # <<>> /\ channels' = [channels EXCEPT ![Len(channels)] = Tail(@)]
        /\ deleted' = deleted \cup Ids(writer.batch) \cup {Head(Channel).id}
        /\ writer' = [NoWriter EXCEPT !.phase = "ended"]
        /\ UNCHANGED <<enqueuer, shutting, flusher, flushQueue, rows, early>>
    BY <1>4 DEF writerPanics
  <2>2. /\ channels' \in Seq(RawQueue) /\ channels' # <<>> /\ Len(channels') = Len(channels)
        /\ \A c \in 1..Len(channels) : c # Len(channels) => channels'[c] = channels[c]
        /\ Ids(Channel) \subseteq {Head(Channel).id} \cup Ids(channels'[Len(channels)])
    BY <2>1, ChannelTail
  <2>3. writer' \in WriterStates /\ writer'.batch = <<>> /\ writer'.phase = "ended"
    BY <1>0, <2>1 DEF WriterStates, NoWriter
  <2>4. Settled' = Settled \cup Ids(writer.batch) \cup {Head(Channel).id}
    BY <2>1 DEF Settled, Stored
  <2>5. IdleWriterEmpty' /\ writer.phase # "ended"
    BY <1>4, <2>3 DEF IdleWriterEmpty, writerPanics, errorLogWriterAlive
  <2> QED BY <2>1, <2>2, <2>3, <2>4, <2>5, WriterCombine
<1> QED BY <1>1, <1>2, <1>3, <1>4

\* Rows that are deleted are remembered as deleted.
LEMMA DeleteKeeps ==
  ASSUME LogInv, NEW ids, Delete(ids), UNCHANGED <<channels, writer, enqueuer, shutting, flusher, flushQueue, early>>
  PROVE  LogInv'
<1> USE LogTypes
<1>1. rows' \in CleanRows /\ Ids(rows) \subseteq Ids(rows') \cup ids
  BY WithoutFacts DEF Delete
<1>2. Settled \subseteq Settled'
  BY <1>1 DEF Delete, Settled, Stored, Ids
<1>3. channels' \in Seq(RawQueue) /\ channels' # <<>>
  BY DEF LogInv, LogTypeOK
<1>4. IdleWriterEmpty' /\ Ids(Channel) \subseteq Ids(channels'[Len(channels)])
  BY DEF LogInv, IdleWriterEmpty, errorLogWriterAlive, Channel
<1> QED BY <1>1, <1>2, <1>3, <1>4, WriterCombine

\* The hook: stop, wait, drain.
LEMMA FlushStopKeeps ==
  ASSUME LogInv, FlushStop
  PROVE  LogInv'
<1> USE LogTypes
<1>1. /\ writer' = [writer EXCEPT !.stop = errorLogWriterAlive] /\ early' = Accepted
      /\ flusher' = IF errorLogWriterAlive THEN "wait" ELSE "drain"
      /\ flushQueue' = Len(channels) /\ shutting' = errorLogWriterAlive
      /\ UNCHANGED <<channels, enqueuer, rows, deleted>> /\ writer.phase # "none"
  BY DEF FlushStop
<1>2. errorLogWriterAlive \in BOOLEAN
  BY DEF errorLogWriterAlive
<1>3. writer' \in WriterStates /\ writer'.batch = writer.batch /\ writer'.phase = writer.phase
  BY <1>1, <1>2 DEF WriterStates
<1>4. LogTypeOK' /\ IdleWriterEmpty'
  BY <1>1, <1>3 DEF LogInv, LogTypeOK, IdleWriterEmpty, errorLogWriterAlive
<1>5. Accepted' = Accepted /\ Known' = Known /\ Settled' = Settled /\ Queued' = Queued
  BY <1>1, <1>3 DEF Accepted, Known, Settled, Stored, Queued
<1>6. ASSUME ~errorLogWriterAlive
      PROVE  writer'.phase = "ended" /\ Accepted \subseteq Settled' \cup InChannels(Len(channels))'
  <2>1. Ids(writer.batch) = {}
    BY <1>6, IdsEmpty DEF LogInv, IdleWriterEmpty
  <2>2. InChannels(Len(channels))' = Queued
    BY <1>1 DEF InChannels, Queued
  <2> QED BY <1>1, <1>3, <1>5, <1>6, <2>1, <2>2
       DEF WriterStates, errorLogWriterAlive, LogInv, AcceptedKnown, Known
<1>7. EarlyOutOfWriter'
  BY <1>1, <1>5, <1>6 DEF EarlyOutOfWriter, InChannels
<1> QED BY <1>4, <1>5, <1>7 DEF LogInv, AcceptedKnown

LEMMA FlushWaitedKeeps ==
  ASSUME LogInv, FlushWaited
  PROVE  LogInv'
<1>1. /\ UNCHANGED <<channels, writer, enqueuer, shutting, flushQueue, rows, deleted, early>>
      /\ flusher = "wait" /\ ((writer.phase = "ended" /\ flusher' = "drain") \/ flusher' = "timeout")
  BY DEF FlushWaited
<1>2. LogTypeOK' /\ IdleWriterEmpty' /\ AcceptedKnown'
  BY <1>1 DEF LogInv, LogTypeOK, IdleWriterEmpty, errorLogWriterAlive, AcceptedKnown, Accepted,
       Known, Settled, Stored, Queued
<1>3. ASSUME writer.phase = "ended"
      PROVE  early \subseteq Settled' \cup InChannels(flushQueue)' /\ flushQueue > 0
  <2>1. Ids(writer.batch) = {}
    BY <1>3, IdsEmpty DEF LogInv, IdleWriterEmpty, errorLogWriterAlive
  <2>2. flushQueue = Len(channels) /\ early \subseteq Known
    BY <1>1 DEF LogInv, EarlyOutOfWriter, AcceptedKnown
  <2>3. InChannels(flushQueue)' = Queued /\ Settled' = Settled
    BY <1>1, <2>2 DEF InChannels, Queued, Settled, Stored
  <2> QED BY <2>1, <2>2, <2>3, LogTypes DEF Known
<1>4. early' \subseteq Accepted'
  BY <1>1 DEF LogInv, EarlyOutOfWriter, Accepted
<1>5. EarlyOutOfWriter'
  BY <1>1, <1>3, <1>4 DEF EarlyOutOfWriter, InChannels
<1> QED BY <1>2, <1>5 DEF LogInv

LEMMA FlushDrainKeeps ==
  ASSUME LogInv, FlushDrain
  PROVE  LogInv'
<1> USE LogTypes
<1> DEFINE n == Len(channels)
           k == flushQueue
           lying == channels[k]
           b == [i \in 1..Len(lying) |-> sanitizeErrorLog(lying[i])]
           all == rows \o b
           trim == IF b = <<>> THEN {} ELSE Excess(all)
<1>1. /\ \/ rows' = RowsWithout(all, trim) /\ deleted' = deleted \cup trim
         \/ deleted' = deleted \cup Ids(b) /\ rows' = rows
      /\ channels' = [channels EXCEPT ![k] = <<>>]
      /\ flusher = "drain" /\ flusher' = "done"
      /\ UNCHANGED <<writer, enqueuer, shutting, flushQueue, early>>
  BY DEF FlushDrain
<1>0. n \in Nat /\ k \in 1..n /\ lying \in RawQueue
  <2>1. k \in 0..n /\ k > 0 /\ n \in Nat
    BY <1>1 DEF LogInv, LogTypeOK, EarlyOutOfWriter
  <2> HIDE DEF k, n
  <2>2. k \in 1..n
    BY <2>1
  <2> QED BY <2>1, <2>2 DEF n
<1> HIDE DEF trim, lying
<1>2. b \in CleanRows /\ Ids(lying) \subseteq Ids(b)
  <2> DEFINE m == Len(lying)
             g(i) == sanitizeErrorLog(lying[i])
  <2>1. m \in Nat /\ \A i \in 1..m : lying[i] \in RawEntry
    BY <1>0 DEF RawQueue
  <2>2. \A i \in 1..m : g(i) \in CleanEntry /\ g(i).id = lying[i].id
    BY <2>1, SanitizedEntry
  <2> HIDE DEF g, m
  <2>3. b = [i \in 1..m |-> g(i)]
    BY DEF g, m
  <2> HIDE DEF b
  <2>4. b \in Seq(CleanEntry) /\ Len(b) = m /\ \A i \in 1..m : b[i] = g(i)
    BY <2>1, <2>2, <2>3
  <2>5. ASSUME NEW i \in 1..Len(lying) PROVE lying[i].id \in Ids(b)
    BY <2>2, <2>4 DEF Ids, m
  <2> QED BY <2>4, <2>5 DEF Ids, CleanRows
<1> HIDE DEF b
<1>3. all \in CleanRows /\ Ids(rows) \cup Ids(b) \subseteq Ids(all)
  BY <1>2, ConcatProperties, IdsConcat DEF CleanRows
<1> HIDE DEF all
<1>4. rows' \in CleanRows /\ Settled \cup Ids(lying) \subseteq Settled'
  <2>1. CASE rows' = RowsWithout(all, trim) /\ deleted' = deleted \cup trim
    <3>1. rows' \in CleanRows /\ Ids(all) \subseteq Ids(rows') \cup trim
      BY <1>3, <2>1, WithoutFacts
    <3>2. Stored = Ids(rows) /\ Stored' = Ids(rows')
      BY DEF Stored, Ids
    <3> QED BY <1>2, <1>3, <2>1, <3>1, <3>2 DEF Settled
  <2>2. CASE deleted' = deleted \cup Ids(b) /\ rows' = rows
    BY <1>2, <2>2 DEF Settled, Stored
  <2> QED BY <1>1, <2>1, <2>2
<1>5. <<>> \in RawQueue /\ LogTypeOK
  BY DEF RawQueue, LogInv
<1>6. /\ channels' \in Seq(RawQueue) /\ channels' # <<>> /\ Len(channels') = n
      /\ \A c \in 1..n : c # k => channels'[c] = channels[c]
  BY <1>0, <1>1, <1>5, ChannelReplaced
<1>7. LogTypeOK' /\ IdleWriterEmpty'
  BY <1>1, <1>4, <1>6 DEF LogInv, LogTypeOK, IdleWriterEmpty, errorLogWriterAlive
<1>8. \A c \in 1..n : Ids(channels[c]) \subseteq Settled' \cup Ids(channels'[c])
  BY <1>4, <1>6 DEF lying
<1>9. Accepted' = Accepted /\ early \subseteq Accepted /\ Accepted \subseteq Known
  BY <1>1 DEF Accepted, LogInv, EarlyOutOfWriter, AcceptedKnown
<1>10. Known \subseteq Known'
  <2>1. Queued \subseteq Settled' \cup Queued'
    BY <1>6, <1>8 DEF Queued
  <2> QED BY <1>1, <1>4, <2>1 DEF Known
<1>11. early' \subseteq Settled' \cup StrandedByPanic'
  <2>1. early \subseteq Settled \cup InChannels(k)
    BY <1>1 DEF LogInv, EarlyOutOfWriter
  <2>2. ASSUME NEW c \in 1..k PROVE Ids(channels[c]) \subseteq Settled' \cup StrandedByPanic'
    <3>1. CASE c = k
      BY <1>4, <3>1 DEF lying
    <3>2. CASE c # k
      <4>1. c \in 1..(k - 1) /\ c \in 1..n /\ k' = k
        BY <1>0, <1>1, <3>2
      <4> QED BY <1>6, <3>2, <4>1 DEF StrandedByPanic
    <3> QED BY <3>1, <3>2
  <2> QED BY <1>1, <1>4, <2>1, <2>2 DEF InChannels
<1>12. EarlyOutOfWriter'
  BY <1>1, <1>9, <1>11 DEF EarlyOutOfWriter
<1> QED BY <1>7, <1>9, <1>10, <1>12 DEF LogInv, AcceptedKnown

LEMMA LogStepKeeps == LogInv /\ [LogNext]_logVars => LogInv'
<1> SUFFICES ASSUME LogInv, [LogNext]_logVars PROVE LogInv'
  OBVIOUS
<1>1. ASSUME NEW e \in LogEntries, EnqueueTake(e) \/ EnqueueSend(e) \/ ErrorLogCreate(e)
      PROVE  LogInv'
  BY <1>1, TakeKeeps, SendKeeps, CreateKeeps
<1>2. ASSUME UNCHANGED <<channels, writer, enqueuer, shutting, flusher, flushQueue, rows, deleted, early>> PROVE LogInv'
  BY <1>2 DEF LogInv, LogTypeOK, IdleWriterEmpty, errorLogWriterAlive, AcceptedKnown, Accepted,
       Known, Settled, Stored, Queued, EarlyOutOfWriter, StrandedByPanic, InChannels
<1>3. CASE ErrorLogCleanExpired
  <2>1. PICK ids : Delete(ids)
    BY <1>3 DEF ErrorLogCleanExpired
  <2> QED BY <1>3, <2>1, DeleteKeeps DEF ErrorLogCleanExpired
<1>4. CASE ErrorLogDeleteAll
  BY <1>4, DeleteKeeps DEF ErrorLogDeleteAll
<1>5. CASE dedupDelete
  BY <1>5, DeleteKeeps DEF dedupDelete
<1>6. ASSUME NEW c, ErrorLogDedupPerClass(c) PROVE LogInv'
  BY <1>2, <1>6 DEF ErrorLogDedupPerClass
<1>7. CASE UNCHANGED logVars
  BY <1>2, <1>7 DEF logVars
<1> QED BY <1>1, <1>3, <1>4, <1>5, <1>6, <1>7, WriterTakeKeeps, WriterKeeps, FlushStopKeeps,
           FlushWaitedKeeps, FlushDrainKeeps DEF LogNext

\* The error log (op/error_log.go): what was handed over before the shutdown hook stopped the
\* writer is stored when the hook returns, was removed by a failure or the retention, or lies
\* in the channel of a writer that panicked, and no row is in clear, for any entries, classes,
\* capacity, thresholds and number of failures.
THEOREM LogHolds == LogSpec => []LogSound
<1>1. LogInit => LogInv
  <2> SUFFICES ASSUME LogInit PROVE LogInv
    OBVIOUS
  <2>1. <<>> \in RawQueue /\ <<>> \in CleanRows
    BY DEF RawQueue, CleanRows
  <2>2. channels \in Seq(RawQueue) /\ channels # <<>>
    BY <2>1 DEF LogInit
  <2>3. writer \in WriterStates /\ writer.batch = <<>>
    BY <2>1 DEF LogInit, NoWriter, WriterStates
  <2>4. enqueuer \in [LogEntries -> Enqueuers] /\ \A e \in LogEntries : enqueuer[e].pc = "new"
    BY DEF LogInit, Enqueuers
  <2>5. LogTypeOK /\ IdleWriterEmpty
    BY <2>1, <2>2, <2>3, <2>4 DEF LogInit, LogTypeOK, IdleWriterEmpty
  <2>6. Accepted = {}
    BY <2>4 DEF Accepted
  <2> QED BY <2>5, <2>6 DEF LogInit, LogInv, AcceptedKnown, EarlyOutOfWriter
<1>2. LogInv => LogSound
  <2> SUFFICES ASSUME LogInv PROVE LogSound
    OBVIOUS
  <2>1. EarlyEntriesStored
    BY DEF LogInv, EarlyOutOfWriter, EarlyEntriesStored, Settled
  <2>2. RowsRedacted
    <3>1. ASSUME NEW i \in 1..Len(rows) PROVE rows[i].redacted = TRUE
      <4>1. rows[i] \in CleanEntry
        BY LogTypes DEF CleanRows
      <4> QED BY <4>1 DEF CleanEntry
    <3> QED BY <3>1, Zenon DEF RowsRedacted
  <2> QED BY <2>1, <2>2 DEF LogSound
<1> QED BY <1>1, <1>2, LogStepKeeps, PTL DEF LogSpec

=============================================================================
