---------------------------- MODULE MaskSession ----------------------------
(***************************************************************************)
(* Who shares which placeholders: relay/mask/session.go (the tables), the  *)
(* Apply of engine.go and the use handler.go makes of its mapping.         *)
(*                                                                         *)
(* A mapping is named after the request that allocated it, and the         *)
(* placeholder that mapping m gives to a value s is <<m, s>>: NewToken     *)
(* draws from 20^6 suffixes and Recall checks the ones already taken, so   *)
(* two mappings agree on a placeholder only when they are the same one.    *)
(***************************************************************************)
EXTENDS Naturals, Sequences, SequencesExt, FiniteSets

CONSTANTS Turns,            \* requests
          KeyOf,            \* per request, its session key
          NoKey,            \* the empty session key
          ValuesOf,         \* per request, the sensitive values its body holds
          MaxMaskSessions   \* maxMaskSessions

ASSUME SessionAssumption == MaxMaskSessions \in Nat \ {0} /\ IsFiniteSet(Turns)

VARIABLES sessions,   \* the published records, longest untouched first
          inflight,   \* per key, the mapping without a placeholder yet and its users
          bound,      \* per mapping, the values that have a placeholder
          turn,       \* per request, where it is, its mapping and what is in its body
          lost        \* keys whose record was dropped at least once
sessionVars == <<sessions, inflight, bound, turn, lost>>

MaskKeys == {KeyOf[t] : t \in Turns} \ {NoKey}

SessionInit ==
  /\ sessions = <<>>
  /\ inflight = [k \in MaskKeys |-> [of |-> 0, refs |-> 0]]
  /\ bound = [t \in Turns |-> {}]
  /\ turn = [t \in Turns |-> [pc |-> "new", of |-> 0, todo |-> {}, body |-> {}, back |-> {}]]
  /\ lost = {}

Published(k) == \E i \in DOMAIN sessions : sessions[i].key = k
RecordOf(k) == CHOOSE r \in ToSet(sessions) : r.key = k
Others(s, k) == RemoveAt(s, CHOOSE i \in DOMAIN s : s[i].key = k)

\* The record of k counts as used now.
Touched(s, k) == IF Published(k) THEN Append(Others(s, k), RecordOf(k)) ELSE s
-----------------------------------------------------------------------------
(* mask/session.go                                                          *)

\* GetOrCreate at the start of Apply: the published mapping, the one being built, or a
\* new one.  A request without a session has a mapping of its own.
GetOrCreate(t) ==
  LET k == KeyOf[t]
      m == IF k = NoKey THEN t
           ELSE IF Published(k) THEN RecordOf(k).of
           ELSE IF inflight[k].refs > 0 THEN inflight[k].of ELSE t
  IN /\ turn[t].pc = "new"
     /\ turn' = [turn EXCEPT ![t].pc = "masking", ![t].of = m, ![t].todo = ValuesOf[t]]
     /\ sessions' = Touched(sessions, k)
     /\ inflight' = IF k = NoKey \/ Published(k) THEN inflight
                    ELSE [inflight EXCEPT ![k] = [of |-> m, refs |-> @.refs + 1]]
     /\ UNCHANGED <<bound, lost>>

\* evictOldestLocked: room for one more record.
Evicting(s) == IF Len(s) >= MaxMaskSessions THEN Len(s) - MaxMaskSessions + 1 ELSE 0

\* publish, called by the first Recall that writes.
publish(k, m) ==
  /\ inflight' = [inflight EXCEPT ![k] = [of |-> 0, refs |-> 0]]
  /\ IF Published(k) THEN UNCHANGED <<sessions, lost>>
     ELSE LET n == Evicting(sessions)
          IN /\ lost' = lost \cup {sessions[i].key : i \in 1..n}
             /\ sessions' = Append(SubSeq(sessions, n + 1, Len(sessions)), [key |-> k, of |-> m])

\* Recall for one value of the body (maskCandidates).
Recall(t, s) ==
  LET m == turn[t].of
  IN /\ turn[t].pc = "masking" /\ s \in turn[t].todo
     /\ turn' = [turn EXCEPT ![t].todo = @ \ {s}, ![t].body = @ \cup {<<m, s>>}]
     /\ bound' = [bound EXCEPT ![m] = @ \cup {s}]
     /\ IF bound[m] = {} /\ KeyOf[t] # NoKey THEN publish(KeyOf[t], m)
        ELSE UNCHANGED <<sessions, inflight, lost>>

\* Fault: the first request to end drops the mapping that others still build.
EndForgets(k) ==
  /\ sessions' = Touched(sessions, k)
  /\ inflight' = IF k = NoKey THEN inflight ELSE [inflight EXCEPT ![k] = [of |-> 0, refs |-> 0]]

\* End: the deferred call of Apply.  It goes by the key, so it may count down a mapping
\* that is not the one t holds.
End(k) ==
  /\ sessions' = Touched(sessions, k)
  /\ inflight' = IF k = NoKey \/ inflight[k].refs = 0 THEN inflight
                 ELSE IF inflight[k].refs = 1 THEN [inflight EXCEPT ![k] = [of |-> 0, refs |-> 0]]
                 ELSE [inflight EXCEPT ![k].refs = @ - 1]

\* Apply returns: the masked body is sent, and the handler keeps the mapping.
ApplyDone(t) ==
  /\ turn[t].pc = "masking" /\ turn[t].todo = {}
  /\ turn' = [turn EXCEPT ![t].pc = IF turn[t].body = {} THEN "done" ELSE "sent"]
  /\ End(KeyOf[t])
  /\ UNCHANGED <<bound, lost>>

\* Apply panics (no randomness): the request is refused and the partial body thrown away.
ApplyFails(t) ==
  /\ turn[t].pc = "masking" /\ turn[t].todo # {}
  /\ turn' = [turn EXCEPT ![t].pc = "refused", ![t].todo = {}, ![t].body = {}]
  /\ End(KeyOf[t])
  /\ UNCHANGED <<bound, lost>>

\* RestoreString, RestoreBytes: a placeholder of the answer is looked up in the mapping
\* the request holds; an unknown one stays.
Lookup(t, m) == {x \in turn[t].body : x[1] = m /\ x[2] \in bound[m]}

Restore(t) ==
  /\ turn[t].pc = "sent"
  /\ turn' = [turn EXCEPT ![t].pc = "done", ![t].back = Lookup(t, turn[t].of)]
  /\ UNCHANGED <<sessions, inflight, bound, lost>>

\* Delete, which the engine offers to end a session at once, has no caller in the program.
\* PruneExpired: the longest untouched records reach SessionTTL first.
PruneExpired ==
  /\ sessions # <<>>
  /\ lost' = lost \cup {Head(sessions).key}
  /\ sessions' = Tail(sessions)
  /\ UNCHANGED <<inflight, bound, turn>>

SessionNext ==
  \/ \E t \in Turns :
       \/ GetOrCreate(t)
       \/ \E s \in ValuesOf[t] : Recall(t, s)
       \/ ApplyDone(t) \/ ApplyFails(t) \/ Restore(t)
  \/ PruneExpired

SessionSpec == SessionInit /\ [][SessionNext]_sessionVars
-----------------------------------------------------------------------------
(* Properties                                                               *)

\* Whatever is evicted, expires or is published meanwhile, a request restores every
\* placeholder it put into its own body (handler.go keeps the mapping, not the key).
RestoresOwn == \A t \in Turns : turn[t].pc = "done" => turn[t].back = turn[t].body

\* Two requests of one session, at once or one after the other, send the same placeholder
\* for the same value as long as the session's record was never dropped (session.go:9).
TurnsAgree ==
  \A t, u \in Turns :
    KeyOf[t] = KeyOf[u] /\ KeyOf[t] \notin lost \cup {NoKey}
      => \A x \in turn[t].body, y \in turn[u].body : x[2] = y[2] => x = y

\* What a conversation may rely on (session.go).
SessionsSound == RestoresOwn /\ TurnsAgree
====
