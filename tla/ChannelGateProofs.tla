------------------------- MODULE ChannelGateProofs -------------------------
(***************************************************************************)
(* What a channel counts, for any set of requests and any limits.  The     *)
(* channel gate: the counters are exact and no wake-up is lost; and while  *)
(* no entry is deleted and no limit is 0, the limit itself is kept.  The   *)
(* proxy accounts: an account counts exactly the picks that are not given  *)
(* back, and serves one session at a time.  The rate of a key: no window   *)
(* holds more permits than its limit, up to the delays of a clock read     *)
(* before its lock.                                                        *)
(***************************************************************************)
EXTENDS ChannelGate, AccountPool, RateGate, FiniteSetTheorems, FunctionTheorems, TLAPS

\* A request has a counter object exactly from its look-up on, and sleeps only while it
\* waits.
ReqShape ==
  \A r \in Rounds :
    /\ round[r].pc \in {"idle", "acquiring"} => round[r].gen = NoState
    /\ round[r].pc \in {"trying", "waiting"} => round[r].gen # NoState /\ round[r].lim > 0

IInv == GateTypeOK /\ ReqShape /\ ActiveExact /\ GateNoLostWakeup

\* The holders of a counter object are a finite set.
LEMMA HoldingFinite ==
  ASSUME NEW g \in Generations
  PROVE  IsFiniteSet(Holding(g)) /\ Cardinality(Holding(g)) \in Nat
<1>1. Holding(g) \subseteq Rounds
  BY DEF Holding
<1> QED BY <1>1, GateAssumption, FS_Subset, FS_CardinalityType

\* A step that leaves the counters alone and moves nobody in or out of flight with a slot
\* keeps the counters exact.
LEMMA SameHolders ==
  ASSUME ActiveExact, active' = active,
         \A g \in Generations, r \in Rounds :
           (round'[r].pc = "inflight" /\ round'[r].gen = g)
             <=> (round[r].pc = "inflight" /\ round[r].gen = g)
  PROVE  ActiveExact'
<1>1. \A g \in Generations : Holding(g)' = Holding(g)
  BY DEF Holding
<1> QED BY <1>1 DEF ActiveExact

\* Taking a slot.
LEMMA TrySlotKeeps ==
  ASSUME IInv, NEW r \in Rounds, TrySlot(r)
  PROVE  IInv'
<1>0. /\ round \in [Rounds -> RoundStates] /\ round[r] \in RoundStates
      /\ active \in [Generations -> Nat]
      /\ round[r].pc \in {"trying", "waiting"} /\ ~round[r].asleep
      /\ round[r].gen \in Generations /\ round[r].lim \in Nat
  BY DEF IInv, GateTypeOK, ReqShape, TrySlot, GateNoLostWakeup, RoundStates
<1> DEFINE h == round[r].gen
<1>1. CASE active[h] < round[r].lim
  <2>1. /\ active' = [active EXCEPT ![h] = @ + 1]
        /\ round' = [round EXCEPT ![r].pc = "inflight"]
        /\ UNCHANGED <<limit, table, created>>
    BY <1>1 DEF TrySlot
  <2>2. /\ round' \in [Rounds -> RoundStates]
        /\ round'[r].pc = "inflight" /\ round'[r].gen = h /\ round'[r].asleep = round[r].asleep
        /\ \A s \in Rounds : s # r => round'[s] = round[s]
    BY <1>0, <2>1 DEF RoundStates
  <2>3. /\ active' \in [Generations -> Nat]
        /\ active'[h] = active[h] + 1
        /\ \A g \in Generations : g # h => active'[g] = active[g]
    BY <1>0, <2>1
  <2>4. GateTypeOK'
    BY <2>1, <2>2, <2>3 DEF IInv, GateTypeOK
  <2>5. ReqShape'
    BY <2>2 DEF IInv, ReqShape
  <2>6. GateNoLostWakeup'
    <3> SUFFICES ASSUME NEW s \in Rounds, round'[s].asleep
                 PROVE  round'[s].pc = "waiting" /\ active'[round'[s].gen] >= round'[s].lim
      BY DEF GateNoLostWakeup
    <3>1. s # r /\ round'[s] = round[s]
      BY <1>0, <2>2
    <3>2. /\ round[s].pc = "waiting" /\ active[round[s].gen] >= round[s].lim
          /\ round[s].gen \in Generations /\ round[s].lim \in Nat
      BY <3>1, <1>0 DEF IInv, GateNoLostWakeup, ReqShape, RoundStates
    <3> QED BY <1>0, <2>3, <3>1, <3>2
  <2>7. ActiveExact'
    <3> SUFFICES ASSUME NEW g \in Generations
                 PROVE  active'[g] = Cardinality(Holding(g)')
      BY DEF ActiveExact
    <3>1. active[g] = Cardinality(Holding(g))
      BY DEF IInv, ActiveExact
    <3>2. CASE g = h
      <4>1. Holding(g)' = Holding(g) \cup {r} /\ r \notin Holding(g)
        BY <1>0, <2>2, <3>2 DEF Holding
      <4>2. IsFiniteSet(Holding(g)) /\ Cardinality(Holding(g)) \in Nat
        BY HoldingFinite
      <4>3. Cardinality(Holding(g) \cup {r}) = Cardinality(Holding(g)) + 1
        BY <4>1, <4>2, FS_AddElement
      <4> QED BY <2>3, <3>1, <3>2, <4>1, <4>3
    <3>3. CASE g # h
      <4>1. Holding(g)' = Holding(g)
        BY <1>0, <2>2, <3>3 DEF Holding
      <4> QED BY <2>3, <3>1, <3>3, <4>1
    <3> QED BY <3>2, <3>3
  <2> QED BY <2>4, <2>5, <2>6, <2>7 DEF IInv
<1>2. CASE ~(active[h] < round[r].lim)
  <2>1. /\ active' = active
        /\ round' = [round EXCEPT ![r].pc = "waiting", ![r].asleep = TRUE]
        /\ UNCHANGED <<limit, table, created>>
    BY <1>2 DEF TrySlot
  <2>2. /\ round' \in [Rounds -> RoundStates]
        /\ round'[r].pc = "waiting" /\ round'[r].gen = h /\ round'[r].lim = round[r].lim
        /\ \A s \in Rounds : s # r => round'[s] = round[s]
    BY <1>0, <2>1 DEF RoundStates
  <2>3. active[h] >= round[r].lim
    BY <1>0, <1>2
  <2>4. GateTypeOK' /\ ReqShape'
    BY <1>0, <2>1, <2>2 DEF IInv, GateTypeOK, ReqShape
  <2>5. GateNoLostWakeup'
    BY <2>1, <2>2, <2>3 DEF IInv, GateNoLostWakeup
  <2>6. ActiveExact'
    BY <1>0, <2>1, <2>2, SameHolders DEF IInv
  <2> QED BY <2>4, <2>5, <2>6 DEF IInv
<1> QED BY <1>1, <1>2

\* Giving a slot back.
LEMMA ReleaseKeeps ==
  ASSUME IInv, NEW r \in Rounds, release(r)
  PROVE  IInv'
<1>0. /\ round \in [Rounds -> RoundStates] /\ round[r] \in RoundStates
      /\ active \in [Generations -> Nat] /\ round[r].pc = "inflight"
      /\ UNCHANGED <<limit, table, created>>
  BY DEF IInv, GateTypeOK, release
<1>1. /\ FreshRound \in RoundStates /\ FreshRound.pc = "idle" /\ FreshRound.gen = NoState
      /\ FreshRound.asleep = FALSE
  BY DEF FreshRound, RoundStates
<1>2. CASE round[r].gen = NoState
  <2>1. /\ active' = active /\ round' = [round EXCEPT ![r] = FreshRound]
    BY <1>2 DEF release
  <2>2. /\ round' \in [Rounds -> RoundStates] /\ round'[r] = FreshRound
        /\ \A s \in Rounds : s # r => round'[s] = round[s]
    BY <1>0, <1>1, <2>1
  <2>3. GateTypeOK' /\ ReqShape' /\ GateNoLostWakeup'
    BY <1>0, <1>1, <2>1, <2>2 DEF IInv, GateTypeOK, ReqShape, GateNoLostWakeup
  <2>4. ActiveExact'
    BY <1>1, <1>2, <2>1, <2>2, SameHolders DEF IInv, Generations, NoState
  <2> QED BY <2>3, <2>4 DEF IInv
<1>3. CASE round[r].gen # NoState
  <2> DEFINE h == round[r].gen
             rq == [round EXCEPT ![r] = FreshRound]
  <2>0. h \in Generations
    BY <1>0, <1>3 DEF RoundStates
  <2>1. /\ active' = [active EXCEPT ![h] = IF @ > 0 THEN @ - 1 ELSE @]
        /\ round' = WakeWaiters(h, rq)
    BY <1>3 DEF release
  <2>2. rq \in [Rounds -> RoundStates] /\ rq[r] = FreshRound
        /\ \A s \in Rounds : s # r => rq[s] = round[s]
    BY <1>0, <1>1
  <2>3. /\ round' \in [Rounds -> RoundStates]
        /\ \A s \in Rounds : /\ round'[s].pc = rq[s].pc /\ round'[s].gen = rq[s].gen
                             /\ round'[s].lim = rq[s].lim
                             /\ round'[s].asleep => rq[s].asleep /\ rq[s].gen # h
    BY <2>1, <2>2 DEF WakeWaiters, RoundStates
  <2>4. r \in Holding(h) /\ active[h] = Cardinality(Holding(h))
    BY <1>0, <2>0 DEF Holding, IInv, ActiveExact
  <2>5. Cardinality(Holding(h) \ {r}) = active[h] - 1 /\ active[h] > 0
    BY <2>0, <2>4, HoldingFinite, FS_RemoveElement, FS_EmptySet, <1>0
  <2>6. /\ active' \in [Generations -> Nat] /\ active'[h] = active[h] - 1
        /\ \A g \in Generations : g # h => active'[g] = active[g]
    BY <1>0, <2>0, <2>1, <2>5
  <2>7. GateTypeOK'
    BY <1>0, <2>3, <2>6 DEF IInv, GateTypeOK
  <2>8. ReqShape'
    BY <1>1, <2>2, <2>3 DEF IInv, ReqShape
  <2>9. GateNoLostWakeup'
    <3> SUFFICES ASSUME NEW s \in Rounds, round'[s].asleep
                 PROVE  round'[s].pc = "waiting" /\ active'[round'[s].gen] >= round'[s].lim
      BY DEF GateNoLostWakeup
    <3>1. s # r /\ rq[s] = round[s] /\ round[s].asleep /\ round[s].gen # h
      BY <1>1, <2>2, <2>3
    <3>2. /\ round[s].pc = "waiting" /\ active[round[s].gen] >= round[s].lim
          /\ round[s].gen \in Generations
      BY <3>1, <1>0 DEF IInv, GateNoLostWakeup, ReqShape, RoundStates
    <3> QED BY <2>3, <2>6, <3>1, <3>2
  <2>10. ActiveExact'
    <3> SUFFICES ASSUME NEW g \in Generations
                 PROVE  active'[g] = Cardinality(Holding(g)')
      BY DEF ActiveExact
    <3>1. CASE g = h
      <4>1. Holding(g)' = Holding(g) \ {r}
        BY <1>1, <2>2, <2>3, <3>1 DEF Holding
      <4> QED BY <2>5, <2>6, <3>1, <4>1
    <3>2. CASE g # h
      <4>1. Holding(g)' = Holding(g)
        BY <1>1, <2>2, <2>3, <3>2 DEF Holding
      <4> QED BY <2>6, <3>2, <4>1 DEF IInv, ActiveExact
    <3> QED BY <3>1, <3>2
  <2> QED BY <2>7, <2>8, <2>9, <2>10 DEF IInv
<1> QED BY <1>2, <1>3

\* The other steps touch no counter.
LEMMA OtherStepsKeep ==
  ASSUME IInv,
         \/ \E r \in Rounds : Dispatch(r) \/ PassUnlimited(r) \/ LookUp(r) \/ GiveUp(r)
         \/ \E l \in Limits : SetLimit(l)
         \/ cleanupChannelLimits
         \/ UNCHANGED gateVars
  PROVE  IInv'
<1>0. /\ round \in [Rounds -> RoundStates] /\ created \in Nat /\ MaxGenerations \in Nat
      /\ Limits \subseteq Nat /\ limit \in Limits /\ limit \in Nat
  BY GateAssumption DEF IInv, GateTypeOK
<1>1. ASSUME NEW r \in Rounds, Dispatch(r) PROVE IInv'
  <2>1. /\ active' = active /\ UNCHANGED <<limit, table, created>>
        /\ round[r].pc = "idle"
        /\ round' = [round EXCEPT ![r].pc = "acquiring", ![r].lim = limit]
    BY <1>1 DEF Dispatch
  <2>2. GateTypeOK'
    BY <1>0, <2>1 DEF IInv, GateTypeOK, RoundStates
  <2>3. ReqShape' /\ GateNoLostWakeup'
    BY <1>0, <2>1 DEF IInv, ReqShape, GateNoLostWakeup, RoundStates
  <2>4. ActiveExact'
    BY <1>0, <2>1, SameHolders DEF IInv, RoundStates
  <2> QED BY <2>2, <2>3, <2>4 DEF IInv
<1>2. ASSUME NEW r \in Rounds, PassUnlimited(r) PROVE IInv'
  <2>1. /\ active' = active /\ UNCHANGED <<limit, table, created>>
        /\ round[r].pc = "acquiring" /\ round[r].gen = NoState
        /\ round' = [round EXCEPT ![r].pc = "inflight"]
    BY <1>2 DEF PassUnlimited, IInv, ReqShape
  <2>2. GateTypeOK'
    BY <1>0, <2>1 DEF IInv, GateTypeOK, RoundStates
  <2>3. ReqShape' /\ GateNoLostWakeup'
    BY <1>0, <2>1 DEF IInv, ReqShape, GateNoLostWakeup, RoundStates
  <2>4. ActiveExact'
    BY <1>0, <2>1, SameHolders DEF IInv, RoundStates, Generations, NoState
  <2> QED BY <2>2, <2>3, <2>4 DEF IInv
<1>3. ASSUME NEW r \in Rounds, LookUp(r) PROVE IInv'
  <2>1. /\ active' = active /\ UNCHANGED limit
        /\ round[r].pc = "acquiring" /\ round[r].lim > 0
        /\ round' = [round EXCEPT ![r].pc = "trying", ![r].gen = table']
        /\ \/ table # NoState /\ table' = table /\ created' = created
           \/ created < MaxGenerations /\ created' = created + 1 /\ table' = created + 1
    BY <1>3 DEF LookUp
  <2>2. /\ created' \in 0..MaxGenerations /\ table' \in 0..created'
        /\ table' \in Generations /\ table' # NoState
    BY <1>0, <2>1 DEF IInv, GateTypeOK, Generations, NoState
  <2>3. GateTypeOK'
    BY <1>0, <2>1, <2>2 DEF IInv, GateTypeOK, RoundStates
  <2>4. ReqShape' /\ GateNoLostWakeup'
    BY <1>0, <2>1, <2>2 DEF IInv, ReqShape, GateNoLostWakeup, RoundStates
  <2>5. ActiveExact'
    BY <1>0, <2>1, SameHolders DEF IInv, RoundStates
  <2> QED BY <2>3, <2>4, <2>5 DEF IInv
<1>4. ASSUME NEW r \in Rounds, GiveUp(r) PROVE IInv'
  <2>1. /\ active' = active /\ UNCHANGED <<limit, table, created>>
        /\ round[r].pc = "waiting"
        /\ round' = [round EXCEPT ![r] = FreshRound]
    BY <1>4 DEF GiveUp
  <2>2. FreshRound \in RoundStates
    BY DEF FreshRound, RoundStates
  <2>3. GateTypeOK' /\ ReqShape' /\ GateNoLostWakeup'
    BY <1>0, <2>1, <2>2 DEF IInv, GateTypeOK, ReqShape, GateNoLostWakeup, FreshRound
  <2>4. ActiveExact'
    BY <1>0, <2>1, SameHolders DEF IInv, FreshRound
  <2> QED BY <2>3, <2>4 DEF IInv
<1>5. ASSUME NEW l \in Limits, SetLimit(l) PROVE IInv'
  BY <1>5, SameHolders DEF SetLimit, IInv, GateTypeOK, ReqShape, GateNoLostWakeup
<1>6. CASE cleanupChannelLimits
  BY <1>0, <1>6, SameHolders DEF cleanupChannelLimits, IInv, GateTypeOK, ReqShape, GateNoLostWakeup,
     NoState
<1>7. CASE UNCHANGED gateVars
  BY <1>7, SameHolders DEF gateVars, IInv, GateTypeOK, ReqShape, GateNoLostWakeup
<1> QED BY <1>1, <1>2, <1>3, <1>4, <1>5, <1>6, <1>7

\* The invariant holds in every reachable state.
THEOREM Invariance == GateSpec => []IInv
<1>1. GateInit => IInv
  <2> SUFFICES ASSUME GateInit PROVE IInv
    OBVIOUS
  <2>1. GateTypeOK /\ ReqShape /\ GateNoLostWakeup
    BY GateAssumption DEF GateInit, GateTypeOK, ReqShape, GateNoLostWakeup, FreshRound, RoundStates, NoState
  <2>2. \A g \in Generations : Holding(g) = {}
    BY DEF GateInit, Holding, FreshRound
  <2>3. ActiveExact
    BY <2>2, FS_EmptySet DEF GateInit, ActiveExact
  <2> QED BY <2>1, <2>3 DEF IInv
<1>2. IInv /\ [GateNext]_gateVars => IInv'
  BY TrySlotKeeps, ReleaseKeeps, OtherStepsKeep DEF GateNext
<1> QED BY <1>1, <1>2, PTL DEF GateSpec

\* Each counter object counts exactly its holders, through deletions of the table entry
\* and changes of the limit.
THEOREM CountersExact == GateSpec => []ActiveExact
<1>1. IInv => ActiveExact
  BY DEF IInv
<1> QED BY <1>1, Invariance, PTL

\* A request blocked on the wake channel finds its limit reached.
THEOREM WakeupNeverLost == GateSpec => []GateNoLostWakeup
<1>1. IInv => GateNoLostWakeup
  BY DEF IInv
<1> QED BY <1>1, Invariance, PTL

(***************************************************************************)
(* What the head comment of channellimit.go promises, with the two things  *)
(* that break it left out: deleting the entry and the value "no limit".    *)
(***************************************************************************)

\* There is one counter object, and every request in flight holds one of its slots.
OneCounter ==
  /\ table = created /\ created \in {0, 1}
  /\ limit # 0
  /\ \A r \in Rounds :
       /\ round[r].pc # "idle" => round[r].lim # 0
       /\ round[r].pc \in {"trying", "waiting", "inflight"} => round[r].gen = 1 /\ created = 1

\* Every step keeps the single counter while nothing deletes it and no limit is 0.
LEMMA OneCounterKept ==
  ASSUME ~CanClear, 0 \notin Limits, IInv, OneCounter, [GateNext]_gateVars
  PROVE  OneCounter'
<1>0. /\ round \in [Rounds -> RoundStates] /\ limit \in Nat /\ limit \in Limits
      /\ FreshRound.pc = "idle"
  BY GateAssumption DEF IInv, GateTypeOK, FreshRound
<1>1. ASSUME NEW r \in Rounds, Dispatch(r) PROVE OneCounter'
  BY <1>0, <1>1 DEF Dispatch, OneCounter, RoundStates
<1>2. ASSUME NEW r \in Rounds, PassUnlimited(r) PROVE OneCounter'
  BY <1>0, <1>2 DEF PassUnlimited, OneCounter, RoundStates
<1>3. ASSUME NEW r \in Rounds, LookUp(r) PROVE OneCounter'
  BY <1>0, <1>3 DEF LookUp, OneCounter, RoundStates, NoState
<1>4. ASSUME NEW r \in Rounds, TrySlot(r) PROVE OneCounter'
  BY <1>0, <1>4 DEF TrySlot, OneCounter, RoundStates
<1>5. ASSUME NEW r \in Rounds, GiveUp(r) PROVE OneCounter'
  BY <1>0, <1>5 DEF GiveUp, OneCounter
<1>6. ASSUME NEW r \in Rounds, release(r) PROVE OneCounter'
  <2> DEFINE rq == [round EXCEPT ![r] = FreshRound]
  <2>1. /\ UNCHANGED <<limit, table, created>>
        /\ round' = rq \/ round' = WakeWaiters(round[r].gen, rq)
    BY <1>6 DEF release
  <2>2. rq \in [Rounds -> RoundStates]
    BY <1>0 DEF FreshRound, RoundStates
  <2>3. \A s \in Rounds : /\ round'[s].pc = rq[s].pc /\ round'[s].gen = rq[s].gen
                          /\ round'[s].lim = rq[s].lim
    BY <2>1, <2>2 DEF WakeWaiters, RoundStates
  <2>4. \A s \in Rounds : rq[s] = round[s] \/ rq[s].pc = "idle"
    BY <1>0
  <2> QED BY <2>1, <2>3, <2>4 DEF OneCounter
<1>7. ASSUME NEW l \in Limits, SetLimit(l) PROVE OneCounter'
  BY <1>7 DEF SetLimit, OneCounter
<1>8. CASE cleanupChannelLimits
  BY <1>8 DEF cleanupChannelLimits
<1>9. CASE UNCHANGED gateVars
  BY <1>9 DEF gateVars, OneCounter
<1> QED BY <1>1, <1>2, <1>3, <1>4, <1>5, <1>6, <1>7, <1>8, <1>9 DEF GateNext

\* While the entry is never deleted and no limit is "no limit", a request is let through
\* only below its limit, through every other change of the limit and for any number of
\* requests.
THEOREM LimitKept ==
  ASSUME ~CanClear, 0 \notin Limits
  PROVE  GateSpec => AdmitBelowLimit
<1>1. GateInit => OneCounter
  BY DEF GateInit, OneCounter, FreshRound, NoState
<1>2. IInv /\ OneCounter /\ [GateNext]_gateVars => OneCounter'
  BY OneCounterKept
<1>3. IInv /\ OneCounter /\ [GateNext]_gateVars => [AdmitStep]_gateVars
  <2> SUFFICES ASSUME IInv, OneCounter, GateNext, NEW r \in Rounds,
                      round[r].pc \in {"trying", "waiting"}, round'[r].pc = "inflight"
               PROVE  Cardinality(InFlight) < round[r].lim
    BY DEF AdmitStep
  <2>0. round \in [Rounds -> RoundStates] /\ active \in [Generations -> Nat]
    BY DEF IInv, GateTypeOK
  <2>1. TrySlot(r)
    <3>1. ASSUME NEW s \in Rounds, Dispatch(s) \/ PassUnlimited(s) \/ LookUp(s) \/ GiveUp(s)
          PROVE FALSE
      BY <2>0, <3>1 DEF Dispatch, PassUnlimited, LookUp, GiveUp, FreshRound, RoundStates
    <3>2. ASSUME NEW s \in Rounds, TrySlot(s), s # r PROVE FALSE
      BY <2>0, <3>2 DEF TrySlot, RoundStates
    <3>3. ASSUME NEW s \in Rounds, release(s) PROVE FALSE
      <4> DEFINE rq == [round EXCEPT ![s] = FreshRound]
      <4>1. /\ round[s].pc = "inflight"
            /\ round' = rq \/ round' = WakeWaiters(round[s].gen, rq)
        BY <3>3 DEF release
      <4>2. rq \in [Rounds -> RoundStates] /\ s # r /\ rq[r] = round[r]
        BY <2>0, <4>1 DEF FreshRound, RoundStates
      <4>3. round'[r].pc = rq[r].pc
        BY <4>1, <4>2 DEF WakeWaiters, RoundStates
      <4> QED BY <4>2, <4>3
    <3>4. ASSUME (\E l \in Limits : SetLimit(l)) \/ cleanupChannelLimits PROVE FALSE
      BY <3>4 DEF SetLimit, cleanupChannelLimits
    <3> QED BY <3>1, <3>2, <3>3, <3>4 DEF GateNext
  <2>2. InFlight = Holding(1) /\ round[r].gen = 1 /\ 1 \in Generations
    BY GateAssumption DEF OneCounter, InFlight, Holding, Generations
  <2>3. active[1] < round[r].lim
    <3>1. CASE ~(active[1] < round[r].lim)
      <4>1. round' = [round EXCEPT ![r].pc = "waiting", ![r].asleep = TRUE]
        BY <2>1, <2>2, <3>1 DEF TrySlot
      <4> QED BY <2>0, <4>1 DEF RoundStates
    <3> QED BY <3>1
  <2> QED BY <2>2, <2>3 DEF IInv, ActiveExact
<1> QED BY <1>1, <1>2, <1>3, Invariance, PTL DEF GateSpec, AdmitBelowLimit

-----------------------------------------------------------------------------
(***************************************************************************)
(* The proxy accounts.  The picks of account a by the requests R that are  *)
(* not given back are counted as pairs of a request and a place in its     *)
(* list; what the pool keeps of an account is the number of these pairs,   *)
(* for all requests and for those of each session.                         *)
(***************************************************************************)
Pairs(l, a, R) == {x \in R \X Nat : x[2] \in 1..Len(l[x[1]]) /\ l[x[1]][x[2]] = a}
Of(s) == {r \in PoolRequests : SessionOf[r] = s}

PoolStates == [active : Nat, sessions : [Sessions -> Nat], verified : BOOLEAN, last : Nat,
               until : Nat, fails : Nat, start : Nat, count : Nat]
LedgerRows == [last : Nat, until : Nat, start : Nat, count : Nat]

\* The state x of account a is exact for the leases l, and at most one session uses it.
Exact(x, l, a) ==
  /\ x.active = Cardinality(Pairs(l, a, PoolRequests))
  /\ \A s \in Sessions : x.sessions[s] = Cardinality(Pairs(l, a, Of(s)))
  /\ \A s, t \in Sessions : x.sessions[s] > 0 /\ x.sessions[t] > 0 => s = t

\* The pool p agrees with the leases l, except for the accounts in lost.
Agrees(p, l, lost) ==
  /\ DOMAIN p \subseteq Names /\ \A a \in DOMAIN p : p[a] \in PoolStates
  /\ \A a \in Names : IsFiniteSet(Pairs(l, a, PoolRequests))
  /\ \A a \in Names \ lost : IF a \in DOMAIN p THEN Exact(p[a], l, a) ELSE Pairs(l, a, PoolRequests) = {}

PoolTypeOK ==
  /\ leases \in [PoolRequests -> Seq(Names)]
  /\ minted \subseteq Accounts /\ today \in Nat
  /\ DOMAIN ledger \subseteq minted \cup {KeyAccount} /\ \A a \in DOMAIN ledger : ledger[a] \in LedgerRows
  /\ \A v \in saves : /\ v.account \in minted \cup {KeyAccount} /\ v.day \in Nat
                      /\ v.kind \in {"success", "cooldown", "failure"}

\* Only accounts that were made are known, picked or in the pool.
MadeFirst ==
  /\ DOMAIN pool \subseteq minted \cup {KeyAccount}
  /\ \A r \in PoolRequests : \A i \in 1..Len(leases[r]) : leases[r][i] \in minted \cup {KeyAccount}

\* Nothing is picked before the pool is loaded.
LoadedFirst == ~loaded => \A r \in PoolRequests : leases[r] = <<>>

\* Only bookings are left to do.
Bookings == {"success", "vote", "ban", "failure", "cool", "rest"}
TodoOK == todo \in [PoolRequests -> Seq(Bookings)]

PoolInv == PoolTypeOK /\ MadeFirst /\ LoadedFirst /\ Agrees(pool, leases, dropped)

\* The leases after r picks b, and after r gives its first pick back.
MorePicks(l, r, b) == [l EXCEPT ![r] = Append(@, b)]
FewerPicks(l, r) == [l EXCEPT ![r] = Tail(@)]

LEMMA PairsMembers ==
  ASSUME NEW l, NEW a, NEW R, NEW r, NEW i
  PROVE  <<r, i>> \in Pairs(l, a, R) <=> r \in R /\ i \in Nat /\ i \in 1..Len(l[r]) /\ l[r][i] = a
  BY DEF Pairs

\* A pick adds one pair.
LEMMA PickAdds ==
  ASSUME NEW l \in [PoolRequests -> Seq(Names)], NEW r \in PoolRequests, NEW b \in Names, NEW a,
         NEW R \in SUBSET PoolRequests
  PROVE  Pairs(MorePicks(l, r, b), a, R)
           = Pairs(l, a, R) \cup (IF r \in R /\ a = b THEN {<<r, Len(l[r]) + 1>>} ELSE {})
<1> DEFINE m == MorePicks(l, r, b)
           n == Len(l[r]) + 1
<1>1. /\ m \in [PoolRequests -> Seq(Names)] /\ m[r] = Append(l[r], b)
      /\ \A q \in PoolRequests : q # r => m[q] = l[q]
  BY DEF MorePicks
<1>2. /\ Len(l[r]) \in Nat /\ Len(m[r]) = n
      /\ \A i \in 1..n : m[r][i] = IF i = n THEN b ELSE l[r][i]
  BY <1>1
<1> HIDE DEF m, n
<1>3. n \in Nat /\ n \notin 1..Len(l[r]) /\ \A i : i \in 1..n <=> i \in 1..Len(l[r]) \/ i = n
  BY <1>2 DEF n
<1>4. ASSUME NEW x PROVE x \in Pairs(m, a, R) <=> x \in Pairs(l, a, R) \/ (x = <<r, n>> /\ r \in R /\ a = b)
  <2>1. CASE x \notin R \X Nat
    <3>1. ~(x = <<r, n>> /\ r \in R)
      BY <2>1, <1>3
    <3> QED
      BY <2>1, <3>1 DEF Pairs
  <2>2. ASSUME NEW q \in R, NEW i \in Nat, x = <<q, i>>
        PROVE x \in Pairs(m, a, R) <=> x \in Pairs(l, a, R) \/ (x = <<r, n>> /\ r \in R /\ a = b)
    <3>1. /\ <<q, i>> \in Pairs(m, a, R) <=> i \in 1..Len(m[q]) /\ m[q][i] = a
          /\ <<q, i>> \in Pairs(l, a, R) <=> i \in 1..Len(l[q]) /\ l[q][i] = a
      <4>1. <<q, i>> \in Pairs(m, a, R) <=> q \in R /\ i \in Nat /\ i \in 1..Len(m[q]) /\ m[q][i] = a
        BY PairsMembers
      <4>2. <<q, i>> \in Pairs(l, a, R) <=> q \in R /\ i \in Nat /\ i \in 1..Len(l[q]) /\ l[q][i] = a
        BY PairsMembers
      <4> QED
        BY <4>1, <4>2
    <3>2. CASE q = r
      BY <3>1, <3>2, <2>2, <1>2, <1>3
    <3>3. CASE q # r
      BY <3>1, <3>3, <2>2, <1>1
    <3> QED
      BY <3>2, <3>3
  <2> QED
    BY <2>1, <2>2
<1>5. Pairs(m, a, R) = Pairs(l, a, R) \cup (IF r \in R /\ a = b THEN {<<r, n>>} ELSE {})
  BY <1>4
<1> QED
  BY <1>5 DEF m, n

\* A release takes the first place of a list away and moves the others up: one pair less.
LEMMA ReleaseRemoves ==
  ASSUME NEW l \in [PoolRequests -> Seq(Names)], NEW r \in PoolRequests, l[r] # <<>>, NEW a,
         NEW R \in SUBSET PoolRequests, IsFiniteSet(Pairs(l, a, R))
  PROVE  /\ IsFiniteSet(Pairs(FewerPicks(l, r), a, R))
         /\ Cardinality(Pairs(FewerPicks(l, r), a, R))
              = IF r \in R /\ a = Head(l[r]) THEN Cardinality(Pairs(l, a, R)) - 1 ELSE Cardinality(Pairs(l, a, R))
<1> DEFINE m == FewerPicks(l, r)
           S == Pairs(l, a, R) \ {<<r, 1>>}
           T == Pairs(m, a, R)
           f == [x \in S |-> IF x[1] = r THEN <<r, x[2] - 1>> ELSE x]
<1>1. /\ m \in [PoolRequests -> Seq(Names)] /\ m[r] = Tail(l[r])
      /\ \A q \in PoolRequests : q # r => m[q] = l[q]
  BY DEF FewerPicks
<1>2. /\ Len(l[r]) \in Nat /\ Len(l[r]) > 0 /\ Len(m[r]) = Len(l[r]) - 1 /\ Head(l[r]) = l[r][1]
      /\ \A i \in 1..(Len(l[r]) - 1) : m[r][i] = l[r][i + 1]
  BY <1>1
<1> HIDE DEF m
<1>3. <<r, 1>> \in Pairs(l, a, R) <=> r \in R /\ a = Head(l[r])
  BY <1>2, PairsMembers
<1>4. /\ IsFiniteSet(S)
      /\ Cardinality(S) = IF <<r, 1>> \in Pairs(l, a, R) THEN Cardinality(Pairs(l, a, R)) - 1 ELSE Cardinality(Pairs(l, a, R))
  BY FS_RemoveElement
<1>5. ASSUME NEW x \in S
      PROVE  /\ x = <<x[1], x[2]>> /\ x[1] \in R /\ x[2] \in Nat /\ x[2] \in 1..Len(l[x[1]]) /\ l[x[1]][x[2]] = a
             /\ x[1] = r => x[2] # 1
  BY <1>5 DEF Pairs
<1>6. ASSUME NEW x \in S PROVE f[x] \in T
  <2>1. CASE x[1] = r
    <3>1. x[2] - 1 \in 1..(Len(l[r]) - 1) /\ x[2] - 1 \in Nat /\ m[r][x[2] - 1] = a /\ r \in R
      <4>1. x[2] \in Nat /\ x[2] \in 1..Len(l[r]) /\ x[2] # 1 /\ l[r][x[2]] = a /\ r \in R
        BY <2>1, <1>5
      <4>2. x[2] - 1 \in 1..(Len(l[r]) - 1) /\ x[2] - 1 \in Nat /\ x[2] - 1 + 1 = x[2]
        BY <4>1, <1>2
      <4> QED
        BY <4>1, <4>2, <1>2
    <3>2. <<r, x[2] - 1>> \in T
      BY <3>1, <1>2, PairsMembers
    <3> QED
      BY <3>2, <2>1
  <2>2. CASE x[1] # r
    <3>1. <<x[1], x[2]>> \in T
      BY <2>2, <1>1, <1>5, PairsMembers
    <3> QED
      BY <3>1, <2>2, <1>5
  <2> QED
    BY <2>1, <2>2
<1>7. ASSUME NEW x \in S, NEW y \in S, f[x] = f[y] PROVE x = y
  <2>1. f[x] = IF x[1] = r THEN <<r, x[2] - 1>> ELSE x
    OBVIOUS
  <2>2. f[y] = IF y[1] = r THEN <<r, y[2] - 1>> ELSE y
    OBVIOUS
  <2>3. f[x] = f[y]
    BY <1>7
  <2> HIDE DEF f, S
  <2>4. CASE x[1] = r /\ y[1] = r
    <3>1. x[2] - 1 = y[2] - 1
      BY <2>1, <2>2, <2>3, <2>4
    <3>2. x[2] = y[2]
      BY <3>1, <1>5
    <3> QED
      BY <3>2, <2>4, <1>5
  <2>5. CASE x[1] = r /\ y[1] # r
    BY <2>1, <2>2, <2>3, <2>5
  <2>6. CASE x[1] # r /\ y[1] = r
    BY <2>1, <2>2, <2>3, <2>6
  <2>7. CASE x[1] # r /\ y[1] # r
    BY <2>1, <2>2, <2>3, <2>7
  <2> QED
    BY <2>4, <2>5, <2>6, <2>7
<1>8. ASSUME NEW y \in T PROVE \E x \in S : f[x] = y
  <2>1. y = <<y[1], y[2]>> /\ y[1] \in R /\ y[2] \in Nat /\ y[2] \in 1..Len(m[y[1]]) /\ m[y[1]][y[2]] = a
    BY DEF Pairs
  <2>2. CASE y[1] = r
    <3>1. PICK k \in Nat : k = y[2]
      BY <2>1
    <3>2. y = <<r, k>> /\ k \in 1..Len(m[r]) /\ m[r][k] = a /\ r \in R
      BY <2>1, <2>2, <3>1
    <3>3. k + 1 \in 1..Len(l[r]) /\ k + 1 \in Nat /\ l[r][k + 1] = a /\ k + 1 # 1 /\ (k + 1) - 1 = k
      BY <3>2, <1>2
    <3>4. <<r, k + 1>> \in Pairs(l, a, R)
      BY <3>2, <3>3, PairsMembers
    <3>5. <<r, k + 1>> \in S
      BY <3>3, <3>4
    <3>6. f[<<r, k + 1>>] = <<r, (k + 1) - 1>>
      BY <3>5
    <3> HIDE DEF f, S, T
    <3> QED
      BY <3>2, <3>3, <3>5, <3>6
  <2> HIDE DEF T
  <2>3. CASE y[1] # r
    <3>1. <<y[1], y[2]>> \in Pairs(l, a, R)
      BY <2>1, <2>3, <1>1, PairsMembers
    <3>2. y \in S
      <4>1. y # <<r, 1>>
        BY <2>3
      <4> QED
        BY <3>1, <4>1, <2>1
    <3>3. f[y] = y
      BY <3>2, <2>3
    <3> QED
      BY <3>2, <3>3
  <2> QED
    BY <2>2, <2>3
<1>9. f \in Bijection(S, T)
  <2>1. f \in [S -> T]
    BY <1>6
  <2> HIDE DEF f, S, T
  <2> QED
    BY <2>1, <1>7, <1>8 DEF Bijection, Injection, Surjection, IsInjective
<1>10. IsFiniteSet(T) /\ Cardinality(T) = Cardinality(S)
  <2> HIDE DEF f, S, T
  <2> QED
    BY <1>4, <1>9, FS_Bijection DEF ExistsBijection
<1> QED
  BY <1>3, <1>4, <1>10 DEF m

\* Fewer requests have fewer picks.
LEMMA PairsFinite ==
  ASSUME NEW l, NEW a, IsFiniteSet(Pairs(l, a, PoolRequests)), NEW R \in SUBSET PoolRequests
  PROVE  IsFiniteSet(Pairs(l, a, R)) /\ Cardinality(Pairs(l, a, R)) \in Nat
         /\ (Pairs(l, a, PoolRequests) = {} => Pairs(l, a, R) = {})
<1>1. Pairs(l, a, R) \subseteq Pairs(l, a, PoolRequests)
  BY DEF Pairs
<1> QED
  BY <1>1, FS_Subset, FS_CardinalityType

\* A new state is exact for an account nobody has picked.
LEMMA FreshExact ==
  ASSUME NEW l, NEW a, Pairs(l, a, PoolRequests) = {}, NEW x \in PoolStates, x.active = 0,
         x.sessions = [s \in Sessions |-> 0]
  PROVE  Exact(x, l, a)
<1>1. \A s \in Sessions : Pairs(l, a, Of(s)) = {}
  BY DEF Pairs, Of
<1> QED
  BY <1>1, FS_EmptySet DEF Exact

LEMMA NewStateOK ==
  NewState \in PoolStates /\ NewState.active = 0 /\ NewState.sessions = [s \in Sessions |-> 0]
  BY DEF NewState, PoolStates

\* A request holds an account exactly if it has a pair with it.
LEMMA HolderPairs ==
  ASSUME PoolTypeOK, NEW a, NEW r \in PoolRequests
  PROVE  Holds(r, a) <=> \E i \in Nat : <<r, i>> \in Pairs(leases, a, PoolRequests)
<1>1. leases[r] \in Seq(Names) /\ DOMAIN leases[r] = 1..Len(leases[r]) /\ Len(leases[r]) \in Nat
  BY DEF PoolTypeOK
<1>2. \A i \in Nat : <<r, i>> \in Pairs(leases, a, PoolRequests) <=> i \in 1..Len(leases[r]) /\ leases[r][i] = a
  BY PairsMembers
<1>3. Holds(r, a) <=> \E i \in 1..Len(leases[r]) : leases[r][i] = a
  BY <1>1 DEF Holds
<1>4. \A i \in 1..Len(leases[r]) : i \in Nat
  BY <1>1
<1> QED
  BY <1>2, <1>3, <1>4

LEMMA UsersPairs ==
  ASSUME PoolTypeOK, NEW a \in Names
  PROVE  a \in InUse <=> Pairs(leases, a, PoolRequests) # {}
<1>1. a \in InUse <=> \E r \in PoolRequests : Holds(r, a)
  BY DEF InUse, Holds
<1>2. (\E r \in PoolRequests : Holds(r, a)) <=> Pairs(leases, a, PoolRequests) # {}
  <2>1. ASSUME NEW r \in PoolRequests, Holds(r, a) PROVE Pairs(leases, a, PoolRequests) # {}
    BY <2>1, HolderPairs
  <2>2. ASSUME NEW x \in Pairs(leases, a, PoolRequests) PROVE \E r \in PoolRequests : Holds(r, a)
    <3>1. x = <<x[1], x[2]>> /\ x[1] \in PoolRequests /\ x[2] \in Nat
      BY <2>2 DEF Pairs
    <3>2. Holds(x[1], a)
      BY <2>2, <3>1, HolderPairs
    <3> QED
      BY <3>1, <3>2
  <2> QED
    BY <2>1, <2>2
<1> QED
  BY <1>1, <1>2

\* The pool after its first load agrees as the pool does.
LEMMA LoadedAgrees ==
  ASSUME PoolInv
  PROVE  Agrees(Loaded, leases, dropped) /\ DOMAIN Loaded \subseteq minted \cup {KeyAccount}
<1>1. CASE loaded
  BY <1>1 DEF Loaded, PoolInv, MadeFirst
<1>2. CASE ~loaded
  <2>1. Loaded = [a \in DOMAIN ledger |-> Restored(ledger[a])]
    BY <1>2 DEF Loaded
  <2>2. \A a \in DOMAIN ledger : ledger[a] \in LedgerRows
    BY DEF PoolInv, PoolTypeOK
  <2>3. today \in Nat /\ DOMAIN ledger \subseteq minted \cup {KeyAccount} /\ minted \subseteq Accounts
    BY DEF PoolInv, PoolTypeOK
  <2>4. ASSUME NEW a \in DOMAIN ledger
        PROVE  /\ Restored(ledger[a]) \in PoolStates /\ Restored(ledger[a]).active = 0
               /\ Restored(ledger[a]).sessions = [s \in Sessions |-> 0]
    <3>1. PICK row \in LedgerRows : row = ledger[a]
      BY <2>2
    <3>2. PICK n \in PoolStates : n = NewState /\ n.active = 0 /\ n.sessions = [s \in Sessions |-> 0]
      BY NewStateOK
    <3>3. /\ row.last \in Nat /\ row.until \in Nat /\ (row.last > 0) \in BOOLEAN
          /\ (IF row.until > today THEN 0 ELSE row.start) \in Nat /\ (IF row.until > today THEN 0 ELSE row.count) \in Nat
      BY <2>3 DEF LedgerRows
    <3> DEFINE st == IF row.until > today THEN 0 ELSE row.start
               co == IF row.until > today THEN 0 ELSE row.count
               ve == row.last > 0
               x == [n EXCEPT !.last = row.last, !.until = row.until, !.verified = ve, !.start = st, !.count = co]
    <3>4. Restored(row) = x
      BY <3>2 DEF Restored
    <3> HIDE DEF st, co, ve
    <3>5. st \in Nat /\ co \in Nat /\ ve \in BOOLEAN /\ row.last \in Nat /\ row.until \in Nat
      BY <3>3 DEF st, co, ve
    <3>6. x \in PoolStates /\ x.active = n.active /\ x.sessions = n.sessions
      BY <3>5 DEF PoolStates
    <3> HIDE DEF x
    <3> QED
      BY <3>1, <3>2, <3>4, <3>6
  <2>5. \A a : Pairs(leases, a, PoolRequests) = {}
    <3>1. \A r \in PoolRequests : Len(leases[r]) = 0
      BY <1>2 DEF PoolInv, LoadedFirst
    <3> QED
      BY <3>1 DEF Pairs
  <2>6. DOMAIN Loaded = DOMAIN ledger /\ \A a \in DOMAIN ledger : Loaded[a] = Restored(ledger[a])
    BY <2>1
  <2>7. \A a \in Names : IsFiniteSet(Pairs(leases, a, PoolRequests))
    BY DEF PoolInv, Agrees
  <2>8. ASSUME NEW a \in DOMAIN ledger PROVE Loaded[a] \in PoolStates /\ Exact(Loaded[a], leases, a)
    <3>1. PICK x \in PoolStates : x = Loaded[a] /\ x.active = 0 /\ x.sessions = [s \in Sessions |-> 0]
      BY <2>4, <2>6
    <3> QED
      BY <3>1, <2>5, FreshExact
  <2> HIDE DEF Loaded
  <2> QED
    BY <2>3, <2>5, <2>6, <2>7, <2>8 DEF Agrees, Names
<1> QED
  BY <1>1, <1>2

\* An account that is known or made.
LEMMA KnownAgrees ==
  ASSUME NEW p, NEW l, NEW lost, Agrees(p, l, lost), NEW a \in Names
  PROVE  /\ Agrees(Known(p, a), l, lost) /\ DOMAIN Known(p, a) = DOMAIN p \cup {a}
         /\ \A b \in DOMAIN p : Known(p, a)[b] = p[b]
         /\ a \notin DOMAIN p => Known(p, a) = With(p, a, NewState) /\ Known(p, a)[a] = NewState
<1>1. CASE a \in DOMAIN p
  BY <1>1 DEF Known
<1>2. CASE a \notin DOMAIN p
  <2>1. Known(p, a) = With(p, a, NewState)
    BY <1>2 DEF Known
  <2>2. DOMAIN Known(p, a) = DOMAIN p \cup {a} /\ Known(p, a)[a] = NewState /\ \A b \in DOMAIN p : Known(p, a)[b] = p[b]
    BY <1>2, <2>1 DEF With
  <2>3. a \notin lost => Exact(NewState, l, a)
    BY <1>2, NewStateOK, FreshExact DEF Agrees
  <2> QED
    BY <1>2, <2>1, <2>2, <2>3, NewStateOK DEF Agrees
<1> QED
  BY <1>1, <1>2

\* Accounts that are removed while in use are lost; the others nobody has picked.
LEMMA LessAgrees ==
  ASSUME PoolTypeOK, NEW p, NEW lost, Agrees(p, leases, lost), NEW gone
  PROVE  Agrees(Less(p, gone), leases, lost \cup (gone \cap InUse))
<1>1. DOMAIN Less(p, gone) = DOMAIN p \ gone /\ \A a \in DOMAIN p \ gone : Less(p, gone)[a] = p[a]
  BY DEF Less
<1>2. \A a \in Names : a \in gone /\ a \notin InUse => Pairs(leases, a, PoolRequests) = {}
  BY UsersPairs
<1> QED
  BY <1>1, <1>2 DEF Agrees

\* A state that counts the same may take the place of another.
LEMMA SameCount ==
  ASSUME NEW p, NEW l, NEW lost, Agrees(p, l, lost), NEW a \in DOMAIN p, NEW x \in PoolStates,
         x.active = p[a].active, x.sessions = p[a].sessions
  PROVE  Agrees(With(p, a, x), l, lost)
<1>1. DOMAIN With(p, a, x) = DOMAIN p /\ With(p, a, x)[a] = x /\ \A b \in DOMAIN p \ {a} : With(p, a, x)[b] = p[b]
  BY DEF With
<1>2. Exact(p[a], l, a) => Exact(x, l, a)
  BY DEF Exact
<1> QED
  BY <1>1, <1>2 DEF Agrees

\* A pick counts one more for its account, and none more for the others.
LEMMA PickCounts ==
  ASSUME NEW l \in [PoolRequests -> Seq(Names)], NEW r \in PoolRequests, NEW b \in Names, NEW a,
         NEW R \in SUBSET PoolRequests, IsFiniteSet(Pairs(l, a, R))
  PROVE  /\ IsFiniteSet(Pairs(MorePicks(l, r, b), a, R))
         /\ r \in R /\ a = b => Cardinality(Pairs(MorePicks(l, r, b), a, R)) = Cardinality(Pairs(l, a, R)) + 1
         /\ ~(r \in R /\ a = b) => Pairs(MorePicks(l, r, b), a, R) = Pairs(l, a, R)
<1> DEFINE m == MorePicks(l, r, b)
           n == Len(l[r]) + 1
<1>1. Pairs(m, a, R) = Pairs(l, a, R) \cup (IF r \in R /\ a = b THEN {<<r, n>>} ELSE {})
  BY PickAdds
<1>2. n \notin 1..Len(l[r])
  BY Len(l[r]) \in Nat
<1>3. <<r, n>> \notin Pairs(l, a, R)
  BY <1>2, PairsMembers
<1> HIDE DEF m, n
<1>4. IsFiniteSet(Pairs(l, a, R) \cup {<<r, n>>}) /\ Cardinality(Pairs(l, a, R) \cup {<<r, n>>}) = Cardinality(Pairs(l, a, R)) + 1
  BY <1>3, FS_AddElement
<1>5. CASE r \in R /\ a = b
  <2>1. Pairs(m, a, R) = Pairs(l, a, R) \cup {<<r, n>>}
    BY <1>1, <1>5
  <2> QED
    BY <2>1, <1>4, <1>5 DEF m
<1>6. CASE ~(r \in R /\ a = b)
  <2>1. Pairs(m, a, R) = Pairs(l, a, R)
    BY <1>1, <1>6
  <2> QED
    BY <2>1, <1>6 DEF m
<1> QED
  BY <1>5, <1>6

\* A pick of an account that its session may use.
LEMMA TakenAgrees ==
  ASSUME NEW p, NEW l \in [PoolRequests -> Seq(Names)], NEW lost, Agrees(p, l, lost),
         NEW r \in PoolRequests, NEW a \in DOMAIN p, ocProxySessionAvailable(p[a], SessionOf[r])
  PROVE  /\ Agrees(Taken(p, a, SessionOf[r]), MorePicks(l, r, a), lost)
         /\ DOMAIN Taken(p, a, SessionOf[r]) = DOMAIN p
<1> DEFINE s == SessionOf[r]
           m == MorePicks(l, r, a)
           q == Taken(p, a, s)
<1>1. a \in Names /\ p[a] \in PoolStates /\ IsFiniteSet(Pairs(l, a, PoolRequests))
  BY DEF Agrees
<1>2. s \in Sessions \cup {NoSession} /\ NoSession \notin Sessions
  BY PoolAssumption
<1>3. PICK x \in PoolStates : x = p[a]
  BY <1>1
<1> DEFINE ss == Joined(x.sessions, s)
<1>4. ss \in [Sessions -> Nat]
  BY <1>2 DEF PoolStates, Joined
<1>5. /\ DOMAIN q = DOMAIN p /\ \A b \in DOMAIN p : b # a => q[b] = p[b]
      /\ q[a] = [[x EXCEPT !.active = @ + 1] EXCEPT !.sessions = ss]
  <2>1. q = [p EXCEPT ![a].active = @ + 1, ![a].sessions = ss]
    BY <1>3 DEF Taken
  <2> HIDE DEF ss, q
  <2> QED
    BY <1>3, <2>1
<1>6. \A t \in Sessions : ss[t] = IF t = s THEN x.sessions[t] + 1 ELSE x.sessions[t]
  BY <1>2 DEF PoolStates, Joined
<1>7. \A t \in Sessions : x.sessions[t] > 0 => s = NoSession \/ t = s
  BY <1>3 DEF ocProxySessionAvailable
<1>8. \A b \in Names : IsFiniteSet(Pairs(m, b, PoolRequests)) /\ (b # a => Pairs(m, b, PoolRequests) = Pairs(l, b, PoolRequests))
  BY <1>1, PickCounts DEF Agrees
<1> HIDE DEF ss
<1>9. q[a] \in PoolStates /\ q[a].active = x.active + 1 /\ q[a].sessions = ss
  <2>1. PICK y \in PoolStates : y = [x EXCEPT !.active = @ + 1] /\ y.active = x.active + 1
    <3>1. [x EXCEPT !.active = @ + 1] \in PoolStates /\ [x EXCEPT !.active = @ + 1].active = x.active + 1
      BY DEF PoolStates
    <3> QED
      BY <3>1
  <2>2. q[a] = [y EXCEPT !.sessions = ss]
    BY <2>1, <1>5
  <2>3. [y EXCEPT !.sessions = ss] \in PoolStates /\ [y EXCEPT !.sessions = ss].active = y.active /\ [y EXCEPT !.sessions = ss].sessions = ss
    BY <1>4 DEF PoolStates
  <2> QED
    BY <2>1, <2>2, <2>3
<1> HIDE DEF q
<1>10. ASSUME a \notin lost PROVE Exact(q[a], m, a)
  <2>1. Exact(x, l, a)
    BY <1>1, <1>3, <1>10 DEF Agrees
  <2>2. q[a].active = Cardinality(Pairs(m, a, PoolRequests))
    BY <2>1, <1>1, <1>9, PickCounts DEF Exact
  <2>3. ASSUME NEW t \in Sessions PROVE ss[t] = Cardinality(Pairs(m, a, Of(t)))
    <3>1. Of(t) \in SUBSET PoolRequests /\ (r \in Of(t) <=> s = t)
      BY DEF Of
    <3>2. IsFiniteSet(Pairs(l, a, Of(t)))
      BY <1>1, <3>1, PairsFinite
    <3>3. x.sessions[t] = Cardinality(Pairs(l, a, Of(t)))
      BY <2>1 DEF Exact
    <3>4. /\ s = t => Cardinality(Pairs(m, a, Of(t))) = Cardinality(Pairs(l, a, Of(t))) + 1
          /\ s # t => Pairs(m, a, Of(t)) = Pairs(l, a, Of(t))
      BY <1>1, <3>1, <3>2, PickCounts
    <3> HIDE DEF m, s
    <3> QED
      BY <3>3, <3>4, <1>6
  <2>4. ASSUME NEW t \in Sessions, NEW u \in Sessions, ss[t] > 0, ss[u] > 0 PROVE t = u
    <3>1. x.sessions[t] \in Nat /\ x.sessions[u] \in Nat
      BY DEF PoolStates
    <3>2. x.sessions[t] > 0 /\ x.sessions[u] > 0 => t = u
      BY <2>1 DEF Exact
    <3> HIDE DEF s
    <3> QED
      BY <2>4, <3>1, <3>2, <1>2, <1>6, <1>7
  <2> HIDE DEF m, s
  <2> QED
    BY <2>2, <2>3, <2>4, <1>9 DEF Exact
<1>11. ASSUME NEW b \in Names \ lost, b # a
       PROVE  IF b \in DOMAIN q THEN Exact(q[b], m, b) ELSE Pairs(m, b, PoolRequests) = {}
  <2>1. CASE b \notin DOMAIN p
    BY <2>1, <1>5, <1>8, <1>11 DEF Agrees
  <2>2. CASE b \in DOMAIN p
    <3>1. Exact(p[b], l, b) /\ q[b] = p[b] /\ IsFiniteSet(Pairs(l, b, PoolRequests))
      BY <2>2, <1>5, <1>11 DEF Agrees
    <3>2. \A t \in Sessions : Pairs(m, b, Of(t)) = Pairs(l, b, Of(t))
      <4>1. \A t \in Sessions : Of(t) \in SUBSET PoolRequests
        BY DEF Of
      <4>2. \A t \in Sessions : IsFiniteSet(Pairs(l, b, Of(t)))
        BY <3>1, <4>1, PairsFinite
      <4> QED
        BY <1>1, <1>11, <4>1, <4>2, PickCounts
    <3> HIDE DEF m, s
    <3> QED
      BY <2>2, <3>1, <3>2, <1>5, <1>8, <1>11 DEF Exact
  <2> QED
    BY <2>1, <2>2
<1> HIDE DEF m
<1>12. Agrees(q, m, lost)
  <2>1. DOMAIN q \subseteq Names /\ \A b \in DOMAIN q : q[b] \in PoolStates
    BY <1>5, <1>9 DEF Agrees
  <2> QED
    BY <2>1, <1>1, <1>5, <1>8, <1>10, <1>11 DEF Agrees
<1> QED
  BY <1>5, <1>12 DEF m, q

\* The pool after the first pick of r is given back.
GaveBack(p, l, r) ==
  LET a == Head(l[r])
  IN IF a \notin DOMAIN p THEN p
     ELSE [p EXCEPT ![a].active = IF @ > 0 THEN @ - 1 ELSE 0, ![a].sessions = Left(@, SessionOf[r])]

LEMMA GaveBackAgrees ==
  ASSUME NEW p, NEW l \in [PoolRequests -> Seq(Names)], NEW lost, Agrees(p, l, lost),
         NEW r \in PoolRequests, l[r] # <<>>
  PROVE  Agrees(GaveBack(p, l, r), FewerPicks(l, r), lost) /\ DOMAIN GaveBack(p, l, r) = DOMAIN p
<1> DEFINE s == SessionOf[r]
           a == Head(l[r])
           m == FewerPicks(l, r)
           q == GaveBack(p, l, r)
<1>1. a \in Names /\ \A b \in Names : IsFiniteSet(Pairs(l, b, PoolRequests))
  BY DEF Agrees
<1>2. s \in Sessions \cup {NoSession} /\ NoSession \notin Sessions
  BY PoolAssumption
<1>3. /\ \A R \in SUBSET PoolRequests : r \in R => <<r, 1>> \in Pairs(l, a, R)
      /\ <<r, 1>> \in Pairs(l, a, PoolRequests)
  <2>1. 1 \in Nat /\ 1 \in 1..Len(l[r]) /\ l[r][1] = a
    BY l[r] \in Seq(Names)
  <2> QED
    BY <2>1, PairsMembers
<1> HIDE DEF s, a, q
<1>4. ASSUME NEW b \in Names, NEW R \in SUBSET PoolRequests
      PROVE  /\ IsFiniteSet(Pairs(m, b, R))
             /\ Cardinality(Pairs(m, b, R)) = IF r \in R /\ b = a THEN Cardinality(Pairs(l, b, R)) - 1 ELSE Cardinality(Pairs(l, b, R))
             /\ Cardinality(Pairs(l, b, R)) \in Nat
             /\ r \in R /\ b = a => Cardinality(Pairs(l, b, R)) > 0
  <2>1. IsFiniteSet(Pairs(l, b, R)) /\ Cardinality(Pairs(l, b, R)) \in Nat
    BY <1>1, PairsFinite
  <2>2. r \in R /\ b = a => Cardinality(Pairs(l, b, R)) > 0
    BY <2>1, <1>3, FS_EmptySet
  <2> QED
    BY <2>1, <2>2, ReleaseRemoves DEF a
<1> HIDE DEF m
<1>5. \A t \in Sessions : Of(t) \in SUBSET PoolRequests /\ (r \in Of(t) <=> s = t)
  BY DEF Of, s
<1>6. ASSUME NEW b \in Names \ lost, b # a
      PROVE  IF b \in DOMAIN p THEN Exact(p[b], m, b) ELSE Pairs(m, b, PoolRequests) = {}
  <2>1. CASE b \in DOMAIN p
    <3>1. Exact(p[b], l, b)
      BY <2>1 DEF Agrees
    <3>2. /\ Cardinality(Pairs(m, b, PoolRequests)) = Cardinality(Pairs(l, b, PoolRequests))
          /\ \A t \in Sessions : Cardinality(Pairs(m, b, Of(t))) = Cardinality(Pairs(l, b, Of(t)))
      BY <1>4, <1>5, <1>6
    <3> QED
      BY <2>1, <3>1, <3>2 DEF Exact
  <2>2. CASE b \notin DOMAIN p
    <3>1. Pairs(l, b, PoolRequests) = {}
      BY <2>2 DEF Agrees
    <3>2. Cardinality(Pairs(m, b, PoolRequests)) = 0 /\ IsFiniteSet(Pairs(m, b, PoolRequests))
      <4>1. Cardinality(Pairs(l, b, PoolRequests)) = 0
        BY <3>1, FS_EmptySet
      <4>2. PoolRequests \in SUBSET PoolRequests
        OBVIOUS
      <4> QED
        BY <4>1, <4>2, <1>4, <1>6
    <3> QED
      BY <2>2, <3>2, FS_EmptySet
  <2> QED
    BY <2>1, <2>2
<1>7. \A b \in Names : IsFiniteSet(Pairs(m, b, PoolRequests))
  BY <1>4
<1>8. CASE a \notin DOMAIN p
  <2>1. q = p
    BY <1>8 DEF q, GaveBack, a
  <2>2. a \in lost
    BY <1>1, <1>3, <1>8 DEF Agrees
  <2>3. Agrees(p, m, lost)
    BY <2>2, <1>6, <1>7 DEF Agrees
  <2> QED
    BY <2>1, <2>3 DEF q, m
<1>9. CASE a \in DOMAIN p
  <2>1. PICK x \in PoolStates : x = p[a]
    BY <1>9 DEF Agrees
  <2> DEFINE ss == Left(x.sessions, s)
             n == IF x.active > 0 THEN x.active - 1 ELSE 0
  <2>2. n \in Nat /\ ss \in [Sessions -> Nat]
    <3>1. n \in Nat
      BY DEF PoolStates
    <3>2. x.sessions \in [Sessions -> Nat]
      BY DEF PoolStates
    <3>3. CASE s = NoSession
      BY <3>1, <3>2, <3>3 DEF Left
    <3>4. CASE s # NoSession
      <4>1. s \in Sessions /\ (IF x.sessions[s] > 1 THEN x.sessions[s] - 1 ELSE 0) \in Nat
        BY <3>2, <3>4, <1>2
      <4> QED
        BY <3>1, <3>2, <3>4, <4>1 DEF Left
    <3> QED
      BY <3>3, <3>4
  <2>3. \A t \in Sessions : ss[t] = IF t = s THEN (IF x.sessions[t] > 1 THEN x.sessions[t] - 1 ELSE 0) ELSE x.sessions[t]
    BY <1>2 DEF PoolStates, Left
  <2>4. q = [p EXCEPT ![a].active = n, ![a].sessions = ss]
    BY <1>9, <2>1 DEF q, GaveBack, a, s
  <2> HIDE DEF ss, n
  <2>5. /\ DOMAIN q = DOMAIN p /\ \A b \in DOMAIN p : b # a => q[b] = p[b]
        /\ q[a] = [[x EXCEPT !.active = n] EXCEPT !.sessions = ss]
    BY <2>1, <2>4, <1>9
  <2>6. q[a] \in PoolStates /\ q[a].active = n /\ q[a].sessions = ss
    <3>1. PICK y \in PoolStates : y = [x EXCEPT !.active = n] /\ y.active = n
      <4>1. [x EXCEPT !.active = n] \in PoolStates /\ [x EXCEPT !.active = n].active = n
        BY <2>2 DEF PoolStates
      <4> QED
        BY <4>1
    <3>2. q[a] = [y EXCEPT !.sessions = ss]
      BY <3>1, <2>5
    <3>3. [y EXCEPT !.sessions = ss] \in PoolStates /\ [y EXCEPT !.sessions = ss].active = y.active /\ [y EXCEPT !.sessions = ss].sessions = ss
      BY <2>2 DEF PoolStates
    <3> QED
      BY <3>1, <3>2, <3>3
  <2>7. ASSUME a \notin lost PROVE Exact(q[a], m, a)
    <3>1. Exact(x, l, a)
      BY <1>1, <1>9, <2>1, <2>7 DEF Agrees
    <3>2. n = Cardinality(Pairs(m, a, PoolRequests))
      <4>1. x.active = Cardinality(Pairs(l, a, PoolRequests))
        BY <3>1 DEF Exact
      <4>2. /\ Cardinality(Pairs(m, a, PoolRequests)) = Cardinality(Pairs(l, a, PoolRequests)) - 1
            /\ Cardinality(Pairs(l, a, PoolRequests)) \in Nat /\ Cardinality(Pairs(l, a, PoolRequests)) > 0
        BY <1>1, <1>4
      <4> QED
        BY <4>1, <4>2 DEF n
    <3>3. ASSUME NEW t \in Sessions PROVE ss[t] = Cardinality(Pairs(m, a, Of(t)))
      <4>1. x.sessions[t] = Cardinality(Pairs(l, a, Of(t)))
        BY <3>1 DEF Exact
      <4>2. /\ Cardinality(Pairs(l, a, Of(t))) \in Nat
            /\ s = t => Cardinality(Pairs(l, a, Of(t))) > 0 /\ Cardinality(Pairs(m, a, Of(t))) = Cardinality(Pairs(l, a, Of(t))) - 1
            /\ s # t => Cardinality(Pairs(m, a, Of(t))) = Cardinality(Pairs(l, a, Of(t)))
        BY <1>1, <1>4, <1>5
      <4> QED
        BY <4>1, <4>2, <2>3
    <3>4. ASSUME NEW t \in Sessions, NEW u \in Sessions, ss[t] > 0, ss[u] > 0 PROVE t = u
      <4>1. x.sessions[t] \in Nat /\ x.sessions[u] \in Nat
        BY DEF PoolStates
      <4>2. x.sessions[t] > 0 /\ x.sessions[u] > 0
        BY <3>4, <4>1, <2>3
      <4> QED
        BY <4>2, <3>1 DEF Exact
    <3> QED
      BY <3>2, <3>3, <3>4, <2>6 DEF Exact
  <2>8. DOMAIN q \subseteq Names /\ \A b \in DOMAIN q : q[b] \in PoolStates
    BY <2>5, <2>6 DEF Agrees
  <2>9. Agrees(q, m, lost)
    BY <2>5, <2>7, <2>8, <1>6, <1>7, <1>9 DEF Agrees
  <2> QED
    BY <2>5, <2>9 DEF q, m
<1> QED
  BY <1>8, <1>9

-----------------------------------------------------------------------------
\* The account that is kept is never the one trimmed away.
LEMMA TrimKeeps ==
  ASSUME NEW p, NEW a, NEW gone \in Trimmed(p, a)
  PROVE  a \notin gone
  BY DEF Trimmed

\* A booking leaves a pool that agrees.
LEMMA BookedAgrees ==
  ASSUME PoolInv, NEW a \in minted \cup {KeyAccount}, NEW x \in PoolStates,
         x.active = Known(Loaded, a)[a].active, x.sessions = Known(Loaded, a)[a].sessions,
         NEW gone, a \notin gone
  PROVE  LET p == With(Less(Loaded, gone), a, x)
         IN Agrees(p, leases, dropped \cup (gone \cap InUse)) /\ DOMAIN p \subseteq minted \cup {KeyAccount}
<1> DEFINE p == Loaded
           k == Known(Loaded, a)
           lost == dropped \cup (gone \cap InUse)
<1>1. a \in Names /\ a \notin gone /\ PoolTypeOK
  BY DEF PoolInv, PoolTypeOK, Names
<1>2. Agrees(p, leases, dropped) /\ DOMAIN p \subseteq minted \cup {KeyAccount}
  BY LoadedAgrees
<1> HIDE DEF p
<1>3. Agrees(k, leases, dropped) /\ DOMAIN k = DOMAIN p \cup {a} /\ \A b \in DOMAIN p : k[b] = p[b]
  BY <1>1, <1>2, KnownAgrees DEF p
<1> HIDE DEF k
<1>4. Agrees(Less(k, gone), leases, lost)
  BY <1>1, <1>3, LessAgrees
<1>5. a \in DOMAIN Less(k, gone) /\ Less(k, gone)[a] = k[a]
  BY <1>1, <1>3 DEF Less
<1>6. x.active = Less(k, gone)[a].active /\ x.sessions = Less(k, gone)[a].sessions
  BY <1>5 DEF k
<1> HIDE DEF lost
<1>7. Agrees(With(Less(k, gone), a, x), leases, lost)
  BY <1>4, <1>5, <1>6, SameCount
<1>8. With(Less(k, gone), a, x) = With(Less(p, gone), a, x)
  BY <1>1, <1>3 DEF With, Less
<1>9. DOMAIN With(Less(p, gone), a, x) \subseteq minted \cup {KeyAccount}
  BY <1>2 DEF With, Less
<1> QED
  BY <1>7, <1>8, <1>9 DEF p, lost

\* The state of a known account.
LEMMA KnownState ==
  ASSUME PoolInv, NEW a \in minted \cup {KeyAccount}
  PROVE  Known(Loaded, a)[a] \in PoolStates
<1>1. a \in Names
  BY DEF PoolInv, PoolTypeOK, Names
<1> QED
  BY <1>1, LoadedAgrees, KnownAgrees DEF Agrees

\* Steps that leave the leases alone.
LEMMA PoolSwapped ==
  ASSUME PoolInv, Agrees(pool', leases, dropped'), DOMAIN pool' \subseteq minted \cup {KeyAccount},
         UNCHANGED <<leases, minted, ledger, today>>, loaded' = TRUE \/ loaded' = loaded,
         \A v \in saves' : v \in saves \/ (/\ v.account \in minted \cup {KeyAccount} /\ v.day \in Nat
                                          /\ v.kind \in {"success", "cooldown", "failure"})
  PROVE  PoolInv'
<1>1. PoolTypeOK'
  BY DEF PoolInv, PoolTypeOK
<1>2. MadeFirst'
  BY DEF PoolInv, MadeFirst
<1>3. LoadedFirst'
  BY DEF PoolInv, LoadedFirst
<1>4. Agrees(pool, leases, dropped)'
  BY DEF Agrees, Exact, Pairs, Of
<1> QED
  BY <1>1, <1>2, <1>3, <1>4 DEF PoolInv

LEMMA BookedInv ==
  ASSUME PoolInv, NEW a \in minted \cup {KeyAccount}, NEW x \in PoolStates,
         x.active = Known(Loaded, a)[a].active, x.sessions = Known(Loaded, a)[a].sessions,
         NEW kind \in {"success", "cooldown", "failure"}, NEW day \in Nat,
         Booked(Loaded, a, x, [kind |-> kind, account |-> a, day |-> day]),
         UNCHANGED <<leases, minted, ledger, today>>
  PROVE  PoolInv'
<1> DEFINE save == [kind |-> kind, account |-> a, day |-> day]
<1>1. PICK gone \in {{}} \cup Trimmed(Known(Loaded, a), a) :
        /\ pool' = With(Less(Loaded, gone), a, x) /\ loaded' = TRUE
        /\ dropped' = dropped \cup (gone \cap InUse)
        /\ saves' = saves \cup {save}
  BY DEF Booked
<1>2. Agrees(pool', leases, dropped') /\ DOMAIN pool' \subseteq minted \cup {KeyAccount}
  <2>1. a \notin gone
    BY TrimKeeps
  <2> QED
    BY <1>1, <2>1, BookedAgrees
<1>3. save.account = a /\ save.day = day /\ save.kind = kind
  OBVIOUS
<1> HIDE DEF save
<1>4. \A v \in saves' : v \in saves \/ (/\ v.account \in minted \cup {KeyAccount} /\ v.day \in Nat
                                        /\ v.kind \in {"success", "cooldown", "failure"})
  BY <1>1, <1>3
<1> QED
  BY <1>1, <1>2, <1>4, PoolSwapped

\* What a booking writes into a state leaves its counts alone.
Rebooked(k, u, f, s, c) == [k EXCEPT !.until = u, !.fails = f, !.start = s, !.count = c]

LEMMA markSuccessInv ==
  ASSUME PoolInv, NEW a \in minted \cup {KeyAccount}, markSuccess(a), UNCHANGED <<leases, minted, ledger, today>>
  PROVE  PoolInv'
<1>1. PICK k \in PoolStates : k = Known(Loaded, a)[a]
  BY KnownState
<1> DEFINE x == [k EXCEPT !.verified = TRUE, !.last = today, !.until = 0, !.fails = 0]
<1>2. today \in Nat
  BY DEF PoolInv, PoolTypeOK
<1>3. x \in PoolStates /\ x.active = k.active /\ x.sessions = k.sessions
  BY <1>2 DEF PoolStates
<1>4. Booked(Loaded, a, x, [kind |-> "success", account |-> a, day |-> today])
  BY <1>1 DEF markSuccess
<1> HIDE DEF x
<1> QED
  BY <1>1, <1>2, <1>3, <1>4, BookedInv

LEMMA markCooldownInv ==
  ASSUME PoolInv, NEW a \in minted \cup {KeyAccount}, NEW d \in Nat, markCooldown(a, d),
         UNCHANGED <<leases, minted, ledger, today>>
  PROVE  PoolInv'
<1>1. PICK k \in PoolStates : k = Known(Loaded, a)[a]
  BY KnownState
<1> DEFINE x == Rebooked(k, d, 0, 0, 0)
<1>2. x \in PoolStates /\ x.active = k.active /\ x.sessions = k.sessions
  BY DEF PoolStates, Rebooked
<1>3. Booked(Loaded, a, x, [kind |-> "cooldown", account |-> a, day |-> d])
  BY <1>1 DEF markCooldown, Rebooked
<1>4. PICK y \in PoolStates : y = x
  BY <1>2
<1> HIDE DEF x
<1>5. y.active = Known(Loaded, a)[a].active /\ y.sessions = Known(Loaded, a)[a].sessions
  BY <1>1, <1>2, <1>4
<1>6. Booked(Loaded, a, y, [kind |-> "cooldown", account |-> a, day |-> d])
  BY <1>3, <1>4
<1> QED
  BY <1>5, <1>6, BookedInv

\* So does a cooldown that Retry-After cuts short.
LEMMA markRejectedInv ==
  ASSUME PoolInv, NEW a \in minted \cup {KeyAccount}, markRejected(a), UNCHANGED <<leases, minted, ledger, today>>
  PROVE  PoolInv'
<1>1. PICK d \in RejectCooldowns : markCooldown(a, d)
  BY DEF markRejected
<1>2. d \in Nat
  BY DEF RejectCooldowns, PoolInv, PoolTypeOK
<1> QED
  BY <1>1, <1>2, markCooldownInv

\* A failure counts nothing that a pick counts.
LEMMA FailedState ==
  ASSUME PoolInv, NEW k \in PoolStates
  PROVE  LET x == Failed(k).state IN x \in PoolStates /\ x.active = k.active /\ x.sessions = k.sessions
<1> DEFINE fresh == k.start = 0 \/ today - k.start > 1
           n == IF fresh THEN 1 ELSE k.count + 1
           st == IF fresh THEN today ELSE k.start
           d == today + 1
           f == k.fails + 1
           full == Rebooked(k, d, 0, 0, 0)
           more == Rebooked(k, k.until, f, st, n)
<1>1. today \in Nat /\ d \in Nat /\ 0 \in Nat
  BY DEF PoolInv, PoolTypeOK
<1>2. full \in PoolStates /\ full.active = k.active /\ full.sessions = k.sessions
  <2> HIDE DEF d
  <2> QED
    BY <1>1 DEF PoolStates, Rebooked
<1>3. n \in Nat /\ st \in Nat /\ f \in Nat
  BY <1>1 DEF PoolStates
<1>4. Failed(k).state = IF today < k.until THEN k ELSE IF n >= FailureLimit THEN full ELSE more
  <2>1. k.until \in Nat
    BY DEF PoolStates
  <2>2. more = [k EXCEPT !.fails = f, !.start = st, !.count = n]
    <3> HIDE DEF f, st, n
    <3> QED
      BY <1>1, <1>3, <2>1 DEF PoolStates, Rebooked
  <2>3. full = [k EXCEPT !.until = d, !.fails = 0, !.start = 0, !.count = 0]
    BY DEF Rebooked
  <2> HIDE DEF full, more
  <2> QED
    BY <2>2, <2>3 DEF Failed
<1> HIDE DEF n, st, full, f
<1>5. more \in PoolStates /\ more.active = k.active /\ more.sessions = k.sessions
  BY <1>3, <1>1 DEF PoolStates, Rebooked
<1> HIDE DEF more
<1> QED
  BY <1>2, <1>4, <1>5

-----------------------------------------------------------------------------
\* A pick from the pool p, the accounts lost being those in lost.
LEMMA PickedInv ==
  ASSUME PoolInv, NEW r \in PoolRequests, NEW p, NEW a \in DOMAIN p,
         Agrees(p, leases, dropped'), ocProxySessionAvailable(p[a], SessionOf[r]),
         minted \subseteq minted', minted' \subseteq Accounts, DOMAIN p \subseteq minted' \cup {KeyAccount},
         pool' = Taken(p, a, SessionOf[r]), loaded' = TRUE, leases' = [leases EXCEPT ![r] = Append(@, a)],
         UNCHANGED <<ledger, saves, today>>
  PROVE  PoolInv'
<1>1. leases \in [PoolRequests -> Seq(Names)] /\ a \in Names
  BY DEF PoolInv, PoolTypeOK, Agrees
<1>2. leases' = MorePicks(leases, r, a) /\ leases' \in [PoolRequests -> Seq(Names)]
  BY <1>1 DEF MorePicks
<1>3. Agrees(pool', leases', dropped') /\ DOMAIN pool' = DOMAIN p
  <2>1. /\ Agrees(Taken(p, a, SessionOf[r]), MorePicks(leases, r, a), dropped')
        /\ DOMAIN Taken(p, a, SessionOf[r]) = DOMAIN p
    BY <1>1, TakenAgrees
  <2> QED
    BY <1>2, <2>1
<1>4. PoolTypeOK'
  BY <1>2 DEF PoolInv, PoolTypeOK
<1>5. MadeFirst'
  <2>1. ASSUME NEW q \in PoolRequests, NEW i \in 1..Len(leases'[q]) PROVE leases'[q][i] \in minted' \cup {KeyAccount}
    <3>1. CASE q = r
      <4>1. leases'[q] = Append(leases[q], a) /\ leases[q] \in Seq(Names)
        BY <1>1, <3>1
      <4>2. i = Len(leases[q]) + 1 \/ i \in 1..Len(leases[q])
        BY <4>1
      <4>3. CASE i = Len(leases[q]) + 1
        BY <4>1, <4>3
      <4>4. CASE i \in 1..Len(leases[q])
        <5>1. leases'[q][i] = leases[q][i]
          BY <4>1, <4>4
        <5> QED
          BY <5>1, <4>4 DEF PoolInv, MadeFirst
      <4> QED
        BY <4>2, <4>3, <4>4
    <3>2. CASE q # r
      <4>1. leases'[q] = leases[q]
        BY <1>1, <3>2
      <4> QED
        BY <4>1, <2>1 DEF PoolInv, MadeFirst
    <3> QED
      BY <3>1, <3>2
  <2> QED
    BY <2>1, <1>3 DEF MadeFirst
<1>6. LoadedFirst'
  BY DEF LoadedFirst
<1>7. Agrees(pool, leases, dropped)'
  BY <1>3 DEF Agrees, Exact, Pairs, Of
<1> QED
  BY <1>4, <1>5, <1>6, <1>7 DEF PoolInv

LEMMA PickLockedInv ==
  ASSUME PoolInv, NEW r \in PoolRequests, PickLocked(r) PROVE PoolInv'
<1> DEFINE s == SessionOf[r]
           p == Loaded
           bound == IF s \in DOMAIN BoundNow THEN BoundNow[s].account ELSE NoSession
           out == {a \in Names : \E b \in BannedNow : b[1] = s /\ b[2] = a}
           fits == {a \in DOMAIN p : ocProxyUsable(p[a]) /\ ocProxySessionAvailable(p[a], s)} \ out
           others == fits \ {bound}
           best == {a \in others : \A b \in others : ~ocProxyCandidateBetter(p[b], p[a])}
<1>1. Agrees(p, leases, dropped) /\ DOMAIN p \subseteq minted \cup {KeyAccount} /\ minted \subseteq Accounts
  BY LoadedAgrees DEF PoolInv, PoolTypeOK
<1>2. \/ /\ bound \in fits /\ Picked(r, p, bound, s) /\ UNCHANGED <<minted, dropped>>
      \/ (\E a \in best : Picked(r, p, a, s)) /\ UNCHANGED <<minted, dropped>>
      \/ \E a \in Accounts \ minted :
           /\ minted' = minted \cup {a}
           /\ \E gone \in Trimmed(With(p, a, NewState), a) :
                /\ dropped' = dropped \cup (gone \cap InUse)
                /\ pool' = Taken(Less(With(p, a, NewState), gone), a, s) /\ loaded' = TRUE
                /\ leases' = [leases EXCEPT ![r] = Append(@, a)]
                /\ UNCHANGED <<ledger, saves, today>>
  BY DEF PickLocked
<1>3. ASSUME NEW a \in fits, Picked(r, p, a, s), UNCHANGED <<minted, dropped>> PROVE PoolInv'
  <2>1. a \in DOMAIN p /\ ocProxySessionAvailable(p[a], s)
    BY <1>3
  <2>2. Agrees(p, leases, dropped') /\ minted' = minted
    BY <1>1, <1>3
  <2>3. /\ pool' = Taken(p, a, s) /\ loaded' = TRUE /\ leases' = [leases EXCEPT ![r] = Append(@, a)]
        /\ UNCHANGED <<ledger, saves, today>>
    BY <1>3 DEF Picked
  <2> HIDE DEF p, fits
  <2> QED
    BY <1>1, <2>1, <2>2, <2>3, PickedInv
<1>4. \A a \in best : a \in fits
  OBVIOUS
<1>5. ASSUME NEW a \in Accounts \ minted, minted' = minted \cup {a},
             NEW gone \in Trimmed(With(p, a, NewState), a),
             dropped' = dropped \cup (gone \cap InUse),
             pool' = Taken(Less(With(p, a, NewState), gone), a, s), loaded' = TRUE,
             leases' = [leases EXCEPT ![r] = Append(@, a)], UNCHANGED <<ledger, saves, today>>
      PROVE  PoolInv'
  <2> DEFINE q == With(p, a, NewState)
             f == Less(q, gone)
  <2>1. a \in Names /\ a \notin DOMAIN p /\ a \notin gone
    BY <1>1, <1>5, PoolAssumption, TrimKeeps DEF Names
  <2> HIDE DEF p
  <2>2. Agrees(q, leases, dropped) /\ DOMAIN q = DOMAIN p \cup {a} /\ q[a] = NewState
    BY <1>1, <2>1, KnownAgrees
  <2> HIDE DEF q
  <2>3. Agrees(f, leases, dropped')
    BY <1>5, <2>2, LessAgrees DEF PoolInv
  <2>4. a \in DOMAIN f /\ f[a] = NewState /\ DOMAIN f \subseteq DOMAIN p \cup {a}
    BY <2>1, <2>2 DEF Less
  <2>5. ocProxySessionAvailable(NewState, s)
    BY DEF NewState, ocProxySessionAvailable
  <2>6. minted \subseteq minted' /\ minted' \subseteq Accounts /\ DOMAIN f \subseteq minted' \cup {KeyAccount}
    BY <1>1, <1>5, <2>4
  <2>7. pool' = Taken(f, a, s)
    BY <1>5 DEF q
  <2> HIDE DEF f
  <2> QED
    BY <1>5, <2>3, <2>4, <2>5, <2>6, <2>7, PickedInv
<1> HIDE DEF p, bound, fits, best
<1> QED
  BY <1>2, <1>3, <1>4, <1>5

LEMMA PickFixedInv ==
  ASSUME PoolInv, NEW r \in PoolRequests, PickFixedLocked(r) PROVE PoolInv'
<1> DEFINE p == Known(Loaded, KeyAccount)
<1>1. Agrees(Loaded, leases, dropped) /\ DOMAIN Loaded \subseteq minted \cup {KeyAccount} /\ minted \subseteq Accounts
  BY LoadedAgrees DEF PoolInv, PoolTypeOK
<1>2. /\ ocProxySessionAvailable(p[KeyAccount], SessionOf[r]) /\ Picked(r, p, KeyAccount, SessionOf[r])
      /\ UNCHANGED <<minted, dropped>>
  BY DEF PickFixedLocked, Known
<1>3. Agrees(p, leases, dropped) /\ DOMAIN p = DOMAIN Loaded \cup {KeyAccount}
  BY <1>1, KnownAgrees DEF Names
<1> HIDE DEF p
<1>4. /\ pool' = Taken(p, KeyAccount, SessionOf[r]) /\ loaded' = TRUE
      /\ leases' = [leases EXCEPT ![r] = Append(@, KeyAccount)] /\ UNCHANGED <<ledger, saves, today>>
  BY <1>2 DEF Picked
<1> QED
  BY <1>1, <1>2, <1>3, <1>4, PickedInv

\* Loading the pool for a vote or a ban changes nothing else.
LEMMA LoadInv ==
  ASSUME PoolInv, pool' = Loaded, loaded' = TRUE, UNCHANGED <<leases, minted, ledger, today, saves, dropped>>
  PROVE  PoolInv'
<1>1. Agrees(pool', leases, dropped') /\ DOMAIN pool' \subseteq minted \cup {KeyAccount}
  BY LoadedAgrees
<1> QED
  BY <1>1, PoolSwapped

LEMMA BookInv ==
  ASSUME PoolInv, TodoOK, NEW r \in PoolRequests, Book(r) PROVE PoolInv'
<1> DEFINE a == Last(leases[r])
           h == Head(todo[r])
           f == Failed(Known(Loaded, a)[a])
<1>1. UNCHANGED <<leases, minted, ledger, today>> /\ leases[r] # <<>>
  BY DEF Book
<1>2. a \in minted \cup {KeyAccount}
  <2>1. leases[r] \in Seq(Names) /\ Len(leases[r]) \in 1..Len(leases[r]) /\ a = leases[r][Len(leases[r])]
    BY <1>1 DEF PoolInv, PoolTypeOK, Last
  <2> QED
    BY <2>1 DEF PoolInv, MadeFirst
<1>3. \/ markSuccess(a) \/ markRejected(a) \/ markCooldown(a, today + 1)
      \/ pool' = Loaded /\ loaded' = TRUE /\ UNCHANGED <<saves, dropped>>
      \/ Booked(Loaded, a, f.state, [kind |-> "failure", account |-> a, day |-> today])
  <2>0. h \in Bookings
    BY DEF Book, TodoOK
  <2> HIDE DEF h
  <2>1. CASE h = "success"
    BY <2>1 DEF Book, h
  <2>2. CASE h = "cool"
    BY <2>2 DEF Book, h
  <2>3. CASE h = "vote"
    <3>1. CASE SessionOf[r] = NoSession
      BY <2>3, <3>1 DEF Book, h
    <3>2. CASE SessionOf[r] # NoSession
      BY <2>3, <3>2 DEF Book, h
    <3> QED
      BY <3>1, <3>2
  <2>4. CASE h = "ban"
    BY <2>4 DEF Book, h
  <2>5. CASE h = "failure"
    BY <2>5 DEF Book, h
  <2>6. CASE h = "rest"
    BY <2>6 DEF Book, h
  <2> QED
    BY <2>0, <2>1, <2>2, <2>3, <2>4, <2>5, <2>6 DEF Bookings
<1>4. ASSUME Booked(Loaded, a, f.state, [kind |-> "failure", account |-> a, day |-> today]) PROVE PoolInv'
  <2>1. PICK k \in PoolStates : k = Known(Loaded, a)[a]
    BY <1>2, KnownState
  <2>2. PICK x \in PoolStates : x = Failed(k).state /\ x.active = k.active /\ x.sessions = k.sessions
    BY FailedState
  <2>3. today \in Nat
    BY DEF PoolInv, PoolTypeOK
  <2> HIDE DEF a
  <2> QED
    BY <1>1, <1>2, <1>4, <2>1, <2>2, <2>3, BookedInv
<1>5. today + 1 \in Nat
  BY DEF PoolInv, PoolTypeOK
<1> HIDE DEF a, f
<1> QED
  BY <1>1, <1>2, <1>3, <1>4, <1>5, markSuccessInv, markRejectedInv, markCooldownInv, LoadInv

LEMMA ReleaseInv ==
  ASSUME PoolInv, NEW r \in PoolRequests, releaseOpencodeProxyAccount(r) PROVE PoolInv'
<1>1. leases \in [PoolRequests -> Seq(Names)] /\ leases[r] # <<>>
  BY DEF PoolInv, PoolTypeOK, releaseOpencodeProxyAccount
<1>2. /\ leases' = FewerPicks(leases, r) /\ pool' = GaveBack(pool, leases, r)
      /\ UNCHANGED <<ledger, saves, today, minted, dropped, loaded>>
  BY DEF releaseOpencodeProxyAccount, FewerPicks, GaveBack
<1>3. Agrees(GaveBack(pool, leases, r), FewerPicks(leases, r), dropped) /\ DOMAIN GaveBack(pool, leases, r) = DOMAIN pool
  BY <1>1, GaveBackAgrees DEF PoolInv
<1>4. Agrees(pool', leases', dropped') /\ DOMAIN pool' = DOMAIN pool
  BY <1>2, <1>3
<1>5. leases' \in [PoolRequests -> Seq(Names)]
  BY <1>1, <1>2 DEF FewerPicks
<1>6. PoolTypeOK'
  BY <1>2, <1>5 DEF PoolInv, PoolTypeOK
<1>7. MadeFirst'
  <2>1. ASSUME NEW q \in PoolRequests, NEW i \in 1..Len(leases'[q]) PROVE leases'[q][i] \in minted \cup {KeyAccount}
    <3>1. CASE q = r
      <4>1. leases'[q] = Tail(leases[q]) /\ leases[q] \in Seq(Names) /\ leases[q] # <<>>
        BY <1>1, <1>2, <3>1 DEF FewerPicks
      <4>2. i + 1 \in 1..Len(leases[q]) /\ leases'[q][i] = leases[q][i + 1]
        BY <4>1
      <4> QED
        BY <4>2 DEF PoolInv, MadeFirst
    <3>2. CASE q # r
      <4>1. leases'[q] = leases[q]
        BY <1>1, <1>2, <3>2 DEF FewerPicks
      <4> QED
        BY <4>1, <2>1 DEF PoolInv, MadeFirst
    <3> QED
      BY <3>1, <3>2
  <2> QED
    BY <2>1, <1>2, <1>4 DEF PoolInv, MadeFirst
<1>8. LoadedFirst'
  BY <1>1, <1>2 DEF PoolInv, LoadedFirst
<1>9. Agrees(pool, leases, dropped)'
  BY <1>4 DEF Agrees, Exact, Pairs, Of
<1> QED
  BY <1>6, <1>7, <1>8, <1>9 DEF PoolInv

\* What a save writes is a row.
LEMMA SavedRowOK ==
  ASSUME PoolInv, NEW v \in saves PROVE SavedRow(v) \in LedgerRows
<1>1. /\ v.day \in Nat /\ v.kind \in {"success", "cooldown", "failure"} /\ today \in Nat
  BY DEF PoolInv, PoolTypeOK
<1>2. Row(v.account) \in LedgerRows
  <2>1. NewRow \in LedgerRows
    BY DEF NewRow, LedgerRows
  <2> QED
    BY <2>1 DEF PoolInv, PoolTypeOK, Row
<1>3. PICK row \in LedgerRows : row = Row(v.account)
  BY <1>2
<1>4. SaveSuccess(row, v.day) \in LedgerRows
  BY <1>1 DEF SaveSuccess, LedgerRows
<1>5. SaveCooldown(row, v.day) \in LedgerRows
  BY <1>1 DEF SaveCooldown, LedgerRows
<1>6. SaveRealFailure(row) \in LedgerRows
  <2>1. [row EXCEPT !.start = today, !.count = 1] \in LedgerRows
    BY <1>1 DEF LedgerRows
  <2>2. [row EXCEPT !.start = 0, !.count = 0] \in LedgerRows
    BY DEF LedgerRows
  <2>3. [row EXCEPT !.count = @ + 1] \in LedgerRows
    BY DEF LedgerRows
  <2> QED
    BY <2>1, <2>2, <2>3 DEF SaveRealFailure
<1> QED
  BY <1>1, <1>3, <1>4, <1>5, <1>6 DEF SavedRow

LEMMA SaveInv ==
  ASSUME PoolInv, Save PROVE PoolInv'
<1>1. PICK v \in saves :
        LET rows == With(ledger, v.account, SavedRow(v))
        IN saves' = saves \ {v} /\ (ledger' = rows \/ ledger' \in Pruned(rows))
  BY DEF Save
<1>2. UNCHANGED <<pool, loaded, leases, minted, dropped, today>>
  BY DEF Save
<1> DEFINE rows == With(ledger, v.account, SavedRow(v))
<1>3. DOMAIN rows \subseteq minted \cup {KeyAccount} /\ \A a \in DOMAIN rows : rows[a] \in LedgerRows
  BY SavedRowOK DEF With, PoolInv, PoolTypeOK
<1>4. DOMAIN ledger' \subseteq DOMAIN rows /\ \A a \in DOMAIN ledger' : ledger'[a] = rows[a]
  <2>1. ledger' = rows \/ ledger' \in Pruned(rows)
    BY <1>1
  <2> HIDE DEF rows
  <2>2. CASE ledger' \in Pruned(rows)
    <3>1. PICK gone : ledger' = Less(rows, gone)
      BY <2>2 DEF Pruned
    <3> QED
      BY <3>1 DEF Less
  <2> QED
    BY <2>1, <2>2
<1> HIDE DEF rows
<1>5. PoolTypeOK'
  BY <1>1, <1>2, <1>3, <1>4 DEF PoolInv, PoolTypeOK
<1> QED
  BY <1>2, <1>5 DEF PoolInv, MadeFirst, LoadedFirst, Agrees, Exact, Pairs, Of

LEMMA DeleteInv ==
  ASSUME PoolInv, NEW a \in Names, DeleteAccount(a) PROVE PoolInv'
<1>1. /\ ledger' = Less(ledger, {a}) /\ pool' = Less(pool, {a}) /\ dropped' = dropped \cup ({a} \cap InUse)
      /\ UNCHANGED <<loaded, saves, leases, minted, today>>
  BY DEF DeleteAccount
<1>2. Agrees(Less(pool, {a}), leases, dropped \cup ({a} \cap InUse))
  BY LessAgrees DEF PoolInv
<1>3. DOMAIN pool' \subseteq DOMAIN pool /\ DOMAIN ledger' \subseteq DOMAIN ledger
      /\ \A b \in DOMAIN ledger' : ledger'[b] = ledger[b]
  BY <1>1 DEF Less
<1>4. PoolTypeOK'
  BY <1>1, <1>3 DEF PoolInv, PoolTypeOK
<1>5. MadeFirst' /\ LoadedFirst'
  BY <1>1, <1>3 DEF PoolInv, MadeFirst, LoadedFirst
<1>6. Agrees(pool, leases, dropped)'
  <2>1. Agrees(pool', leases', dropped')
    BY <1>1, <1>2
  <2> QED
    BY <2>1 DEF Agrees, Exact, Pairs, Of
<1> QED
  BY <1>4, <1>5, <1>6 DEF PoolInv

\* Without picks an empty pool agrees.
LEMMA EmptyAgrees ==
  ASSUME NEW lost PROVE Agrees(Nothing, [r \in PoolRequests |-> <<>>], lost)
<1> DEFINE l == [r \in PoolRequests |-> <<>>]
<1>1. \A r \in PoolRequests : Len(l[r]) = 0
  OBVIOUS
<1> HIDE DEF l
<1>2. \A a : Pairs(l, a, PoolRequests) = {}
  BY <1>1 DEF Pairs
<1>3. DOMAIN Nothing = {}
  BY DEF Nothing
<1>4. Agrees(Nothing, l, lost)
  BY <1>2, <1>3, FS_EmptySet DEF Agrees
<1> QED
  BY <1>4 DEF l

LEMMA RestartInv ==
  ASSUME PoolInv, PoolRestart PROVE PoolInv'
<1>1. /\ pool' = Nothing /\ loaded' = FALSE /\ saves' = {} /\ leases' = [r \in PoolRequests |-> <<>>]
      /\ dropped' = {} /\ UNCHANGED <<ledger, minted, today>>
  BY DEF PoolRestart
<1>2. leases' \in [PoolRequests -> Seq(Names)] /\ \A r \in PoolRequests : leases'[r] = <<>>
  <2>1. <<>> \in Seq(Names)
    OBVIOUS
  <2> QED
    BY <1>1, <2>1
<1>3. PoolTypeOK'
  BY <1>1, <1>2 DEF PoolInv, PoolTypeOK
<1>4. MadeFirst' /\ LoadedFirst'
  BY <1>1, <1>2 DEF PoolInv, MadeFirst, LoadedFirst, Nothing
<1>5. Agrees(pool', leases', dropped')
  BY <1>1, EmptyAgrees
<1>6. Agrees(pool, leases, dropped)'
  BY <1>5 DEF Agrees, Exact, Pairs, Of
<1> QED
  BY <1>3, <1>4, <1>6 DEF PoolInv

LEMMA PoolInitInv ==
  ASSUME PoolInit PROVE PoolInv /\ TodoOK
<1>1. leases \in [PoolRequests -> Seq(Names)] /\ \A r \in PoolRequests : leases[r] = <<>>
  <2>1. <<>> \in Seq(Names)
    OBVIOUS
  <2> QED
    BY <2>1 DEF PoolInit
<1>2. PoolTypeOK
  BY <1>1 DEF PoolInit, PoolTypeOK, Nothing
<1>3. MadeFirst /\ LoadedFirst
  BY <1>1 DEF PoolInit, MadeFirst, LoadedFirst, Nothing
<1>4. TodoOK
  <2>1. <<>> \in Seq(Bookings)
    OBVIOUS
  <2> QED
    BY <2>1 DEF PoolInit, TodoOK
<1> QED
  BY <1>2, <1>3, <1>4, EmptyAgrees DEF PoolInit, PoolInv

LEMMA TodoStep ==
  ASSUME TodoOK, [PoolNext]_poolVars PROVE TodoOK'
<1>1. ASSUME NEW r \in PoolRequests, Answer(r) PROVE TodoOK'
  <2>1. \A v \in Verdicts : v \in Seq(Bookings)
    <3>1. <<"success">> \in Seq(Bookings) /\ <<"failure">> \in Seq(Bookings)
      BY DEF Bookings
    <3>2. <<"cool", "failure">> \in Seq(Bookings)
      BY DEF Bookings
    <3>3. <<"vote", "ban", "failure">> \in Seq(Bookings)
      BY DEF Bookings
    <3> QED
      BY <3>1, <3>2, <3>3 DEF Verdicts
  <2> QED
    BY <1>1, <2>1 DEF Answer, TodoOK
<1>2. ASSUME NEW r \in PoolRequests, Book(r) PROVE TodoOK'
  <2> DEFINE rest == Tail(todo[r])
             h == Head(todo[r])
  <2>1. /\ rest \in Seq(Bookings) /\ h \in Bookings
        /\ <<"cool">> \o rest \in Seq(Bookings) /\ <<"rest">> \o rest \in Seq(Bookings)
    <3>1. todo[r] \in Seq(Bookings) /\ todo[r] # <<>>
      BY <1>2 DEF Book, TodoOK
    <3>2. rest \in Seq(Bookings) /\ h \in Bookings
      BY <3>1
    <3>3. <<"cool">> \in Seq(Bookings) /\ <<"rest">> \in Seq(Bookings)
      BY DEF Bookings
    <3> HIDE DEF rest
    <3> QED
      BY <3>2, <3>3
  <2>2. \/ todo' = [todo EXCEPT ![r] = rest] \/ todo' = [todo EXCEPT ![r] = <<"cool">> \o rest]
        \/ todo' = [todo EXCEPT ![r] = <<"rest">> \o rest]
    <3> HIDE DEF h
    <3>1. CASE h = "success" \/ h = "cool" \/ h = "rest" \/ h = "ban" \/ h = "failure"
      BY <1>2, <3>1 DEF Book, h
    <3>2. CASE h = "vote"
      BY <1>2, <3>2 DEF Book, h
    <3> QED
      BY <2>1, <3>1, <3>2 DEF Bookings
  <2> HIDE DEF rest
  <2> QED
    BY <2>1, <2>2 DEF TodoOK
<1>3. ASSUME PoolRestart PROVE TodoOK'
  <2>1. <<>> \in Seq(Bookings)
    OBVIOUS
  <2> QED
    BY <1>3, <2>1 DEF PoolRestart, TodoOK
<1>4. ASSUME todo' = todo PROVE TodoOK'
  BY <1>4 DEF TodoOK
<1>5. ASSUME NEW r \in PoolRequests, PickLocked(r) PROVE todo' = todo
  BY <1>5 DEF PickLocked, Picked
<1> QED
  BY <1>1, <1>2, <1>3, <1>4, <1>5 DEF PoolNext, poolVars, PickFixedLocked, Picked, EndRequest, releaseOpencodeProxyAccount,
     Save, ProbeAccount, DeleteAccount, NextDay

LEMMA PoolStep ==
  ASSUME PoolInv, TodoOK, [PoolNext]_poolVars PROVE PoolInv'
<1>1. ASSUME NEW r \in PoolRequests, PickLocked(r) PROVE PoolInv'
  BY <1>1, PickLockedInv
<1>2. ASSUME NEW r \in PoolRequests, PickFixedLocked(r) PROVE PoolInv'
  BY <1>2, PickFixedInv
<1>3. ASSUME NEW r \in PoolRequests, Answer(r) \/ EndRequest(r) PROVE PoolInv'
  <2>1. UNCHANGED <<pool, loaded, ledger, saves, leases, minted, dropped, today>>
    BY <1>3 DEF Answer, EndRequest
  <2> QED
    BY <2>1, PoolSwapped DEF PoolInv, MadeFirst
<1>4. ASSUME NEW r \in PoolRequests, Book(r) PROVE PoolInv'
  BY <1>4, BookInv
<1>5. ASSUME NEW r \in PoolRequests, releaseOpencodeProxyAccount(r) PROVE PoolInv'
  BY <1>5, ReleaseInv
<1>6. ASSUME ProbeAccount PROVE PoolInv'
  <2>1. PICK a \in minted \cup {KeyAccount} : markSuccess(a) \/ markRejected(a)
    BY <1>6 DEF ProbeAccount
  <2>2. UNCHANGED <<leases, minted, ledger, today>>
    BY <1>6 DEF ProbeAccount
  <2> QED
    BY <2>1, <2>2, markSuccessInv, markRejectedInv
<1>7. ASSUME NextDay PROVE PoolInv'
  <2>1. UNCHANGED <<pool, loaded, ledger, saves, leases, minted, dropped>> /\ today' = today + 1
    BY <1>7 DEF NextDay
  <2>2. PoolTypeOK'
    BY <2>1 DEF PoolInv, PoolTypeOK
  <2>3. MadeFirst' /\ LoadedFirst'
    BY <2>1 DEF PoolInv, MadeFirst, LoadedFirst
  <2>4. Agrees(pool, leases, dropped)'
    BY <2>1 DEF PoolInv, Agrees, Exact, Pairs, Of
  <2> QED
    BY <2>2, <2>3, <2>4 DEF PoolInv
<1>8. CASE UNCHANGED poolVars
  <2>1. UNCHANGED <<pool, loaded, ledger, saves, leases, minted, dropped, today>>
    BY <1>8 DEF poolVars
  <2> QED
    BY <2>1, PoolSwapped DEF PoolInv, MadeFirst
<1> QED
  BY <1>1, <1>2, <1>3, <1>4, <1>5, <1>6, <1>7, <1>8, SaveInv, DeleteInv, RestartInv DEF PoolNext

-----------------------------------------------------------------------------
\* A ban is of an account that was made and of a day that came.
BanInv ==
  /\ \A b \in banned : b[2] \in minted \cup {KeyAccount} /\ b[3] \in Nat /\ b[3] <= today
  /\ BansHold

\* f keeps part of what g binds, unchanged.
Within(f, g) == DOMAIN f \subseteq DOMAIN g /\ \A s \in DOMAIN f : f[s] = g[s]

LEMMA LessWithin ==
  ASSUME NEW f, NEW S PROVE Within(Less(f, S), f)
  BY DEF Within, Less

\* Steps that neither bind nor ban.
LEMMA FewerBound ==
  ASSUME BanInv, banned' \subseteq banned, Within(sessionBound', sessionBound), minted \subseteq minted',
         today \in Nat, today' \in {today, today + 1}
  PROVE  BanInv'
<1>1. ASSUME NEW b \in banned', b[3] = today', b[1] \in DOMAIN sessionBound', sessionBound'[b[1]].account = b[2]
      PROVE  FALSE
  <2>1. today' = today /\ b \in banned
    BY <1>1 DEF BanInv
  <2>2. b[1] \in DOMAIN sessionBound /\ sessionBound[b[1]].account = b[2]
    BY <1>1 DEF Within
  <2> QED
    BY <1>1, <2>1, <2>2 DEF BanInv, BansHold
<1>2. BansHold'
  BY <1>1 DEF BansHold
<1>3. \A b \in banned' : b[2] \in minted' \cup {KeyAccount} /\ b[3] \in Nat /\ b[3] <= today'
  BY DEF BanInv
<1> QED
  BY <1>2, <1>3 DEF BanInv

\* A pick binds its session to an account that the session has not banned today.
LEMMA PickBinds ==
  ASSUME BanInv, NEW s, NEW a, \A b \in BannedNow : b[1] = s => b[2] # a,
         banned' = BannedNow, Within(sessionBound', Rebound(a, s)), minted \subseteq minted', today' = today
  PROVE  BanInv'
<1>1. BannedNow \subseteq banned
  BY DEF BannedNow
<1>2. ASSUME NEW x \in DOMAIN Rebound(a, s)
      PROVE  \/ x = s /\ Rebound(a, s)[x].account = a
             \/ x \in DOMAIN sessionBound /\ Rebound(a, s)[x] = sessionBound[x]
  <2>1. Within(BoundNow, sessionBound)
    BY LessWithin DEF BoundNow
  <2>2. CASE s = NoSession
    BY <2>1, <2>2 DEF Rebound, Within
  <2>3. CASE s # NoSession
    <3> DEFINE bind == [account |-> a, at |-> today]
    <3>1. Rebound(a, s) = With(BoundNow, s, bind) /\ bind.account = a
      BY <2>3 DEF Rebound
    <3> HIDE DEF bind
    <3>2. CASE x = s
      BY <3>1, <3>2 DEF With
    <3>3. CASE x # s
      <4>1. x \in DOMAIN BoundNow /\ Rebound(a, s)[x] = BoundNow[x]
        BY <3>1, <3>3 DEF With
      <4> QED
        BY <2>1, <4>1 DEF Within
    <3> QED
      BY <3>2, <3>3
  <2> QED
    BY <2>2, <2>3
<1>3. ASSUME NEW b \in banned', b[3] = today', b[1] \in DOMAIN sessionBound', sessionBound'[b[1]].account = b[2]
      PROVE  FALSE
  <2>1. b[1] \in DOMAIN Rebound(a, s) /\ Rebound(a, s)[b[1]].account = b[2]
    BY <1>3 DEF Within
  <2>2. CASE b[1] = s /\ Rebound(a, s)[b[1]].account = a
    BY <1>3, <2>1, <2>2
  <2>3. CASE b[1] \in DOMAIN sessionBound /\ Rebound(a, s)[b[1]] = sessionBound[b[1]]
    BY <1>1, <1>3, <2>1, <2>3 DEF BanInv, BansHold
  <2> QED
    BY <1>2, <2>1, <2>2, <2>3
<1>4. BansHold'
  BY <1>3 DEF BansHold
<1>5. \A b \in banned' : b[2] \in minted' \cup {KeyAccount} /\ b[3] \in Nat /\ b[3] <= today'
  BY <1>1 DEF BanInv
<1> QED
  BY <1>4, <1>5 DEF BanInv

LEMMA PickedBans ==
  ASSUME BanInv, NEW r, NEW p, NEW a, NEW s, Picked(r, p, a, s), UNCHANGED minted,
         \A b \in BannedNow : b[1] = s => b[2] # a
  PROVE  BanInv'
  BY PickBinds DEF Picked, Within

LEMMA PickLockedBans ==
  ASSUME PoolInv, BanInv, NEW r \in PoolRequests, PickLocked(r) PROVE BanInv'
<1> DEFINE s == SessionOf[r]
           p == Loaded
           bound == IF s \in DOMAIN BoundNow THEN BoundNow[s].account ELSE NoSession
           out == {a \in Names : \E b \in BannedNow : b[1] = s /\ b[2] = a}
           fits == {a \in DOMAIN p : ocProxyUsable(p[a]) /\ ocProxySessionAvailable(p[a], s)} \ out
           others == fits \ {bound}
           best == {a \in others : \A b \in others : ~ocProxyCandidateBetter(p[b], p[a])}
<1>1. DOMAIN p \subseteq Names /\ minted \subseteq Accounts
  BY LoadedAgrees DEF Agrees, PoolInv, PoolTypeOK
<1>2. \/ /\ bound \in fits /\ Picked(r, p, bound, s) /\ UNCHANGED <<minted, dropped>>
      \/ (\E a \in best : Picked(r, p, a, s)) /\ UNCHANGED <<minted, dropped>>
      \/ \E a \in Accounts \ minted :
           /\ minted' = minted \cup {a}
           /\ \E gone \in Trimmed(With(p, a, NewState), a) :
                /\ sessionBound' = LET f == Rebound(a, s) IN Less(f, {x \in DOMAIN f : f[x].account \in gone})
                /\ banned' = BannedNow /\ today' = today
  BY DEF PickLocked
<1>3. ASSUME NEW a \in fits, Picked(r, p, a, s), UNCHANGED minted PROVE BanInv'
  <2>1. a \in Names /\ a \notin out
    BY <1>1, <1>3
  <2>2. \A b \in BannedNow : b[1] = s => b[2] # a
    BY <2>1
  <2> HIDE DEF p, fits, out
  <2> QED
    BY <1>3, <2>2, PickedBans
<1>4. \A a \in best : a \in fits
  OBVIOUS
<1>5. ASSUME NEW a \in Accounts \ minted, minted' = minted \cup {a}, NEW gone,
             sessionBound' = LET f == Rebound(a, s) IN Less(f, {x \in DOMAIN f : f[x].account \in gone}),
             banned' = BannedNow, today' = today
      PROVE  BanInv'
  <2>1. \A b \in BannedNow : b[2] # a
    BY PoolAssumption DEF BannedNow, BanInv
  <2>2. Within(sessionBound', Rebound(a, s))
    BY <1>5, LessWithin
  <2> HIDE DEF s
  <2> QED
    BY <1>5, <2>1, <2>2, PickBinds
<1> HIDE DEF p, bound, fits, best, s
<1> QED
  BY <1>2, <1>3, <1>4, <1>5

LEMMA PickFixedBans ==
  ASSUME BanInv, NEW r \in PoolRequests, PickFixedLocked(r) PROVE BanInv'
<1>1. PICK p : Picked(r, p, KeyAccount, SessionOf[r])
  BY DEF PickFixedLocked
<1>2. UNCHANGED minted /\ \A b \in BannedNow : b[1] = SessionOf[r] => b[2] # KeyAccount
  BY DEF PickFixedLocked
<1> QED
  BY <1>1, <1>2, PickedBans

\* A booking unbinds at most.
LEMMA BookedWithin ==
  ASSUME NEW p, NEW a, NEW x, NEW save, Booked(p, a, x, save)
  PROVE  Within(sessionBound', sessionBound)
  BY LessWithin DEF Booked

LEMMA MarksWithin ==
  ASSUME NEW a, markSuccess(a) \/ markRejected(a) \/ \E d : markCooldown(a, d)
  PROVE  Within(sessionBound', sessionBound)
<1>1. \E x, save : Booked(Loaded, a, x, save)
  <2>1. ASSUME markSuccess(a) PROVE \E x, save : Booked(Loaded, a, x, save)
    BY <2>1 DEF markSuccess
  <2>2. ASSUME NEW d, markCooldown(a, d) PROVE \E x, save : Booked(Loaded, a, x, save)
    <3> DEFINE x == [Known(Loaded, a)[a] EXCEPT !.until = d, !.fails = 0, !.start = 0, !.count = 0]
               save == [kind |-> "cooldown", account |-> a, day |-> d]
    <3>1. Booked(Loaded, a, x, save)
      BY <2>2 DEF markCooldown
    <3> HIDE DEF x, save
    <3> QED
      BY <3>1
  <2> QED
    BY <2>1, <2>2 DEF markRejected
<1> QED
  BY <1>1, BookedWithin

LEMMA BookBans ==
  ASSUME PoolInv, TodoOK, BanInv, NEW r \in PoolRequests, Book(r) PROVE BanInv'
<1> DEFINE a == Last(leases[r])
           s == SessionOf[r]
           h == Head(todo[r])
<1>1. minted' = minted /\ today' = today /\ today \in Nat /\ h \in Bookings
  BY DEF Book, TodoOK, PoolInv, PoolTypeOK
<1>2. a \in minted \cup {KeyAccount}
  <2>1. leases[r] \in Seq(Names) /\ Len(leases[r]) \in 1..Len(leases[r]) /\ a = leases[r][Len(leases[r])]
    BY DEF Book, PoolInv, PoolTypeOK, Last
  <2> QED
    BY <2>1 DEF PoolInv, MadeFirst
<1>3. CASE h # "ban"
  <2>1. banned' \subseteq banned /\ Within(sessionBound', sessionBound)
    <3> HIDE DEF h
    <3>1. CASE h = "success" \/ h = "cool" \/ h = "rest" \/ (h = "vote" /\ s = NoSession)
      <4>1. banned' = banned /\ (markSuccess(a) \/ markRejected(a) \/ markCooldown(a, today + 1))
        BY <3>1 DEF Book, h
      <4> QED
        BY <4>1, MarksWithin
    <3>2. CASE h = "vote" /\ s # NoSession
      <4>1. banned' = BannedNow /\ sessionBound' = BoundNow
        BY <3>2 DEF Book, h
      <4> QED
        BY <4>1, LessWithin DEF BannedNow, BoundNow
    <3>3. CASE h = "failure"
      <4>1. banned' = banned /\ \E x, save : Booked(Loaded, a, x, save)
        BY <3>3 DEF Book, h
      <4> QED
        BY <4>1, BookedWithin
    <3> QED
      BY <1>1, <1>3, <3>1, <3>2, <3>3 DEF Bookings
  <2> QED
    BY <1>1, <2>1, FewerBound
<1>4. CASE h = "ban"
  <2>1. /\ banned' = banned \cup {<<s, a, today>>}
        /\ sessionBound' = Less(sessionBound, {x \in DOMAIN sessionBound \cap {s} : sessionBound[x].account = a})
    BY <1>4 DEF Book
  <2>2. \A x \in DOMAIN sessionBound' :
          x \in DOMAIN sessionBound /\ sessionBound'[x] = sessionBound[x] /\ ~(x = s /\ sessionBound[x].account = a)
    BY <2>1 DEF Less
  <2> HIDE DEF a, s, h
  <2> DEFINE made == <<s, a, today>>
  <2>0. made[1] = s /\ made[2] = a /\ made[3] = today
    OBVIOUS
  <2>3. PICK new : new = made /\ new[1] = s /\ new[2] = a /\ new[3] = today
    <3> HIDE DEF made
    <3> QED
      BY <2>0
  <2>4. ASSUME NEW b \in banned', b[3] = today', b[1] \in DOMAIN sessionBound', sessionBound'[b[1]].account = b[2]
        PROVE  FALSE
    <3>1. CASE b = new
      BY <2>2, <2>3, <2>4, <3>1
    <3>2. CASE b \in banned
      BY <1>1, <2>2, <2>4, <3>2 DEF BanInv, BansHold
    <3> QED
      BY <2>1, <2>3, <2>4, <3>1, <3>2
  <2>5. BansHold'
    BY <2>4 DEF BansHold
  <2>6. \A b \in banned' : b[2] \in minted' \cup {KeyAccount} /\ b[3] \in Nat /\ b[3] <= today'
    BY <1>1, <1>2, <2>1, <2>3 DEF BanInv
  <2> QED
    BY <2>5, <2>6 DEF BanInv
<1> QED
  BY <1>3, <1>4

LEMMA BanStep ==
  ASSUME PoolInv, TodoOK, BanInv, [PoolNext]_poolVars PROVE BanInv'
<1>1. today \in Nat
  BY DEF PoolInv, PoolTypeOK
<1>2. ASSUME UNCHANGED <<banned, sessionBound, minted>>, today' \in {today, today + 1} PROVE BanInv'
  BY <1>1, <1>2, FewerBound DEF Within
<1>3. ASSUME NEW r \in PoolRequests, Answer(r) \/ EndRequest(r) \/ releaseOpencodeProxyAccount(r) PROVE BanInv'
  BY <1>2, <1>3 DEF Answer, EndRequest, releaseOpencodeProxyAccount
<1>4. ASSUME Save \/ NextDay \/ UNCHANGED poolVars PROVE BanInv'
  BY <1>2, <1>4 DEF Save, NextDay, poolVars
<1>5. ASSUME NEW a \in Names, DeleteAccount(a) PROVE BanInv'
  BY <1>2, <1>5 DEF DeleteAccount
<1>6. ASSUME ProbeAccount PROVE BanInv'
  <2>1. PICK a : markSuccess(a) \/ markRejected(a)
    BY <1>6 DEF ProbeAccount
  <2>2. banned' = banned /\ minted' = minted /\ today' = today
    BY <1>6 DEF ProbeAccount
  <2> QED
    BY <1>1, <2>1, <2>2, MarksWithin, FewerBound
<1>7. ASSUME PoolRestart PROVE BanInv'
  <2>1. banned' = {} /\ minted' = minted /\ today' = today
    BY <1>7 DEF PoolRestart
  <2> QED
    BY <2>1 DEF BanInv, BansHold
<1> QED
  BY <1>3, <1>4, <1>5, <1>6, <1>7, PickLockedBans, PickFixedBans, BookBans DEF PoolNext

\* The counts say who uses an account.
LEMMA PoolInvSound ==
  ASSUME PoolInv, BanInv PROVE PoolSound
<1>1. PoolTypeOK /\ Agrees(pool, leases, dropped)
  BY DEF PoolInv
<1>2. ASSUME NEW a \in DOMAIN pool \ dropped PROVE pool[a].active = 0 <=> ~\E r \in PoolRequests : Holds(r, a)
  <2>1. a \in Names /\ IsFiniteSet(Pairs(leases, a, PoolRequests)) /\ pool[a].active = Cardinality(Pairs(leases, a, PoolRequests))
    BY <1>1 DEF Agrees, Exact
  <2>2. pool[a].active = 0 <=> Pairs(leases, a, PoolRequests) = {}
    BY <2>1, FS_EmptySet
  <2>3. (\E r \in PoolRequests : Holds(r, a)) <=> a \in InUse
    BY <2>1 DEF InUse, Holds
  <2> QED
    BY <1>1, <2>1, <2>2, <2>3, UsersPairs
<1>3. ASSUME NEW a \in Names \ dropped, NEW r \in PoolRequests, Holds(r, a), SessionOf[r] # NoSession
      PROVE  a \in DOMAIN pool /\ SessionOf[r] \in Sessions /\ pool[a].sessions[SessionOf[r]] > 0
  <2>1. PICK i \in Nat : <<r, i>> \in Pairs(leases, a, PoolRequests)
    BY <1>1, <1>3, HolderPairs
  <2>2. a \in DOMAIN pool /\ Exact(pool[a], leases, a) /\ IsFiniteSet(Pairs(leases, a, PoolRequests))
    BY <1>1, <2>1 DEF Agrees
  <2>3. SessionOf[r] \in Sessions
    BY <1>3, PoolAssumption
  <2>4. <<r, i>> \in Pairs(leases, a, Of(SessionOf[r])) /\ Of(SessionOf[r]) \in SUBSET PoolRequests
    BY <2>1, PairsMembers DEF Of
  <2>5. /\ IsFiniteSet(Pairs(leases, a, Of(SessionOf[r])))
        /\ Cardinality(Pairs(leases, a, Of(SessionOf[r]))) \in Nat
        /\ Cardinality(Pairs(leases, a, Of(SessionOf[r]))) # 0
    BY <2>2, <2>4, PairsFinite, FS_EmptySet
  <2>6. pool[a].sessions[SessionOf[r]] = Cardinality(Pairs(leases, a, Of(SessionOf[r])))
    BY <2>2, <2>3 DEF Exact
  <2> QED
    BY <2>2, <2>3, <2>5, <2>6
<1>4. ASSUME NEW q \in PoolRequests, NEW r \in PoolRequests, NEW a \in Names \ dropped,
             Holds(q, a), Holds(r, a), SessionOf[q] # NoSession, SessionOf[r] # NoSession
      PROVE  SessionOf[q] = SessionOf[r]
  <2>1. /\ a \in DOMAIN pool /\ SessionOf[r] \in Sessions /\ pool[a].sessions[SessionOf[r]] > 0
        /\ SessionOf[q] \in Sessions /\ pool[a].sessions[SessionOf[q]] > 0
    BY <1>3, <1>4
  <2>2. Exact(pool[a], leases, a)
    BY <1>1, <2>1 DEF Agrees
  <2> QED
    BY <2>1, <2>2 DEF Exact
<1> QED
  BY <1>2, <1>4 DEF PoolSound, OneSession, SlotsReturn, BanInv

\* The pool never lets two sessions use one account, never loses a slot and never binds a session
\* to an account it banned that day (relay/opencode_proxy_pool.go), for any number of accounts,
\* requests and sessions, whatever the limits: what an account counts is exactly its outstanding
\* picks, unless it was removed in use, and every ban is of an account made by then.
THEOREM PoolIsSound == PoolSpec => []PoolSound
<1>1. PoolInit => PoolInv /\ TodoOK /\ BanInv
  BY PoolInitInv DEF PoolInit, BanInv, BansHold
<1>2. PoolInv /\ TodoOK /\ BanInv /\ [PoolNext]_poolVars => (PoolInv /\ TodoOK /\ BanInv)'
  BY PoolStep, TodoStep, BanStep
<1>3. PoolInv /\ BanInv => PoolSound
  BY PoolInvSound
<1> QED
  BY <1>1, <1>2, <1>3, PTL DEF PoolSpec

-----------------------------------------------------------------------------
(* The window of permits (RateGate) for any callers, limits, window and delay.               *)

CallerStates ==
  [pc : {"new", "found", "slot", "read", "sleep", "passed", "refused"}, rpm : Nat,
   read : 0..MaxDelay, sleep : 0..(RateWindow + MaxDelay), of : (-1)..MaxCleanups,
   cleared : BOOLEAN]

StampAges == 0..MaxAge
Permit == [age : Nat, rpm : Nat]
Stamps == Seq(StampAges)
Permits == Seq(Permit)

RateTypeOK ==
  /\ rateKind \in RateKinds /\ cleanups \in 0..MaxCleanups
  /\ stamps \in Stamps
  /\ caller \in [Callers -> CallerStates]
  /\ slots \in [0..MaxCleanups -> Nat]
  /\ granted \in Permits

\* Where a caller may be, and what it holds there.
Placed(me) ==
  /\ me.pc \in {"read", "sleep"} => me.rpm > 0
  /\ me.pc = "new" => me.of = -1
  /\ me.pc = "found" => me.of \in 0..MaxCleanups
  /\ me.pc = "sleep" => rateKind = "channel"
  /\ rateKind = "channel" => me.of = -1

\* Whom a counter object counts.
Counts(me, g) == me.of = g /\ me.pc \notin {"new", "found"}
Counted(cs, g) == {c \in Callers : Counts(cs[c], g)}

\* A stamp is at most one delay older than a stamp before it.
NearlySorted(s) == \A i, j \in DOMAIN s : i <= j => s[j] <= s[i] + MaxDelay

\* Counted from the end, stamps and permits belong together: a stamp says the age of its
\* permit up to one delay, and a permit without a stamp has nearly left the window.
Aligned(s, g) ==
  \A k \in 0..(Len(g) - 1) :
    IF k < Len(s)
    THEN g[Len(g) - k].age <= s[Len(s) - k] /\ s[Len(s) - k] <= g[Len(g) - k].age + MaxDelay
    ELSE g[Len(g) - k].age >= RateWindow - MaxDelay

\* The permits in their order, and how far a permit is from the one its limit counts back to.
Spaced(g) ==
  /\ \A i, j \in DOMAIN g : i <= j => g[j].age <= g[i].age
  /\ \A i \in DOMAIN g :
       /\ g[i].rpm > 0
       /\ i - g[i].rpm >= 1 => g[i - g[i].rpm].age - g[i].age >= RateWindow - MaxDelay

\* What keeps a caller asleep: the permits its limit counts back to end with its sleep.
Covered(s, me) ==
  me.pc = "sleep" /\ ~me.cleared /\ me.sleep > 2 * MaxDelay
    => /\ Len(s) >= me.rpm
       /\ \A k \in 0..(me.rpm - 1) : s[Len(s) - k] + me.sleep <= RateWindow + 2 * MaxDelay

RateInv ==
  /\ RateTypeOK /\ SlotsExact
  /\ NearlySorted(stamps) /\ Aligned(stamps, granted) /\ Spaced(granted)
  /\ \A c \in Callers : Placed(caller[c]) /\ Covered(stamps, caller[c])


\* A set of numbers that is not empty has a smallest one.
LEMMA SmallestNumber ==
  ASSUME NEW S \in SUBSET Nat, S # {}
  PROVE  \E n \in S : \A m \in S : n <= m
<1>1. IsWellFoundedOn(OpToRel(<, Nat), Nat)
  BY NatLessThanWellFounded
<1>2. PICK n \in S : \A m \in S : <<m, n>> \notin OpToRel(<, Nat)
  BY <1>1, WFMin
<1>3. \A m \in S : ~(m < n)
  BY <1>2 DEF OpToRel
<1> QED BY <1>3

\* The part from the first of some places on, counted from the end.
LEMMA FromFacts ==
  ASSUME NEW S, NEW s \in Seq(S), NEW P \in SUBSET (DOMAIN s)
  PROVE  /\ From(s, P) \in Seq(S) /\ Len(From(s, P)) <= Len(s)
         /\ \A k \in 0..(Len(From(s, P)) - 1) : From(s, P)[Len(From(s, P)) - k] = s[Len(s) - k]
         /\ \A i \in P : Len(s) - i < Len(From(s, P))
         /\ Len(From(s, P)) > 0 => Len(s) - Len(From(s, P)) + 1 \in P
<1> DEFINE first == IF P = {} THEN Len(s) + 1 ELSE CHOOSE i \in P : \A j \in P : i <= j
           r == SubSeq(s, first, Len(s))
<1>1. /\ first \in 1..(Len(s) + 1) /\ \A i \in P : first <= i
      /\ first \in P \/ first = Len(s) + 1
  <2>1. CASE P = {}
    BY <2>1
  <2>2. CASE P # {}
    <3>1. P \in SUBSET Nat
      OBVIOUS
    <3>2. \E i \in P : \A j \in P : i <= j
      BY <2>2, <3>1, SmallestNumber
    <3>3. first \in P /\ \A j \in P : first <= j
      BY <2>2, <3>2
    <3> HIDE DEF first
    <3> QED BY <3>3
  <2> QED BY <2>1, <2>2
<1>2. From(s, P) = r
  BY DEF From
<1> HIDE DEF first
<1>3. r \in Seq(S) /\ Len(r) = Len(s) - first + 1 /\ \A i \in 1..Len(r) : r[i] = s[first + i - 1]
  BY <1>1
<1> HIDE DEF r
<1>4. ASSUME NEW k \in 0..(Len(r) - 1) PROVE r[Len(r) - k] = s[Len(s) - k]
  <2>1. Len(r) - k \in 1..Len(r) /\ first + (Len(r) - k) - 1 = Len(s) - k
    BY <1>1, <1>3
  <2> QED BY <2>1, <1>3
<1>5. \A i \in P : Len(s) - i < Len(r)
  BY <1>1, <1>3
<1>6. Len(r) > 0 => Len(s) - Len(r) + 1 \in P
  <2>1. Len(r) > 0 => first # Len(s) + 1 /\ Len(s) - Len(r) + 1 = first
    BY <1>1, <1>3
  <2> QED BY <2>1, <1>1
<1> QED BY <1>1, <1>2, <1>3, <1>4, <1>5, <1>6

\* Dropping the stamps that left the window.
LEMMA UnexpiredKeeps ==
  ASSUME stamps \in Stamps, NEW read \in 0..MaxDelay, NEW g \in Permits,
         Aligned(stamps, g), NearlySorted(stamps)
  PROVE  /\ Unexpired(read) \in Stamps
         /\ NearlySorted(Unexpired(read)) /\ Aligned(Unexpired(read), g)
         /\ \A me \in CallerStates :
              Covered(stamps, me) /\ (me.pc = "sleep" => me.rpm > 0) => Covered(Unexpired(read), me)
<1> DEFINE P == {i \in DOMAIN stamps : stamps[i] < read + RateWindow}
           w == Unexpired(read)
           m == Len(stamps)
           n == Len(w)
<1>1. /\ w \in Stamps /\ n <= m
      /\ \A k \in 0..(n - 1) : w[n - k] = stamps[m - k]
      /\ \A i \in P : m - i < n
  BY FromFacts DEF Unexpired, Stamps
<1>2. /\ \A i \in 1..m : stamps[i] \in 0..MaxAge
      /\ m \in Nat /\ n \in Nat /\ DOMAIN stamps = 1..m /\ DOMAIN w = 1..n
      /\ MaxDelay \in Nat /\ RateWindow \in Nat
  <2>1. MaxDelay \in Nat /\ RateWindow \in Nat
    BY RateAssumption
  <2>2. m \in Nat /\ DOMAIN stamps = 1..m
    BY DEF Stamps
  <2>4. \A i \in 1..m : stamps[i] \in StampAges
    BY DEF Stamps
  <2>3. n \in Nat /\ DOMAIN w = 1..n
    BY <1>1 DEF Stamps
  <2> QED BY <2>1, <2>2, <2>3, <2>4 DEF StampAges
<1> HIDE DEF w
<1>3. ASSUME NEW i \in 1..n PROVE w[i] = stamps[m - n + i] /\ m - n + i \in 1..m
  <2>1. n - i \in 0..(n - 1) /\ n - (n - i) = i /\ m - (n - i) = m - n + i /\ m - n + i \in 1..m
    BY <1>1, <1>2
  <2> QED BY <2>1, <1>1
<1>4. NearlySorted(w)
  <2> SUFFICES ASSUME NEW i \in 1..n, NEW j \in 1..n, i <= j PROVE w[j] <= w[i] + MaxDelay
    BY <1>2 DEF NearlySorted
  <2>1. m - n + i <= m - n + j
    BY <1>2
  <2> QED BY <2>1, <1>2, <1>3 DEF NearlySorted
<1>5. Aligned(w, g)
  <2> SUFFICES ASSUME NEW k \in 0..(Len(g) - 1)
               PROVE  IF k < n
                      THEN g[Len(g) - k].age <= w[n - k] /\ w[n - k] <= g[Len(g) - k].age + MaxDelay
                      ELSE g[Len(g) - k].age >= RateWindow - MaxDelay
    BY DEF Aligned
  <2>1. IF k < m
        THEN g[Len(g) - k].age <= stamps[m - k] /\ stamps[m - k] <= g[Len(g) - k].age + MaxDelay
        ELSE g[Len(g) - k].age >= RateWindow - MaxDelay
    BY DEF Aligned
  <2>2. k \in Nat /\ g[Len(g) - k].age \in Nat
    <3>1. Len(g) - k \in 1..Len(g) /\ k \in Nat
      BY DEF Permits
    <3>2. g[Len(g) - k] \in Permit
      BY <3>1 DEF Permits
    <3> QED BY <3>1, <3>2 DEF Permit
  <2>3. CASE k < n
    <3>1. k < m /\ w[n - k] = stamps[m - k]
      BY <2>2, <2>3, <1>1, <1>2
    <3> QED BY <2>1, <2>3, <3>1
  <2>4. CASE ~(k < n) /\ k < m
    <3>1. m - k \in 1..m /\ m - (m - k) = k
      BY <2>2, <2>4, <1>2
    <3>2. m - k \notin P
      BY <2>4, <3>1, <1>1
    <3>3. stamps[m - k] >= read + RateWindow /\ stamps[m - k] \in Nat
      BY <3>1, <3>2, <1>2
    <3>4. stamps[m - k] <= g[Len(g) - k].age + MaxDelay
      BY <2>1, <2>4
    <3>5. g[Len(g) - k].age >= RateWindow - MaxDelay
      BY <3>3, <3>4, <2>2, <1>2
    <3> QED BY <2>4, <3>5
  <2>5. CASE ~(k < n) /\ ~(k < m)
    BY <2>1, <2>5
  <2> QED BY <2>3, <2>4, <2>5
<1>6. ASSUME NEW me \in CallerStates, Covered(stamps, me), me.pc = "sleep" => me.rpm > 0
      PROVE  Covered(w, me)
  <2> SUFFICES ASSUME me.pc = "sleep", ~me.cleared, me.sleep > 2 * MaxDelay
               PROVE  /\ n >= me.rpm
                      /\ \A k \in 0..(me.rpm - 1) : w[n - k] + me.sleep <= RateWindow + 2 * MaxDelay
    BY DEF Covered
  <2>1. /\ m >= me.rpm
        /\ \A k \in 0..(me.rpm - 1) : stamps[m - k] + me.sleep <= RateWindow + 2 * MaxDelay
    BY <1>6 DEF Covered
  <2>2. me.rpm \in Nat /\ me.rpm > 0 /\ me.sleep \in Nat
    BY <1>6, RateAssumption DEF CallerStates
  <2>3. m - (me.rpm - 1) \in 1..m /\ me.rpm - 1 \in 0..(me.rpm - 1)
    BY <2>1, <2>2, <1>2
  <2>4. m - (me.rpm - 1) \in P
    <3>1. stamps[m - (me.rpm - 1)] + me.sleep <= RateWindow + 2 * MaxDelay
      BY <2>1, <2>3
    <3>2. stamps[m - (me.rpm - 1)] \in Nat
      BY <2>3, <1>2
    <3> QED BY <2>2, <2>3, <3>1, <3>2, <1>2
  <2>5. n >= me.rpm
    <3>1. m - (m - (me.rpm - 1)) < n
      BY <2>4, <1>1
    <3> QED BY <3>1, <2>2, <1>2
  <2>6. ASSUME NEW k \in 0..(me.rpm - 1) PROVE w[n - k] + me.sleep <= RateWindow + 2 * MaxDelay
    <3>1. k \in 0..(n - 1)
      BY <2>2, <2>5, <1>2
    <3> QED BY <3>1, <2>1, <1>1
  <2> QED BY <2>5, <2>6
<1> QED BY <1>1, <1>4, <1>5, <1>6 DEF w

\* A permit: its stamp and its age, after the others.
LEMMA GrantKeeps ==
  ASSUME NEW w \in Stamps, NEW g \in Permits, NEW read \in 0..MaxDelay, NEW rpm \in Nat,
         NearlySorted(w), Aligned(w, g), Spaced(g), rpm > 0, Len(w) < rpm
  PROVE  /\ Append(w, read) \in Stamps /\ Append(g, [age |-> 0, rpm |-> rpm]) \in Permits
         /\ NearlySorted(Append(w, read))
         /\ Aligned(Append(w, read), Append(g, [age |-> 0, rpm |-> rpm]))
         /\ Spaced(Append(g, [age |-> 0, rpm |-> rpm]))
         /\ \A me \in CallerStates :
              Covered(w, me) /\ (me.pc = "sleep" => me.rpm > 0) => Covered(Append(w, read), me)
<1> DEFINE p == [age |-> 0, rpm |-> rpm]
           x == Append(w, read)
           h == Append(g, p)
           n == Len(w)
           m == Len(g)
<1>1. MaxDelay \in Nat /\ RateWindow \in Nat /\ 2 * MaxDelay < RateWindow /\ read \in Nat /\ read <= MaxDelay
  BY RateAssumption
<1>2. read \in StampAges /\ p \in Permit /\ p.age = 0 /\ p.rpm = rpm
  BY <1>1 DEF StampAges, MaxAge, Permit
<1> HIDE DEF p
<1>3. /\ x \in Stamps /\ n \in Nat /\ Len(x) = n + 1 /\ DOMAIN w = 1..n /\ DOMAIN x = 1..(n + 1)
      /\ x[n + 1] = read /\ \A i \in 1..n : x[i] = w[i]
  BY <1>2 DEF Stamps
<1>4. /\ h \in Permits /\ m \in Nat /\ Len(h) = m + 1 /\ DOMAIN g = 1..m /\ DOMAIN h = 1..(m + 1)
      /\ h[m + 1] = p /\ \A i \in 1..m : h[i] = g[i]
  BY <1>2 DEF Permits
<1>5. \A i \in 1..n : w[i] \in Nat
  <2>1. \A i \in 1..n : w[i] \in StampAges
    BY DEF Stamps
  <2> QED BY <2>1 DEF StampAges
<1>6. \A i \in 1..m : g[i].age \in Nat /\ g[i].rpm \in Nat
  <2>1. \A i \in 1..m : g[i] \in Permit
    BY DEF Permits
  <2> QED BY <2>1 DEF Permit
<1> HIDE DEF x, h
<1>7. NearlySorted(x)
  <2> SUFFICES ASSUME NEW i \in 1..(n + 1), NEW j \in 1..(n + 1), i <= j PROVE x[j] <= x[i] + MaxDelay
    BY <1>3 DEF NearlySorted
  <2>1. CASE j \in 1..n
    <3>1. i \in 1..n
      BY <2>1, <1>3
    <3> QED BY <2>1, <3>1, <1>3 DEF NearlySorted
  <2>2. CASE j = n + 1
    <3>1. x[i] \in Nat
      BY <1>1, <1>3, <1>5
    <3> QED BY <2>2, <3>1, <1>1, <1>3
  <2> QED BY <2>1, <2>2, <1>3
<1>8. Aligned(x, h)
  <2> SUFFICES ASSUME NEW k \in 0..m
               PROVE  IF k < n + 1
                      THEN h[m + 1 - k].age <= x[n + 1 - k] /\ x[n + 1 - k] <= h[m + 1 - k].age + MaxDelay
                      ELSE h[m + 1 - k].age >= RateWindow - MaxDelay
    BY <1>3, <1>4 DEF Aligned
  <2>1. CASE k = 0
    BY <2>1, <1>1, <1>2, <1>3, <1>4
  <2>2. CASE k # 0
    <3>1. k - 1 \in 0..(m - 1) /\ m + 1 - k = m - (k - 1) /\ m - (k - 1) \in 1..m
      BY <2>2, <1>4
    <3>2. IF k - 1 < n
          THEN g[m - (k - 1)].age <= w[n - (k - 1)] /\ w[n - (k - 1)] <= g[m - (k - 1)].age + MaxDelay
          ELSE g[m - (k - 1)].age >= RateWindow - MaxDelay
      BY <3>1 DEF Aligned
    <3>3. h[m + 1 - k] = g[m - (k - 1)]
      BY <3>1, <1>4
    <3>4. k < n + 1 => k - 1 < n /\ x[n + 1 - k] = w[n - (k - 1)]
      <4> HAVE k < n + 1
      <4>1. n + 1 - k = n - (k - 1) /\ n - (k - 1) \in 1..n /\ k - 1 < n
        BY <2>2, <1>3
      <4> QED BY <4>1, <1>3
    <3>5. ~(k < n + 1) => ~(k - 1 < n)
      BY <1>3
    <3> QED BY <3>2, <3>3, <3>4, <3>5
  <2> QED BY <2>1, <2>2
<1>9. Spaced(h)
  <2>1. ASSUME NEW i \in 1..(m + 1), NEW j \in 1..(m + 1), i <= j PROVE h[j].age <= h[i].age
    <3>1. CASE j \in 1..m
      <4>1. i \in 1..m
        BY <2>1, <3>1, <1>4
      <4> QED BY <2>1, <3>1, <4>1, <1>4 DEF Spaced
    <3>2. CASE j = m + 1
      <4>1. h[i].age \in Nat
        BY <1>2, <1>4, <1>6
      <4> QED BY <3>2, <4>1, <1>2, <1>4
    <3> QED BY <3>1, <3>2, <1>4
  <2>2. ASSUME NEW i \in 1..m
        PROVE  /\ h[i].rpm > 0
               /\ i - h[i].rpm >= 1 => h[i - h[i].rpm].age - h[i].age >= RateWindow - MaxDelay
    <3>1. /\ h[i] = g[i] /\ g[i].rpm > 0 /\ g[i].rpm \in Nat
          /\ i - g[i].rpm >= 1 => g[i - g[i].rpm].age - g[i].age >= RateWindow - MaxDelay
      BY <1>4, <1>6 DEF Spaced
    <3>2. i - g[i].rpm >= 1 => h[i - g[i].rpm] = g[i - g[i].rpm]
      <4> HAVE i - g[i].rpm >= 1
      <4>1. i - g[i].rpm \in 1..m
        BY <3>1, <1>4
      <4> QED BY <4>1, <1>4
    <3> QED BY <3>1, <3>2
  <2>3. ASSUME m + 1 - rpm >= 1 PROVE h[m + 1 - rpm].age >= RateWindow - MaxDelay
    <3>1. rpm - 1 \in 0..(m - 1) /\ m + 1 - rpm = m - (rpm - 1) /\ m - (rpm - 1) \in 1..m
      BY <2>3, <1>4
    <3>2. ~(rpm - 1 < n)
      BY <1>3
    <3>3. g[m - (rpm - 1)].age >= RateWindow - MaxDelay
      BY <3>1, <3>2 DEF Aligned
    <3> QED BY <3>1, <3>3, <1>4
  <2>4. ASSUME NEW i \in 1..(m + 1)
        PROVE  /\ h[i].rpm > 0
               /\ i - h[i].rpm >= 1 => h[i - h[i].rpm].age - h[i].age >= RateWindow - MaxDelay
    <3>1. CASE i = m + 1
      <4>1. h[i].rpm = rpm /\ h[i].age = 0
        BY <3>1, <1>2, <1>4
      <4>2. m + 1 - rpm >= 1 => h[m + 1 - rpm].age \in Nat
        <5> HAVE m + 1 - rpm >= 1
        <5>1. m + 1 - rpm \in 1..m
          BY <1>4
        <5> QED BY <5>1, <1>4, <1>6
      <4> QED BY <3>1, <4>1, <4>2, <2>3
    <3>2. CASE i # m + 1
      BY <3>2, <2>2, <1>4
    <3> QED BY <3>1, <3>2
  <2> QED BY <2>1, <2>4, <1>4 DEF Spaced
<1>10. ASSUME NEW me \in CallerStates, Covered(w, me), me.pc = "sleep" => me.rpm > 0
       PROVE  Covered(x, me)
  <2> SUFFICES ASSUME me.pc = "sleep", ~me.cleared, me.sleep > 2 * MaxDelay
               PROVE  /\ n + 1 >= me.rpm
                      /\ \A k \in 0..(me.rpm - 1) : x[n + 1 - k] + me.sleep <= RateWindow + 2 * MaxDelay
    BY <1>3 DEF Covered
  <2>1. /\ n >= me.rpm
        /\ \A k \in 0..(me.rpm - 1) : w[n - k] + me.sleep <= RateWindow + 2 * MaxDelay
    BY <1>10 DEF Covered
  <2>2. me.rpm \in Nat /\ me.rpm > 0 /\ me.sleep \in Nat /\ me.sleep <= RateWindow + MaxDelay
    BY <1>1, <1>10 DEF CallerStates
  <2>3. ASSUME NEW k \in 0..(me.rpm - 1) PROVE x[n + 1 - k] + me.sleep <= RateWindow + 2 * MaxDelay
    <3>1. CASE k = 0
      BY <3>1, <2>2, <1>1, <1>3
    <3>2. CASE k # 0
      <4>1. k - 1 \in 0..(me.rpm - 1) /\ n + 1 - k = n - (k - 1) /\ n - (k - 1) \in 1..n
        BY <3>2, <2>1, <2>2, <1>3
      <4> QED BY <4>1, <2>1, <1>3
    <3> QED BY <3>1, <3>2
  <2> QED BY <2>1, <2>2, <2>3, <1>3
<1> QED BY <1>3, <1>4, <1>7, <1>8, <1>9, <1>10 DEF x, h, p

\* Going to sleep: the permit that stands in the way is one of the last as many as the limit,
\* and the ones after it are at most one delay older.
LEMMA SleepIsCovered ==
  ASSUME NEW w \in Stamps, NEW read \in 0..MaxDelay, NEW rpm \in Nat, NearlySorted(w),
         rpm > 0, Len(w) >= rpm
  PROVE  /\ AdmitIn(w, rpm, read) \in 0..(RateWindow + MaxDelay)
         /\ \A me \in CallerStates :
              me.rpm = rpm /\ me.sleep = AdmitIn(w, rpm, read) => Covered(w, me)
<1> DEFINE n == Len(w)
           f == n - rpm + 1
           wait == read + RateWindow - w[f]
<1>1. MaxDelay \in Nat /\ RateWindow \in Nat /\ read \in Nat /\ read <= MaxDelay
  BY RateAssumption
<1>2. n \in Nat /\ DOMAIN w = 1..n /\ f \in 1..n
  BY DEF Stamps
<1>3. \A i \in 1..n : w[i] \in Nat
  <2>1. \A i \in 1..n : w[i] \in StampAges
    BY DEF Stamps
  <2> QED BY <2>1 DEF StampAges
<1>4. AdmitIn(w, rpm, read) = IF wait > 0 THEN wait ELSE 0
  BY DEF AdmitIn
<1>5. AdmitIn(w, rpm, read) \in 0..(RateWindow + MaxDelay)
  BY <1>1, <1>2, <1>3, <1>4
<1>6. ASSUME NEW me \in CallerStates, me.rpm = rpm, me.sleep = AdmitIn(w, rpm, read)
      PROVE  Covered(w, me)
  <2> SUFFICES ASSUME me.sleep > 2 * MaxDelay
               PROVE  \A k \in 0..(rpm - 1) : w[n - k] + me.sleep <= RateWindow + 2 * MaxDelay
    BY <1>6 DEF Covered
  <2>1. me.sleep = read + RateWindow - w[f]
    BY <1>1, <1>4, <1>6
  <2> SUFFICES ASSUME NEW k \in 0..(rpm - 1)
               PROVE  w[n - k] + me.sleep <= RateWindow + 2 * MaxDelay
    OBVIOUS
  <2>2. n - k \in 1..n /\ f <= n - k
    BY <1>2
  <2>3. w[n - k] <= w[f] + MaxDelay
    BY <2>2, <1>2 DEF NearlySorted
  <2> HIDE DEF f, n
  <2>4. w[n - k] \in Nat /\ w[f] \in Nat
    BY <2>2, <1>2, <1>3
  <2> QED BY <2>1, <2>3, <2>4, <1>1
<1> QED BY <1>5, <1>6

\* The clock moves on for stamps and permits.
OlderStamps(s) == [i \in DOMAIN s |-> IF s[i] < MaxAge THEN s[i] + 1 ELSE MaxAge]
Recent(g) == From(g, {i \in DOMAIN g : g[i].age + 1 < RateWindow})
OlderPermits(g) == [i \in DOMAIN Recent(g) |-> [Recent(g)[i] EXCEPT !.age = @ + 1]]

LEMMA TickKeeps ==
  ASSUME NEW s \in Stamps, NEW g \in Permits, NearlySorted(s), Aligned(s, g), Spaced(g)
  PROVE  /\ OlderStamps(s) \in Stamps /\ OlderPermits(g) \in Permits
         /\ NearlySorted(OlderStamps(s)) /\ Aligned(OlderStamps(s), OlderPermits(g))
         /\ Spaced(OlderPermits(g))
         /\ Len(OlderStamps(s)) = Len(s)
         /\ \A i \in 1..Len(s) : OlderStamps(s)[i] <= s[i] + 1
<1> DEFINE x == OlderStamps(s)
           kept == Recent(g)
           h == OlderPermits(g)
           m == Len(s)
           n == Len(g)
           q == Len(kept)
           P == {i \in DOMAIN g : g[i].age + 1 < RateWindow}
<1>1. MaxDelay \in Nat /\ RateWindow \in Nat /\ 2 * MaxDelay < RateWindow /\ MaxAge = RateWindow + MaxDelay
  BY RateAssumption DEF MaxAge
<1>2. m \in Nat /\ DOMAIN s = 1..m /\ \A i \in 1..m : s[i] \in Nat /\ s[i] <= MaxAge
  <2>1. m \in Nat /\ DOMAIN s = 1..m /\ \A i \in 1..m : s[i] \in StampAges
    BY DEF Stamps
  <2> QED BY <1>1, <2>1 DEF StampAges
<1>3. n \in Nat /\ DOMAIN g = 1..n /\ \A i \in 1..n : g[i] \in Permit
  BY DEF Permits
<1>4. \A i \in 1..n : g[i].age \in Nat /\ g[i].rpm \in Nat
  BY <1>3 DEF Permit
<1>5. /\ kept \in Seq(Permit) /\ q <= n
      /\ \A k \in 0..(q - 1) : kept[q - k] = g[n - k]
      /\ q > 0 => n - q + 1 \in P
  BY FromFacts DEF Recent, Permits
<1>6. /\ DOMAIN x = 1..m
      /\ \A i \in 1..m : x[i] = IF s[i] < MaxAge THEN s[i] + 1 ELSE MaxAge
  BY <1>2 DEF OlderStamps
<1>7. x \in Stamps /\ Len(x) = m
  <2>1. \A i \in 1..m : x[i] \in StampAges
    BY <1>1, <1>2, <1>6 DEF StampAges
  <2>2. x \in [1..m -> StampAges]
    BY <1>2, <2>1 DEF OlderStamps
  <2> QED BY <2>2, <1>2 DEF Stamps
<1>8. q \in Nat /\ DOMAIN kept = 1..q /\ \A i \in 1..q : kept[i] = g[n - q + i] /\ n - q + i \in 1..n
  <2>1. q \in Nat /\ DOMAIN kept = 1..q
    BY <1>5
  <2>2. ASSUME NEW i \in 1..q PROVE kept[i] = g[n - q + i] /\ n - q + i \in 1..n
    <3>1. q - i \in 0..(q - 1) /\ q - (q - i) = i /\ n - (q - i) = n - q + i /\ n - q + i \in 1..n
      BY <2>1, <1>3, <1>5
    <3> QED BY <3>1, <1>5
  <2> QED BY <2>1, <2>2
<1> HIDE DEF x, kept
<1>9. /\ DOMAIN h = 1..q
      /\ \A i \in 1..q : h[i] = [kept[i] EXCEPT !.age = @ + 1]
  BY <1>8 DEF kept, OlderPermits
<1>10. \A i \in 1..q : /\ h[i].age = g[n - q + i].age + 1 /\ h[i].rpm = g[n - q + i].rpm
                       /\ h[i] \in Permit
  BY <1>3, <1>8, <1>9 DEF Permit
<1>11. h \in Permits /\ Len(h) = q
  <2>1. h \in [1..q -> Permit]
    BY <1>8, <1>9, <1>10 DEF OlderPermits, kept
  <2>2. q \in Nat
    BY <1>8
  <2> HIDE DEF h, q
  <2> QED BY <2>1, <2>2 DEF Permits
<1> HIDE DEF h
<1>12. NearlySorted(x)
  <2> SUFFICES ASSUME NEW i \in 1..m, NEW j \in 1..m, i <= j PROVE x[j] <= x[i] + MaxDelay
    BY <1>6 DEF NearlySorted
  <2>1. s[j] <= s[i] + MaxDelay
    BY <1>2 DEF NearlySorted
  <2> QED BY <2>1, <1>1, <1>2, <1>6
<1>13. \A i \in 1..q : g[n - q + i].age + 1 < RateWindow
  <2> SUFFICES ASSUME NEW i \in 1..q PROVE g[n - q + i].age + 1 < RateWindow
    OBVIOUS
  <2>1. n - q + 1 \in 1..n /\ g[n - q + 1].age + 1 < RateWindow /\ n - q + 1 <= n - q + i
    BY <1>3, <1>5, <1>8
  <2>2. g[n - q + i].age <= g[n - q + 1].age
    BY <2>1, <1>3, <1>8 DEF Spaced
  <2> DEFINE a == n - q + 1
             b == n - q + i
  <2>3. a \in 1..n /\ b \in 1..n /\ g[a].age + 1 < RateWindow /\ g[b].age <= g[a].age
    BY <2>1, <2>2, <1>8
  <2> HIDE DEF a, b
  <2>4. g[a].age \in Nat /\ g[b].age \in Nat
    BY <2>3, <1>4
  <2>5. g[b].age + 1 < RateWindow
    BY <2>3, <2>4, <1>1
  <2> QED BY <2>5 DEF b
<1>14. Aligned(x, h)
  <2> SUFFICES ASSUME NEW k \in 0..(q - 1)
               PROVE  IF k < m
                      THEN h[q - k].age <= x[m - k] /\ x[m - k] <= h[q - k].age + MaxDelay
                      ELSE h[q - k].age >= RateWindow - MaxDelay
    BY <1>7, <1>11 DEF Aligned
  <2>1. /\ k \in 0..(n - 1) /\ q - k \in 1..q /\ n - q + (q - k) = n - k /\ n - k \in 1..n
    BY <1>3, <1>5, <1>8
  <2>2. h[q - k].age = g[n - k].age + 1 /\ g[n - k].age + 1 < RateWindow /\ g[n - k].age \in Nat
    BY <2>1, <1>4, <1>10, <1>13
  <2>3. IF k < m
        THEN g[n - k].age <= s[m - k] /\ s[m - k] <= g[n - k].age + MaxDelay
        ELSE g[n - k].age >= RateWindow - MaxDelay
    BY <2>1 DEF Aligned
  <2>4. CASE k < m
    <3> DEFINE y == m - k
               b == g[n - k].age
    <3>1. y \in 1..m /\ b <= s[y] /\ s[y] <= b + MaxDelay
      BY <2>3, <2>4, <1>2
    <3>2. b \in Nat /\ b + 1 < RateWindow /\ h[q - k].age = b + 1
      BY <2>2
    <3> HIDE DEF y, b
    <3>3. s[y] \in Nat /\ x[y] = IF s[y] < MaxAge THEN s[y] + 1 ELSE MaxAge
      BY <3>1, <1>2, <1>6
    <3>4. s[y] < MaxAge
      BY <3>1, <3>2, <3>3, <1>1
    <3>5. b + 1 <= x[y] /\ x[y] <= b + 1 + MaxDelay
      BY <3>1, <3>2, <3>3, <3>4, <1>1
    <3> QED BY <2>4, <3>2, <3>5 DEF y
  <2>5. CASE ~(k < m)
    BY <2>2, <2>3, <2>5, <1>1
  <2> QED BY <2>4, <2>5
<1>15. Spaced(h)
  <2>1. ASSUME NEW i \in 1..q, NEW j \in 1..q, i <= j PROVE h[j].age <= h[i].age
    <3> DEFINE u == n - q + i
               w == n - q + j
    <3>1. u \in 1..n /\ w \in 1..n /\ u <= w
      BY <2>1, <1>3, <1>8
    <3>2. h[j].age = g[w].age + 1 /\ h[i].age = g[u].age + 1
      BY <1>10
    <3> HIDE DEF u, w
    <3>3. g[w].age <= g[u].age
      BY <3>1, <1>3 DEF Spaced
    <3>4. g[w].age \in Nat /\ g[u].age \in Nat
      BY <3>1, <1>4
    <3> QED BY <3>2, <3>3, <3>4
  <2>2. ASSUME NEW i \in 1..q
        PROVE  /\ h[i].rpm > 0
               /\ i - h[i].rpm >= 1 => h[i - h[i].rpm].age - h[i].age >= RateWindow - MaxDelay
    <3> DEFINE a == n - q + i
               r == g[a].rpm
    <3>1. a \in 1..n /\ r \in Nat /\ h[i].rpm = r /\ h[i].age = g[a].age + 1 /\ g[a].age \in Nat
      BY <1>4, <1>8, <1>10
    <3>2. r > 0 /\ (a - r >= 1 => g[a - r].age - g[a].age >= RateWindow - MaxDelay)
      BY <3>1, <1>3 DEF Spaced
    <3>3. ASSUME i - r >= 1
          PROVE  h[i - r].age - h[i].age >= RateWindow - MaxDelay
      <4> HIDE DEF r
      <4>1. i - r \in 1..q /\ n - q + (i - r) = a - r
        BY <3>1, <3>2, <3>3, <1>3, <1>5, <1>8
      <4>2. a - r \in 1..n
        BY <4>1, <1>8
      <4>3. h[i - r].age = g[a - r].age + 1
        BY <4>1, <1>10
      <4>4. g[a - r].age \in Nat /\ g[a - r].age - g[a].age >= RateWindow - MaxDelay
        BY <4>2, <3>2, <1>4
      <4> HIDE DEF a
      <4> DEFINE u == g[a - r].age
                 v == g[a].age
      <4>5. u \in Nat /\ v \in Nat /\ u - v >= RateWindow - MaxDelay /\ h[i - r].age = u + 1 /\ h[i].age = v + 1
        BY <4>3, <4>4, <3>1
      <4> HIDE DEF u, v
      <4> QED BY <4>5, <1>1
    <3> QED BY <3>1, <3>2, <3>3
  <2> QED BY <2>1, <2>2, <1>9 DEF Spaced
<1>16. \A i \in 1..m : x[i] <= s[i] + 1
  BY <1>1, <1>2, <1>6
<1> QED BY <1>7, <1>11, <1>12, <1>14, <1>15, <1>16 DEF x, h

LEMMA SlotsCount ==
  /\ SlotsExact <=> \A g \in DOMAIN slots : slots[g] = Cardinality(Counted(caller, g))
  /\ SlotsExact' <=> \A g \in DOMAIN slots' : slots'[g] = Cardinality(Counted(caller', g))
BY DEF SlotsExact, Counted, Counts

\* What one caller's step has to show: its own record, and the window for the others.
LEMMA CallerStep ==
  ASSUME RateInv, NEW c \in Callers, NEW me \in CallerStates, Placed(me),
         caller' = [caller EXCEPT ![c] = me], rateKind' = rateKind, cleanups' = cleanups,
         stamps' \in Stamps, granted' \in Permits, NearlySorted(stamps'), Aligned(stamps', granted'),
         Spaced(granted'), Covered(stamps', me),
         \A d \in Callers : Covered(stamps', caller[d]),
         slots' \in [0..MaxCleanups -> Nat],
         \A g \in 0..MaxCleanups : slots'[g] = Cardinality(Counted(caller', g))
  PROVE  RateInv'
<1>1. caller' \in [Callers -> CallerStates] /\ \A d \in Callers : caller'[d] = IF d = c THEN me ELSE caller[d]
  BY DEF RateInv, RateTypeOK
<1>2. RateTypeOK'
  BY <1>1 DEF RateInv, RateTypeOK, Stamps, Permits
<1>3. SlotsExact'
  BY SlotsCount
<1>4. \A d \in Callers : Placed(caller[d])' /\ Covered(stamps', caller'[d])
  BY <1>1 DEF RateInv, Placed
<1>5. NearlySorted(stamps)' /\ Aligned(stamps, granted)' /\ Spaced(granted)'
  BY DEF NearlySorted, Aligned, Spaced
<1>6. \A d \in Callers : Covered(stamps, caller[d])'
  BY <1>4 DEF Covered
<1> QED BY <1>2, <1>3, <1>4, <1>5, <1>6 DEF RateInv

\* The same when the counters do not change, and the caller counts where it did.
LEMMA CallerStepUncounted ==
  ASSUME RateInv, NEW c \in Callers, NEW me \in CallerStates, Placed(me),
         caller' = [caller EXCEPT ![c] = me], rateKind' = rateKind, cleanups' = cleanups,
         slots' = slots, \A g \in 0..MaxCleanups : Counts(me, g) <=> Counts(caller[c], g),
         stamps' \in Stamps, granted' \in Permits, NearlySorted(stamps'), Aligned(stamps', granted'),
         Spaced(granted'), Covered(stamps', me),
         \A d \in Callers : Covered(stamps', caller[d])
  PROVE  RateInv'
<1>1. \A d \in Callers : caller'[d] = IF d = c THEN me ELSE caller[d]
  BY DEF RateInv, RateTypeOK
<1>2. ASSUME NEW g \in 0..MaxCleanups PROVE Counted(caller', g) = Counted(caller, g)
  BY <1>1, Zenon DEF Counted
<1>3. slots' \in [0..MaxCleanups -> Nat]
  BY DEF RateInv, RateTypeOK
<1>4. \A g \in 0..MaxCleanups : slots'[g] = Cardinality(Counted(caller', g))
  <2>1. SlotsExact /\ DOMAIN slots = 0..MaxCleanups
    BY DEF RateInv, RateTypeOK
  <2> QED BY <2>1, <1>2, SlotsCount
<1> QED BY <1>3, <1>4, CallerStep

\* The same when the window does not change either.
LEMMA CallerStepAlone ==
  ASSUME RateInv, NEW c \in Callers, NEW me \in CallerStates, Placed(me), me.pc # "sleep",
         caller' = [caller EXCEPT ![c] = me],
         UNCHANGED <<rateKind, stamps, slots, granted, cleanups>>,
         \A g \in 0..MaxCleanups : Counts(me, g) <=> Counts(caller[c], g)
  PROVE  RateInv'
<1>1. Covered(stamps', me)
  BY DEF Covered
<1>2. /\ stamps' \in Stamps /\ granted' \in Permits /\ NearlySorted(stamps')
      /\ Aligned(stamps', granted') /\ Spaced(granted')
      /\ \A d \in Callers : Covered(stamps', caller[d])
  BY DEF RateInv, RateTypeOK
<1> QED BY <1>1, <1>2, CallerStepUncounted

LEMMA FreshIsPlaced ==
  /\ FreshCaller \in CallerStates /\ Placed(FreshCaller) /\ FreshCaller.pc = "new"
  /\ \A g \in 0..MaxCleanups : ~Counts(FreshCaller, g)
<1>1. FreshCaller \in CallerStates
  BY RateAssumption DEF FreshCaller, CallerStates
<1> QED BY <1>1, RateAssumption DEF FreshCaller, Placed, Counts

\* The steps that touch neither window nor counters.
LEMMA PlainStepsKeep ==
  ASSUME RateInv, NEW c \in Callers,
         \/ LookUpKey(c) \/ PassUncounted(c) \/ CancelWait(c)
         \/ \E n \in Rpms : ReadClock(c, n)
  PROVE  RateInv'
<1>0. /\ caller \in [Callers -> CallerStates] /\ caller[c] \in CallerStates /\ Placed(caller[c])
      /\ cleanups \in 0..MaxCleanups
  BY DEF RateInv, RateTypeOK
<1>1. CASE LookUpKey(c)
  <2> DEFINE me == [caller[c] EXCEPT !.pc = "found", !.of = cleanups]
  <2>0. cleanups \in (-1)..MaxCleanups
    BY <1>0, RateAssumption
  <2>1. me \in CallerStates /\ me.pc = "found" /\ me.of = cleanups
    BY <1>0, <2>0 DEF CallerStates
  <2>2. /\ caller' = [caller EXCEPT ![c] = me] /\ caller[c].pc = "new" /\ rateKind = "key"
        /\ UNCHANGED <<rateKind, stamps, slots, granted, cleanups>>
    BY <1>1, <1>0 DEF LookUpKey
  <2> HIDE DEF me
  <2>3. Placed(me) /\ \A g \in 0..MaxCleanups : Counts(me, g) <=> Counts(caller[c], g)
    BY <2>1, <2>2, <1>0 DEF Placed, Counts
  <2> QED BY <2>1, <2>2, <2>3, CallerStepAlone
<1>2. CASE PassUncounted(c)
  <2> DEFINE me == [caller[c] EXCEPT !.pc = "slot"]
  <2>1. me \in CallerStates /\ me.pc = "slot" /\ me.of = caller[c].of
    BY <1>0 DEF CallerStates
  <2>2. /\ caller' = [caller EXCEPT ![c] = me] /\ caller[c].pc = "new" /\ rateKind = "key"
        /\ UNCHANGED <<rateKind, stamps, slots, granted, cleanups>>
    BY <1>2, <1>0 DEF PassUncounted
  <2> HIDE DEF me
  <2>3. Placed(me) /\ \A g \in 0..MaxCleanups : Counts(me, g) <=> Counts(caller[c], g)
    BY <2>1, <2>2, <1>0, RateAssumption DEF Placed, Counts
  <2> QED BY <2>1, <2>2, <2>3, CallerStepAlone
<1>3. CASE CancelWait(c)
  <2>1. /\ caller' = [caller EXCEPT ![c] = FreshCaller] /\ caller[c].pc = "sleep"
        /\ UNCHANGED <<rateKind, stamps, slots, granted, cleanups>>
    BY <1>3 DEF CancelWait
  <2>2. \A g \in 0..MaxCleanups : ~Counts(caller[c], g)
    BY <2>1, <1>0, RateAssumption DEF Placed, Counts
  <2> QED BY <2>1, <2>2, FreshIsPlaced, CallerStepAlone
<1>4. ASSUME NEW n \in Rpms, ReadClock(c, n) PROVE RateInv'
  <2> DEFINE me == [caller[c] EXCEPT !.pc = "read", !.rpm = n, !.read = 0, !.cleared = FALSE]
  <2>0. n \in Nat /\ 0 \in 0..MaxDelay
    BY RateAssumption
  <2>1. me \in CallerStates /\ me.pc = "read" /\ me.of = caller[c].of /\ me.rpm = n
    BY <1>0, <2>0 DEF CallerStates
  <2>2. /\ caller' = [caller EXCEPT ![c] = me] /\ n > 0
        /\ Asks(c) \/ caller[c].pc = "sleep"
        /\ UNCHANGED <<rateKind, stamps, slots, granted, cleanups>>
    BY <1>4, <1>0 DEF ReadClock
  <2> HIDE DEF me
  <2>3. Placed(me)
    BY <2>1, <2>2, <1>0 DEF Placed
  <2>4. \A g \in 0..MaxCleanups : Counts(me, g) <=> Counts(caller[c], g)
    BY <2>1, <2>2, <1>0, RateAssumption DEF Placed, Counts, Asks
  <2> QED BY <2>1, <2>2, <2>3, <2>4, CallerStepAlone
<1> QED BY <1>1, <1>2, <1>3, <1>4

LEMMA CountedFinite ==
  ASSUME NEW cs, NEW g
  PROVE  IsFiniteSet(Counted(cs, g)) /\ Cardinality(Counted(cs, g)) \in Nat
<1>1. Counted(cs, g) \in SUBSET Callers
  BY DEF Counted
<1>2. IsFiniteSet(Counted(cs, g))
  BY <1>1, RateAssumption, FS_Subset
<1> QED BY <1>2, FS_CardinalityType

\* The counters: taking a slot and giving it back.
LEMMA AcquireSlotKeeps ==
  ASSUME RateInv, NEW c \in Callers, NEW max \in KeyLimits, AcquireConcurrency(c, max)
  PROVE  RateInv'
<1>0. /\ caller \in [Callers -> CallerStates] /\ caller[c] \in CallerStates /\ Placed(caller[c])
      /\ slots \in [0..MaxCleanups -> Nat] /\ SlotsExact
      /\ stamps \in Stamps /\ granted \in Permits /\ NearlySorted(stamps)
      /\ Aligned(stamps, granted) /\ Spaced(granted)
      /\ \A d \in Callers : Covered(stamps, caller[d])
  BY DEF RateInv, RateTypeOK
<1>1. /\ caller[c].pc = "found" /\ caller[c].of \in 0..MaxCleanups
      /\ UNCHANGED <<rateKind, stamps, granted, cleanups>>
  BY <1>0 DEF AcquireConcurrency, Placed
<1>2. CASE slots[caller[c].of] >= max
  <2>1. caller' = [caller EXCEPT ![c] = FreshCaller] /\ slots' = slots
    BY <1>2 DEF AcquireConcurrency
  <2>2. \A g \in 0..MaxCleanups : ~Counts(caller[c], g)
    BY <1>1 DEF Counts
  <2> QED BY <2>1, <2>2, <1>1, FreshIsPlaced, CallerStepAlone
<1>3. CASE ~(slots[caller[c].of] >= max)
  <2> DEFINE me == [caller[c] EXCEPT !.pc = "slot"]
             o == caller[c].of
  <2>1. me \in CallerStates /\ me.pc = "slot" /\ me.of = o
    BY <1>0 DEF CallerStates
  <2>2. caller' = [caller EXCEPT ![c] = me] /\ slots' = [slots EXCEPT ![o] = @ + 1]
    BY <1>3, <1>0 DEF AcquireConcurrency
  <2> HIDE DEF me
  <2>3. Placed(me) /\ Covered(stamps', me)
    BY <2>1, <1>0, <1>1 DEF Placed, Covered
  <2>4. slots' \in [0..MaxCleanups -> Nat]
    BY <2>2, <1>0, <1>1
  <2>5. caller'[c] = me /\ \A d \in Callers : d # c => caller'[d] = caller[d]
    BY <2>2, <1>0
  <2>6. ASSUME NEW g \in 0..MaxCleanups PROVE slots'[g] = Cardinality(Counted(caller', g))
    <3>1. slots[g] = Cardinality(Counted(caller, g))
      BY <1>0, SlotsCount
    <3>2. CASE g = o
      <4>1. Counted(caller', g) = Counted(caller, g) \cup {c} /\ c \notin Counted(caller, g)
        BY <3>2, <2>1, <2>5, <1>1 DEF Counted, Counts
      <4>2. Cardinality(Counted(caller', g)) = Cardinality(Counted(caller, g)) + 1
        BY <4>1, CountedFinite, FS_AddElement
      <4> QED BY <3>1, <3>2, <4>2, <2>2, <1>0
    <3>3. CASE g # o
      <4>1. Counted(caller', g) = Counted(caller, g)
        BY <3>3, <2>1, <2>5 DEF Counted, Counts
      <4> QED BY <3>1, <3>3, <4>1, <2>2, <1>0
    <3> QED BY <3>2, <3>3
  <2> QED BY <2>1, <2>2, <2>3, <2>4, <2>6, <1>0, <1>1, CallerStep
<1> QED BY <1>2, <1>3

LEMMA LeaveKeeps ==
  ASSUME RateInv, NEW c \in Callers, Leave(c)
  PROVE  RateInv'
<1>0. /\ caller \in [Callers -> CallerStates] /\ caller[c] \in CallerStates /\ Placed(caller[c])
      /\ slots \in [0..MaxCleanups -> Nat] /\ SlotsExact
      /\ stamps \in Stamps /\ granted \in Permits /\ NearlySorted(stamps)
      /\ Aligned(stamps, granted) /\ Spaced(granted)
      /\ \A d \in Callers : Covered(stamps, caller[d])
  BY DEF RateInv, RateTypeOK
<1> DEFINE o == caller[c].of
<1>1. /\ caller[c].pc \notin {"new", "found"} /\ caller' = [caller EXCEPT ![c] = FreshCaller]
      /\ slots' = [g \in DOMAIN slots |-> IF g = o /\ slots[g] > 0 THEN slots[g] - 1 ELSE slots[g]]
      /\ UNCHANGED <<rateKind, stamps, granted, cleanups>>
  BY DEF Leave
<1> HIDE DEF o
<1>2. slots' \in [0..MaxCleanups -> Nat]
  BY <1>0, <1>1
<1>3. caller'[c] = FreshCaller /\ \A d \in Callers : d # c => caller'[d] = caller[d]
  BY <1>0, <1>1
<1>4. Covered(stamps', FreshCaller)
  BY FreshIsPlaced DEF Covered
<1>5. ASSUME NEW g \in 0..MaxCleanups PROVE slots'[g] = Cardinality(Counted(caller', g))
  <2>1. slots[g] = Cardinality(Counted(caller, g)) /\ slots[g] \in Nat
    BY <1>0, SlotsCount
  <2>2. CASE g = o
    <3>1. Counted(caller', g) = Counted(caller, g) \ {c} /\ c \in Counted(caller, g)
      BY <2>2, <1>1, <1>3, FreshIsPlaced DEF Counted, Counts, o
    <3>2. Cardinality(Counted(caller', g)) = Cardinality(Counted(caller, g)) - 1
      BY <3>1, CountedFinite, FS_RemoveElement
    <3>3. slots[g] > 0
      <4>1. Cardinality(Counted(caller, g)) # 0
        BY <3>1, CountedFinite, FS_EmptySet
      <4> QED BY <4>1, <2>1
    <3> QED BY <2>1, <2>2, <3>2, <3>3, <1>0, <1>1
  <2>3. CASE g # o
    <3>1. Counted(caller', g) = Counted(caller, g)
      BY <2>3, <1>3, FreshIsPlaced DEF Counted, Counts, o
    <3> QED BY <2>1, <2>3, <3>1, <1>0, <1>1
  <2> QED BY <2>2, <2>3
<1> QED BY <1>0, <1>1, <1>2, <1>4, <1>5, FreshIsPlaced, CallerStep

\* A permit given, or withheld for now.
LEMMA GrantStepKeeps ==
  ASSUME RateInv, NEW c \in Callers, GrantPermit(c)
  PROVE  RateInv'
<1>0. /\ caller \in [Callers -> CallerStates] /\ caller[c] \in CallerStates
      /\ stamps \in Stamps /\ granted \in Permits /\ NearlySorted(stamps)
      /\ Aligned(stamps, granted) /\ Spaced(granted)
      /\ \A d \in Callers : caller[d] \in CallerStates /\ Placed(caller[d]) /\ Covered(stamps, caller[d])
  BY DEF RateInv, RateTypeOK
<1> DEFINE w == Unexpired(caller[c].read)
           n == caller[c].rpm
           rd == caller[c].read
           me == [caller[c] EXCEPT !.pc = "passed", !.read = 0]
<1>1. /\ caller[c].pc = "read" /\ ~(Len(w) >= n)
      /\ stamps' = Append(w, rd) /\ granted' = Append(granted, [age |-> 0, rpm |-> n])
      /\ caller' = [caller EXCEPT ![c] = me] /\ UNCHANGED <<rateKind, slots, cleanups>>
  BY <1>0 DEF GrantPermit, WindowFull, Window
<1>2. rd \in 0..MaxDelay /\ n \in Nat /\ n > 0
  BY <1>0, <1>1 DEF CallerStates, Placed
<1>3. me \in CallerStates /\ me.pc = "passed" /\ me.of = caller[c].of
  <2>1. 0 \in 0..MaxDelay
    BY RateAssumption
  <2> QED BY <1>0, <2>1 DEF CallerStates
<1> HIDE DEF me, n, rd
<1>4. /\ w \in Stamps /\ NearlySorted(w) /\ Aligned(w, granted)
      /\ \A d \in Callers : Covered(w, caller[d])
  <2>1. \A d \in Callers : caller[d].pc = "sleep" => caller[d].rpm > 0
    BY <1>0 DEF Placed
  <2> QED BY <2>1, <1>0, <1>2, UnexpiredKeeps DEF rd
<1> HIDE DEF w
<1>5. Len(w) < n
  <2>1. Len(w) \in Nat
    BY <1>4 DEF Stamps
  <2> QED BY <2>1, <1>1, <1>2
<1>6. /\ stamps' \in Stamps /\ granted' \in Permits /\ NearlySorted(stamps')
      /\ Aligned(stamps', granted') /\ Spaced(granted')
      /\ \A d \in Callers : Covered(stamps', caller[d])
  <2>1. \A d \in Callers : caller[d].pc = "sleep" => caller[d].rpm > 0
    BY <1>0 DEF Placed
  <2>2. /\ Append(w, rd) \in Stamps /\ Append(granted, [age |-> 0, rpm |-> n]) \in Permits
        /\ NearlySorted(Append(w, rd))
        /\ Aligned(Append(w, rd), Append(granted, [age |-> 0, rpm |-> n]))
        /\ Spaced(Append(granted, [age |-> 0, rpm |-> n]))
        /\ \A m \in CallerStates :
             Covered(w, m) /\ (m.pc = "sleep" => m.rpm > 0) => Covered(Append(w, rd), m)
    BY <1>0, <1>2, <1>4, <1>5, GrantKeeps
  <2> QED BY <2>1, <2>2, <1>0, <1>1, <1>4
<1>7. Placed(me) /\ Covered(stamps', me) /\ \A g \in 0..MaxCleanups : Counts(me, g) <=> Counts(caller[c], g)
  BY <1>0, <1>1, <1>3 DEF Placed, Covered, Counts
<1> QED BY <1>1, <1>3, <1>6, <1>7, CallerStepUncounted

LEMMA WithholdStepKeeps ==
  ASSUME RateInv, NEW c \in Callers, WithholdPermit(c),
         \/ /\ rateKind = "channel"
            /\ caller' = [caller EXCEPT ![c].pc = "sleep", ![c].read = 0,
                            ![c].sleep = AdmitIn(Window(c), caller[c].rpm, caller[c].read)]
         \/ caller' = [caller EXCEPT ![c].pc = "refused", ![c].read = 0]
  PROVE  RateInv'
<1>0. /\ caller \in [Callers -> CallerStates] /\ caller[c] \in CallerStates
      /\ stamps \in Stamps /\ granted \in Permits /\ NearlySorted(stamps)
      /\ Aligned(stamps, granted) /\ Spaced(granted)
      /\ \A d \in Callers : caller[d] \in CallerStates /\ Placed(caller[d]) /\ Covered(stamps, caller[d])
  BY DEF RateInv, RateTypeOK
<1> DEFINE w == Unexpired(caller[c].read)
           n == caller[c].rpm
           rd == caller[c].read
<1>1. /\ caller[c].pc = "read" /\ Len(w) >= n /\ stamps' = w
      /\ UNCHANGED <<rateKind, slots, granted, cleanups>>
  BY <1>0 DEF WithholdPermit, WindowFull, Window
<1>2. rd \in 0..MaxDelay /\ n \in Nat /\ n > 0
  BY <1>0, <1>1 DEF CallerStates, Placed
<1>3. /\ w \in Stamps /\ NearlySorted(w) /\ Aligned(w, granted)
      /\ \A d \in Callers : Covered(w, caller[d])
  <2>1. \A d \in Callers : caller[d].pc = "sleep" => caller[d].rpm > 0
    BY <1>0 DEF Placed
  <2> HIDE DEF rd
  <2> QED BY <2>1, <1>0, <1>2, UnexpiredKeeps DEF rd
<1>4. ASSUME NEW me \in CallerStates, caller' = [caller EXCEPT ![c] = me], me.of = caller[c].of,
             Placed(me), me.pc \in {"sleep", "refused"}, Covered(w, me)
      PROVE  RateInv'
  <2>1. \A g \in 0..MaxCleanups : Counts(me, g) <=> Counts(caller[c], g)
    BY <1>1, <1>4 DEF Counts
  <2> QED BY <2>1, <1>0, <1>1, <1>3, <1>4, CallerStepUncounted
<1>5. CASE caller' = [caller EXCEPT ![c].pc = "refused", ![c].read = 0]
  <2> DEFINE me == [caller[c] EXCEPT !.pc = "refused", !.read = 0]
  <2>0. 0 \in 0..MaxDelay
    BY RateAssumption
  <2>1. me \in CallerStates /\ me.pc = "refused" /\ me.of = caller[c].of
    BY <1>0, <2>0 DEF CallerStates
  <2>2. caller' = [caller EXCEPT ![c] = me]
    BY <1>5, <1>0
  <2> HIDE DEF me
  <2>3. Placed(me) /\ Covered(w, me)
    BY <2>1, <1>0 DEF Placed, Covered
  <2> QED BY <2>1, <2>2, <2>3, <1>4
<1>6. CASE /\ rateKind = "channel"
           /\ caller' = [caller EXCEPT ![c].pc = "sleep", ![c].read = 0,
                           ![c].sleep = AdmitIn(Window(c), caller[c].rpm, caller[c].read)]
  <2> DEFINE a == AdmitIn(w, n, rd)
             me == [caller[c] EXCEPT !.pc = "sleep", !.read = 0, !.sleep = a]
  <2>1. /\ a \in 0..(RateWindow + MaxDelay)
        /\ \A m \in CallerStates : m.rpm = n /\ m.sleep = a => Covered(w, m)
    <3> HIDE DEF w, n, rd
    <3> QED BY <1>1, <1>2, <1>3, SleepIsCovered
  <2>2. caller' = [caller EXCEPT ![c] = me]
    BY <1>6, <1>0 DEF Window
  <2> HIDE DEF a
  <2>3. me \in CallerStates /\ me.pc = "sleep" /\ me.of = caller[c].of /\ me.sleep = a /\ me.rpm = n
    <3>1. 0 \in 0..MaxDelay
      BY RateAssumption
    <3> QED BY <1>0, <2>1, <3>1 DEF CallerStates
  <2> HIDE DEF me
  <2>4. Placed(me) /\ Covered(w, me)
    BY <2>1, <2>3, <1>0, <1>2, <1>6 DEF Placed
  <2> QED BY <2>2, <2>3, <2>4, <1>4
<1> QED BY <1>5, <1>6

\* The window is deleted: the callers that sleep do not learn of it.
LEMMA ForgottenFacts ==
  ASSUME RateInv
  PROVE  /\ Forgotten \in [Callers -> CallerStates]
         /\ \A c \in Callers : /\ Forgotten[c].pc = caller[c].pc /\ Forgotten[c].of = caller[c].of
                               /\ Forgotten[c].rpm = caller[c].rpm
                               /\ caller[c].pc = "sleep" => Forgotten[c].cleared
<1> SUFFICES ASSUME NEW c \in Callers
             PROVE  /\ Forgotten[c] \in CallerStates
                    /\ Forgotten[c].pc = caller[c].pc /\ Forgotten[c].of = caller[c].of
                    /\ Forgotten[c].rpm = caller[c].rpm
                    /\ caller[c].pc = "sleep" => Forgotten[c].cleared
  BY DEF Forgotten
<1> DEFINE me == caller[c]
           b == me.cleared \/ me.pc = "sleep"
<1>1. me \in CallerStates
  BY DEF RateInv, RateTypeOK
<1>2. Forgotten[c] = [me EXCEPT !.cleared = b]
  BY DEF Forgotten
<1>3. b \in BOOLEAN /\ (me.pc = "sleep" => b)
  OBVIOUS
<1> HIDE DEF b
<1>4. /\ Forgotten[c] \in CallerStates
      /\ Forgotten[c].pc = me.pc /\ Forgotten[c].of = me.of
      /\ Forgotten[c].rpm = me.rpm /\ Forgotten[c].cleared = b
  <2> HIDE DEF me
  <2> QED BY <1>1, <1>2, <1>3 DEF CallerStates
<1> QED BY <1>3, <1>4

LEMMA EmptyWindow ==
  /\ <<>> \in Stamps /\ <<>> \in Permits /\ NearlySorted(<<>>) /\ Aligned(<<>>, <<>>) /\ Spaced(<<>>)
BY DEF Stamps, Permits, NearlySorted, Aligned, Spaced

LEMMA ForgetKeeps ==
  ASSUME RateInv, NEW cs \in [Callers -> CallerStates], caller' = cs,
         \A c \in Callers : /\ Placed(cs[c]) /\ (cs[c].pc = "sleep" => cs[c].cleared)
                            /\ \A g \in 0..MaxCleanups : Counts(cs[c], g) <=> Counts(caller[c], g),
         stamps' = <<>>, granted' = <<>>, UNCHANGED <<rateKind, slots>>, cleanups' \in 0..MaxCleanups
  PROVE  RateInv'
<1>1. RateTypeOK'
  BY EmptyWindow DEF RateInv, RateTypeOK, Stamps, Permits
<1>2. SlotsExact'
  <2>1. \A g \in 0..MaxCleanups : Counted(cs, g) = Counted(caller, g)
    BY Zenon DEF Counted
  <2>2. SlotsExact /\ DOMAIN slots = 0..MaxCleanups
    BY DEF RateInv, RateTypeOK
  <2> QED BY <2>1, <2>2, SlotsCount
<1>3. \A c \in Callers : Placed(caller[c])' /\ Covered(stamps, caller[c])'
  BY DEF Placed, Covered
<1>4. NearlySorted(stamps)' /\ Aligned(stamps, granted)' /\ Spaced(granted)'
  BY EmptyWindow DEF NearlySorted, Aligned, Spaced
<1> QED BY <1>1, <1>2, <1>3, <1>4 DEF RateInv

LEMMA ForgetStepsKeep ==
  ASSUME RateInv, Cleanup \/ \E c \in Callers : PassUnlimitedRate(c)
  PROVE  RateInv'
<1>0. /\ \A c \in Callers : Placed(caller[c]) /\ caller[c] \in CallerStates
      /\ cleanups \in 0..MaxCleanups
  BY DEF RateInv, RateTypeOK
<1>1. CASE Cleanup
  <2>1. /\ stamps' = <<>> /\ granted' = <<>> /\ caller' = Forgotten
        /\ UNCHANGED <<rateKind, slots>> /\ cleanups' \in 0..MaxCleanups
    BY <1>0, <1>1, RateAssumption DEF Cleanup
  <2>2. \A c \in Callers : /\ Placed(Forgotten[c]) /\ (Forgotten[c].pc = "sleep" => Forgotten[c].cleared)
                           /\ \A g \in 0..MaxCleanups : Counts(Forgotten[c], g) <=> Counts(caller[c], g)
    BY <1>0, ForgottenFacts DEF Placed, Counts
  <2> QED BY <2>1, <2>2, ForgottenFacts, ForgetKeeps
<1>2. ASSUME NEW c \in Callers, PassUnlimitedRate(c) PROVE RateInv'
  <2> DEFINE me == [Forgotten[c] EXCEPT !.pc = "passed"]
             cs == [Forgotten EXCEPT ![c] = me]
  <2>1. /\ Asks(c) /\ stamps' = <<>> /\ granted' = <<>> /\ caller' = cs
        /\ UNCHANGED <<rateKind, slots>> /\ cleanups' \in 0..MaxCleanups
    BY <1>0, <1>2, ForgottenFacts DEF PassUnlimitedRate
  <2>2. me \in CallerStates /\ me.pc = "passed" /\ me.of = caller[c].of
    <3>1. Forgotten[c] \in CallerStates /\ Forgotten[c].of = caller[c].of
      BY ForgottenFacts
    <3> QED BY <3>1 DEF CallerStates
  <2> HIDE DEF me
  <2>3. cs \in [Callers -> CallerStates] /\ cs[c] = me /\ \A d \in Callers : d # c => cs[d] = Forgotten[d]
    BY <2>2, ForgottenFacts
  <2> HIDE DEF cs
  <2>4. ASSUME NEW d \in Callers
        PROVE  /\ Placed(cs[d]) /\ (cs[d].pc = "sleep" => cs[d].cleared)
               /\ \A g \in 0..MaxCleanups : Counts(cs[d], g) <=> Counts(caller[d], g)
    <3>1. CASE d = c
      BY <3>1, <2>1, <2>2, <2>3, <1>0, RateAssumption DEF Placed, Counts, Asks
    <3>2. CASE d # c
      BY <3>2, <2>3, <1>0, ForgottenFacts DEF Placed, Counts
    <3> QED BY <3>1, <3>2
  <2> QED BY <2>1, <2>3, <2>4, ForgetKeeps
<1> QED BY <1>1, <1>2

LEMMA RateTickKeeps ==
  ASSUME RateInv, RateTick
  PROVE  RateInv'
<1>0. /\ caller \in [Callers -> CallerStates]
      /\ stamps \in Stamps /\ granted \in Permits /\ NearlySorted(stamps)
      /\ Aligned(stamps, granted) /\ Spaced(granted)
      /\ \A d \in Callers : caller[d] \in CallerStates /\ Placed(caller[d]) /\ Covered(stamps, caller[d])
  BY DEF RateInv, RateTypeOK
<1>1. /\ stamps' = OlderStamps(stamps) /\ granted' = OlderPermits(granted)
      /\ UNCHANGED <<rateKind, slots, cleanups>>
  BY DEF RateTick, OlderStamps, OlderPermits, Recent
<1>2. /\ stamps' \in Stamps /\ granted' \in Permits /\ NearlySorted(stamps')
      /\ Aligned(stamps', granted') /\ Spaced(granted')
      /\ Len(stamps') = Len(stamps) /\ \A i \in 1..Len(stamps) : stamps'[i] <= stamps[i] + 1
  BY <1>0, <1>1, TickKeeps
<1>3. ASSUME NEW c \in Callers
      PROVE  /\ caller'[c] \in CallerStates /\ caller'[c].pc = caller[c].pc /\ caller'[c].of = caller[c].of
             /\ caller'[c].rpm = caller[c].rpm /\ caller'[c].cleared = caller[c].cleared
             /\ caller'[c].sleep = IF caller[c].sleep > 0 THEN caller[c].sleep - 1 ELSE 0
  <2> DEFINE me == caller[c]
             rd == IF me.pc = "read" THEN me.read + 1 ELSE me.read
             sl == IF me.sleep > 0 THEN me.sleep - 1 ELSE 0
  <2>1. me \in CallerStates /\ (me.pc = "read" => me.read < MaxDelay)
    BY <1>0 DEF RateTick
  <2>2. caller'[c] = [me EXCEPT !.read = rd, !.sleep = sl]
    BY DEF RateTick
  <2>3. rd \in 0..MaxDelay /\ sl \in 0..(RateWindow + MaxDelay)
    <3>1. me.read \in 0..MaxDelay /\ me.sleep \in 0..(RateWindow + MaxDelay)
      BY <2>1 DEF CallerStates
    <3> HIDE DEF me
    <3> QED BY <2>1, <3>1, RateAssumption
  <2>4. /\ caller'[c] \in CallerStates /\ caller'[c].pc = me.pc /\ caller'[c].of = me.of
        /\ caller'[c].rpm = me.rpm /\ caller'[c].cleared = me.cleared /\ caller'[c].sleep = sl
    <3> HIDE DEF me, rd, sl
    <3> QED BY <2>1, <2>2, <2>3 DEF CallerStates
  <2> QED BY <2>4
<1>4. caller' \in [Callers -> CallerStates]
  <2>1. caller' = [c \in Callers |-> caller'[c]]
    BY DEF RateTick
  <2> QED BY <2>1, <1>3
<1>5. RateTypeOK'
  BY <1>1, <1>2, <1>4 DEF RateInv, RateTypeOK, Stamps, Permits
<1>6. SlotsExact'
  <2>1. \A g \in 0..MaxCleanups : Counted(caller', g) = Counted(caller, g)
    BY <1>3 DEF Counted, Counts
  <2>2. SlotsExact /\ DOMAIN slots = 0..MaxCleanups
    BY DEF RateInv, RateTypeOK
  <2> QED BY <2>1, <2>2, <1>1, SlotsCount
<1>7. ASSUME NEW c \in Callers PROVE Placed(caller[c])' /\ Covered(stamps', caller'[c])
  <2>1. Placed(caller[c])'
    BY <1>0, <1>1, <1>3 DEF Placed
  <2>2. Covered(stamps', caller'[c])
    <3> DEFINE sl == caller[c].sleep
               n == caller[c].rpm
               m == Len(stamps)
    <3> SUFFICES ASSUME caller[c].pc = "sleep", ~caller[c].cleared, caller'[c].sleep > 2 * MaxDelay
                 PROVE  /\ m >= n
                        /\ \A k \in 0..(n - 1) : stamps'[m - k] + caller'[c].sleep <= RateWindow + 2 * MaxDelay
      BY <1>2, <1>3 DEF Covered
    <3>1. sl \in Nat /\ n \in Nat /\ MaxDelay \in Nat /\ RateWindow \in Nat
      BY <1>0, RateAssumption DEF CallerStates
    <3>2. sl > 2 * MaxDelay /\ caller'[c].sleep = sl - 1
      BY <3>1, <1>3
    <3>3. m >= n /\ \A k \in 0..(n - 1) : stamps[m - k] + sl <= RateWindow + 2 * MaxDelay
      BY <3>2, <1>0 DEF Covered
    <3>4. ASSUME NEW k \in 0..(n - 1) PROVE stamps'[m - k] + (sl - 1) <= RateWindow + 2 * MaxDelay
      <4>1. m \in Nat
        BY <1>0 DEF Stamps
      <4>2. m - k \in 1..m
        BY <3>1, <3>3, <4>1
      <4> DEFINE y == m - k
      <4>3. y \in 1..m /\ stamps[y] + sl <= RateWindow + 2 * MaxDelay
        BY <3>3, <4>2
      <4> HIDE DEF y
      <4>4. stamps[y] \in StampAges /\ stamps'[y] \in StampAges /\ stamps'[y] <= stamps[y] + 1
        BY <4>3, <1>0, <1>2 DEF Stamps
      <4>5. stamps[y] \in Nat /\ stamps'[y] \in Nat
        BY <4>4 DEF StampAges
      <4>6. stamps'[y] + (sl - 1) <= RateWindow + 2 * MaxDelay
        BY <4>3, <4>4, <4>5, <3>1
      <4> QED BY <4>6 DEF y
    <3> QED BY <3>2, <3>3, <3>4
  <2> QED BY <2>1, <2>2
<1>8. \A c \in Callers : Covered(stamps, caller[c])'
  BY <1>7 DEF Covered
<1>9. NearlySorted(stamps)' /\ Aligned(stamps, granted)' /\ Spaced(granted)'
  BY <1>2 DEF NearlySorted, Aligned, Spaced
<1> QED BY <1>5, <1>6, <1>7, <1>8, <1>9 DEF RateInv

LEMMA RateStarts == RateInit => RateInv
<1> SUFFICES ASSUME RateInit PROVE RateInv
  OBVIOUS
<1>1. RateTypeOK
  BY EmptyWindow, FreshIsPlaced, RateAssumption DEF RateInit, RateTypeOK
<1>2. \A c \in Callers : Placed(caller[c]) /\ Covered(stamps, caller[c])
  <2>1. \A c \in Callers : caller[c] = FreshCaller
    BY DEF RateInit
  <2> QED BY <2>1, FreshIsPlaced DEF Covered
<1>3. SlotsExact
  <2>1. \A g \in 0..MaxCleanups : Counted(caller, g) = {}
    BY FreshIsPlaced DEF RateInit, Counted
  <2>2. DOMAIN slots = 0..MaxCleanups /\ \A g \in 0..MaxCleanups : slots[g] = 0
    BY DEF RateInit
  <2> QED BY <2>1, <2>2, SlotsCount, FS_EmptySet
<1>4. NearlySorted(stamps) /\ Aligned(stamps, granted) /\ Spaced(granted)
  BY EmptyWindow DEF RateInit
<1> QED BY <1>1, <1>2, <1>3, <1>4 DEF RateInv

LEMMA RateStep == RateInv /\ [RateNext]_rateVars => RateInv'
<1> SUFFICES ASSUME RateInv, [RateNext]_rateVars PROVE RateInv'
  OBVIOUS
<1>1. CASE UNCHANGED rateVars
  <2>1. UNCHANGED <<rateKind, stamps, caller, slots, granted, cleanups>>
    BY <1>1 DEF rateVars
  <2> QED BY <2>1 DEF RateInv, RateTypeOK, SlotsExact, NearlySorted, Aligned, Spaced, Placed, Covered
<1>2. ASSUME NEW c \in Callers,
             \/ LookUpKey(c) \/ PassUncounted(c) \/ CancelWait(c)
             \/ \E n \in Rpms : ReadClock(c, n)
      PROVE  RateInv'
  BY <1>2, PlainStepsKeep
<1>3. ASSUME NEW c \in Callers, Leave(c) PROVE RateInv'
  BY <1>3, LeaveKeeps
<1>4. ASSUME NEW c \in Callers, NEW max \in KeyLimits, AcquireConcurrency(c, max) PROVE RateInv'
  BY <1>4, AcquireSlotKeeps
<1>5. ASSUME NEW c \in Callers, tryChannelRPMPermit(c) \/ AcquireRPMPermit(c) PROVE RateInv'
  BY <1>5, GrantStepKeeps, WithholdStepKeeps DEF tryChannelRPMPermit, AcquireRPMPermit
<1>6. CASE Cleanup \/ \E c \in Callers : PassUnlimitedRate(c)
  BY <1>6, ForgetStepsKeep
<1>7. CASE RateTick
  BY <1>7, RateTickKeeps
<1> QED BY <1>1, <1>2, <1>3, <1>4, <1>5, <1>6, <1>7 DEF RateNext

LEMMA IntervalCount ==
  ASSUME NEW a \in Int, NEW b \in Int
  PROVE  IsFiniteSet(a..b) /\ Cardinality(a..b) = IF a > b THEN 0 ELSE b - a + 1
BY FS_Interval

\* The rate of a key, in real time (relay/channellimit.go, keylimit/keylimit.go): no limit is
\* exceeded within one window less the delay, nobody sleeps in vain for longer than two delays,
\* and the counters count their holders, for any callers, limits, window and delay.
THEOREM RateHolds == RateSpec => []RateSound
<1>1. RateInv => RateSound
  <2> SUFFICES ASSUME RateInv PROVE RateSound
    OBVIOUS
  <2>0. /\ stamps \in Stamps /\ granted \in Permits /\ Spaced(granted) /\ SlotsExact
        /\ \A c \in Callers : caller[c] \in CallerStates /\ Placed(caller[c]) /\ Covered(stamps, caller[c])
        /\ MaxDelay \in Nat /\ RateWindow \in Nat
    BY RateAssumption DEF RateInv, RateTypeOK
  <2>1. ASSUME NEW i \in DOMAIN granted
        PROVE  Cardinality({j \in 1..(i - 1) : granted[j].age - granted[i].age < RateWindow - MaxDelay})
                 < granted[i].rpm
    <3> DEFINE n == granted[i].rpm
               S == {j \in 1..(i - 1) : granted[j].age - granted[i].age < RateWindow - MaxDelay}
               lo == IF i - n >= 1 THEN i - n + 1 ELSE 1
    <3>1. i \in 1..Len(granted) /\ Len(granted) \in Nat /\ DOMAIN granted = 1..Len(granted)
          /\ \A j \in 1..Len(granted) : granted[j] \in Permit
      BY <2>0 DEF Permits
    <3>2. n \in Nat /\ n > 0 /\ \A j \in 1..Len(granted) : granted[j].age \in Nat
      BY <3>1, <2>0 DEF Spaced, Permit
    <3>3. i - n >= 1 => granted[i - n].age - granted[i].age >= RateWindow - MaxDelay
      BY <2>0 DEF Spaced
    <3> HIDE DEF n
    <3>4. S \subseteq lo..(i - 1)
      <4> SUFFICES ASSUME NEW j \in 1..(i - 1), granted[j].age - granted[i].age < RateWindow - MaxDelay,
                          i - n >= 1, j <= i - n
                   PROVE  FALSE
        BY <3>1, <3>2
      <4> DEFINE q == i - n
      <4>1. q \in 1..Len(granted) /\ j \in 1..Len(granted) /\ j <= q
            /\ granted[q].age - granted[i].age >= RateWindow - MaxDelay
        BY <3>1, <3>2, <3>3
      <4> HIDE DEF q
      <4>2. granted[q].age <= granted[j].age
        BY <4>1, <3>1, <2>0 DEF Spaced
      <4>3. granted[q].age \in Nat /\ granted[j].age \in Nat /\ granted[i].age \in Nat
        BY <4>1, <3>1, <3>2
      <4> QED BY <4>1, <4>2, <4>3, <2>0
    <3>5. lo \in Nat /\ i \in Nat /\ i - lo < n /\ i >= lo
      BY <3>1, <3>2
    <3> HIDE DEF lo
    <3>6. IsFiniteSet(lo..(i - 1)) /\ Cardinality(lo..(i - 1)) = i - lo
      <4>1. IsFiniteSet(lo..(i - 1)) /\ Cardinality(lo..(i - 1)) = IF lo > i - 1 THEN 0 ELSE (i - 1) - lo + 1
        <5> DEFINE b == i - 1
        <5>1. lo \in Int /\ b \in Int
          BY <3>5
        <5> HIDE DEF b
        <5>2. IsFiniteSet(lo..b) /\ Cardinality(lo..b) = IF lo > b THEN 0 ELSE b - lo + 1
          BY <5>1, IntervalCount
        <5> QED BY <5>2 DEF b
      <4> QED BY <4>1, <3>5
    <3>7. IsFiniteSet(S) /\ Cardinality(S) <= Cardinality(lo..(i - 1)) /\ Cardinality(S) \in Nat
      <4> HIDE DEF S
      <4> QED BY <3>4, <3>6, FS_Subset, FS_CardinalityType
    <3>8. Cardinality(S) < n
      <4> HIDE DEF S
      <4> QED BY <3>2, <3>5, <3>6, <3>7
    <3> QED BY <3>8 DEF n
  <2>2. ASSUME NEW c \in Callers, caller[c].pc = "sleep", ~caller[c].cleared,
               caller[c].sleep > 2 * MaxDelay
        PROVE  Cardinality({i \in DOMAIN stamps : stamps[i] < RateWindow}) >= caller[c].rpm
    <3> DEFINE n == caller[c].rpm
               sl == caller[c].sleep
               m == Len(stamps)
               S == {i \in DOMAIN stamps : stamps[i] < RateWindow}
    <3>1. n \in Nat /\ n > 0 /\ sl \in Nat /\ sl > 2 * MaxDelay
      BY <2>0, <2>2 DEF CallerStates, Placed
    <3>2. m >= n /\ \A k \in 0..(n - 1) : stamps[m - k] + sl <= RateWindow + 2 * MaxDelay
      BY <2>0, <2>2 DEF Covered
    <3>3. m \in Nat /\ DOMAIN stamps = 1..m /\ \A i \in 1..m : stamps[i] \in StampAges
      BY <2>0 DEF Stamps
    <3> HIDE DEF n, sl, m
    <3>4. (m - n + 1)..m \subseteq S
      <4> SUFFICES ASSUME NEW i \in (m - n + 1)..m PROVE i \in DOMAIN stamps /\ stamps[i] < RateWindow
        OBVIOUS
      <4>1. i \in 1..m /\ m - i \in 0..(n - 1) /\ m - (m - i) = i
        BY <3>1, <3>2, <3>3
      <4>2. stamps[i] + sl <= RateWindow + 2 * MaxDelay
        BY <4>1, <3>2
      <4>3. stamps[i] \in Nat
        BY <4>1, <3>3 DEF StampAges
      <4> QED BY <4>1, <4>2, <4>3, <3>1, <3>3, <2>0
    <3>5. IsFiniteSet((m - n + 1)..m) /\ Cardinality((m - n + 1)..m) = n
      <4>1. m - n + 1 \in Int /\ m \in Int /\ ~(m - n + 1 > m) /\ m - (m - n + 1) + 1 = n
        BY <3>1, <3>3
      <4>2. /\ IsFiniteSet((m - n + 1)..m)
            /\ Cardinality((m - n + 1)..m) = IF m - n + 1 > m THEN 0 ELSE m - (m - n + 1) + 1
        BY <4>1, IntervalCount
      <4> QED BY <4>1, <4>2
    <3>6. IsFiniteSet(S)
      <4>1. IsFiniteSet(1..m)
        BY <3>3, IntervalCount
      <4> QED BY <4>1, <3>3, FS_Subset
    <3>7. Cardinality((m - n + 1)..m) <= Cardinality(S) /\ Cardinality(S) \in Nat
      <4> HIDE DEF S
      <4> QED BY <3>4, <3>5, <3>6, FS_Subset, FS_CardinalityType
    <3>8. Cardinality(S) >= n
      <4> HIDE DEF S
      <4> QED BY <3>5, <3>7, <3>1
    <3> QED BY <3>8 DEF n
  <2>3. RateKept
    BY <2>1 DEF RateKept
  <2>4. SleepNeeded
    BY <2>2 DEF SleepNeeded
  <2> QED BY <2>0, <2>3, <2>4 DEF RateSound
<1> QED BY <1>1, RateStarts, RateStep, PTL DEF RateSpec

=============================================================================
