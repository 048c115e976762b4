---------------------------- MODULE ChannelGate ----------------------------
(***************************************************************************)
(* The concurrency limit of one channel: acquireChannelConcurrency and its *)
(* counter object in internal/relay/channellimit.go, taken before each     *)
(* upstream call (upstream.go) and given back when its response is closed. *)
(*                                                                         *)
(* The table entry may be deleted while requests hold or wait for slots of *)
(* the old counter object, so counter objects are numbered: a generation   *)
(* per object ever created.  A waiter blocks on the wake channel it read   *)
(* under the object's mutex; `asleep' says that channel is still open.     *)
(***************************************************************************)
EXTENDS Naturals, FiniteSets

CONSTANTS
  Rounds,        \* rounds that call this channel's upstream
  Limits,          \* values the administrator gives MaxConcurrent; 0 is "no limit"
  MaxGenerations,  \* bound: counter objects created
  CanClear         \* the entry may be deleted (channel deletion, import, clear cooldown)

ASSUME GateAssumption ==
  /\ IsFiniteSet(Rounds)
  /\ Limits \subseteq Nat
  /\ MaxGenerations \in Nat \ {0}
  /\ CanClear \in BOOLEAN

Generations == 1..MaxGenerations
NoState == 0

VARIABLES
  limit,    \* channel.MaxConcurrent in op's cache
  table,    \* channelConcurrencyStates[channelID]: a generation, or NoState
  created,  \* counter objects created so far
  active,   \* per counter object: active
  round       \* per request: where it is and what it works from

gateVars == <<limit, table, created, active, round>>

RoundStates ==
  [pc     : {"idle", "acquiring", "trying", "waiting", "inflight"},
   lim    : Nat,                        \* MaxConcurrent in the round's copy of the channel
   gen    : Generations \cup {NoState}, \* the counter object it looked up
   asleep : BOOLEAN]
FreshRound == [pc |-> "idle", lim |-> 0, gen |-> NoState, asleep |-> FALSE]

GateInit ==
  /\ limit \in Limits
  /\ table = NoState
  /\ created = 0
  /\ active = [g \in Generations |-> 0]
  /\ round = [r \in Rounds |-> FreshRound]

---------------------------------------------------------------------------
\* A round takes its copy of the channel.
Dispatch(r) ==
  /\ round[r].pc = "idle"
  /\ round' = [round EXCEPT ![r].pc = "acquiring", ![r].lim = limit]
  /\ UNCHANGED <<limit, table, created, active>>

\* acquireChannelConcurrency with limit <= 0: no slot, no counter.
PassUnlimited(r) ==
  /\ round[r].pc = "acquiring" /\ round[r].lim = 0
  /\ round' = [round EXCEPT ![r].pc = "inflight"]
  /\ UNCHANGED <<limit, table, created, active>>

\* The section of channelLimitMu: find the counter object or create one.
LookUp(r) ==
  /\ round[r].pc = "acquiring" /\ round[r].lim > 0
  /\ IF table # NoState THEN UNCHANGED <<table, created>>
     ELSE /\ created < MaxGenerations
          /\ created' = created + 1
          /\ table' = created + 1
  /\ round' = [round EXCEPT ![r].pc = "trying", ![r].gen = table']
  /\ UNCHANGED <<limit, active>>

\* Fault: an off-by-one in the comparison with the limit.
TrySlotOffByOne(r) ==
  /\ round[r].pc = "trying" \/ (round[r].pc = "waiting" /\ ~round[r].asleep)
  /\ IF active[round[r].gen] <= round[r].lim
     THEN /\ active' = [active EXCEPT ![round[r].gen] = @ + 1]
          /\ round' = [round EXCEPT ![r].pc = "inflight"]
     ELSE /\ round' = [round EXCEPT ![r].pc = "waiting", ![r].asleep = TRUE]
          /\ UNCHANGED active
  /\ UNCHANGED <<limit, table, created>>

\* The section of st.mu: take a slot, or remember the wake channel and block on it.
TrySlot(r) ==
  /\ round[r].pc = "trying" \/ (round[r].pc = "waiting" /\ ~round[r].asleep)
  /\ IF active[round[r].gen] < round[r].lim
     THEN /\ active' = [active EXCEPT ![round[r].gen] = @ + 1]
          /\ round' = [round EXCEPT ![r].pc = "inflight"]
     ELSE /\ round' = [round EXCEPT ![r].pc = "waiting", ![r].asleep = TRUE]
          /\ UNCHANGED active
  /\ UNCHANGED <<limit, table, created>>

\* Fault: giving up gives back a slot that was never taken.
GiveUpReleases(r) ==
  /\ round[r].pc = "waiting"
  /\ active' = [active EXCEPT ![round[r].gen] = @ - 1]
  /\ round' = [round EXCEPT ![r] = FreshRound]
  /\ UNCHANGED <<limit, table, created>>

\* The one-second budget is used up or the context ended, perhaps together with a
\* wake-up: no slot is taken.
GiveUp(r) ==
  /\ round[r].pc = "waiting"
  /\ round' = [round EXCEPT ![r] = FreshRound]
  /\ UNCHANGED <<limit, table, created, active>>

\* Fault: one waiter is woken, as by a send instead of a close.
WakeOne(g, rq) ==
  LET ws == {s \in Rounds : rq[s].gen = g /\ rq[s].asleep}
  IN IF ws = {} THEN rq ELSE [rq EXCEPT ![CHOOSE s \in ws : TRUE].asleep = FALSE]

\* release, through the once of the closure, when the response is closed: the wake
\* channel of THAT counter object is closed and replaced.
WakeWaiters(g, rq) ==
  [s \in Rounds |-> IF rq[s].gen = g THEN [rq[s] EXCEPT !.asleep = FALSE] ELSE rq[s]]
release(r) ==
  /\ round[r].pc = "inflight"
  /\ IF round[r].gen = NoState THEN round' = [round EXCEPT ![r] = FreshRound] /\ UNCHANGED active
     ELSE LET g == round[r].gen
          IN /\ active' = [active EXCEPT ![g] = IF @ > 0 THEN @ - 1 ELSE @]
             /\ round' = WakeWaiters(g, [round EXCEPT ![r] = FreshRound])
  /\ UNCHANGED <<limit, table, created>>

\* The administrator edits the channel.
SetLimit(l) ==
  /\ limit' = l
  /\ UNCHANGED <<table, created, active, round>>

\* cleanupChannelLimits: the entry goes, requests keep the object.
cleanupChannelLimits ==
  /\ CanClear /\ table # NoState
  /\ table' = NoState
  /\ UNCHANGED <<limit, created, active, round>>

GateNext ==
  \/ \E r \in Rounds :
       Dispatch(r) \/ PassUnlimited(r) \/ LookUp(r) \/ TrySlot(r) \/ GiveUp(r) \/ release(r)
  \/ \E l \in Limits : SetLimit(l)
  \/ cleanupChannelLimits

GateSpec == GateInit /\ [][GateNext]_gateVars

---------------------------------------------------------------------------
\* Every variable stays in its type.
GateTypeOK ==
  /\ limit \in Limits
  /\ table \in 0..created
  /\ created \in 0..MaxGenerations
  /\ active \in [Generations -> Nat]
  /\ round \in [Rounds -> RoundStates]

\* Each counter object counts exactly the requests that hold one of its slots, whatever
\* happens to the table and to the limit meanwhile.
Holding(g) == {r \in Rounds : round[r].pc = "inflight" /\ round[r].gen = g}
ActiveExact == \A g \in Generations : active[g] = Cardinality(Holding(g))

\* No wake-up is lost: a request blocked on the wake channel finds its limit reached.
GateNoLostWakeup ==
  \A r \in Rounds :
    round[r].asleep => round[r].pc = "waiting" /\ active[round[r].gen] >= round[r].lim

\* A limited request is let through only while fewer requests than its limit are under
\* way on the channel, through every change of the limit (channellimit.go, head comment).
InFlight == {r \in Rounds : round[r].pc = "inflight"}
AdmitStep ==
  \A r \in Rounds :
    round[r].pc \in {"trying", "waiting"} /\ round'[r].pc = "inflight"
      => Cardinality(InFlight) < round[r].lim
AdmitBelowLimit == [][AdmitStep]_gateVars
====
