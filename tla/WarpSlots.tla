------------------------------ MODULE WarpSlots ------------------------------
(***************************************************************************)
(* The exit slots of a WARP container (relay/warp_slots.go) and the        *)
(* penalties sent to it (warp_penalize.go, warp_block.go).  A round leases *)
(* a slot from a cached snapshot, marks the lease by the upstream's        *)
(* verdict, and gives it back when its context ends.  A rate-limited slot  *)
(* is rotated once nobody uses it.  Each critical section is one step.     *)
(*                                                                         *)
(* The container ("wire") is external: it answers /slots, rotates a        *)
(* penalised exit or says that no new exit is left.                        *)
(***************************************************************************)
EXTENDS Naturals, FiniteSets

CONSTANTS
  Slots, WarpRounds,
  WarpSession,      \* the session of a round
  MaxGen,           \* bound: rotations of a slot
  MaxMarks          \* bound: verdicts

VARIABLES
  wire,         \* the container: the generation of each slot's exit
  snap,         \* snapshot: slot -> [gen, on]
  fresh,        \* fetchedAt is set and within the TTL
  fetched,      \* the /slots answer in hand: at most one [by, slots]
  reserved, suspect, pending,
  sessionUsed,  \* <<session, slot>>
  lease,        \* round -> [pc, slot, gen]
  finishing,    \* slots with a finishPending still to run, by round
  penalties,    \* /penalize posts under way: [slot, gen]
  blocked,      \* warpChannelBlockUntil is in the future
  marks

warpVars == <<wire, snap, fresh, fetched, reserved, suspect, pending, sessionUsed, lease, finishing,
              penalties, blocked, marks>>

NotPending == [on |-> FALSE, gen |-> 0, succeeded |-> FALSE]
NotLeased == [pc |-> "idle", slot |-> CHOOSE s \in Slots : TRUE, gen |-> 0]

WarpInit ==
  /\ wire = [s \in Slots |-> 1] /\ snap = [s \in Slots |-> [gen |-> 0, on |-> FALSE]]
  /\ fresh = FALSE /\ fetched = {}
  /\ reserved = [s \in Slots |-> 0] /\ suspect = {} /\ pending = [s \in Slots |-> NotPending]
  /\ sessionUsed = {} /\ lease = [r \in WarpRounds |-> NotLeased]
  /\ finishing = [r \in WarpRounds |-> {}] /\ penalties = {} /\ blocked = FALSE /\ marks = 0

\* refresh: one fetch at a time; a stale cache is fetched without the lock.  The container
\* says itself which slots are active.
FetchSlots(r) ==
  /\ lease[r].pc = "idle" /\ ~blocked /\ ~fresh /\ fetched = {}
  /\ \E on \in SUBSET Slots :
       fetched' = {[by |-> r, slots |-> [s \in Slots |-> [gen |-> wire[s], on |-> s \in on]]]}
  /\ UNCHANGED <<wire, snap, fresh, reserved, suspect, pending, sessionUsed, lease, finishing, penalties, blocked, marks>>

\* The answer replaces the snapshot; a slot with a new exit is no longer suspect.
StoreSlots(r) ==
  /\ \E f \in fetched : f.by = r /\ snap' = f.slots
  /\ fetched' = {} /\ fresh' = TRUE
  /\ suspect' = {s \in suspect : snap[s].gen = snap'[s].gen}
  /\ UNCHANGED <<wire, reserved, pending, sessionUsed, lease, finishing, penalties, blocked, marks>>

\* pickAvailableLocked: active, free, not suspect and not used by this session before.  The choice
\* among several depends on the rotating cursor and the load.
Free(s) == snap[s].on /\ reserved[s] = 0 /\ s \notin suspect
pick(r) ==
  LET used == {s \in Slots : <<WarpSession[r], s>> \in sessionUsed}
      first == {s \in Slots \ used : Free(s)}
      \* A session that used every candidate starts over.
      again == IF first = {} THEN {s \in Slots : Free(s)} ELSE first
  IN /\ lease[r].pc = "idle" /\ fresh /\ \A f \in fetched : f.by # r
     /\ \E s \in again :
          /\ reserved' = [reserved EXCEPT ![s] = @ + 1]
          /\ lease' = [lease EXCEPT ![r] = [pc |-> "held", slot |-> s, gen |-> snap[s].gen]]
          /\ sessionUsed' = {u \in sessionUsed : first = {} => u[1] # WarpSession[r]} \cup {<<WarpSession[r], s>>}
     /\ UNCHANGED <<wire, snap, fresh, fetched, suspect, pending, finishing, penalties, blocked, marks>>

Marking(r) == lease[r].pc \in {"held", "released"} /\ finishing[r] = {} /\ marks < MaxMarks /\ marks' = marks + 1
MarkSuccess(r) ==
  LET s == lease[r].slot
  IN /\ Marking(r)
     /\ suspect' = suspect \ {s}
     /\ pending' = [pending EXCEPT ![s].succeeded = @ \/ (pending[s].on /\ pending[s].gen = lease[r].gen)]
     /\ UNCHANGED <<wire, snap, fresh, fetched, reserved, sessionUsed, lease, finishing, penalties, blocked>>
MarkRateLimited(r) ==
  LET s == lease[r].slot
  IN /\ Marking(r)
     /\ suspect' = suspect \cup {s}
     /\ pending' = [pending EXCEPT ![s] = [on |-> TRUE, gen |-> lease[r].gen, succeeded |-> FALSE]]
     /\ finishing' = [finishing EXCEPT ![r] = {s}]
     /\ UNCHANGED <<wire, snap, fresh, fetched, reserved, sessionUsed, lease, penalties, blocked>>
\* A refusal of the proxy itself only rests the slot; a network failure also penalises its exit.
MarkProxyUnavailable(r) ==
  /\ Marking(r)
  /\ suspect' = suspect \cup {lease[r].slot} /\ fresh' = FALSE
  /\ UNCHANGED <<wire, snap, fetched, reserved, pending, sessionUsed, lease, finishing, penalties, blocked>>
MarkNetworkFailure(r) ==
  /\ Marking(r)
  /\ suspect' = suspect \cup {lease[r].slot} /\ fresh' = FALSE
  /\ penalties' = penalties \cup {[slot |-> lease[r].slot, gen |-> lease[r].gen]}
  /\ UNCHANGED <<wire, snap, fetched, reserved, pending, sessionUsed, lease, finishing, blocked>>

\* Fault: the last user of a slot gives it back without looking for a pending rotation.
ReleaseOnly(r) ==
  /\ lease[r].pc = "held"
  /\ reserved' = [reserved EXCEPT ![lease[r].slot] = IF @ <= 1 THEN 0 ELSE @ - 1]
  /\ lease' = [lease EXCEPT ![r].pc = "released"]
  /\ UNCHANGED <<wire, snap, fresh, fetched, suspect, pending, sessionUsed, finishing, penalties, blocked, marks>>

\* Release runs once, when the round's context ends, possibly before the verdict is booked.
Release(r) ==
  LET s == lease[r].slot
  IN /\ lease[r].pc = "held"
     /\ reserved' = [reserved EXCEPT ![s] = IF @ <= 1 THEN 0 ELSE @ - 1]
     /\ lease' = [lease EXCEPT ![r].pc = "released"]
     /\ finishing' = [finishing EXCEPT ![r] = {s}]
     /\ UNCHANGED <<wire, snap, fresh, fetched, suspect, pending, sessionUsed, penalties, blocked, marks>>

\* finishPending: a slot in use waits for its last user, and a success since spares it.
finishPending(r, s) ==
  /\ s \in finishing[r]
  /\ finishing' = [finishing EXCEPT ![r] = {}]
  /\ IF ~pending[s].on \/ reserved[s] > 0
     THEN UNCHANGED <<pending, penalties, fresh>>
     ELSE /\ pending' = [pending EXCEPT ![s] = NotPending]
          /\ IF pending[s].succeeded THEN UNCHANGED <<penalties, fresh>>
             ELSE /\ penalties' = penalties \cup {[slot |-> s, gen |-> pending[s].gen]}
                  /\ fresh' = FALSE
  /\ UNCHANGED <<wire, snap, fetched, reserved, suspect, sessionUsed, lease, blocked, marks>>

\* The round is over and its handler picks again in the next one.
NextRound(r) ==
  /\ lease[r].pc = "released" /\ finishing[r] = {}
  /\ lease' = [lease EXCEPT ![r] = NotLeased]
  /\ UNCHANGED <<wire, snap, fresh, fetched, reserved, suspect, pending, sessionUsed, finishing, penalties, blocked, marks>>

\* /penalize: the exit is rotated if it is still the one meant, or none is left and the channel is
\* blocked till the next UTC day.  A post that fails is dropped.
Penalize ==
  /\ \E p \in penalties :
       /\ penalties' = penalties \ {p}
       /\ \/ /\ wire[p.slot] = p.gen /\ p.gen < MaxGen
             /\ wire' = [wire EXCEPT ![p.slot] = @ + 1] /\ UNCHANGED blocked
          \/ blocked' = TRUE /\ UNCHANGED wire
          \/ UNCHANGED <<wire, blocked>>
  /\ UNCHANGED <<snap, fresh, fetched, reserved, suspect, pending, sessionUsed, lease, finishing, marks>>

\* Time: the cache ages, a suspicion ends, the block ends, a session is forgotten.
WarpTime ==
  /\ \/ fresh /\ fresh' = FALSE /\ UNCHANGED <<suspect, blocked, sessionUsed>>
     \/ \E s \in suspect : suspect' = suspect \ {s} /\ UNCHANGED <<fresh, blocked, sessionUsed>>
     \/ blocked /\ blocked' = FALSE /\ UNCHANGED <<fresh, suspect, sessionUsed>>
     \/ \E u \in sessionUsed : sessionUsed' = sessionUsed \ {u} /\ UNCHANGED <<fresh, suspect, blocked>>
  /\ UNCHANGED <<wire, snap, fetched, reserved, pending, lease, finishing, penalties, marks>>

WarpNext ==
  \/ \E r \in WarpRounds :
       \/ FetchSlots(r) \/ StoreSlots(r) \/ pick(r) \/ MarkSuccess(r) \/ MarkRateLimited(r)
       \/ MarkProxyUnavailable(r) \/ MarkNetworkFailure(r) \/ Release(r) \/ NextRound(r)
       \/ \E s \in Slots : finishPending(r, s)
  \/ Penalize \/ WarpTime
WarpSpec == WarpInit /\ [][WarpNext]_warpVars

-----------------------------------------------------------------------------
\* A rate-limited slot is never left waiting for a rotation nobody will start: while one is
\* pending, either a lease on the slot is out or a round that gave one back has yet to look.
NoStrandedRotation ==
  \A s \in Slots : pending[s].on =>
    \E r \in WarpRounds : s \in finishing[r] \/ (lease[r].pc = "held" /\ lease[r].slot = s)

\* One slot carries one request at a time, however snapshots, suspicions and rotations change.
OneRequestPerSlot ==
  \A q, r \in WarpRounds :
    (lease[q].pc = "held" /\ lease[r].pc = "held" /\ lease[q].slot = lease[r].slot) => q = r

\* What the slot table promises its rounds (warp_slots.go).
WarpSound == NoStrandedRotation /\ OneRequestPerSlot
=============================================================================
