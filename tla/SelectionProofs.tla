--------------------------- MODULE SelectionProofs ---------------------------
(***************************************************************************)
(* Proofs about what a round selects before it goes upstream: the exit     *)
(* slot of a WARP container (WarpSlots), the key of the channel            *)
(* (KeySelect), and the checks in the background that tell which proxy     *)
(* accounts can be selected at all (ProbeJob).                             *)
(***************************************************************************)
EXTENDS WarpSlots, KeySelect, ProbeJob, FiniteSetTheorems, TLAPS

-----------------------------------------------------------------------------
(* The exit slots *)

Leases == [pc : {"idle", "held", "released"}, slot : Slots \cup {CHOOSE s \in Slots : TRUE}, gen : Nat]
Rotations == [on : BOOLEAN, gen : Nat, succeeded : BOOLEAN]

WarpTypeOK ==
  /\ wire \in [Slots -> Nat] /\ snap \in [Slots -> [gen : Nat, on : BOOLEAN]]
  /\ \A f \in fetched : f.slots \in [Slots -> [gen : Nat, on : BOOLEAN]]
  /\ reserved \in [Slots -> Nat] /\ pending \in [Slots -> Rotations]
  /\ lease \in [WarpRounds -> Leases] /\ \A r \in WarpRounds : lease[r].pc # "idle" => lease[r].slot \in Slots
  /\ finishing \in [WarpRounds -> SUBSET Slots]

Holds(r, s) == lease[r].pc = "held" /\ lease[r].slot = s

\* The counter of a slot is one exactly while a round holds it.
ReservedExact == \A s \in Slots : reserved[s] = IF \E r \in WarpRounds : Holds(r, s) THEN 1 ELSE 0

\* A round has to finish at most the slot of its lease, and nothing between two leases.
FinishesOwn ==
  \A r \in WarpRounds : /\ finishing[r] \subseteq {lease[r].slot}
                        /\ lease[r].pc = "idle" => finishing[r] = {}

WarpInv == WarpTypeOK /\ ReservedExact /\ FinishesOwn /\ WarpSound

LEMMA WarpStarts == WarpInit => WarpInv
<1> SUFFICES ASSUME WarpInit PROVE WarpInv
  OBVIOUS
<1>1. NotLeased \in Leases /\ NotLeased.pc = "idle" /\ NotPending \in Rotations /\ NotPending.on = FALSE
  BY DEF NotLeased, Leases, NotPending, Rotations
<1>2. WarpTypeOK
  <2>1. wire \in [Slots -> Nat] /\ snap \in [Slots -> [gen : Nat, on : BOOLEAN]] /\ fetched = {}
    BY DEF WarpInit
  <2>2. reserved \in [Slots -> Nat] /\ pending \in [Slots -> Rotations]
    BY <1>1 DEF WarpInit
  <2>3. lease \in [WarpRounds -> Leases] /\ \A r \in WarpRounds : lease[r].pc = "idle"
    BY <1>1 DEF WarpInit
  <2>4. finishing \in [WarpRounds -> SUBSET Slots]
    BY DEF WarpInit
  <2> QED
    BY <2>1, <2>2, <2>3, <2>4 DEF WarpTypeOK
<1>3. /\ \A r \in WarpRounds : lease[r].pc = "idle" /\ finishing[r] = {}
      /\ \A s \in Slots : reserved[s] = 0 /\ ~pending[s].on
  BY <1>1 DEF WarpInit
<1> QED
  BY <1>2, <1>3 DEF WarpInv, ReservedExact, FinishesOwn, Holds, WarpSound, NoStrandedRotation, OneRequestPerSlot

\* Actions that leave the leases, the counters and the rotations alone.
LEMMA WarpUntouched ==
  ASSUME WarpInv, UNCHANGED <<reserved, lease, finishing>>,
         wire' \in [Slots -> Nat], snap' \in [Slots -> [gen : Nat, on : BOOLEAN]],
         \A f \in fetched' : f.slots \in [Slots -> [gen : Nat, on : BOOLEAN]],
         pending' \in [Slots -> Rotations], \A s \in Slots : pending'[s].on = pending[s].on
  PROVE  WarpInv'
<1> USE DEF WarpInv
<1>1. WarpTypeOK'
  BY DEF WarpTypeOK
<1> QED
  BY <1>1 DEF ReservedExact, FinishesOwn, Holds, WarpSound, NoStrandedRotation, OneRequestPerSlot

\* The snapshot, the marks that only rest a slot, the penalties and time.
LEMMA AroundLeasesKeeps ==
  ASSUME WarpInv,
         \/ \E r \in WarpRounds : FetchSlots(r) \/ StoreSlots(r) \/ MarkSuccess(r)
                                  \/ MarkProxyUnavailable(r) \/ MarkNetworkFailure(r)
         \/ Penalize \/ WarpTime
  PROVE  WarpInv'
<1>0. /\ wire \in [Slots -> Nat] /\ snap \in [Slots -> [gen : Nat, on : BOOLEAN]]
      /\ \A f \in fetched : f.slots \in [Slots -> [gen : Nat, on : BOOLEAN]]
      /\ pending \in [Slots -> Rotations]
  BY DEF WarpInv, WarpTypeOK
<1>1. ASSUME NEW r \in WarpRounds, FetchSlots(r)
      PROVE  WarpInv'
  <2>1. /\ UNCHANGED <<wire, snap, reserved, pending, lease, finishing>>
        /\ \E on \in SUBSET Slots :
             fetched' = {[by |-> r, slots |-> [s \in Slots |-> [gen |-> wire[s], on |-> s \in on]]]}
    BY <1>1 DEF FetchSlots
  <2>2. \A f \in fetched' : f.slots \in [Slots -> [gen : Nat, on : BOOLEAN]]
    <3>1. PICK on \in SUBSET Slots :
            fetched' = {[by |-> r, slots |-> [s \in Slots |-> [gen |-> wire[s], on |-> s \in on]]]}
      BY <2>1
    <3>2. \A s \in Slots : (s \in on) \in BOOLEAN /\ wire[s] \in Nat
      BY <1>0
    <3>3. \A s \in Slots : [gen |-> wire[s], on |-> s \in on] \in [gen : Nat, on : BOOLEAN]
      BY <3>2, Zenon
    <3>4. [s \in Slots |-> [gen |-> wire[s], on |-> s \in on]] \in [Slots -> [gen : Nat, on : BOOLEAN]]
      BY <3>3, Zenon
    <3> DEFINE answer == [s \in Slots |-> [gen |-> wire[s], on |-> s \in on]]
    <3>5. answer \in [Slots -> [gen : Nat, on : BOOLEAN]] /\ fetched' = {[by |-> r, slots |-> answer]}
      BY <3>1, <3>4, Zenon
    <3> HIDE DEF answer
    <3> QED
      BY <3>5
  <2> QED
    BY <1>0, <2>1, <2>2, WarpUntouched
<1>2. ASSUME NEW r \in WarpRounds, StoreSlots(r)
      PROVE  WarpInv'
  <2>1. /\ UNCHANGED <<wire, reserved, pending, lease, finishing>> /\ fetched' = {}
        /\ \E f \in fetched : snap' = f.slots
    BY <1>2 DEF StoreSlots
  <2> QED
    BY <1>0, <2>1, WarpUntouched
<1>3. ASSUME NEW r \in WarpRounds, MarkSuccess(r)
      PROVE  WarpInv'
  <2> DEFINE s == lease[r].slot
  <2>1. /\ UNCHANGED <<wire, snap, fetched, reserved, lease, finishing>>
        /\ pending' = [pending EXCEPT ![s].succeeded = @ \/ (pending[s].on /\ pending[s].gen = lease[r].gen)]
    BY <1>3 DEF MarkSuccess
  <2>2. s \in Slots
    BY <1>3 DEF MarkSuccess, Marking, WarpInv, WarpTypeOK
  <2> HIDE DEF s
  <2>3. PICK b \in BOOLEAN : pending' = [pending EXCEPT ![s] = [pending[s] EXCEPT !.succeeded = b]]
    BY <1>0, <2>1, <2>2
  <2>4. [pending[s] EXCEPT !.succeeded = b] \in Rotations /\ [pending[s] EXCEPT !.succeeded = b].on = pending[s].on
    BY <1>0, <2>2 DEF Rotations
  <2>5. pending' \in [Slots -> Rotations] /\ \A x \in Slots : pending'[x].on = pending[x].on
    BY <1>0, <2>2, <2>3, <2>4
  <2> QED
    BY <1>0, <2>1, <2>5, WarpUntouched
<1>4. ASSUME NEW r \in WarpRounds, MarkProxyUnavailable(r) \/ MarkNetworkFailure(r)
      PROVE  WarpInv'
  <2>1. UNCHANGED <<wire, snap, fetched, reserved, pending, lease, finishing>>
    BY <1>4 DEF MarkProxyUnavailable, MarkNetworkFailure
  <2> QED
    BY <1>0, <2>1, WarpUntouched
<1>5. CASE Penalize
  <2>1. /\ UNCHANGED <<snap, fetched, reserved, pending, lease, finishing>>
        /\ wire' = wire \/ \E s : wire' = [wire EXCEPT ![s] = @ + 1]
    BY <1>5 DEF Penalize
  <2>2. wire' \in [Slots -> Nat]
    BY <1>0, <2>1
  <2> QED
    BY <1>0, <2>1, <2>2, WarpUntouched
<1>6. CASE WarpTime
  <2>1. UNCHANGED <<wire, snap, fetched, reserved, pending, lease, finishing>>
    BY <1>6 DEF WarpTime
  <2> QED
    BY <1>0, <2>1, WarpUntouched
<1> QED
  BY <1>1, <1>2, <1>3, <1>4, <1>5, <1>6

\* The life of a lease: only a free slot is picked, and who gives a slot back or finds it rate
\* limited looks for its rotation afterwards (pick, Release, MarkRateLimited, finishPending).
LEMMA LeaseLifeKeeps ==
  ASSUME WarpInv, NEW r \in WarpRounds,
         \/ pick(r) \/ MarkRateLimited(r) \/ Release(r) \/ NextRound(r)
         \/ \E s \in Slots : finishPending(r, s)
  PROVE  WarpInv'
<1> USE DEF WarpInv
<1>0. /\ wire \in [Slots -> Nat] /\ snap \in [Slots -> [gen : Nat, on : BOOLEAN]]
      /\ \A f \in fetched : f.slots \in [Slots -> [gen : Nat, on : BOOLEAN]]
      /\ reserved \in [Slots -> Nat] /\ pending \in [Slots -> Rotations]
      /\ lease \in [WarpRounds -> Leases] /\ \A q \in WarpRounds : lease[q].pc # "idle" => lease[q].slot \in Slots
      /\ finishing \in [WarpRounds -> SUBSET Slots]
  BY DEF WarpTypeOK
<1>1. CASE pick(r)
  <2>1. PICK s \in Slots :
          /\ lease[r].pc = "idle" /\ Free(s)
          /\ reserved' = [reserved EXCEPT ![s] = @ + 1]
          /\ lease' = [lease EXCEPT ![r] = [pc |-> "held", slot |-> s, gen |-> snap[s].gen]]
          /\ UNCHANGED <<wire, snap, fetched, pending, finishing>>
    BY <1>1 DEF pick
  <2>2. reserved[s] = 0 /\ \A q \in WarpRounds : ~Holds(q, s)
    BY <2>1 DEF Free, ReservedExact
  <2> DEFINE l == [pc |-> "held", slot |-> s, gen |-> snap[s].gen]
  <2>3. l \in Leases /\ l.pc = "held" /\ l.slot = s
    BY <1>0 DEF Leases
  <2> HIDE DEF l
  <2>4. /\ lease' \in [WarpRounds -> Leases]
        /\ \A q \in WarpRounds : lease'[q] = IF q = r THEN l ELSE lease[q]
    BY <1>0, <2>1, <2>3 DEF l
  <2>5. /\ reserved' \in [Slots -> Nat]
        /\ \A x \in Slots : reserved'[x] = IF x = s THEN 1 ELSE reserved[x]
    BY <1>0, <2>1, <2>2
  <2>6. WarpTypeOK'
    BY <1>0, <2>1, <2>3, <2>4, <2>5 DEF WarpTypeOK
  <2>7. \A q \in WarpRounds, x \in Slots : Holds(q, x)' <=> IF q = r THEN x = s ELSE Holds(q, x)
    BY <2>3, <2>4 DEF Holds
  <2>8. ReservedExact'
    BY <2>1, <2>2, <2>5, <2>7 DEF ReservedExact, Holds
  <2>9. finishing[r] = {}
    BY <2>1 DEF FinishesOwn
  <2>10. FinishesOwn'
    BY <2>1, <2>3, <2>4, <2>9 DEF FinishesOwn
  <2>11. OneRequestPerSlot'
    BY <1>0, <2>2, <2>3, <2>4 DEF WarpSound, OneRequestPerSlot, Holds
  <2>12. NoStrandedRotation'
    BY <2>1, <2>3, <2>4 DEF WarpSound, NoStrandedRotation
  <2> QED
    BY <2>6, <2>8, <2>10, <2>11, <2>12 DEF WarpSound
<1>2. CASE MarkRateLimited(r)
  <2> DEFINE s == lease[r].slot
             p == [on |-> TRUE, gen |-> lease[r].gen, succeeded |-> FALSE]
  <2>1. /\ lease[r].pc \in {"held", "released"} /\ finishing[r] = {}
        /\ pending' = [pending EXCEPT ![s] = p] /\ finishing' = [finishing EXCEPT ![r] = {s}]
        /\ UNCHANGED <<wire, snap, fetched, reserved, lease>>
    BY <1>2 DEF MarkRateLimited, Marking
  <2>2. s \in Slots /\ p \in Rotations
    BY <1>0, <2>1 DEF Leases, Rotations
  <2> HIDE DEF p
  <2>3. /\ pending' \in [Slots -> Rotations] /\ \A x \in Slots : x # s => pending'[x] = pending[x]
    BY <1>0, <2>1, <2>2
  <2>4. /\ finishing' \in [WarpRounds -> SUBSET Slots]
        /\ \A q \in WarpRounds : finishing'[q] = IF q = r THEN {s} ELSE finishing[q]
    BY <1>0, <2>1, <2>2
  <2>5. WarpTypeOK'
    BY <1>0, <2>1, <2>3, <2>4 DEF WarpTypeOK
  <2>6. ReservedExact' /\ OneRequestPerSlot'
    BY <2>1 DEF ReservedExact, Holds, WarpSound, OneRequestPerSlot
  <2>7. FinishesOwn'
    BY <2>1, <2>4 DEF FinishesOwn
  <2>8. NoStrandedRotation'
    BY <2>1, <2>2, <2>3, <2>4 DEF WarpSound, NoStrandedRotation
  <2> QED
    BY <2>5, <2>6, <2>7, <2>8 DEF WarpSound
<1>3. CASE Release(r)
  <2>0. PICK s \in Slots : s = lease[r].slot
    BY <1>0, <1>3 DEF Release
  <2> DEFINE l == [lease[r] EXCEPT !.pc = "released"]
  <2>1. /\ lease[r].pc = "held" /\ reserved' = [reserved EXCEPT ![s] = IF @ <= 1 THEN 0 ELSE @ - 1]
        /\ lease' = [lease EXCEPT ![r] = l] /\ finishing' = [finishing EXCEPT ![r] = {s}]
        /\ UNCHANGED <<wire, snap, fetched, pending>>
    BY <1>3, <2>0 DEF Release
  <2>2. s \in Slots /\ l \in Leases /\ l.pc = "released" /\ l.slot = s
    BY <1>0, <2>0, <2>1 DEF Leases
  <2>3. reserved[s] = 1 /\ \A q \in WarpRounds : q # r => ~Holds(q, s)
    BY <1>0, <2>0, <2>1, <2>2 DEF ReservedExact, Holds, WarpSound, OneRequestPerSlot
  <2> HIDE DEF l
  <2>4. /\ lease' \in [WarpRounds -> Leases]
        /\ \A q \in WarpRounds : lease'[q] = IF q = r THEN l ELSE lease[q]
    BY <1>0, <2>1, <2>2
  <2>5. /\ reserved' \in [Slots -> Nat]
        /\ \A x \in Slots : reserved'[x] = IF x = s THEN 0 ELSE reserved[x]
    BY <1>0, <2>1, <2>2, <2>3
  <2>6. /\ finishing' \in [WarpRounds -> SUBSET Slots]
        /\ \A q \in WarpRounds : finishing'[q] = IF q = r THEN {s} ELSE finishing[q]
    BY <1>0, <2>1, <2>2
  <2>7. WarpTypeOK'
    BY <1>0, <2>1, <2>2, <2>4, <2>5, <2>6 DEF WarpTypeOK
  <2>8. \A q \in WarpRounds, x \in Slots : Holds(q, x)' <=> q # r /\ Holds(q, x)
    BY <2>2, <2>4 DEF Holds
  <2>9. ReservedExact'
    <3>1. \A q \in WarpRounds : ~Holds(q, s)'
      BY <2>2, <2>3, <2>8
    <3>2. \A x \in Slots : x # s => ~Holds(r, x)
      BY <2>0 DEF Holds
    <3>3. \A x \in Slots : x # s => ((\E q \in WarpRounds : Holds(q, x)') <=> (\E q \in WarpRounds : Holds(q, x)))
      BY <2>8, <3>2
    <3> QED
      BY <2>5, <3>1, <3>3 DEF ReservedExact
  <2>10. FinishesOwn'
    BY <2>2, <2>4, <2>6 DEF FinishesOwn
  <2>11. OneRequestPerSlot'
    BY <2>2, <2>4 DEF WarpSound, OneRequestPerSlot
  <2>12. NoStrandedRotation'
    <3> SUFFICES ASSUME NEW x \in Slots, pending[x].on
                 PROVE  \E q \in WarpRounds : x \in finishing'[q] \/ (lease'[q].pc = "held" /\ lease'[q].slot = x)
      BY <2>1 DEF NoStrandedRotation
    <3>1. PICK q \in WarpRounds : x \in finishing[q] \/ Holds(q, x)
      BY DEF WarpSound, NoStrandedRotation, Holds
    <3>2. CASE q = r
      <4>1. x = s
        BY <2>0, <3>1, <3>2 DEF FinishesOwn, Holds
      <4> QED
        BY <2>6, <4>1
    <3>3. CASE q # r
      BY <2>4, <2>6, <3>1, <3>3 DEF Holds
    <3> QED
      BY <3>2, <3>3
  <2> QED
    BY <2>7, <2>9, <2>10, <2>11, <2>12 DEF WarpSound
<1>4. CASE NextRound(r)
  <2>1. /\ lease[r].pc = "released" /\ finishing[r] = {} /\ lease' = [lease EXCEPT ![r] = NotLeased]
        /\ UNCHANGED <<wire, snap, fetched, reserved, pending, finishing>>
    BY <1>4 DEF NextRound
  <2>2. NotLeased \in Leases /\ NotLeased.pc = "idle"
    BY DEF NotLeased, Leases
  <2>3. /\ lease' \in [WarpRounds -> Leases]
        /\ \A q \in WarpRounds : lease'[q] = IF q = r THEN NotLeased ELSE lease[q]
    BY <1>0, <2>1, <2>2
  <2>4. WarpTypeOK'
    BY <1>0, <2>1, <2>2, <2>3 DEF WarpTypeOK
  <2>5. \A q \in WarpRounds, x \in Slots : Holds(q, x)' <=> Holds(q, x)
    BY <2>1, <2>2, <2>3 DEF Holds
  <2>6. ReservedExact'
    BY <2>1, <2>5 DEF ReservedExact
  <2>7. FinishesOwn'
    BY <2>1, <2>3 DEF FinishesOwn
  <2>8. OneRequestPerSlot' /\ NoStrandedRotation'
    BY <2>1, <2>2, <2>3 DEF WarpSound, OneRequestPerSlot, NoStrandedRotation
  <2> QED
    BY <2>4, <2>6, <2>7, <2>8 DEF WarpSound
<1>5. ASSUME NEW s \in Slots, finishPending(r, s)
      PROVE  WarpInv'
  <2>1. /\ s \in finishing[r] /\ finishing' = [finishing EXCEPT ![r] = {}]
        /\ UNCHANGED <<wire, snap, fetched, reserved, lease>>
        /\ \/ (~pending[s].on \/ reserved[s] > 0) /\ pending' = pending
           \/ ~(reserved[s] > 0) /\ pending' = [pending EXCEPT ![s] = NotPending]
    BY <1>5 DEF finishPending
  <2>2. NotPending \in Rotations /\ NotPending.on = FALSE
    BY DEF NotPending, Rotations
  <2>3. pending' \in [Slots -> Rotations] /\ \A x \in Slots : pending'[x].on => pending[x].on
    <3>1. CASE pending' = pending
      BY <1>0, <3>1
    <3>2. CASE pending' = [pending EXCEPT ![s] = NotPending]
      <4>1. \A x \in Slots : pending'[x] = IF x = s THEN NotPending ELSE pending[x]
        BY <1>0, <3>2
      <4> QED
        BY <1>0, <2>2, <3>2, <4>1
    <3> QED
      BY <2>1, <3>1, <3>2
  <2>4. /\ finishing' \in [WarpRounds -> SUBSET Slots]
        /\ \A q \in WarpRounds : finishing'[q] = IF q = r THEN {} ELSE finishing[q]
    BY <1>0, <2>1
  <2>5. WarpTypeOK'
    BY <1>0, <2>1, <2>3, <2>4 DEF WarpTypeOK
  <2>6. ReservedExact' /\ OneRequestPerSlot' /\ FinishesOwn'
    BY <2>1, <2>4 DEF ReservedExact, Holds, WarpSound, OneRequestPerSlot, FinishesOwn
  <2>7. NoStrandedRotation'
    <3> SUFFICES ASSUME NEW x \in Slots, pending'[x].on
                 PROVE  \E q \in WarpRounds : x \in finishing'[q] \/ (lease'[q].pc = "held" /\ lease'[q].slot = x)
      BY DEF NoStrandedRotation
    <3>1. CASE x = s
      <4>1. reserved[s] > 0
        BY <1>0, <2>1, <2>2, <2>3, <3>1
      <4>2. \E q \in WarpRounds : Holds(q, s)
        BY <4>1 DEF ReservedExact
      <4> QED
        BY <2>1, <3>1, <4>2 DEF Holds
    <3>2. CASE x # s
      <4>1. PICK q \in WarpRounds : x \in finishing[q] \/ Holds(q, x)
        BY <2>3 DEF WarpSound, NoStrandedRotation, Holds
      <4>2. x \in finishing[q] => q # r
        BY <2>1, <3>2 DEF FinishesOwn
      <4> QED
        BY <2>1, <2>4, <4>1, <4>2 DEF Holds
    <3> QED
      BY <3>1, <3>2
  <2> QED
    BY <2>5, <2>6, <2>7 DEF WarpSound
<1> QED
  BY <1>1, <1>2, <1>3, <1>4, <1>5

(* For any number of slots and rounds, any number of rotations and whatever the container      *)
(* answers: one slot carries one request at a time, and no rate-limited slot is left waiting   *)
(* for a rotation that nobody will start (warp_slots.go).                                      *)
THEOREM SlotsAreSound == WarpSpec => []WarpSound
<1>1. WarpInv /\ [WarpNext]_warpVars => WarpInv'
  <2> SUFFICES ASSUME WarpInv, [WarpNext]_warpVars PROVE WarpInv'
    OBVIOUS
  <2>1. CASE WarpNext
    BY <2>1, AroundLeasesKeeps, LeaseLifeKeeps DEF WarpNext
  <2>2. CASE UNCHANGED warpVars
    <3>1. UNCHANGED <<wire, snap, fetched, reserved, pending, lease, finishing>>
      BY <2>2 DEF warpVars
    <3> QED
      BY <3>1, WarpUntouched DEF WarpInv, WarpTypeOK
  <2> QED
    BY <2>1, <2>2
<1>2. WarpInv => WarpSound
  BY DEF WarpInv
<1> QED
  BY <1>1, <1>2, WarpStarts, PTL DEF WarpSpec

-----------------------------------------------------------------------------
(* The keys of a channel *)

Picks == [pc : {"new", "look", "judge", "use", "none"}, probe : BOOLEAN, list : Seq(Keys),
          start : Nat, off : Nat, seen : Int, tries : Nat,
          open : SUBSET Keys, shut : SUBSET Keys, honest : BOOLEAN]

\* The i-th key of the ring, and the key a scan has come to.
Ring(l, i) == l[(i % Len(l)) + 1]
Turn(r) == Ring(r.list, r.start + r.off)

Scanning(r) == r.pc \in {"look", "judge"}

\* What a scan carries from one look to the next: the keys it has passed were all cooling when it
\* passed them, and the deadline it read is still the key's unless the key was free since.
Carried(r, t) ==
  /\ r.list # <<>> /\ r.start < Len(r.list) /\ r.off < Len(r.list)
  /\ \A i \in 0..(r.off - 1) : Ring(r.list, r.start + i) \in r.shut
  /\ r.pc = "judge" => /\ r.seen >= 0
                       /\ r.seen > 0 => Turn(r) \in r.shut
                       /\ Turn(r) \in r.open \/ t[Turn(r)] <= 0 \/ t[Turn(r)] = r.seen

\* What the history of a scan says of the table as it is now.
Covered(r, t) ==
  \A k \in KeysOf(r.list) : (t[k] <= 0 => k \in r.open) /\ (t[k] > 0 => k \in r.shut)

\* A picker enters the ring at its first key unless it draws a ticket.
Fresh(r) == r.pc = "new" => r.start = 0 /\ r.off = 0

PickOK(r, t) ==
  /\ Scanning(r) => Carried(r, t) /\ Covered(r, t)
  /\ Fresh(r) /\ r.honest

Tables == [Keys -> {n \in Int : n >= NoEntry}]
KeyTypeOK == cooldowns \in Tables /\ due \in Tables /\ picker \in [Pickers -> Picks]
PicksOK == \A p \in Pickers : PickOK(picker[p], cooldowns)
KeyInv == KeyTypeOK /\ PicksOK /\ MarkStands

\* The history of one picker after a moment with table t.
Seeing(r, t) ==
  IF r.pc \notin {"look", "judge"} THEN r
  ELSE [r EXCEPT !.open = @ \cup {k \in KeysOf(r.list) : t[k] <= 0},
                 !.shut = @ \cup {k \in KeysOf(r.list) : t[k] > 0}]

\* A full turn of the ring passes each key, wherever it begins.
LEMMA RingCovers ==
  ASSUME NEW l \in Seq(Keys), l # <<>>, NEW start \in Nat, start < Len(l), NEW k \in KeysOf(l)
  PROVE  \E i \in 0..(Len(l) - 1) : Ring(l, start + i) = k
<1>1. Len(l) \in Nat /\ Len(l) > 0
  OBVIOUS
<1>2. PICK j \in 1..Len(l) : l[j] = k
  BY DEF KeysOf
<1>3. CASE j - 1 >= start
  <2>1. (start + (j - 1 - start)) % Len(l) = j - 1
    BY <1>1, <1>3
  <2>2. j - 1 - start \in 0..(Len(l) - 1)
    BY <1>1, <1>2, <1>3
  <2>3. Ring(l, start + (j - 1 - start)) = k
    BY <1>2, <2>1 DEF Ring
  <2> QED
    BY <2>2, <2>3
<1>4. CASE j - 1 < start
  <2>1. (start + (j - 1 - start + Len(l))) % Len(l) = j - 1
    BY <1>1, <1>4
  <2>2. j - 1 - start + Len(l) \in 0..(Len(l) - 1)
    BY <1>1, <1>2, <1>4
  <2>3. Ring(l, start + (j - 1 - start + Len(l))) = k
    BY <1>2, <2>1 DEF Ring
  <2> QED
    BY <2>2, <2>3
<1> QED
  BY <1>1, <1>3, <1>4

LEMMA RingInside ==
  ASSUME NEW l \in Seq(Keys), l # <<>>, NEW i \in Nat
  PROVE  Ring(l, i) \in KeysOf(l) /\ Ring(l, i) \in Keys
<1>1. Len(l) \in Nat /\ Len(l) > 0
  OBVIOUS
<1>2. (i % Len(l)) + 1 \in 1..Len(l)
  BY <1>1
<1> QED
  BY <1>1, <1>2 DEF Ring, KeysOf

\* A scan that ends with a key free at some moment of it, or with none when all were cooling, is honest.
LEMMA EndedSound ==
  ASSUME NEW p \in Pickers, picker[p] \in Picks, NEW pc \in {"use", "none"}, NEW t,
         pc = "use" => Turn(picker[p]) \in picker[p].open,
         pc = "none" => KeysOf(picker[p].list) \subseteq picker[p].shut
  PROVE  Ended(p, pc) \in Picks /\ PickOK(Ended(p, pc), t)
<1> DEFINE h == IF pc = "use" THEN Turn(picker[p]) \in picker[p].open
                ELSE KeysOf(picker[p].list) \subseteq picker[p].shut
           r1 == [picker[p] EXCEPT !.pc = pc]
           r2 == [r1 EXCEPT !.seen = NoEntry]
           r3 == [r2 EXCEPT !.open = {}]
           r4 == [r3 EXCEPT !.shut = {}]
           r5 == [r4 EXCEPT !.honest = TRUE]
<1>1. Ended(p, pc) = [picker[p] EXCEPT !.pc = pc, !.seen = NoEntry, !.open = {}, !.shut = {}, !.honest = h]
  BY DEF Ended, KeyAt, Turn, Ring
<1>2. h = TRUE
  <2>1. CASE pc = "use"
    BY <2>1
  <2>2. CASE pc = "none"
    BY <2>2
  <2> QED
    BY <2>1, <2>2
<1>3. r1 \in Picks /\ r1.pc = pc
  BY DEF Picks
<1>4. Ended(p, pc) = r5
  <2> HIDE DEF h
  <2> QED
    BY <1>1, <1>2
<1> HIDE DEF r1
<1>5. r2 \in Picks /\ r2.pc = pc
  <2>1. NoEntry \in Int
    BY DEF NoEntry
  <2> QED
    BY <1>3, <2>1 DEF Picks
<1> HIDE DEF r2
<1>6. r3 \in Picks /\ r3.pc = pc
  BY <1>5 DEF Picks
<1> HIDE DEF r3
<1>7. r4 \in Picks /\ r4.pc = pc
  BY <1>6 DEF Picks
<1> HIDE DEF r4
<1>8. r5 \in Picks /\ r5.pc = pc /\ r5.honest
  BY <1>7 DEF Picks
<1> HIDE DEF r5
<1> QED
  BY <1>4, <1>8 DEF PickOK, Scanning, Fresh

LEMMA SeeingFields ==
  ASSUME NEW r \in Picks, NEW t \in Tables, Scanning(r)
  PROVE  /\ Seeing(r, t) \in Picks
         /\ Seeing(r, t).open = r.open \cup {k \in KeysOf(r.list) : t[k] <= 0}
         /\ Seeing(r, t).shut = r.shut \cup {k \in KeysOf(r.list) : t[k] > 0}
         /\ Seeing(r, t).pc = r.pc /\ Seeing(r, t).list = r.list
         /\ Seeing(r, t).start = r.start /\ Seeing(r, t).off = r.off
         /\ Seeing(r, t).seen = r.seen /\ Seeing(r, t).honest = r.honest
<1> DEFINE o == r.open \cup {k \in KeysOf(r.list) : t[k] <= 0}
           s == r.shut \cup {k \in KeysOf(r.list) : t[k] > 0}
           v == [r EXCEPT !.open = o]
           w == [v EXCEPT !.shut = s]
<1>1. o \in SUBSET Keys /\ s \in SUBSET Keys
  <2>1. r.list \in Seq(Keys) /\ r.open \subseteq Keys /\ r.shut \subseteq Keys
    BY DEF Picks
  <2>2. KeysOf(r.list) \subseteq Keys
    BY <2>1 DEF KeysOf
  <2> QED
    BY <2>1, <2>2
<1>2. Seeing(r, t) = w
  <2>1. Seeing(r, t) = [r EXCEPT !.open = r.open \cup {k \in KeysOf(r.list) : t[k] <= 0},
                                 !.shut = r.shut \cup {k \in KeysOf(r.list) : t[k] > 0}]
    BY DEF Seeing, Scanning, Picks
  <2> HIDE DEF o, s
  <2>2. w = [r EXCEPT !.open = o, !.shut = s]
    OBVIOUS
  <2> QED
    BY <2>1, <2>2 DEF o, s
<1> HIDE DEF o, s
<1>3. /\ v \in Picks /\ v.open = o
      /\ v.pc = r.pc /\ v.list = r.list /\ v.start = r.start /\ v.off = r.off
      /\ v.seen = r.seen /\ v.honest = r.honest
  BY <1>1 DEF Picks
<1> HIDE DEF v
<1>4. /\ w \in Picks /\ w.open = v.open /\ w.shut = s
      /\ w.pc = v.pc /\ w.list = v.list /\ w.start = v.start /\ w.off = v.off
      /\ w.seen = v.seen /\ w.honest = v.honest
  BY <1>1, <1>3 DEF Picks
<1> HIDE DEF w
<1> QED
  BY <1>2, <1>3, <1>4 DEF o, s

LEMMA SeeingSound ==
  ASSUME NEW r \in Picks, NEW t \in Tables, Scanning(r) => Carried(r, t), Fresh(r), r.honest
  PROVE  Seeing(r, t) \in Picks /\ PickOK(Seeing(r, t), t)
<1>1. CASE ~Scanning(r)
  BY <1>1 DEF Seeing, Scanning, PickOK
<1>2. CASE Scanning(r)
  <2> DEFINE w == Seeing(r, t)
  <2>1. /\ w \in Picks
        /\ w.open = r.open \cup {k \in KeysOf(r.list) : t[k] <= 0}
        /\ w.shut = r.shut \cup {k \in KeysOf(r.list) : t[k] > 0}
        /\ w.pc = r.pc /\ w.list = r.list /\ w.start = r.start /\ w.off = r.off
        /\ w.seen = r.seen /\ w.honest = r.honest
    BY <1>2, SeeingFields
  <2> HIDE DEF w
  <2>2. Turn(w) = Turn(r)
    BY <2>1 DEF Turn
  <2>3. Carried(w, t)
    BY <1>2, <2>1, <2>2 DEF Carried
  <2>4. Covered(w, t)
    <3>1. r.list \in Seq(Keys)
      BY DEF Picks
    <3>2. KeysOf(r.list) \subseteq Keys
      BY <3>1 DEF KeysOf
    <3>3. \A k \in KeysOf(r.list) : t[k] \in Int
      BY <3>2 DEF Tables
    <3> QED
      BY <2>1, <3>3 DEF Covered
  <2>5. Fresh(w)
    BY <2>1 DEF Fresh
  <2> QED
    BY <2>1, <2>3, <2>4, <2>5 DEF PickOK, w
<1> QED
  BY <1>1, <1>2

LEMMA WitnessedSound ==
  ASSUME NEW pk \in [Pickers -> Picks], NEW t \in Tables,
         \A p \in Pickers : (Scanning(pk[p]) => Carried(pk[p], t)) /\ Fresh(pk[p]) /\ pk[p].honest
  PROVE  /\ Witnessed(pk, t) \in [Pickers -> Picks]
         /\ \A p \in Pickers : PickOK(Witnessed(pk, t)[p], t)
<1>1. Witnessed(pk, t) = [p \in Pickers |-> Seeing(pk[p], t)]
  BY DEF Witnessed, Seeing
<1>2. \A p \in Pickers : Seeing(pk[p], t) \in Picks /\ PickOK(Seeing(pk[p], t), t)
  BY SeeingSound
<1> QED
  BY <1>1, <1>2

LEMMA TurnInside ==
  ASSUME NEW r \in Picks, r.list # <<>>
  PROVE  Turn(r) \in KeysOf(r.list) /\ Turn(r) \in Keys
<1>1. r.list \in Seq(Keys) /\ r.start + r.off \in Nat
  BY DEF Picks
<1> QED
  BY <1>1, RingInside DEF Turn

\* A sweep takes away passed deadlines only, which no scan under way tells from no entry.
LEMMA SweepSound ==
  ASSUME NEW t \in Tables, NEW u \in Tables, NEW r \in Picks, PickOK(r, t),
         \A k \in Keys : u[k] = t[k] \/ (t[k] = 0 /\ u[k] = NoEntry)
  PROVE  PickOK(r, u)
<1> SUFFICES ASSUME Scanning(r), Carried(r, t), Covered(r, t) PROVE Carried(r, u) /\ Covered(r, u)
  BY DEF PickOK
<1>1. r.list \in Seq(Keys)
  BY DEF Picks
<1>2. KeysOf(r.list) \subseteq Keys
  BY <1>1 DEF KeysOf
<1>3. \A k \in KeysOf(r.list) : t[k] \in Int /\ (u[k] = t[k] \/ (t[k] = 0 /\ u[k] = NoEntry))
  BY <1>2 DEF Tables
<1>4. Covered(r, u)
  BY <1>3 DEF Covered, NoEntry
<1>5. Turn(r) \in KeysOf(r.list)
  BY TurnInside DEF Carried
<1>6. Turn(r) \in r.open \/ u[Turn(r)] = t[Turn(r)]
  BY <1>3, <1>5 DEF Covered
<1> QED
  BY <1>4, <1>6 DEF Carried

LEMMA KeyStarts == KeyInit => KeyInv
<1> SUFFICES ASSUME KeyInit PROVE KeyInv
  OBVIOUS
<1>1. FreshPicker \in Picks /\ \A t : PickOK(FreshPicker, t)
  BY DEF FreshPicker, Picks, NoEntry, PickOK, Scanning, Fresh
<1>2. cooldowns \in Tables /\ due \in Tables /\ MarkStands
  BY DEF KeyInit, Tables, NoEntry, MarkStands
<1>3. picker \in [Pickers -> Picks] /\ \A p \in Pickers : picker[p] = FreshPicker
  BY <1>1 DEF KeyInit
<1> QED
  BY <1>1, <1>2, <1>3 DEF KeyInv, KeyTypeOK, PicksOK

\* A step of one picker that leaves the tables alone.
LEMMA OnePicker ==
  ASSUME KeyInv, NEW p \in Pickers, NEW r \in Picks, PickOK(r, cooldowns),
         picker' = [picker EXCEPT ![p] = r], UNCHANGED <<cooldowns, due>>
  PROVE  KeyInv'
<1>1. picker' \in [Pickers -> Picks] /\ picker'[p] = r /\ \A q \in Pickers : q # p => picker'[q] = picker[q]
  BY DEF KeyInv, KeyTypeOK
<1>2. cooldowns' = cooldowns /\ due' = due
  OBVIOUS
<1>3. \A q \in Pickers : PickOK(picker'[q], cooldowns)
  BY <1>1 DEF KeyInv, PicksOK
<1>4. PicksOK'
  BY <1>2, <1>3 DEF PicksOK
<1>5. MarkStands'
  BY <1>2 DEF KeyInv, MarkStands
<1> QED
  BY <1>1, <1>2, <1>4, <1>5 DEF KeyInv, KeyTypeOK

LEMMA PickSingleKeeps ==
  ASSUME KeyInv, NEW p \in Pickers, PickSingle(p) PROVE KeyInv'
<1> DEFINE r == [picker[p] EXCEPT !.pc = "use"]
<1>1. picker[p] \in Picks /\ PickOK(picker[p], cooldowns)
  BY DEF KeyInv, KeyTypeOK, PicksOK
<1>2. r \in Picks /\ r.pc = "use" /\ r.honest
  BY <1>1 DEF Picks, PickOK
<1>3. picker' = [picker EXCEPT ![p] = r] /\ UNCHANGED <<cooldowns, due>>
  BY DEF PickSingle, KeyInv, KeyTypeOK
<1> HIDE DEF r
<1>4. PickOK(r, cooldowns)
  BY <1>2 DEF PickOK, Scanning, Fresh
<1> QED
  BY <1>2, <1>3, <1>4, OnePicker

LEMMA EndPickKeeps ==
  ASSUME KeyInv, NEW p \in Pickers, EndPick(p) PROVE KeyInv'
<1>1. FreshPicker \in Picks /\ \A t : PickOK(FreshPicker, t)
  BY DEF FreshPicker, Picks, NoEntry, PickOK, Scanning, Fresh
<1> QED
  BY <1>1, OnePicker DEF EndPick

\* The scan begins.
LEMMA BeginSound ==
  ASSUME KeyInv, NEW p \in Pickers, NEW r \in Picks, r.pc = "look", r.honest, r.list # <<>>,
         r.start < Len(r.list), r.off = 0,
         picker' = Witnessed([picker EXCEPT ![p] = r], cooldowns), UNCHANGED <<cooldowns, due>>
  PROVE  KeyInv'
<1> DEFINE pk == [picker EXCEPT ![p] = r]
<1>1. pk \in [Pickers -> Picks] /\ pk[p] = r /\ \A q \in Pickers : q # p => pk[q] = picker[q]
  BY DEF KeyInv, KeyTypeOK
<1>2. picker' = Witnessed(pk, cooldowns)
  OBVIOUS
<1> HIDE DEF pk
<1>3. Carried(r, cooldowns) /\ Fresh(r)
  <2>1. r.list \in Seq(Keys)
    BY DEF Picks
  <2>2. Len(r.list) \in Nat /\ 0 < Len(r.list)
    BY <2>1
  <2> QED
    BY <2>2 DEF Carried, Fresh
<1>4. \A q \in Pickers : (Scanning(pk[q]) => Carried(pk[q], cooldowns)) /\ Fresh(pk[q]) /\ pk[q].honest
  BY <1>1, <1>3 DEF KeyInv, PicksOK, PickOK
<1>5. cooldowns \in Tables
  BY DEF KeyInv, KeyTypeOK
<1>6. picker' \in [Pickers -> Picks] /\ \A q \in Pickers : PickOK(picker'[q], cooldowns)
  BY <1>1, <1>2, <1>4, <1>5, WitnessedSound
<1>7. cooldowns' = cooldowns /\ due' = due
  OBVIOUS
<1>8. PicksOK' /\ MarkStands'
  BY <1>6, <1>7 DEF PicksOK, KeyInv, MarkStands
<1> QED
  BY <1>6, <1>7, <1>8 DEF KeyInv, KeyTypeOK

LEMMA TakeTicketKeeps ==
  ASSUME KeyInv, NEW p \in Pickers, NEW list \in KeyLists, TakeTicket(p, list) PROVE KeyInv'
<1>1. picker[p] \in Picks /\ PickOK(picker[p], cooldowns) /\ picker \in [Pickers -> Picks]
  BY DEF KeyInv, KeyTypeOK, PicksOK
<1>2. list \in Seq(Keys)
  BY KeyAssumption
<1>3. PICK start \in 0..(Len(list) - 1) :
        picker' = Witnessed([picker EXCEPT ![p].pc = "look", ![p].list = list, ![p].start = start], cooldowns)
  BY DEF TakeTicket
<1> DEFINE r1 == [picker[p] EXCEPT !.pc = "look"]
           r2 == [r1 EXCEPT !.list = list]
           r3 == [r2 EXCEPT !.start = start]
<1>4. [picker EXCEPT ![p].pc = "look", ![p].list = list, ![p].start = start] = [picker EXCEPT ![p] = r3]
  BY <1>1
<1>5. r1 \in Picks /\ r1.pc = "look" /\ r1.honest /\ r1.off = 0
  BY <1>1 DEF Picks, PickOK, Fresh, TakeTicket
<1> HIDE DEF r1
<1>6. r2 \in Picks /\ r2.pc = "look" /\ r2.honest /\ r2.off = 0 /\ r2.list = list
  BY <1>2, <1>5 DEF Picks
<1> HIDE DEF r2
<1>7. start \in Nat /\ start < Len(list)
  BY <1>2
<1>8. r3 \in Picks /\ r3.pc = "look" /\ r3.honest /\ r3.off = 0 /\ r3.list = list /\ r3.start = start
  BY <1>6, <1>7 DEF Picks
<1> HIDE DEF r3
<1> QED
  BY <1>3, <1>4, <1>7, <1>8, BeginSound DEF TakeTicket

LEMMA StartProbeKeeps ==
  ASSUME KeyInv, NEW p \in Pickers, NEW list \in KeyLists, StartProbe(p, list) PROVE KeyInv'
<1>1. picker[p] \in Picks /\ PickOK(picker[p], cooldowns) /\ picker \in [Pickers -> Picks]
  BY DEF KeyInv, KeyTypeOK, PicksOK
<1>2. list \in Seq(Keys) /\ list # <<>>
  BY KeyAssumption DEF StartProbe
<1> DEFINE r1 == [picker[p] EXCEPT !.pc = "look"]
           r2 == [r1 EXCEPT !.probe = TRUE]
           r3 == [r2 EXCEPT !.list = list]
<1>4. picker' = Witnessed([picker EXCEPT ![p] = r3], cooldowns)
  <2>1. [picker EXCEPT ![p].pc = "look", ![p].probe = TRUE, ![p].list = list] = [picker EXCEPT ![p] = r3]
    BY <1>1
  <2> HIDE DEF r3
  <2> QED
    BY <2>1 DEF StartProbe
<1>5. r1 \in Picks /\ r1.pc = "look" /\ r1.honest /\ r1.off = 0 /\ r1.start = 0
  BY <1>1 DEF Picks, PickOK, Fresh, StartProbe
<1> HIDE DEF r1
<1>6. r2 \in Picks /\ r2.pc = "look" /\ r2.honest /\ r2.off = 0 /\ r2.start = 0
  BY <1>5 DEF Picks
<1> HIDE DEF r2
<1>7. 0 < Len(list)
  BY <1>2
<1>8. r3 \in Picks /\ r3.pc = "look" /\ r3.honest /\ r3.off = 0 /\ r3.list = list /\ r3.start = 0
  BY <1>2, <1>6 DEF Picks
<1> HIDE DEF r3
<1> QED
  BY <1>2, <1>4, <1>7, <1>8, BeginSound DEF StartProbe

LEMMA LookUpKeeps ==
  ASSUME KeyInv, NEW p \in Pickers, LookUpCooldown(p) PROVE KeyInv'
<1> DEFINE s == picker[p]
           k == Turn(s)
<1>1. s \in Picks /\ s.pc = "look" /\ Scanning(s) /\ Carried(s, cooldowns) /\ Covered(s, cooldowns) /\ s.honest
  BY DEF KeyInv, KeyTypeOK, PicksOK, PickOK, Scanning, LookUpCooldown
<1>2. k \in KeysOf(s.list) /\ k \in Keys /\ k = KeyAt(p)
  BY <1>1, TurnInside DEF Carried, Turn, Ring, KeyAt
<1>3. cooldowns[k] \in Int /\ cooldowns[k] >= NoEntry
  BY <1>2 DEF KeyInv, KeyTypeOK, Tables
<1>4. CASE cooldowns[k] = NoEntry
  <2>1. k \in s.open
    BY <1>1, <1>2, <1>4 DEF Covered, NoEntry
  <2>2. Ended(p, "use") \in Picks /\ PickOK(Ended(p, "use"), cooldowns)
    BY <1>1, <2>1, EndedSound
  <2>3. picker' = [picker EXCEPT ![p] = Ended(p, "use")] /\ UNCHANGED <<cooldowns, due>>
    BY <1>2, <1>4 DEF LookUpCooldown
  <2> QED
    BY <2>2, <2>3, OnePicker
<1>5. CASE cooldowns[k] # NoEntry
  <2> DEFINE r1 == [s EXCEPT !.pc = "judge"]
             r2 == [r1 EXCEPT !.seen = cooldowns[k]]
  <2>1. picker' = [picker EXCEPT ![p] = r2] /\ UNCHANGED <<cooldowns, due>>
    BY <1>2, <1>5 DEF LookUpCooldown, KeyInv, KeyTypeOK
  <2> HIDE DEF k
  <2>2. /\ r1 \in Picks /\ r1.pc = "judge" /\ r1.list = s.list /\ r1.start = s.start /\ r1.off = s.off
        /\ r1.open = s.open /\ r1.shut = s.shut /\ r1.honest = s.honest
    BY <1>1 DEF Picks
  <2> HIDE DEF r1
  <2>3. /\ r2 \in Picks /\ r2.pc = "judge" /\ r2.list = s.list /\ r2.start = s.start /\ r2.off = s.off
        /\ r2.open = s.open /\ r2.shut = s.shut /\ r2.honest = s.honest /\ r2.seen = cooldowns[k]
    BY <1>3, <2>2 DEF Picks
  <2> HIDE DEF r2
  <2>4. Turn(r2) = k
    BY <2>3 DEF Turn, k
  <2>5. Covered(r2, cooldowns)
    BY <1>1, <2>3 DEF Covered
  <2>6. cooldowns[k] >= 0
    BY <1>3, <1>5 DEF NoEntry
  <2>7. Carried(r2, cooldowns)
    BY <1>1, <1>2, <2>3, <2>4, <2>6 DEF Carried, Covered
  <2>8. PickOK(r2, cooldowns)
    BY <1>1, <2>3, <2>5, <2>7 DEF PickOK, Fresh
  <2> QED
    BY <2>1, <2>3, <2>8, OnePicker
<1> QED
  BY <1>4, <1>5

\* At the end of the ring each key was cooling at some moment: the whole turn was made.
LEMMA SkipKeeps ==
  ASSUME KeyInv, NEW p \in Pickers, SkipCooling(p) PROVE KeyInv'
<1> DEFINE s == picker[p]
<1>1. /\ s \in Picks /\ s.pc = "judge" /\ s.seen > 0
      /\ Scanning(s) /\ Carried(s, cooldowns) /\ Covered(s, cooldowns) /\ s.honest
  BY DEF KeyInv, KeyTypeOK, PicksOK, PickOK, Scanning, SkipCooling
<1>2. /\ s.list \in Seq(Keys) /\ s.list # <<>> /\ Len(s.list) \in Nat /\ s.off \in Nat /\ s.start \in Nat
      /\ s.off < Len(s.list) /\ s.start < Len(s.list)
  BY <1>1 DEF Picks, Carried
<1>3. \A i \in 0..s.off : Ring(s.list, s.start + i) \in s.shut
  <2>1. Ring(s.list, s.start + s.off) \in s.shut
    BY <1>1 DEF Carried, Turn
  <2>2. \A i \in 0..s.off : i = s.off \/ i \in 0..(s.off - 1)
    BY <1>2
  <2> QED
    BY <1>1, <2>1, <2>2 DEF Carried
<1>4. CASE s.off + 1 < Len(s.list)
  <2> DEFINE r1 == [s EXCEPT !.pc = "look"]
             r2 == [r1 EXCEPT !.off = s.off + 1]
             r3 == [r2 EXCEPT !.seen = NoEntry]
  <2>1. picker' = [picker EXCEPT ![p] = r3] /\ UNCHANGED <<cooldowns, due>>
    BY <1>1, <1>4 DEF SkipCooling, KeyInv, KeyTypeOK, Picks
  <2>2. /\ r1 \in Picks /\ r1.pc = "look" /\ r1.list = s.list /\ r1.start = s.start /\ r1.off = s.off
        /\ r1.open = s.open /\ r1.shut = s.shut /\ r1.honest = s.honest
    BY <1>1 DEF Picks
  <2> HIDE DEF r1
  <2>3. /\ r2 \in Picks /\ r2.pc = "look" /\ r2.list = s.list /\ r2.start = s.start /\ r2.off = s.off + 1
        /\ r2.open = s.open /\ r2.shut = s.shut /\ r2.honest = s.honest
    BY <1>2, <2>2 DEF Picks
  <2> HIDE DEF r2
  <2>4. /\ r3 \in Picks /\ r3.pc = "look" /\ r3.list = s.list /\ r3.start = s.start /\ r3.off = s.off + 1
        /\ r3.open = s.open /\ r3.shut = s.shut /\ r3.honest = s.honest
    <3>1. NoEntry \in Int
      BY DEF NoEntry
    <3> QED
      BY <2>3, <3>1 DEF Picks
  <2> HIDE DEF r3
  <2>5. Carried(r3, cooldowns)
    BY <1>2, <1>3, <1>4, <2>4 DEF Carried
  <2>6. Covered(r3, cooldowns)
    BY <1>1, <2>4 DEF Covered
  <2>7. PickOK(r3, cooldowns)
    BY <1>1, <2>4, <2>5, <2>6 DEF PickOK, Fresh
  <2> QED
    BY <2>1, <2>4, <2>7, OnePicker
<1>5. CASE ~(s.off + 1 < Len(s.list))
  <2>1. KeysOf(s.list) \subseteq s.shut
    <3> SUFFICES ASSUME NEW k \in KeysOf(s.list) PROVE k \in s.shut
      OBVIOUS
    <3>1. PICK i \in 0..(Len(s.list) - 1) : Ring(s.list, s.start + i) = k
      BY <1>2, RingCovers
    <3>2. i \in 0..s.off
      BY <1>2, <1>5
    <3> QED
      BY <1>3, <3>1, <3>2
  <2>2. Ended(p, "none") \in Picks /\ PickOK(Ended(p, "none"), cooldowns)
    BY <1>1, <2>1, EndedSound
  <2>3. picker' = [picker EXCEPT ![p] = Ended(p, "none")] /\ UNCHANGED <<cooldowns, due>>
    BY <1>5 DEF SkipCooling
  <2> QED
    BY <2>2, <2>3, OnePicker
<1> QED
  BY <1>4, <1>5

\* The deadline read has passed, so the key is free now or was free since it was read.
LEMMA DropExpiredKeeps ==
  ASSUME KeyInv, NEW p \in Pickers, DropExpired(p) PROVE KeyInv'
<1> DEFINE s == picker[p]
           k == KeyAt(p)
<1>1. /\ s \in Picks /\ s.pc = "judge" /\ s.seen = 0
      /\ Scanning(s) /\ Carried(s, cooldowns) /\ Covered(s, cooldowns)
  BY DEF KeyInv, KeyTypeOK, PicksOK, PickOK, Scanning, DropExpired
<1>2. k \in KeysOf(s.list) /\ k \in Keys /\ k = Turn(s)
  BY <1>1, TurnInside DEF Carried, Turn, Ring, KeyAt
<1>3. k \in s.open
  BY <1>1, <1>2 DEF Carried, Covered
<1> HIDE DEF k
<1>4. Ended(p, "use") \in Picks /\ \A t : PickOK(Ended(p, "use"), t)
  BY <1>1, <1>2, <1>3, EndedSound
<1>5. /\ cooldowns' \in Tables /\ due' = due
      /\ \A x \in Keys : cooldowns'[x] = cooldowns[x] \/ (cooldowns[x] = 0 /\ cooldowns'[x] = NoEntry)
  BY <1>2 DEF DropExpired, KeyInv, KeyTypeOK, Tables, NoEntry, k
<1>6. /\ picker' \in [Pickers -> Picks] /\ picker'[p] = Ended(p, "use")
      /\ \A q \in Pickers : q # p => picker'[q] = picker[q]
  BY <1>4 DEF DropExpired, KeyInv, KeyTypeOK
<1>7. \A q \in Pickers : PickOK(picker[q], cooldowns')
  BY <1>5, SweepSound DEF KeyInv, KeyTypeOK, PicksOK
<1>8. PicksOK'
  BY <1>4, <1>6, <1>7 DEF PicksOK
<1>9. MarkStands'
  BY <1>5 DEF KeyInv, KeyTypeOK, Tables, MarkStands
<1> QED
  BY <1>5, <1>6, <1>8, <1>9 DEF KeyInv, KeyTypeOK

LEMMA PruneKeeps ==
  ASSUME KeyInv, PruneExpiredKeyCooldowns PROVE KeyInv'
<1>1. PICK S \in SUBSET {k \in Keys : cooldowns[k] = 0} :
        cooldowns' = [k \in Keys |-> IF k \in S THEN NoEntry ELSE cooldowns[k]]
  BY DEF PruneExpiredKeyCooldowns
<1>2. due' = due /\ picker' = picker
  BY DEF PruneExpiredKeyCooldowns
<1>3. /\ cooldowns' \in Tables
      /\ \A x \in Keys : cooldowns'[x] = cooldowns[x] \/ (cooldowns[x] = 0 /\ cooldowns'[x] = NoEntry)
  BY <1>1 DEF KeyInv, KeyTypeOK, Tables, NoEntry
<1>4. \A q \in Pickers : PickOK(picker[q], cooldowns')
  BY <1>3, SweepSound DEF KeyInv, KeyTypeOK, PicksOK
<1>5. PicksOK'
  BY <1>2, <1>4 DEF PicksOK
<1>6. MarkStands'
  BY <1>2, <1>3 DEF KeyInv, KeyTypeOK, Tables, MarkStands
<1> QED
  BY <1>2, <1>3, <1>5, <1>6 DEF KeyInv, KeyTypeOK


LEMMA ClearKeeps ==
  ASSUME KeyInv, ClearChannelKeyStateForUI PROVE KeyInv'
<1>1. ClearedTable \in Tables /\ \A k \in Keys : ClearedTable[k] = NoEntry
  BY DEF ClearedTable, Tables, NoEntry
<1>2. cooldowns' = ClearedTable /\ due' = ClearedTable /\ picker' = Witnessed(picker, ClearedTable)
  BY DEF ClearChannelKeyStateForUI
<1>3. ASSUME NEW p \in Pickers
      PROVE  (Scanning(picker[p]) => Carried(picker[p], ClearedTable)) /\ Fresh(picker[p]) /\ picker[p].honest
  <2>1. picker[p] \in Picks /\ PickOK(picker[p], cooldowns)
    BY DEF KeyInv, KeyTypeOK, PicksOK
  <2>2. ASSUME Scanning(picker[p]) PROVE Carried(picker[p], ClearedTable)
    <3>1. Carried(picker[p], cooldowns)
      BY <2>1, <2>2 DEF PickOK
    <3>2. Turn(picker[p]) \in Keys
      BY <2>1, <3>1, TurnInside DEF Carried
    <3>3. ClearedTable[Turn(picker[p])] <= 0
      BY <1>1, <3>2 DEF NoEntry
    <3> QED
      BY <3>1, <3>3 DEF Carried
  <2> QED
    BY <2>1, <2>2 DEF PickOK
<1>4. picker \in [Pickers -> Picks]
  BY DEF KeyInv, KeyTypeOK
<1>5. /\ Witnessed(picker, ClearedTable) \in [Pickers -> Picks]
      /\ \A p \in Pickers : PickOK(Witnessed(picker, ClearedTable)[p], ClearedTable)
  BY <1>1, <1>3, <1>4, WitnessedSound
<1>6. PicksOK'
  BY <1>2, <1>5 DEF PicksOK
<1>7. MarkStands'
  BY <1>1, <1>2 DEF MarkStands, NoEntry
<1> QED
  BY <1>1, <1>2, <1>5, <1>6, <1>7 DEF KeyInv, KeyTypeOK

LEMMA KeyTickKeeps ==
  ASSUME KeyInv, KeyTick PROVE KeyInv'
<1> DEFINE Less(n) == IF n > 0 THEN n - 1 ELSE n
           table == [k \in Keys |-> Less(cooldowns[k])]
           pk == [p \in Pickers |-> [picker[p] EXCEPT !.seen = Less(picker[p].seen)]]
<1>1. cooldowns' = table /\ due' = [k \in Keys |-> Less(due[k])]
  BY DEF KeyTick
<1>2. picker' = Witnessed(pk, table)
  <2>1. picker' = Witnessed([p \in Pickers |-> [picker[p] EXCEPT !.seen = Less(@)]], table)
    BY DEF KeyTick
  <2>2. [p \in Pickers |-> [picker[p] EXCEPT !.seen = Less(@)]] = pk
    BY DEF KeyInv, KeyTypeOK, Picks
  <2> QED
    BY <2>1, <2>2
<1>3. \A n \in Int : Less(n) \in Int /\ (n >= NoEntry => Less(n) >= NoEntry)
  BY DEF NoEntry
<1>4. table \in Tables /\ due' \in Tables
  BY <1>1 DEF KeyInv, KeyTypeOK, Tables, NoEntry
<1>5. \A k \in Keys : cooldowns[k] \in Int /\ table[k] = Less(cooldowns[k])
  BY DEF KeyInv, KeyTypeOK, Tables
<1> HIDE DEF table
<1>6. ASSUME NEW p \in Pickers
      PROVE  /\ pk[p] \in Picks
             /\ (Scanning(pk[p]) => Carried(pk[p], table)) /\ Fresh(pk[p]) /\ pk[p].honest
  <2> DEFINE s == picker[p]
             r == pk[p]
  <2>1. s \in Picks /\ PickOK(s, cooldowns)
    BY DEF KeyInv, KeyTypeOK, PicksOK
  <2>2. /\ r \in Picks /\ r.pc = s.pc /\ r.list = s.list /\ r.start = s.start /\ r.off = s.off
        /\ r.open = s.open /\ r.shut = s.shut /\ r.honest = s.honest /\ r.seen = Less(s.seen)
    <3>1. s.seen \in Int
      BY <2>1 DEF Picks
    <3>2. Less(s.seen) \in Int
      BY <1>3, <3>1
    <3> HIDE DEF Less
    <3>3. r = [s EXCEPT !.seen = Less(s.seen)]
      OBVIOUS
    <3> HIDE DEF r
    <3> QED
      BY <2>1, <3>2, <3>3 DEF Picks
  <2> HIDE DEF r, pk
  <2>3. ASSUME Scanning(r) PROVE Carried(r, table)
    <3>1. Carried(s, cooldowns) /\ s.seen \in Int
      BY <2>1, <2>2, <2>3 DEF PickOK, Scanning, Picks
    <3>2. Turn(r) = Turn(s)
      BY <2>2 DEF Turn
    <3>3. Turn(s) \in Keys
      BY <2>1, <3>1, TurnInside DEF Carried
    <3>4. cooldowns[Turn(s)] \in Int /\ table[Turn(s)] = Less(cooldowns[Turn(s)])
      BY <1>5, <3>3
    <3> QED
      BY <2>2, <3>1, <3>2, <3>4 DEF Carried
  <2>4. Fresh(r) /\ r.honest
    BY <2>1, <2>2 DEF PickOK, Fresh
  <2> QED
    BY <2>2, <2>3, <2>4 DEF r
<1>7. pk \in [Pickers -> Picks]
  BY <1>6
<1> HIDE DEF pk
<1>8. /\ Witnessed(pk, table) \in [Pickers -> Picks]
      /\ \A p \in Pickers : PickOK(Witnessed(pk, table)[p], table)
  BY <1>4, <1>6, <1>7, WitnessedSound
<1>9. PicksOK'
  BY <1>1, <1>2, <1>8 DEF PicksOK
<1>10. MarkStands'
  BY <1>1, <1>5 DEF MarkStands, KeyInv, KeyTypeOK, Tables
<1> QED
  BY <1>1, <1>2, <1>4, <1>8, <1>9, <1>10 DEF KeyInv, KeyTypeOK

LEMMA MarkKeeps ==
  ASSUME KeyInv, NEW p \in Pickers, NEW seconds \in CoolSeconds, markChannelKeyCooldown(p, seconds)
  PROVE  KeyInv'
<1> DEFINE k == KeyAt(p)
           table == [cooldowns EXCEPT ![k] = seconds]
           others == [q \in Pickers |-> IF picker[q].pc \in {"look", "judge"}
                                        THEN [picker[q] EXCEPT !.open = picker[q].open \cup {k}] ELSE picker[q]]
           again == [FreshPicker EXCEPT !.tries = picker[p].tries + 1]
           pk == [others EXCEPT ![p] = again]
<1>1. seconds \in Nat
  BY KeyAssumption
<1>2. picker[p] \in Picks /\ Len(picker[p].list) > 1
  BY DEF markChannelKeyCooldown, RotatesKey, KeyInv, KeyTypeOK
<1>3. k \in Keys
  <2>1. picker[p].list \in Seq(Keys)
    BY <1>2 DEF Picks
  <2>2. picker[p].list # <<>>
    BY <1>2, <2>1
  <2> QED
    BY <1>2, <2>2, TurnInside DEF Turn, Ring, KeyAt
<1>4. cooldowns' = table /\ due' = [due EXCEPT ![k] = seconds]
  BY DEF markChannelKeyCooldown
<1>5. picker' = Witnessed(pk, table)
  <2>1. [q \in Pickers |-> IF picker[q].pc \in {"look", "judge"}
                           THEN [picker[q] EXCEPT !.open = @ \cup {k}] ELSE picker[q]] = others
    BY DEF KeyInv, KeyTypeOK, Picks
  <2>2. picker' = Witnessed([[q \in Pickers |-> IF picker[q].pc \in {"look", "judge"}
                           THEN [picker[q] EXCEPT !.open = @ \cup {k}] ELSE picker[q]] EXCEPT ![p] = again], table)
    BY DEF markChannelKeyCooldown
  <2> HIDE DEF others, table, again, k
  <2> QED
    BY <2>1, <2>2
<1> HIDE DEF k
<1>6. table \in Tables /\ due' \in Tables
  BY <1>1, <1>3, <1>4 DEF KeyInv, KeyTypeOK, Tables, NoEntry
<1>7. \A x \in Keys : x # k => table[x] = cooldowns[x]
  BY <1>3 DEF KeyInv, KeyTypeOK, Tables
<1>8. MarkStands'
  BY <1>3, <1>4, <1>7 DEF MarkStands, KeyInv, KeyTypeOK, Tables
<1>9. again \in Picks /\ again.pc = "new" /\ again.start = 0 /\ again.off = 0 /\ again.honest
  <2>1. picker[p].tries + 1 \in Nat
    BY <1>2 DEF Picks
  <2>2. /\ FreshPicker \in Picks /\ FreshPicker.pc = "new" /\ FreshPicker.start = 0 /\ FreshPicker.off = 0
        /\ FreshPicker.honest
    BY DEF FreshPicker, Picks, NoEntry
  <2> QED
    BY <2>1, <2>2 DEF Picks
<1> HIDE DEF table, again
<1>10. ASSUME NEW q \in Pickers
       PROVE  /\ others[q] \in Picks
              /\ (Scanning(others[q]) => Carried(others[q], table)) /\ Fresh(others[q]) /\ others[q].honest
  <2> DEFINE s == picker[q]
             r == others[q]
  <2>1. s \in Picks /\ PickOK(s, cooldowns)
    BY DEF KeyInv, KeyTypeOK, PicksOK
  <2>2. CASE ~Scanning(s)
    <3>1. r = s
      BY <2>2 DEF Scanning
    <3> QED
      BY <2>1, <2>2, <3>1 DEF PickOK
  <2>3. CASE Scanning(s)
    <3>1. r = [s EXCEPT !.open = s.open \cup {k}]
      BY <2>3 DEF Scanning
    <3> HIDE DEF r, others
    <3>2. /\ r \in Picks /\ r.pc = s.pc /\ r.list = s.list /\ r.start = s.start /\ r.off = s.off
          /\ r.open = s.open \cup {k} /\ r.shut = s.shut /\ r.honest = s.honest /\ r.seen = s.seen
      BY <1>3, <2>1, <3>1 DEF Picks
    <3>3. Carried(s, cooldowns)
      BY <2>1, <2>3 DEF PickOK
    <3>4. Turn(r) = Turn(s)
      BY <3>2 DEF Turn
    <3>5. Turn(s) \in Keys
      BY <2>1, <3>3, TurnInside DEF Carried
    <3>6. Turn(s) = k \/ table[Turn(s)] = cooldowns[Turn(s)]
      BY <1>7, <3>5
    <3>7. Carried(r, table)
      BY <3>2, <3>3, <3>4, <3>6 DEF Carried
    <3>8. Fresh(r) /\ r.honest
      BY <2>1, <3>2 DEF PickOK, Fresh
    <3> QED
      BY <3>2, <3>7, <3>8 DEF r
  <2> QED
    BY <2>2, <2>3
<1>11. others \in [Pickers -> Picks]
  BY <1>10
<1> HIDE DEF others
<1>12. pk \in [Pickers -> Picks] /\ pk[p] = again /\ \A q \in Pickers : q # p => pk[q] = others[q]
  BY <1>9, <1>11
<1> HIDE DEF pk
<1>13. \A q \in Pickers : (Scanning(pk[q]) => Carried(pk[q], table)) /\ Fresh(pk[q]) /\ pk[q].honest
  <2>1. ~Scanning(again) /\ Fresh(again)
    BY <1>9 DEF Scanning, Fresh
  <2> QED
    BY <1>9, <1>10, <1>12, <2>1
<1>14. /\ Witnessed(pk, table) \in [Pickers -> Picks]
       /\ \A q \in Pickers : PickOK(Witnessed(pk, table)[q], table)
  BY <1>6, <1>12, <1>13, WitnessedSound
<1>15. PicksOK'
  BY <1>4, <1>5, <1>14 DEF PicksOK
<1> QED
  BY <1>4, <1>5, <1>6, <1>8, <1>14, <1>15 DEF KeyInv, KeyTypeOK

LEMMA KeyStep == KeyInv /\ [KeyNext]_keyVars => KeyInv'
<1> SUFFICES ASSUME KeyInv, [KeyNext]_keyVars PROVE KeyInv'
  OBVIOUS
<1>1. ASSUME NEW p \in Pickers, PickSingle(p) \/ LookUpCooldown(p) \/ SkipCooling(p) \/ DropExpired(p) \/ EndPick(p)
      PROVE  KeyInv'
  BY <1>1, PickSingleKeeps, LookUpKeeps, SkipKeeps, DropExpiredKeeps, EndPickKeeps
<1>2. ASSUME NEW p \in Pickers, NEW list \in KeyLists, TakeTicket(p, list) \/ StartProbe(p, list)
      PROVE  KeyInv'
  BY <1>2, TakeTicketKeeps, StartProbeKeeps
<1>3. ASSUME NEW p \in Pickers, NEW seconds \in CoolSeconds, markChannelKeyCooldown(p, seconds)
      PROVE  KeyInv'
  BY <1>3, MarkKeeps
<1>4. CASE PruneExpiredKeyCooldowns \/ ClearChannelKeyStateForUI \/ KeyTick
  BY <1>4, PruneKeeps, ClearKeeps, KeyTickKeeps
<1>5. CASE UNCHANGED keyVars
  BY <1>5 DEF keyVars, KeyInv, KeyTypeOK, PicksOK, MarkStands
<1> QED
  BY <1>1, <1>2, <1>3, <1>4, <1>5 DEF KeyNext

\* A key that was marked cools for its whole time, whoever sweeps or looks at an older deadline
\* in between, and a scan is honest about what it found.
THEOREM KeySelectionIsSound == KeySpec => []KeysSound
<1>1. KeyInv => KeysSound
  BY DEF KeyInv, KeysSound, PicksOK, PickOK, ScanHonest
<1> QED
  BY KeyStarts, KeyStep, <1>1, PTL DEF KeySpec

-----------------------------------------------------------------------------
(***************************************************************************)
(* Background checks.  What holds of one job, its entry e, its workers w   *)
(* and whether its context has ended: the tally counts the workers that    *)
(* have left with an outcome, and a worker leaves without one only after   *)
(* the context has ended, or because its probe panicked.                   *)
(***************************************************************************)
WorkStates == {"none", "queued", "probing", "answered"} \cup Over
JobStates == {"none", "running", "done", "cancelled"}
Results == Outcomes \cup {"none", "cancelled"}

EntryForm(e) ==
  /\ e = [state |-> e.state, accounts |-> e.accounts, results |-> e.results,
          probed |-> e.probed, tally |-> e.tally]
  /\ e.state \in JobStates /\ e.accounts \in SUBSET JobAccounts
  /\ e.results \in [e.accounts -> Results] /\ e.probed \in Nat /\ e.tally \in [Outcomes -> Nat]

\* The accounts whose worker has left with an outcome in O.
Counted(e, w, O) == {a \in e.accounts : w[a] = "left" /\ e.results[a] \in O}

WorkFacts(e, w, over) ==
  /\ \A a \in JobAccounts : w[a] # "none" <=> a \in e.accounts
  /\ e.state # "running" => \A a \in e.accounts : w[a] \in Over
  /\ \A a \in e.accounts :
       /\ w[a] \in {"queued", "probing"} => e.results[a] = "none"
       /\ w[a] = "answered" => e.results[a] \in Outcomes
       /\ w[a] = "panicked" => e.results[a] \in {"none", "cancelled"}
       /\ w[a] \in Over /\ e.results[a] = "none" => e.state = "running"
       /\ w[a] = "left" /\ e.results[a] = "none" => over
       /\ e.results[a] = "cancelled" => e.state = "cancelled" \/ w[a] = "panicked"

TallyFacts(e, w) ==
  /\ \A o \in Outcomes : e.tally[o] = Cardinality(Counted(e, w, {o}))
  /\ e.probed = Cardinality(Counted(e, w, Outcomes))

JobFacts(e, w, over) ==
  EntryForm(e) /\ w \in [JobAccounts -> WorkStates] /\ WorkFacts(e, w, over) /\ TallyFacts(e, w)

JobInv ==
  /\ DOMAIN job = Jobs /\ DOMAIN work = Jobs
  /\ \A j \in Jobs \ {AutoJob} : JobFacts(job[j], work[j], j \in ctxDone)

\* A context only ever ends.
LEMMA FactsStay ==
  ASSUME NEW e, NEW w, NEW over \in BOOLEAN, NEW now \in BOOLEAN, JobFacts(e, w, over), over => now
  PROVE  JobFacts(e, w, now)
  BY DEF JobFacts, WorkFacts

\* Counted sets are finite.
LEMMA CountedFinite ==
  ASSUME NEW e, NEW w, NEW O, e.accounts \in SUBSET JobAccounts
  PROVE  /\ IsFiniteSet(Counted(e, w, O)) /\ Cardinality(Counted(e, w, O)) \in Nat
         /\ IsFiniteSet(e.accounts)
  <1>1. Counted(e, w, O) \in SUBSET JobAccounts
    BY DEF Counted
  <1>2. IsFiniteSet(Counted(e, w, O)) /\ IsFiniteSet(e.accounts)
    BY <1>1, JobAssumption, FS_Subset
  <1> QED BY <1>2, FS_CardinalityType

\* A job that has just begun.
LEMMA NewEntryFacts ==
  ASSUME NEW S \in SUBSET JobAccounts, NEW over \in BOOLEAN
  PROVE  JobFacts(NewEntry(S), [a \in JobAccounts |-> IF a \in S THEN "queued" ELSE "none"], over)
  <1> DEFINE e == NewEntry(S)
             w == [a \in JobAccounts |-> IF a \in S THEN "queued" ELSE "none"]
  <1>1. /\ e.state = "running" /\ e.accounts = S /\ e.results = [a \in S |-> "none"]
        /\ e.probed = 0 /\ e.tally = [o \in Outcomes |-> 0]
        /\ e = [state |-> e.state, accounts |-> e.accounts, results |-> e.results,
                probed |-> e.probed, tally |-> e.tally]
    BY DEF NewEntry
  <1>2. w \in [JobAccounts -> WorkStates] /\ \A a \in JobAccounts : w[a] = IF a \in S THEN "queued" ELSE "none"
    BY DEF WorkStates
  <1> HIDE DEF e, w
  <1>3. EntryForm(e)
    BY <1>1 DEF EntryForm, JobStates, Results
  <1>4. WorkFacts(e, w, over)
    BY <1>1, <1>2 DEF WorkFacts
  <1>5. \A O : Counted(e, w, O) = {}
    BY <1>1, <1>2 DEF Counted
  <1>6. TallyFacts(e, w)
    BY <1>1, <1>5, FS_EmptySet DEF TallyFacts
  <1> QED BY <1>2, <1>3, <1>4, <1>6 DEF JobFacts, e, w

\* A worker that starts its probe, leaves because the context has ended, or panics.
LEMMA AcquireFacts ==
  ASSUME NEW e, NEW w, NEW over \in BOOLEAN, JobFacts(e, w, over), NEW a \in JobAccounts,
         w[a] \in {"queued", "probing"}, NEW x,
         x = "probing" \/ (x = "left" /\ over) \/ x = "panicked"
  PROVE  JobFacts(e, [w EXCEPT ![a] = x], over)
  <1> DEFINE u == [w EXCEPT ![a] = x]
  <1>1. /\ u \in [JobAccounts -> WorkStates] /\ u[a] = x
        /\ \A b \in JobAccounts \ {a} : u[b] = w[b]
    BY DEF JobFacts, WorkStates, Over
  <1>2. a \in e.accounts /\ e.results[a] = "none" /\ e.accounts \in SUBSET JobAccounts
        /\ e.state = "running"
    BY DEF JobFacts, WorkFacts, EntryForm, Over
  <1> HIDE DEF u
  <1>3. WorkFacts(e, u, over)
    BY <1>1, <1>2 DEF JobFacts, WorkFacts, Over
  <1>4. "none" \notin Outcomes
    BY DEF Outcomes
  <1>5. \A O : "none" \notin O => Counted(e, u, O) = Counted(e, w, O)
    BY <1>1, <1>2 DEF Counted
  <1>6. Counted(e, u, Outcomes) = Counted(e, w, Outcomes)
        /\ \A o \in Outcomes : Counted(e, u, {o}) = Counted(e, w, {o})
    BY <1>4, <1>5
  <1>7. TallyFacts(e, u)
    BY <1>6 DEF JobFacts, TallyFacts
  <1> QED BY <1>1, <1>3, <1>7 DEF JobFacts, u

\* The result of a probe is recorded; it is not counted yet.
LEMMA AnswerFacts ==
  ASSUME NEW e, NEW w, NEW over \in BOOLEAN, JobFacts(e, w, over), NEW a \in JobAccounts,
         w[a] = "probing", NEW o \in Outcomes
  PROVE  JobFacts([e EXCEPT !.results = [@ EXCEPT ![a] = o]], [w EXCEPT ![a] = "answered"], over)
  <1> DEFINE res == [e.results EXCEPT ![a] = o]
             f == [e EXCEPT !.results = res]
             u == [w EXCEPT ![a] = "answered"]
  <1>e. EntryForm(e)
    BY DEF JobFacts
  <1>2. a \in e.accounts /\ e.accounts \in SUBSET JobAccounts /\ e.state = "running"
    BY DEF JobFacts, WorkFacts, EntryForm, Over
  <1>3. /\ res \in [e.accounts -> Results] /\ res[a] = o
        /\ \A b \in e.accounts \ {a} : res[b] = e.results[b]
    BY <1>e, <1>2 DEF EntryForm, Results
  <1>4. /\ u \in [JobAccounts -> WorkStates] /\ u[a] = "answered"
        /\ \A b \in JobAccounts \ {a} : u[b] = w[b]
    BY DEF JobFacts, WorkStates, Over
  <1> HIDE DEF res, u
  <1>1. /\ f = [state |-> e.state, accounts |-> e.accounts, results |-> res,
                probed |-> e.probed, tally |-> e.tally]
    BY <1>e DEF EntryForm
  <1>5. /\ f.state = e.state /\ f.accounts = e.accounts /\ f.results = res
        /\ f.probed = e.probed /\ f.tally = e.tally
    BY <1>1
  <1> HIDE DEF f
  <1>6. EntryForm(f)
    BY <1>e, <1>1, <1>3, <1>5 DEF EntryForm
  <1>7. WorkFacts(f, u, over)
    BY <1>2, <1>3, <1>4, <1>5 DEF JobFacts, WorkFacts, Outcomes, Over
  <1>8. \A O : Counted(f, u, O) = Counted(e, w, O)
    BY <1>2, <1>3, <1>4, <1>5 DEF Counted
  <1>9. TallyFacts(f, u)
    BY <1>5, <1>8 DEF JobFacts, TallyFacts
  <1>10. JobFacts(f, u, over)
    BY <1>4, <1>6, <1>7, <1>9 DEF JobFacts
  <1> QED BY <1>10 DEF f, u, res

\* The progress callback counts the result of the worker that leaves.
LEMMA ProgressFacts ==
  ASSUME NEW e, NEW w, NEW over \in BOOLEAN, JobFacts(e, w, over), NEW a \in JobAccounts,
         w[a] = "answered"
  PROVE  JobFacts([e EXCEPT !.probed = e.probed + 1,
                            !.tally = [e.tally EXCEPT ![e.results[a]] = e.tally[e.results[a]] + 1]],
                  [w EXCEPT ![a] = "left"], over)
  <1> DEFINE o == e.results[a]
             t == [e.tally EXCEPT ![o] = e.tally[o] + 1]
             n == e.probed + 1
             f == [e EXCEPT !.probed = n, !.tally = t]
             u == [w EXCEPT ![a] = "left"]
  <1>e. EntryForm(e)
    BY DEF JobFacts
  <1>2. /\ a \in e.accounts /\ e.accounts \in SUBSET JobAccounts /\ e.state = "running"
        /\ o \in Outcomes
    BY DEF JobFacts, WorkFacts, EntryForm, Over
  <1>3. /\ t \in [Outcomes -> Nat] /\ t[o] = e.tally[o] + 1
        /\ \A x \in Outcomes \ {o} : t[x] = e.tally[x]
    BY <1>e, <1>2 DEF EntryForm
  <1>4. /\ u \in [JobAccounts -> WorkStates] /\ u[a] = "left"
        /\ \A b \in JobAccounts \ {a} : u[b] = w[b]
    BY DEF JobFacts, WorkStates, Over
  <1>n. n = e.probed + 1
    OBVIOUS
  <1> HIDE DEF t, u, n
  <1>1. /\ f = [state |-> e.state, accounts |-> e.accounts, results |-> e.results,
                probed |-> n, tally |-> t]
    <2> DEFINE g == [e EXCEPT !.probed = n]
    <2>1. f = [g EXCEPT !.tally = t]
      OBVIOUS
    <2>2. g = [state |-> e.state, accounts |-> e.accounts, results |-> e.results,
               probed |-> n, tally |-> e.tally]
      BY <1>e DEF EntryForm
    <2> HIDE DEF f, g
    <2> QED BY <2>1, <2>2
  <1>5. /\ f.state = e.state /\ f.accounts = e.accounts /\ f.results = e.results
        /\ f.probed = e.probed + 1 /\ f.tally = t
    BY <1>n, <1>1
  <1> HIDE DEF f
  <1>6. EntryForm(f)
    BY <1>e, <1>1, <1>3, <1>5 DEF EntryForm
  <1>7. WorkFacts(f, u, over)
    BY <1>2, <1>4, <1>5 DEF JobFacts, WorkFacts, Outcomes, Over
  <1>8. ASSUME NEW O, o \in O
        PROVE  Cardinality(Counted(f, u, O)) = Cardinality(Counted(e, w, O)) + 1
    <2>1. Counted(f, u, O) = Counted(e, w, O) \cup {a}
      BY <1>2, <1>4, <1>5, <1>8 DEF Counted
    <2>2. a \notin Counted(e, w, O)
      BY DEF Counted
    <2>3. IsFiniteSet(Counted(e, w, O))
      BY <1>2, CountedFinite
    <2> QED BY <2>1, <2>2, <2>3, FS_AddElement
  <1>9. \A x \in Outcomes \ {o} : Counted(f, u, {x}) = Counted(e, w, {x})
    BY <1>2, <1>4, <1>5 DEF Counted
  <1>10. TallyFacts(f, u)
    <2>1. \A x \in Outcomes : e.tally[x] = Cardinality(Counted(e, w, {x}))
      BY DEF JobFacts, TallyFacts
    <2>2. e.probed = Cardinality(Counted(e, w, Outcomes))
      BY DEF JobFacts, TallyFacts
    <2>3. Cardinality(Counted(f, u, {o})) = Cardinality(Counted(e, w, {o})) + 1
      BY <1>8
    <2>4. Cardinality(Counted(f, u, Outcomes)) = Cardinality(Counted(e, w, Outcomes)) + 1
      BY <1>2, <1>8
    <2> HIDE DEF o
    <2> QED BY <1>2, <1>3, <1>5, <1>9, <2>1, <2>2, <2>3, <2>4 DEF TallyFacts
  <1>11. JobFacts(f, u, over)
    BY <1>4, <1>6, <1>7, <1>10 DEF JobFacts
  <1> QED BY <1>11 DEF f, u, t, n

\* The final state: what has no result is cancelled, and the counts stay.
LEMMA FinishFacts ==
  ASSUME NEW e, NEW w, NEW over \in BOOLEAN, JobFacts(e, w, over),
         e.state = "running", \A a \in e.accounts : w[a] \in Over
  PROVE  JobFacts([e EXCEPT !.results = [a \in e.accounts |-> IF e.results[a] = "none" THEN "cancelled"
                                                              ELSE e.results[a]],
                            !.state = IF over THEN "cancelled" ELSE "done"], w, TRUE)
  <1> DEFINE res == [a \in e.accounts |-> IF e.results[a] = "none" THEN "cancelled" ELSE e.results[a]]
             st == IF over THEN "cancelled" ELSE "done"
             f == [e EXCEPT !.results = res, !.state = st]
  <1>e. EntryForm(e)
    BY DEF JobFacts
  <1>s. st \in JobStates /\ (over => st = "cancelled") /\ st # "running"
    BY DEF JobStates
  <1>3. /\ res \in [e.accounts -> Results]
        /\ \A a \in e.accounts : res[a] = IF e.results[a] = "none" THEN "cancelled" ELSE e.results[a]
    BY <1>e DEF EntryForm, Results
  <1> HIDE DEF res, st
  <1>1. f = [state |-> st, accounts |-> e.accounts, results |-> res,
             probed |-> e.probed, tally |-> e.tally]
    <2> DEFINE g == [e EXCEPT !.results = res]
    <2>1. f = [g EXCEPT !.state = st]
      OBVIOUS
    <2>2. g = [state |-> e.state, accounts |-> e.accounts, results |-> res,
               probed |-> e.probed, tally |-> e.tally]
      BY <1>e DEF EntryForm
    <2> HIDE DEF f, g
    <2> QED BY <2>1, <2>2
  <1>5. /\ f.state = st /\ f.accounts = e.accounts /\ f.results = res
        /\ f.probed = e.probed /\ f.tally = e.tally
    BY <1>1
  <1> HIDE DEF f
  <1>6. EntryForm(f)
    BY <1>e, <1>1, <1>s, <1>3, <1>5 DEF EntryForm
  <1>7. WorkFacts(f, w, TRUE)
    <2>1. \A a \in JobAccounts : w[a] # "none" <=> a \in e.accounts
      BY DEF JobFacts, WorkFacts
    <2>2. ASSUME NEW a \in e.accounts
          PROVE  /\ res[a] # "none" /\ w[a] \in Over
                 /\ w[a] = "panicked" => res[a] = "cancelled"
                 /\ res[a] = "cancelled" => st = "cancelled" \/ w[a] = "panicked"
      <3>1. w[a] = "left" /\ e.results[a] = "none" => over
        BY DEF JobFacts, WorkFacts
      <3>2. e.results[a] = "cancelled" => w[a] = "panicked"
        BY DEF JobFacts, WorkFacts
      <3>3. w[a] = "panicked" => e.results[a] \in {"none", "cancelled"}
        BY DEF JobFacts, WorkFacts
      <3> QED BY <1>3, <1>s, <3>1, <3>2, <3>3 DEF Over
    <2> QED BY <1>5, <1>s, <2>1, <2>2 DEF WorkFacts, Over
  <1>8. \A O \in SUBSET Outcomes : Counted(f, w, O) = Counted(e, w, O)
    BY <1>3, <1>5 DEF Counted, Outcomes
  <1>9. TallyFacts(f, w)
    BY <1>5, <1>8 DEF JobFacts, TallyFacts
  <1>10. JobFacts(f, w, TRUE)
    BY <1>6, <1>7, <1>9 DEF JobFacts
  <1> QED BY <1>10 DEF f, res, st

\* Only job j is touched, and contexts only end.
Touches(j) ==
  /\ DOMAIN job' = Jobs /\ DOMAIN work' = Jobs
  /\ \A k \in Jobs \ {j} : job'[k] = job[k] /\ work'[k] = work[k]
  /\ \A k \in Jobs \ {AutoJob} : k \in ctxDone => k \in ctxDone'

\* A step on one job keeps the facts about the others.
LEMMA TouchKeeps ==
  ASSUME JobInv, NEW j \in Jobs, Touches(j),
         j # AutoJob => JobFacts(job'[j], work'[j], j \in ctxDone')
  PROVE  JobInv'
  <1>1. ASSUME NEW k \in Jobs \ {AutoJob, j} PROVE JobFacts(job'[k], work'[k], k \in ctxDone')
    <2>1. /\ JobFacts(job[k], work[k], k \in ctxDone) /\ (k \in ctxDone => k \in ctxDone')
          /\ (k \in ctxDone) \in BOOLEAN /\ (k \in ctxDone') \in BOOLEAN
      BY DEF JobInv, Touches
    <2>2. JobFacts(job[k], work[k], k \in ctxDone')
      BY <2>1, FactsStay
    <2>3. job'[k] = job[k] /\ work'[k] = work[k]
      BY DEF Touches
    <2> QED BY <2>2, <2>3
  <1> QED BY <1>1 DEF JobInv, Touches

\* Every step of the jobs keeps the invariant.
LEMMA JobStep == JobInv /\ [JobNext]_jobVars => JobInv'
  <1> SUFFICES ASSUME JobInv, [JobNext]_jobVars PROVE JobInv'
    OBVIOUS
  <1>d. DOMAIN job = Jobs /\ DOMAIN work = Jobs
    BY DEF JobInv
  <1>j. ASSUME NEW j \in Jobs \ {AutoJob} PROVE JobFacts(job[j], work[j], j \in ctxDone)
    BY DEF JobInv
  <1>b. ASSUME NEW j PROVE (j \in ctxDone) \in BOOLEAN /\ (j \in ctxDone') \in BOOLEAN
    OBVIOUS
  <1>0. ASSUME UNCHANGED <<job, work>>, ctxDone \subseteq ctxDone' PROVE JobInv'
    <2>1. Touches(AutoJob)
      BY <1>d, <1>0 DEF Touches
    <2> QED BY <2>1, TouchKeeps, JobAssumption
  <1>1. ASSUME NEW j \in Jobs, StartOpencodeAccountProbe(j) PROVE JobInv'
    <2>1. PICK S \in SUBSET JobAccounts : Begin(j, S)
      BY <1>1 DEF StartOpencodeAccountProbe
    <2>2. ctxDone \subseteq ctxDone'
      BY <1>1 DEF StartOpencodeAccountProbe
    <2>3. Touches(j)
      BY <1>d, <2>1, <2>2 DEF Begin, Touches
    <2>4. /\ job'[j] = NewEntry(S)
          /\ work'[j] = [a \in JobAccounts |-> IF a \in S THEN "queued" ELSE "none"]
      BY <1>d, <2>1 DEF Begin
    <2>5. JobFacts(job'[j], work'[j], j \in ctxDone')
      BY <1>b, <2>4, NewEntryFacts
    <2> QED BY <2>3, <2>5, TouchKeeps
  <1>2. CASE AutoProbeOpencodeAccounts
    <2>1. Touches(AutoJob)
      BY <1>2, <1>d DEF AutoProbeOpencodeAccounts, Begin, Touches
    <2> QED BY <2>1, TouchKeeps, JobAssumption
  <1>3. ASSUME NEW j \in Jobs, NEW a \in JobAccounts, Acquire(j, a) PROVE JobInv'
    <2>1. PICK x : /\ x = "probing" \/ (x = "left" /\ j \in ctxDone)
                   /\ work' = [work EXCEPT ![j] = [work[j] EXCEPT ![a] = x]]
      BY <1>3, <1>d DEF Acquire
    <2>2. work[j][a] = "queued" /\ UNCHANGED <<job, ctxDone>>
      BY <1>3 DEF Acquire
    <2>3. Touches(j)
      BY <1>d, <2>1, <2>2 DEF Touches
    <2>4. work'[j] = [work[j] EXCEPT ![a] = x]
      BY <1>d, <2>1
    <2>5. ASSUME j # AutoJob PROVE JobFacts(job[j], [work[j] EXCEPT ![a] = x], j \in ctxDone)
      <3> DEFINE w == work[j]
                 over == j \in ctxDone
      <3>1. /\ over \in BOOLEAN /\ w[a] = "queued" /\ (x = "probing" \/ (x = "left" /\ over))
        BY <1>b, <2>1, <2>2
      <3>2. JobFacts(job[j], w, over)
        BY <1>j, <2>5
      <3> HIDE DEF w, over
      <3>3. JobFacts(job[j], [w EXCEPT ![a] = x], over)
        BY <3>1, <3>2, AcquireFacts
      <3> QED BY <3>3 DEF w, over
    <2> QED BY <2>2, <2>3, <2>4, <2>5, TouchKeeps
  <1>4. ASSUME NEW j \in Jobs, NEW a \in JobAccounts, ocProbeOne(j, a) PROVE JobInv'
    <2>1. /\ work[j][a] = "probing" /\ UNCHANGED ctxDone
          /\ work' = [work EXCEPT ![j] = [work[j] EXCEPT ![a] = "answered"]]
      BY <1>4 DEF ocProbeOne
    <2>2. CASE j = AutoJob
      <3>1. Touches(j)
        BY <1>d, <1>4, <2>1, <2>2 DEF ocProbeOne, Touches
      <3> QED BY <2>2, <3>1, TouchKeeps
    <2>3. CASE j # AutoJob
      <3>1. PICK o \in Outcomes :
              job' = [job EXCEPT ![j] = [job[j] EXCEPT !.results = [@ EXCEPT ![a] = o]]]
        BY <1>4, <2>3 DEF ocProbeOne, Outcomes
      <3>2. Touches(j)
        BY <1>d, <2>1, <3>1 DEF Touches
      <3>3. /\ job'[j] = [job[j] EXCEPT !.results = [@ EXCEPT ![a] = o]]
            /\ work'[j] = [work[j] EXCEPT ![a] = "answered"]
        BY <1>d, <2>1, <3>1
      <3>4. JobFacts([job[j] EXCEPT !.results = [@ EXCEPT ![a] = o]],
                     [work[j] EXCEPT ![a] = "answered"], j \in ctxDone)
        BY <1>b, <1>j, <2>1, <2>3, AnswerFacts
      <3>5. JobFacts(job'[j], work'[j], j \in ctxDone')
        BY <2>1, <3>3, <3>4
      <3> QED BY <3>2, <3>5, TouchKeeps
    <2> QED BY <2>2, <2>3
  <1>5. ASSUME NEW j \in Jobs, NEW a \in JobAccounts, Progress(j, a) PROVE JobInv'
    <2>1. /\ work[j][a] = "answered" /\ UNCHANGED ctxDone
          /\ work' = [work EXCEPT ![j] = [work[j] EXCEPT ![a] = "left"]]
      BY <1>5 DEF Progress
    <2>2. CASE j = AutoJob
      <3>1. Touches(j)
        BY <1>d, <1>5, <2>1, <2>2 DEF Progress, Touches
      <3> QED BY <2>2, <3>1, TouchKeeps
    <2>3. CASE j # AutoJob
      <3> DEFINE e == job[j]
                 f == [e EXCEPT !.probed = e.probed + 1,
                                !.tally = [e.tally EXCEPT ![e.results[a]] = e.tally[e.results[a]] + 1]]
      <3>1. job' = [job EXCEPT ![j] = f]
        BY <1>5, <2>3, <1>d DEF Progress
      <3>4. JobFacts(f, [work[j] EXCEPT ![a] = "left"], j \in ctxDone)
        BY <1>b, <1>j, <2>1, <2>3, ProgressFacts
      <3>c. PICK g : g = f
        OBVIOUS
      <3>p. job' = [job EXCEPT ![j] = g] /\ JobFacts(g, [work[j] EXCEPT ![a] = "left"], j \in ctxDone)
        BY <3>1, <3>4, <3>c
      <3> HIDE DEF f, e
      <3>2. Touches(j)
        BY <1>d, <2>1, <3>p DEF Touches
      <3>3. job'[j] = g /\ work'[j] = [work[j] EXCEPT ![a] = "left"]
        BY <1>d, <2>1, <3>p
      <3>5. JobFacts(job'[j], work'[j], j \in ctxDone')
        BY <2>1, <3>3, <3>p
      <3> QED BY <3>2, <3>5, TouchKeeps
    <2> QED BY <2>2, <2>3
  <1>6. ASSUME NEW j \in Jobs, FinishJob(j) PROVE JobInv'
    <2> DEFINE e == job[j]
               f == [e EXCEPT !.results = [a \in e.accounts |-> IF e.results[a] = "none" THEN "cancelled"
                                                               ELSE e.results[a]],
                              !.state = IF j \in ctxDone THEN "cancelled" ELSE "done"]
    <2>1. /\ job[j].state = "running" /\ \A a \in job[j].accounts : work[j][a] \in Over
          /\ work' = work /\ ctxDone' = ctxDone \cup {j}
      BY <1>6 DEF FinishJob
    <2>2. job' = [job EXCEPT ![j] = f]
      BY <1>6, <1>d DEF FinishJob
    <2>3. j # AutoJob => JobFacts(f, work[j], TRUE)
      BY <1>b, <1>j, <2>1, FinishFacts
    <2>c. PICK g : g = f
      OBVIOUS
    <2>4. job' = [job EXCEPT ![j] = g] /\ (j # AutoJob => JobFacts(g, work[j], TRUE))
      BY <2>2, <2>3, <2>c
    <2> HIDE DEF f, e
    <2>5. Touches(j)
      BY <1>d, <2>1, <2>4 DEF Touches
    <2>6. job'[j] = g /\ work'[j] = work[j] /\ j \in ctxDone'
      BY <1>d, <2>1, <2>4
    <2>7. (j \in ctxDone') = TRUE
      BY <2>6
    <2>8. j # AutoJob => JobFacts(job'[j], work'[j], j \in ctxDone')
      BY <2>4, <2>6, <2>7
    <2> QED BY <2>5, <2>8, TouchKeeps
  <1>10. ASSUME NEW j \in Jobs, NEW a \in JobAccounts, WorkerPanics(j, a) PROVE JobInv'
    <2>1. /\ work[j][a] = "probing" /\ UNCHANGED <<job, ctxDone>>
          /\ work' = [work EXCEPT ![j] = [work[j] EXCEPT ![a] = "panicked"]]
      BY <1>10 DEF WorkerPanics
    <2>2. Touches(j)
      BY <1>d, <2>1 DEF Touches
    <2>3. work'[j] = [work[j] EXCEPT ![a] = "panicked"]
      BY <1>d, <2>1
    <2>4. ASSUME j # AutoJob
          PROVE  JobFacts(job[j], [work[j] EXCEPT ![a] = "panicked"], j \in ctxDone)
      <3> DEFINE w == work[j]
                 over == j \in ctxDone
                 x == "panicked"
      <3>1. over \in BOOLEAN /\ w[a] \in {"queued", "probing"} /\ x = "panicked"
        BY <1>b, <2>1
      <3>2. JobFacts(job[j], w, over)
        BY <1>j, <2>4
      <3> HIDE DEF w, over, x
      <3>3. JobFacts(job[j], [w EXCEPT ![a] = x], over)
        BY <3>1, <3>2, AcquireFacts
      <3> QED BY <3>3 DEF w, over, x
    <2> QED BY <2>1, <2>2, <2>3, <2>4, TouchKeeps
  <1>7. ASSUME NEW j \in Jobs, Deadline(j) PROVE JobInv'
    BY <1>0, <1>7 DEF Deadline
  <1>8. CASE ProbeDayPasses
    BY <1>0, <1>8 DEF ProbeDayPasses
  <1>9. CASE UNCHANGED jobVars
    BY <1>0, <1>9 DEF jobVars
  <1> QED BY <1>1, <1>2, <1>3, <1>4, <1>5, <1>6, <1>7, <1>8, <1>9, <1>10 DEF JobNext

\* No job is under way at the start.
LEMMA JobStart == JobInit => JobInv
  <1> SUFFICES ASSUME JobInit PROVE JobInv
    OBVIOUS
  <1>1. DOMAIN job = Jobs /\ DOMAIN work = Jobs
    BY DEF JobInit
  <1>2. ASSUME NEW j \in Jobs PROVE JobFacts(job[j], work[j], j \in ctxDone)
    <2> DEFINE e == NoJob
               w == [a \in JobAccounts |-> "none"]
    <2> DEFINE res0 == [a \in {} |-> "none"]
               tally0 == [o \in Outcomes |-> 0]
    <2>0. PICK n : /\ n = [state |-> "running", accounts |-> {}, results |-> res0, probed |-> 0, tally |-> tally0]
                   /\ n = NewEntry({})
      BY DEF NewEntry
    <2>1. e = [state |-> "none", accounts |-> {}, results |-> res0, probed |-> 0, tally |-> tally0]
      <3> HIDE DEF res0, tally0
      <3>1. e = [n EXCEPT !.state = "none"]
        BY <2>0, Zenon DEF NoJob
      <3> HIDE DEF e
      <3>2. [n EXCEPT !.state = "none"]
              = [state |-> "none", accounts |-> {}, results |-> res0, probed |-> 0, tally |-> tally0]
        BY <2>0
      <3> QED BY <3>1, <3>2
    <2> HIDE DEF e
    <2>2. EntryForm(e)
      BY <2>1 DEF EntryForm, JobStates, Results
    <2>3. WorkFacts(e, w, j \in ctxDone)
      BY <2>1 DEF WorkFacts
    <2>4. \A O : Counted(e, w, O) = {}
      BY <2>1 DEF Counted
    <2>5. TallyFacts(e, w)
      BY <2>1, <2>4, FS_EmptySet DEF TallyFacts
    <2>6. w \in [JobAccounts -> WorkStates]
      BY DEF WorkStates
    <2>7. JobFacts(e, w, j \in ctxDone)
      BY <2>2, <2>3, <2>5, <2>6 DEF JobFacts
    <2>8. job[j] = e /\ work[j] = w
      BY DEF JobInit, e
    <2> HIDE DEF w
    <2> QED BY <2>7, <2>8
  <1> QED BY <1>1, <1>2 DEF JobInv

\* The report of every ended job adds up with the progress a console saw, for any accounts,
\* jobs, concurrency and length of the store, wherever its deadline fell.
THEOREM ReportsAddUp == JobSpec => []ReportAddsUp
  <1>1. JobInv => ReportAddsUp
    <2> SUFFICES ASSUME JobInv, NEW j \in Jobs \ {AutoJob}, job[j].state \in {"done", "cancelled"}
                 PROVE  LET with(o) == {a \in job[j].accounts : job[j].results[a] = o}
                        IN /\ \A o \in Outcomes : job[j].tally[o] = Cardinality(with(o))
                           /\ job[j].probed + Cardinality(with("cancelled")) = Cardinality(job[j].accounts)
                           /\ job[j].state = "done" => \A a \in with("cancelled") : work[j][a] = "panicked"
      BY DEF ReportAddsUp
    <2> DEFINE e == job[j]
               w == work[j]
               with(o) == {a \in e.accounts : e.results[a] = o}
    <2>1. JobFacts(e, w, j \in ctxDone)
      BY DEF JobInv
    <2>2. /\ \A a \in e.accounts : e.results[a] \in Outcomes \cup {"cancelled"}
          /\ \A a \in e.accounts : e.results[a] \in Outcomes => w[a] = "left"
          /\ \A a \in e.accounts : e.results[a] = "cancelled" => e.state = "cancelled" \/ w[a] = "panicked"
          /\ e.accounts \in SUBSET JobAccounts
      <3>1. \A a \in e.accounts : w[a] \in Over /\ e.results[a] # "none" /\ e.results[a] \in Results
        BY <2>1 DEF JobFacts, WorkFacts, EntryForm
      <3>2. \A a \in e.accounts : w[a] = "panicked" => e.results[a] \in {"none", "cancelled"}
        BY <2>1 DEF JobFacts, WorkFacts
      <3> QED BY <2>1, <3>1, <3>2 DEF JobFacts, WorkFacts, EntryForm, Results, Over, Outcomes
    <2>3. \A o \in Outcomes : e.tally[o] = Cardinality(Counted(e, w, {o}))
      BY <2>1 DEF JobFacts, TallyFacts
    <2>4. \A o \in Outcomes : Counted(e, w, {o}) = with(o)
      BY <2>2 DEF Counted
    <2>5. e.probed = Cardinality(Counted(e, w, Outcomes))
      BY <2>1 DEF JobFacts, TallyFacts
    <2>6. e.probed + Cardinality(with("cancelled")) = Cardinality(e.accounts)
      <3> DEFINE S == Counted(e, w, Outcomes)
                 T == with("cancelled")
      <3>1. S \cup T = e.accounts /\ S \cap T = {}
        BY <2>2 DEF Counted, Outcomes
      <3>2. IsFiniteSet(S) /\ IsFiniteSet(e.accounts) /\ T \in SUBSET e.accounts
        BY <2>2, CountedFinite
      <3>3. IsFiniteSet(T)
        BY <3>2, FS_Subset
      <3>4. Cardinality(S) \in Nat /\ Cardinality(T) \in Nat
        BY <3>2, <3>3, FS_CardinalityType
      <3> HIDE DEF S, T
      <3>5. Cardinality(S \cup T) = Cardinality(S) + Cardinality(T) - Cardinality(S \cap T)
        BY <3>2, <3>3, FS_Union
      <3>6. Cardinality(S \cap T) = 0
        BY <3>1, FS_EmptySet
      <3>7. Cardinality(e.accounts) = Cardinality(S) + Cardinality(T)
        <4>1. Cardinality(S \cup T) = Cardinality(e.accounts)
          BY <3>1
        <4> HIDE DEF e
        <4> QED BY <3>4, <3>5, <3>6, <4>1
      <3> QED BY <2>5, <3>7 DEF S, T
    <2>7. e.state = "done" => \A a \in with("cancelled") : work[j][a] = "panicked"
      BY <2>2
    <2> QED BY <2>3, <2>4, <2>6, <2>7
  <1> QED BY <1>1, JobStart, JobStep, PTL DEF JobSpec

====
