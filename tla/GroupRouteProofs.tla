------------------------- MODULE GroupRouteProofs -------------------------
(***************************************************************************)
(* Proofs about GroupRoute for any set of members and requests: the type   *)
(* invariant, that neither the candidate nor a HALF_OPEN mark can be       *)
(* orphaned, and that the emergency quota does not leak.                   *)
(***************************************************************************)
EXTENDS GroupRoute, FiniteSetTheorems, TLAPS

---------------------------------------------------------------------------
(***************************************************************************)
(* What a route operation may do to the marks.  Most of them only give     *)
(* marks back; the reports of a request on i also settle i.                *)
(***************************************************************************)
Shrinks(rt, new) ==
  /\ new \in RouteStates
  /\ new.live = rt.live \/ new.live = TRUE
  /\ new.halfOpens \subseteq rt.halfOpens
  /\ new.probeItem = rt.probeItem \/ new.probeItem = NoItem

Settles(rt, new, i) == Shrinks(rt, new) /\ new.probeItem # i /\ i \notin new.halfOpens

\* Marks only go when nothing is written.
LEMMA ShrinksRefl == \A rt \in RouteStates : Shrinks(rt, rt)
  BY DEF Shrinks, RouteStates

\* Marks given back in two steps are given back.
LEMMA ShrinksTrans ==
  ASSUME NEW x, NEW y, NEW z, Shrinks(x, y), Shrinks(y, z)
  PROVE  Shrinks(x, z)
  BY DEF Shrinks

\* groupRouteLocked drops marks and never adds one.
LEMMA GroupRouteShrinks ==
  ASSUME NEW rt \in RouteStates, NEW g \in GroupStates
  PROVE  Shrinks(rt, groupRouteLocked(rt, g)) /\ groupRouteLocked(rt, g).live = TRUE
  BY ItemsAssumption, BoundsAssumption
  DEF Shrinks, RouteStates, GroupStates, groupRouteLocked, NullItems, CooldownStates

\* restoreItemLocked settles the half-open mark and leaves the candidate alone.
LEMMA RestoreShrinks ==
  ASSUME NEW rt \in RouteStates, NEW i \in Items
  PROVE  /\ Shrinks(rt, restoreItemLocked(rt, i))
         /\ i \notin restoreItemLocked(rt, i).halfOpens
         /\ restoreItemLocked(rt, i).probeItem = rt.probeItem
         /\ restoreItemLocked(rt, i).emCounts = rt.emCounts
  <1> DEFINE cd == [rt.cooldown EXCEPT ![i] = "none"]
             lv == [rt.levels EXCEPT ![i] = 0]
  <1>1. restoreItemLocked(rt, i) = [rt EXCEPT !.cooldown = cd, !.levels = lv,
                                              !.halfOpens = rt.halfOpens \ {i}]
    BY DEF restoreItemLocked, RouteStates
  <1>2. cd \in [Items -> CooldownStates]
    BY DEF RouteStates, CooldownStates
  <1>3. lv \in [Items -> 0..MaxLevel]
    BY BoundsAssumption DEF RouteStates
  <1> HIDE DEF cd, lv
  <1> QED BY <1>1, <1>2, <1>3 DEF Shrinks, RouteStates

\* The capped level is a level.
LEMMA NextLevelType == \A l \in 0..MaxLevel : NextLevel(l) \in 0..MaxLevel
  BY BoundsAssumption DEF NextLevel

\* reopenItemLocked takes the marks of S away.
LEMMA ReopenShrinks ==
  ASSUME NEW rt \in RouteStates, NEW S \in SUBSET Items
  PROVE  /\ Shrinks(rt, reopenItemLocked(rt, S))
         /\ reopenItemLocked(rt, S).halfOpens = rt.halfOpens \ S
         /\ reopenItemLocked(rt, S).probeItem = rt.probeItem
         /\ reopenItemLocked(rt, S).emCounts = rt.emCounts
  BY NextLevelType DEF Shrinks, RouteStates, reopenItemLocked, CooldownStates, NullItems

\* Giving an emergency slot back touches no mark.
LEMMA ReleaseEmergencyShrinks ==
  ASSUME NEW rt \in RouteStates, NEW i \in Items
  PROVE  /\ Shrinks(rt, releaseEmergencyLocked(rt, i))
         /\ releaseEmergencyLocked(rt, i).halfOpens = rt.halfOpens
         /\ releaseEmergencyLocked(rt, i).probeItem = rt.probeItem
  BY DEF Shrinks, RouteStates, releaseEmergencyLocked, emergencyHeldLocked, NullItems

\* Taking an emergency slot touches no mark.
LEMMA ClaimEmergencyShrinks ==
  ASSUME NEW rt \in RouteStates, NEW g, g.emergency \in Items
  PROVE  Shrinks(rt, claimEmergencyLocked(rt, g))
  <1> DEFINE e == g.emergency
             ec == [rt.emCounts EXCEPT ![e] = @ + 1]
  <1>1. ec \in [Items -> Nat]
    BY DEF RouteStates
  <1>2. claimEmergencyLocked(rt, g) = [rt EXCEPT !.emCounts = ec]
    BY DEF claimEmergencyLocked
  <1> HIDE DEF ec
  <1> QED BY <1>1, <1>2 DEF Shrinks, RouteStates

\* Leaving the current member touches no mark.
LEMMA LeaveCurrentShrinks ==
  ASSUME NEW rt \in RouteStates, NEW i \in Items
  PROVE  /\ Shrinks(rt, LeaveCurrent(rt, i))
         /\ LeaveCurrent(rt, i).halfOpens = rt.halfOpens
         /\ LeaveCurrent(rt, i).probeItem = rt.probeItem
         /\ LeaveCurrent(rt, i).emCounts = rt.emCounts
  BY DEF Shrinks, RouteStates, LeaveCurrent, NullItems

\* A share is released the same way from two states with the same counts.
LEMMA ReleaseAgrees ==
  ASSUME NEW x \in RouteStates, NEW y \in RouteStates, NEW i \in Items, x.emCounts = y.emCounts
  PROVE  releaseEmergencyLocked(x, i).emCounts = releaseEmergencyLocked(y, i).emCounts
  BY DEF releaseEmergencyLocked, emergencyHeldLocked, RouteStates

\* The report `new' on member i settles i and releases one emergency share of it.
Reports(rt, new, i) ==
  Settles(rt, new, i) /\ new.emCounts = releaseEmergencyLocked(rt, i).emCounts

\* DropHold settles the member and leaves the emergency counts alone.
LEMMA DropHoldSettles ==
  ASSUME NEW rt \in RouteStates, NEW i \in Items
  PROVE  Settles(rt, DropHold(rt, i), i) /\ DropHold(rt, i).emCounts = rt.emCounts
  BY ItemsAssumption DEF Settles, Shrinks, RouteStates, DropHold, NullItems

\* releaseRouteProbe settles the member.
LEMMA ReleaseSettles ==
  ASSUME NEW rt \in RouteStates, NEW i \in Items
  PROVE  Reports(rt, releaseRouteProbe(rt, i), i)
  <1>1. DropHold(rt, i) \in RouteStates
    BY DropHoldSettles DEF Settles, Shrinks
  <1>2. Settles(rt, releaseRouteProbe(rt, i), i)
    BY <1>1, DropHoldSettles, ReleaseEmergencyShrinks, ShrinksTrans
    DEF releaseRouteProbe, Settles
  <1> QED BY <1>1, <1>2, DropHoldSettles, ReleaseAgrees DEF releaseRouteProbe, Reports

\* Clearing all cooldowns touches no mark.
LEMMA ResetShrinks ==
  ASSUME NEW rt \in RouteStates
  PROVE  /\ Shrinks(rt, ResetGroupCooldown(rt))
         /\ ResetGroupCooldown(rt).emCounts = rt.emCounts
  <1>1. [i \in Items |-> "none"] \in [Items -> CooldownStates]
    BY DEF CooldownStates
  <1>2. [i \in Items |-> 0] \in [Items -> 0..MaxLevel] /\ [i \in Items |-> 0] \in [Items -> Nat]
    BY BoundsAssumption
  <1> QED BY <1>1, <1>2 DEF Shrinks, RouteStates, ResetGroupCooldown

\* recordRouteSuccess settles the member.
LEMMA SuccessSettles ==
  ASSUME NEW rt \in RouteStates, NEW i \in Items
  PROVE  Reports(rt, recordRouteSuccess(rt, i), i)
  <1> DEFINE struck    == [rt EXCEPT !.strikes[i] = 0]
             restored  == [restoreItemLocked(struck, i) EXCEPT
                             !.probeItem = NoItem, !.emBlocks = @ \ {i}]
             confirmed == IF ~UnderRecovery(rt, i) THEN struck
                          ELSE IF rt.current = NoItem \/ ~rt.affinity
                               THEN [restored EXCEPT !.current = i, !.affinity = FALSE]
                               ELSE restored
             served    == [confirmed EXCEPT !.armed = FALSE, !.affinity = @ \/ MemberAffinity]
  <1>1. /\ Shrinks(rt, struck) /\ struck.halfOpens = rt.halfOpens
        /\ struck.probeItem = rt.probeItem /\ struck.emCounts = rt.emCounts
    <2>1. [rt.strikes EXCEPT ![i] = 0] \in [Items -> Nat]
      BY DEF RouteStates
    <2> QED BY <2>1 DEF Shrinks, RouteStates
  <1>2. Settles(rt, restored, i) /\ restored.emCounts = rt.emCounts
    <2>1. struck \in RouteStates
      BY <1>1 DEF Shrinks
    <2>2. /\ Shrinks(struck, restoreItemLocked(struck, i))
          /\ i \notin restoreItemLocked(struck, i).halfOpens
          /\ restoreItemLocked(struck, i).emCounts = rt.emCounts
      BY <1>1, <2>1, RestoreShrinks
    <2>3. Shrinks(rt, restoreItemLocked(struck, i))
      BY <1>1, <2>2, ShrinksTrans
    <2> HIDE DEF struck
    <2> QED BY <2>2, <2>3, ItemsAssumption DEF Settles, Shrinks, RouteStates, NullItems
  <1>3. Settles(rt, confirmed, i) /\ confirmed.emCounts = rt.emCounts
    <2>1. CASE ~UnderRecovery(rt, i)
      <3>1. confirmed = struck
        BY <2>1
      <3> HIDE DEF struck, confirmed
      <3> QED BY <1>1, <2>1, <3>1 DEF Settles, UnderRecovery
    <2>2. CASE UnderRecovery(rt, i)
      <3>1. confirmed = restored \/ confirmed = [restored EXCEPT !.current = i, !.affinity = FALSE]
        BY <2>2
      <3> HIDE DEF restored
      <3>2. /\ Settles(rt, [restored EXCEPT !.current = i, !.affinity = FALSE], i)
            /\ [restored EXCEPT !.current = i, !.affinity = FALSE].emCounts = rt.emCounts
        BY <1>2 DEF Settles, Shrinks, RouteStates, NullItems
      <3> HIDE DEF confirmed
      <3> QED BY <1>2, <3>1, <3>2
    <2> QED BY <2>1, <2>2
  <1> HIDE DEF confirmed
  <1>4. confirmed \in RouteStates
    BY <1>3 DEF Settles, Shrinks
  <1>5. Settles(rt, served, i) /\ served.emCounts = rt.emCounts
    <2>1. (confirmed.affinity \/ MemberAffinity) \in BOOLEAN
      OBVIOUS
    <2> QED BY <1>3, <1>4, <2>1 DEF Settles, Shrinks, RouteStates
  <1>6. Settles(rt, releaseEmergencyLocked(confirmed, i), i)
    BY <1>3, <1>4, ReleaseEmergencyShrinks, ShrinksTrans DEF Settles
  <1>7. IF emergencyHeldLocked(rt, i)
        THEN recordRouteSuccess(rt, i) = releaseEmergencyLocked(confirmed, i)
        ELSE recordRouteSuccess(rt, i) \in {served, confirmed}
    BY DEF recordRouteSuccess, confirmed
  <1>8. ~emergencyHeldLocked(rt, i) => releaseEmergencyLocked(rt, i) = rt
    BY DEF releaseEmergencyLocked
  <1>9. releaseEmergencyLocked(confirmed, i).emCounts = releaseEmergencyLocked(rt, i).emCounts
    BY <1>3, <1>4, ReleaseAgrees
  <1> HIDE DEF served
  <1> QED BY <1>3, <1>5, <1>6, <1>7, <1>8, <1>9 DEF Reports

\* recordRouteFailureWithLimit settles the member.
LEMMA FailureSettles ==
  ASSUME NEW rt \in RouteStates, NEW i \in Items, NEW reached \in BOOLEAN
  PROVE  Reports(rt, recordRouteFailureWithLimit(rt, i, reached), i)
  <1>1. ASSUME NEW x \in RouteStates, Settles(rt, x, i), x.emCounts = rt.emCounts
        PROVE  Reports(rt, releaseEmergencyLocked(LeaveCurrent(x, i), i), i)
    <2>1. LeaveCurrent(x, i) \in RouteStates /\ Settles(rt, LeaveCurrent(x, i), i)
      BY <1>1, LeaveCurrentShrinks, ShrinksTrans DEF Settles, Shrinks
    <2>2. Settles(rt, releaseEmergencyLocked(LeaveCurrent(x, i), i), i)
      BY <2>1, ReleaseEmergencyShrinks, ShrinksTrans DEF Settles
    <2>3. LeaveCurrent(x, i).emCounts = rt.emCounts
      BY <1>1, LeaveCurrentShrinks
    <2> QED BY <2>1, <2>2, <2>3, ReleaseAgrees DEF Reports
  <1>2. CASE UnderRecovery(rt, i)
    <2> DEFINE freed   == [rt EXCEPT !.halfOpens = @ \ {i}, !.probeItem = NoItem]
               outcome == IF reached THEN reopenItemLocked(freed, {i})
                          ELSE [freed EXCEPT !.cooldown[i] = "none"]
    <2>1. Settles(rt, freed, i) /\ freed \in RouteStates /\ freed.emCounts = rt.emCounts
      BY ItemsAssumption DEF Settles, Shrinks, RouteStates, NullItems
    <2> HIDE DEF freed
    <2>2. /\ Settles(rt, [freed EXCEPT !.cooldown[i] = "none"], i)
          /\ [freed EXCEPT !.cooldown[i] = "none"].emCounts = rt.emCounts
      <3>1. [freed.cooldown EXCEPT ![i] = "none"] \in [Items -> CooldownStates]
        BY <2>1 DEF RouteStates, CooldownStates
      <3> QED BY <2>1, <3>1 DEF Settles, Shrinks, RouteStates
    <2>3. /\ Settles(rt, reopenItemLocked(freed, {i}), i)
          /\ reopenItemLocked(freed, {i}).emCounts = rt.emCounts
      BY <2>1, ReopenShrinks, ShrinksTrans DEF Settles
    <2>4. Settles(rt, outcome, i) /\ outcome \in RouteStates /\ outcome.emCounts = rt.emCounts
      BY <2>2, <2>3 DEF Settles, Shrinks
    <2>5. recordRouteFailureWithLimit(rt, i, reached)
            = releaseEmergencyLocked(LeaveCurrent(outcome, i), i)
      BY <1>2 DEF recordRouteFailureWithLimit, freed
    <2> HIDE DEF outcome
    <2> QED BY <1>1, <2>4, <2>5
  <1>3. CASE ~UnderRecovery(rt, i) /\ reached
    <2> DEFINE blocks == IF emergencyHeldLocked(rt, i) THEN rt.emBlocks \cup {i} ELSE rt.emBlocks
               cooled == [rt EXCEPT !.cooldown[i] = "cooling", !.emBlocks = blocks]
    <2>1. Settles(rt, cooled, i) /\ cooled \in RouteStates /\ cooled.emCounts = rt.emCounts
      <3>1. [rt.cooldown EXCEPT ![i] = "cooling"] \in [Items -> CooldownStates]
        BY DEF RouteStates, CooldownStates
      <3>2. blocks \in SUBSET Items
        BY DEF RouteStates
      <3> HIDE DEF blocks
      <3> QED BY <1>3, <3>1, <3>2 DEF Settles, Shrinks, RouteStates, UnderRecovery
    <2>2. recordRouteFailureWithLimit(rt, i, reached)
            = releaseEmergencyLocked(LeaveCurrent(cooled, i), i)
      BY <1>3 DEF recordRouteFailureWithLimit
    <2> HIDE DEF cooled
    <2> QED BY <1>1, <2>1, <2>2
  <1>4. CASE ~UnderRecovery(rt, i) /\ ~reached
    <2>1. recordRouteFailureWithLimit(rt, i, reached) = releaseEmergencyLocked(rt, i)
      BY <1>4 DEF recordRouteFailureWithLimit
    <2> QED BY <1>4, <2>1, ReleaseEmergencyShrinks DEF Reports, Settles, UnderRecovery
  <1> QED BY <1>2, <1>3, <1>4

\* recordPostCommitFailure adds no mark.
LEMMA PostCommitShrinks ==
  ASSUME NEW rt \in RouteStates, NEW g \in GroupStates, NEW i \in Items
  PROVE  /\ Shrinks(rt, recordPostCommitFailure(rt, g, i))
         /\ recordPostCommitFailure(rt, g, i).emCounts = groupRouteLocked(rt, g).emCounts
  <1> DEFINE rt1    == groupRouteLocked(rt, g)
             struck == [rt1 EXCEPT !.strikes[i] = @ + 1]
             cooled == [rt1 EXCEPT !.strikes[i] = 0, !.cooldown[i] = "cooling"]
  <1>1. Shrinks(rt, rt1) /\ rt1 \in RouteStates
    BY GroupRouteShrinks DEF Shrinks
  <1>2. \/ recordPostCommitFailure(rt, g, i) = rt1
        \/ recordPostCommitFailure(rt, g, i) = struck
        \/ recordPostCommitFailure(rt, g, i) = LeaveCurrent(cooled, i)
    BY DEF recordPostCommitFailure
  <1> HIDE DEF rt1
  <1>3. Shrinks(rt1, struck) /\ struck.emCounts = rt1.emCounts
    <2>1. [rt1.strikes EXCEPT ![i] = @ + 1] \in [Items -> Nat]
      BY <1>1 DEF RouteStates
    <2> QED BY <1>1, <2>1 DEF Shrinks, RouteStates
  <1>4. Shrinks(rt1, cooled) /\ cooled \in RouteStates /\ cooled.emCounts = rt1.emCounts
    <2>1. [rt1.strikes EXCEPT ![i] = 0] \in [Items -> Nat]
      BY <1>1 DEF RouteStates
    <2>2. [rt1.cooldown EXCEPT ![i] = "cooling"] \in [Items -> CooldownStates]
      BY <1>1 DEF RouteStates, CooldownStates
    <2> QED BY <1>1, <2>1, <2>2 DEF Shrinks, RouteStates
  <1> HIDE DEF struck, cooled
  <1>5. Shrinks(rt1, LeaveCurrent(cooled, i)) /\ LeaveCurrent(cooled, i).emCounts = rt1.emCounts
    BY <1>4, LeaveCurrentShrinks, ShrinksTrans
  <1>6. /\ Shrinks(rt, recordPostCommitFailure(rt, g, i))
        /\ recordPostCommitFailure(rt, g, i).emCounts = rt1.emCounts
    BY <1>1, <1>2, <1>3, <1>5, ShrinksTrans
  <1> QED BY <1>6 DEF rt1

---------------------------------------------------------------------------
(***************************************************************************)
(* The inductive invariant.  CandidateHeld and HalfOpenOwned are inductive *)
(* together with two facts about the code: a missing routes entry carries  *)
(* no mark, and a request probes a batch only from a failover copy of the  *)
(* group and is dispatched only on a member.                               *)
(***************************************************************************)
LiveHolds == ~route.live => route.probeItem = NoItem /\ route.halfOpens = {}
ReqShape ==
  \A r \in Requests :
    /\ req[r].pc = "probing" => Snap(r).mode = "failover"
    /\ req[r].pc \in {"inflight", "releasing"} => req[r].item \in Items

\* Request r answers for the mark of member i.
Owns(r, i) == Holder(r, i) \/ (req[r].pc = "probing" /\ i \in req[r].batch)

Marks == LiveHolds /\ ReqShape /\ CandidateHeld /\ HalfOpenOwned
IInv == TypeOK /\ Marks

\* The initial states satisfy the invariant.
LEMMA InitIInv == Init => IInv
  <1> SUFFICES ASSUME Init PROVE IInv
    OBVIOUS
  <1>1. EmptyRoute \in RouteStates /\ EmptyRoute.probeItem = NoItem /\ EmptyRoute.halfOpens = {}
    BY BoundsAssumption DEF EmptyRoute, RouteStates, NullItems, CooldownStates
  <1>2. InitGroup \in GroupStates
    BY ItemsAssumption DEF InitGroup, GroupStates, NullItems
  <1>3. FreshReq \in ReqStates /\ FreshReq.pc = "idle"
    BY <1>2 DEF FreshReq, ReqStates, ReqPCs, Holds, NullItems
  <1>4. TypeOK
    BY <1>1, <1>2, <1>3, BoundsAssumption DEF Init, TypeOK
  <1>5. Marks
    BY <1>1, <1>3 DEF Init, Marks, LiveHolds, ReqShape, CandidateHeld, HalfOpenOwned
  <1> QED BY <1>4, <1>5 DEF IInv

\* What TypeOK says about one request.
LEMMA ReqType ==
  ASSUME TypeOK, NEW r \in Requests
  PROVE  /\ req[r] \in ReqStates /\ Snap(r) \in GroupStates
         /\ req[r].item \in NullItems /\ req[r].batch \in SUBSET Items
  BY DEF TypeOK, ReqStates, Snap

\* A step that gives marks back and moves no request keeps Marks.
LEMMA ShrinkKeepsMarks ==
  ASSUME TypeOK, Marks, Shrinks(route, route'),
         probes' = probes, req' = req
  PROVE  Marks'
  BY DEF Marks, LiveHolds, ReqShape, CandidateHeld, HalfOpenOwned, Shrinks, Holder, Snap

\* Only request r moves.
Moves(r) ==
  /\ req' \in [Requests -> ReqStates]
  /\ \A q \in Requests \ {r} : req'[q] = req[q]

\* Request r is left answering for member i, by a report still to come.
StillHolds(r, i) ==
  req'[r].pc \in {"inflight", "releasing"} /\ req'[r].item = i /\ req'[r].snap.mode = "failover"

\* A request that moves on without starting a batch keeps Marks, provided it has settled
\* what it owned or still answers for it.
LEMMA MoveKeepsMarks ==
  ASSUME TypeOK, Marks, NEW r \in Requests, Moves(r), Shrinks(route, route'), probes' = probes,
         req'[r].pc # "probing",
         req'[r].pc \in {"inflight", "releasing"} => req'[r].item \in Items,
         \A i \in Items : Holder(r, i) => route'.probeItem # i \/ StillHolds(r, i),
         \A i \in Items : Owns(r, i) => i \notin route'.halfOpens \/ StillHolds(r, i)
  PROVE  Marks'
  <1>1. route'.halfOpens \subseteq Items /\ route'.probeItem \in NullItems
    BY DEF Shrinks, RouteStates
  <1>2. LiveHolds'
    BY DEF Marks, LiveHolds, Shrinks
  <1>3. ReqShape'
    BY DEF Marks, ReqShape, Moves, Snap
  <1>4. CandidateHeld'
    <2> SUFFICES ASSUME route'.probeItem # NoItem
                 PROVE  \E q \in Requests : Holder(q, route.probeItem)'
      BY DEF CandidateHeld
    <2>1. route'.probeItem = route.probeItem /\ route.probeItem \in Items
      BY <1>1 DEF Shrinks, NullItems
    <2>2. PICK q \in Requests : Holder(q, route.probeItem)
      BY <2>1 DEF Marks, CandidateHeld
    <2>3. CASE q = r
      BY <2>1, <2>2, <2>3 DEF StillHolds, Holder, Snap
    <2>4. CASE q # r
      BY <2>1, <2>2, <2>4 DEF Moves, Holder, Snap
    <2> QED BY <2>3, <2>4
  <1>5. HalfOpenOwned'
    <2> SUFFICES ASSUME NEW i \in route'.halfOpens, ~(probes'[i] > 0)
                 PROVE  \E q \in Requests : Owns(q, i)'
      BY DEF HalfOpenOwned, Owns
    <2>1. i \in route.halfOpens /\ i \in Items
      BY <1>1 DEF Shrinks
    <2>2. PICK q \in Requests : Owns(q, i)
      BY <2>1 DEF Marks, HalfOpenOwned, Owns
    <2>3. CASE q = r
      BY <2>1, <2>2, <2>3 DEF StillHolds, Owns, Holder, Snap
    <2>4. CASE q # r
      BY <2>1, <2>2, <2>4 DEF Moves, Owns, Holder, Snap
    <2> QED BY <2>3, <2>4
  <1> QED BY <1>2, <1>3, <1>4, <1>5 DEF Marks

\* A request that owns nothing may move on freely.
LEMMA FreeMoveKeepsMarks ==
  ASSUME TypeOK, Marks, NEW r \in Requests, Moves(r), Shrinks(route, route'), probes' = probes,
         req'[r].pc # "probing",
         req'[r].pc \in {"inflight", "releasing"} => req'[r].item \in Items,
         req[r].pc \notin {"inflight", "releasing", "probing"}
  PROVE  Marks'
  BY MoveKeepsMarks DEF Owns, Holder

\* Serve moves r onto member i.
LEMMA ServeMoves ==
  ASSUME TypeOK, NEW r \in Requests, NEW i \in Items, NEW hold \in Holds, Serve(r, i, hold)
  PROVE  /\ Moves(r) /\ req'[r].pc = "inflight" /\ req'[r].item = i
         /\ req'[r].snap = Snap(r)
  <1>1. req[r] \in ReqStates
    BY ReqType
  <1>2. [req[r] EXCEPT !.pc = "inflight", !.item = i, !.hold = hold, !.batch = {}, !.avoid = {}]
          \in ReqStates
    BY <1>1 DEF ReqStates, ReqPCs, NullItems
  <1> QED BY <1>1, <1>2 DEF Serve, Moves, TypeOK, Snap, ReqStates

\* GoTo moves r to another control point.
LEMMA GoToMoves ==
  ASSUME TypeOK, NEW r \in Requests, NEW pc \in ReqPCs, GoTo(r, pc)
  PROVE  /\ Moves(r) /\ req'[r].pc = pc /\ req'[r].item = req[r].item
         /\ req'[r].snap = Snap(r)
  <1>1. req[r] \in ReqStates
    BY ReqType
  <1>2. [req[r] EXCEPT !.pc = pc] \in ReqStates
    BY <1>1 DEF ReqStates
  <1> QED BY <1>1, <1>2 DEF GoTo, Moves, TypeOK, Snap, ReqStates

\* A fresh request record is one.
LEMMA FreshReqType == FreshReq \in ReqStates /\ FreshReq.pc = "idle"
  <1>1. InitGroup \in GroupStates
    BY ItemsAssumption DEF InitGroup, GroupStates, NullItems
  <1> QED BY <1>1 DEF FreshReq, ReqStates, ReqPCs, Holds, NullItems

\* EndRound takes r back to the top of the loop.
LEMMA EndRoundMoves ==
  ASSUME TypeOK, NEW r \in Requests, EndRound(r)
  PROVE  Moves(r) /\ req'[r].pc = "idle"
  <1> DEFINE it == IF "panic" \in Features THEN req[r].item ELSE NoItem
  <1>1. it \in NullItems
    BY ReqType DEF NullItems
  <1> HIDE DEF it
  <1>2. [FreshReq EXCEPT !.item = it] \in ReqStates /\ [FreshReq EXCEPT !.item = it].pc = "idle"
    BY <1>1, FreshReqType DEF ReqStates
  <1>3. req' = [req EXCEPT ![r] = [FreshReq EXCEPT !.item = it]]
    BY DEF EndRound, it
  <1> QED BY <1>2, <1>3 DEF Moves, TypeOK

\* The type invariant is kept by a step of one request that leaves the rest alone.
LEMMA MoveType ==
  ASSUME TypeOK, NEW r \in Requests, Moves(r), route' \in RouteStates,
         probes' \in [Items -> 0..MaxAsyncProbes], UNCHANGED <<bg, adminVars>>
  PROVE  TypeOK'
  BY DEF TypeOK, Moves, adminVars

---------------------------------------------------------------------------
(***************************************************************************)
(* One lemma per action that can add a mark or hand one over.              *)
(***************************************************************************)

\* The first section of a pick drops marks only.
LEMMA PickRouteShrinks ==
  ASSUME TypeOK, NEW r \in Requests, NEW skipped \in SUBSET Items
  PROVE  /\ Shrinks(route, Cleaned(r)) /\ Cleaned(r) \in RouteStates /\ Cleaned(r).live = TRUE
         /\ Shrinks(route, PickRoute(r, skipped)) /\ PickRoute(r, skipped) \in RouteStates
         /\ PickRoute(r, skipped).live = TRUE
         /\ PickRoute(r, skipped).probeItem = Cleaned(r).probeItem
         /\ PickRoute(r, skipped).emCounts = Cleaned(r).emCounts
  <1>1. Shrinks(route, Cleaned(r)) /\ Cleaned(r) \in RouteStates /\ Cleaned(r).live = TRUE
    BY ReqType, GroupRouteShrinks DEF TypeOK, Cleaned, Shrinks
  <1> DEFINE rt == Cleaned(r)
             dropped == [rt EXCEPT !.current = NoItem, !.affinity = FALSE, !.armed = FALSE]
  <1>2. PickRoute(r, skipped) = rt \/ PickRoute(r, skipped) = dropped
    BY DEF PickRoute
  <1> HIDE DEF rt
  <1>3. rt \in RouteStates /\ rt.live = TRUE /\ Shrinks(route, rt)
    BY <1>1 DEF rt
  <1>4. /\ Shrinks(rt, dropped) /\ dropped.probeItem = rt.probeItem /\ dropped.live = rt.live
        /\ dropped.emCounts = rt.emCounts
    BY <1>3 DEF Shrinks, RouteStates, NullItems
  <1> HIDE DEF dropped
  <1>5. Shrinks(route, dropped) /\ dropped \in RouteStates
    BY <1>3, <1>4, ShrinksTrans DEF Shrinks
  <1> QED BY <1>1, <1>2, <1>3, <1>4, <1>5 DEF rt

\* What a claim writes.
LEMMA ClaimWrites ==
  ASSUME NEW rt \in RouteStates, NEW S \in SUBSET Items
  PROVE  /\ claimHalfOpenLocked(rt, S) \in RouteStates
         /\ claimHalfOpenLocked(rt, S).halfOpens = rt.halfOpens \cup Claimable(rt, S)
         /\ claimHalfOpenLocked(rt, S).probeItem = rt.probeItem
         /\ claimHalfOpenLocked(rt, S).live = rt.live
         /\ claimHalfOpenLocked(rt, S).emCounts = rt.emCounts
  <1>1. Claimable(rt, S) \in SUBSET Items
    BY DEF Claimable
  <1> QED BY <1>1 DEF claimHalfOpenLocked, RouteStates

\* Members claimed for asynchronous probes are owned by their goroutines.
LEMMA StartProbesKeepsMarks ==
  ASSUME TypeOK, Marks, ReqShape', NEW rt \in RouteStates, NEW S \in SUBSET Items,
         Shrinks(route, rt), rt.live = TRUE, StartProbes(rt, S),
         route'.halfOpens = rt.halfOpens \cup Claimable(rt, S),
         route'.probeItem = rt.probeItem, route'.live = TRUE,
         \A q \in Requests, i \in Items : Holder(q, i) => Holder(q, i)',
         \A q \in Requests, i \in Items : Owns(q, i) => Owns(q, i)'
  PROVE  Marks' /\ probes' \in [Items -> 0..MaxAsyncProbes]
  <1>1. probes \in [Items -> 0..MaxAsyncProbes] /\ Claimable(rt, S) \subseteq Items
    BY DEF TypeOK, Claimable
  <1>2. probes' \in [Items -> 0..MaxAsyncProbes]
    BY <1>1, BoundsAssumption DEF StartProbes
  <1>3. \A i \in Items : /\ probes[i] > 0 => probes'[i] > 0
                         /\ i \in Claimable(rt, S) => probes'[i] > 0
    BY <1>1, BoundsAssumption DEF StartProbes
  <1>4. CandidateHeld'
    <2> SUFFICES ASSUME route'.probeItem # NoItem
                 PROVE  \E q \in Requests : Holder(q, route.probeItem)'
      BY DEF CandidateHeld
    <2>1. route'.probeItem = route.probeItem /\ route.probeItem \in Items
      BY DEF Shrinks, RouteStates, NullItems
    <2>2. PICK q \in Requests : Holder(q, route.probeItem)
      BY <2>1 DEF Marks, CandidateHeld
    <2>3. Holder(q, route.probeItem)'
      BY <2>1, <2>2 DEF Holder
    <2> QED BY <2>3
  <1>5. HalfOpenOwned'
    <2> SUFFICES ASSUME NEW i \in route'.halfOpens, ~(probes'[i] > 0)
                 PROVE  \E q \in Requests : Owns(q, i)'
      BY DEF HalfOpenOwned, Owns
    <2>1. i \in Items /\ i \in route.halfOpens /\ ~(probes[i] > 0)
      BY <1>1, <1>3 DEF Shrinks, RouteStates
    <2> QED BY <2>1 DEF Marks, HalfOpenOwned, Owns
  <1> QED BY <1>2, <1>4, <1>5 DEF Marks, LiveHolds

\* PickClosed starts probes and takes the first CLOSED member.
LEMMA PickClosedKeeps ==
  ASSUME IInv, NEW r \in Requests, PickClosed(r)
  PROVE  IInv'
  <1> USE DEF IInv
  <1>1. PICK exclude \in NullItems, skipped \in SUBSET Items, native \in NativeSets :
          LET rt  == PickRoute(r, skipped)
              use == Usable(r, skipped \cup {exclude})
          IN \E sel \in Closed(rt, use) :
               LET met == {i \in Expired(rt, use) : Before(native, i, sel)}
               IN /\ StartProbes(rt, met)
                  /\ route' = [claimHalfOpenLocked(rt, met) EXCEPT !.current = sel]
                  /\ Serve(r, sel, "regular")
    BY DEF PickClosed
  <1> DEFINE rt  == PickRoute(r, skipped)
             use == Usable(r, skipped \cup {exclude})
  <1>2. PICK sel \in Closed(rt, use) :
          LET met == {i \in Expired(rt, use) : Before(native, i, sel)}
          IN /\ StartProbes(rt, met)
             /\ route' = [claimHalfOpenLocked(rt, met) EXCEPT !.current = sel]
             /\ Serve(r, sel, "regular")
    BY <1>1
  <1> DEFINE met == {i \in Expired(rt, use) : Before(native, i, sel)}
  <1>3. sel \in Items /\ met \in SUBSET Items
    BY ReqType DEF Closed, Expired, Usable, GroupStates
  <1>4. rt \in RouteStates /\ Shrinks(route, rt) /\ rt.live = TRUE
    BY PickRouteShrinks
  <1>5. /\ StartProbes(rt, met) /\ Serve(r, sel, "regular")
        /\ route' = [claimHalfOpenLocked(rt, met) EXCEPT !.current = sel]
    BY <1>2
  <1> HIDE DEF rt, met
  <1>6. /\ route' \in RouteStates /\ route'.halfOpens = rt.halfOpens \cup Claimable(rt, met)
        /\ route'.probeItem = rt.probeItem /\ route'.live = TRUE
    BY <1>3, <1>4, <1>5, ClaimWrites DEF RouteStates, NullItems
  <1>7. /\ Moves(r) /\ req'[r].pc = "inflight" /\ req'[r].item \in Items
        /\ req[r].pc = "read"
    BY <1>3, <1>5, ServeMoves DEF PickClosed, Picking, Holds
  <1>8. ReqShape'
    BY <1>7 DEF Marks, ReqShape, Moves, Snap
  <1>9. /\ \A q \in Requests, i \in Items : Holder(q, i) => Holder(q, i)'
        /\ \A q \in Requests, i \in Items : Owns(q, i) => Owns(q, i)'
    BY <1>7 DEF Holder, Owns, Moves, Snap
  <1>10. Marks' /\ probes' \in [Items -> 0..MaxAsyncProbes]
    BY <1>3, <1>4, <1>5, <1>6, <1>8, <1>9, StartProbesKeepsMarks
  <1>11. TypeOK'
    BY <1>6, <1>7, <1>10, MoveType DEF PickClosed
  <1> QED BY <1>10, <1>11

\* PickBatch makes r the owner of every member it claims.
LEMMA PickBatchKeeps ==
  ASSUME IInv, NEW r \in Requests, PickBatch(r)
  PROVE  IInv'
  <1> USE DEF IInv
  <1>1. PICK exclude \in NullItems, skipped \in SUBSET Items :
          LET rt  == PickRoute(r, skipped)
              av  == skipped \cup {exclude}
              ex  == Expired(rt, Usable(r, av))
          IN /\ route' = claimHalfOpenLocked(rt, ex)
             /\ req' = [req EXCEPT ![r].pc = "probing", ![r].batch = ex,
                                    ![r].avoid = av \cap Items]
    BY DEF PickBatch
  <1> DEFINE rt == PickRoute(r, skipped)
             av == skipped \cup {exclude}
             ex == Expired(rt, Usable(r, av))
  <1>2. /\ route' = claimHalfOpenLocked(rt, ex)
        /\ req' = [req EXCEPT ![r].pc = "probing", ![r].batch = ex, ![r].avoid = av \cap Items]
    BY <1>1
  <1>3. ex \in SUBSET Items /\ av \cap Items \in SUBSET Items
    BY ReqType DEF Expired, Usable, GroupStates
  <1>4. /\ rt \in RouteStates /\ Shrinks(route, rt) /\ rt.live = TRUE
        /\ rt.probeItem = Cleaned(r).probeItem
    BY PickRouteShrinks
  <1>5. rt.probeItem = NoItem /\ req[r].pc = "read" /\ Snap(r).mode = "failover"
    BY <1>4 DEF PickBatch, Picking
  <1> HIDE DEF rt, ex, av
  <1>6. /\ route' \in RouteStates /\ route'.halfOpens \subseteq rt.halfOpens \cup ex
        /\ route'.probeItem = NoItem /\ route'.live = TRUE
    BY <1>2, <1>3, <1>4, <1>5, ClaimWrites DEF Claimable
  <1>7. /\ Moves(r) /\ req'[r].pc = "probing" /\ req'[r].batch = ex /\ req'[r].snap = Snap(r)
    <2>1. req[r] \in ReqStates
      BY ReqType
    <2>2. [req[r] EXCEPT !.pc = "probing", !.batch = ex, !.avoid = av \cap Items] \in ReqStates
      BY <1>3, <2>1 DEF ReqStates, ReqPCs
    <2>3. req' = [req EXCEPT ![r] = [req[r] EXCEPT !.pc = "probing", !.batch = ex,
                                                   !.avoid = av \cap Items]]
      BY <1>2, <2>1 DEF TypeOK, ReqStates
    <2> QED BY <2>1, <2>2, <2>3 DEF Moves, TypeOK, Snap, ReqStates
  <1>8. ReqShape'
    BY <1>5, <1>7 DEF Marks, ReqShape, Moves, Snap
  <1>9. HalfOpenOwned'
    <2> SUFFICES ASSUME NEW i \in route'.halfOpens, ~(probes'[i] > 0)
                 PROVE  \E q \in Requests : Owns(q, i)'
      BY DEF HalfOpenOwned, Owns
    <2>1. CASE i \in ex
      BY <1>7, <2>1 DEF Owns
    <2>2. CASE i \in rt.halfOpens
      <3>1. i \in route.halfOpens /\ ~(probes[i] > 0)
        BY <1>4, <2>2 DEF Shrinks, PickBatch
      <3>2. PICK q \in Requests : Owns(q, i)
        BY <3>1 DEF Marks, HalfOpenOwned, Owns
      <3>3. q # r
        BY <1>5, <3>2 DEF Owns, Holder
      <3> QED BY <1>7, <3>2, <3>3 DEF Moves, Owns, Holder, Snap
    <2> QED BY <1>6, <2>1, <2>2
  <1>10. Marks'
    BY <1>6, <1>8, <1>9 DEF Marks, LiveHolds, CandidateHeld
  <1>11. TypeOK'
    BY <1>6, <1>7, MoveType DEF PickBatch, TypeOK
  <1> QED BY <1>10, <1>11

\* A lost batch gives all its marks back.
LEMMA BatchLoseKeeps ==
  ASSUME IInv, NEW r \in Requests, NEW rt \in RouteStates, BatchLose(r, rt),
         Shrinks(route, rt), rt.halfOpens = route.halfOpens \ req[r].batch
  PROVE  IInv'
  <1> USE DEF IInv
  <1>1. Moves(r) /\ req'[r].pc = "claiming"
    <2>1. req[r] \in ReqStates
      BY ReqType
    <2>2. [req[r] EXCEPT !.pc = "claiming", !.batch = {}] \in ReqStates
      BY <2>1 DEF ReqStates, ReqPCs
    <2>3. req' = [req EXCEPT ![r] = [req[r] EXCEPT !.pc = "claiming", !.batch = {}]]
      BY <2>1 DEF BatchLose, TypeOK, ReqStates
    <2> QED BY <2>1, <2>2, <2>3 DEF Moves, TypeOK, ReqStates
  <1>2. Shrinks(route, route')
    BY ShrinksRefl DEF BatchLose, TypeOK
  <1>3. \A i \in Items : ~Holder(r, i)
    BY DEF BatchLose, Holder
  <1>4. \A i \in req[r].batch : i \notin route'.halfOpens
    BY DEF BatchLose, Marks, LiveHolds
  <1>5. Marks'
    BY <1>1, <1>2, <1>3, <1>4, MoveKeepsMarks DEF BatchLose, Owns
  <1>6. TypeOK'
    BY <1>1, <1>2, MoveType DEF BatchLose, Shrinks, TypeOK
  <1> QED BY <1>5, <1>6

\* A won batch gives back the marks of the losers and makes r answer for the winner.
LEMMA BatchWinKeeps ==
  ASSUME IInv, NEW r \in Requests, NEW w \in Items, BatchWin(r, w)
  PROVE  IInv'
  <1> USE DEF IInv
  <1>1. CASE ~route.live
    <2>1. BatchLose(r, route)
      BY <1>1 DEF BatchWin, BatchLose
    <2> QED BY <1>1, <2>1, ShrinksRefl, BatchLoseKeeps DEF Marks, LiveHolds, TypeOK
  <1>2. CASE route.live
    <2>1. /\ route' = [route EXCEPT !.halfOpens = @ \ (req[r].batch \ {w}), !.probeItem = w]
          /\ Serve(r, w, "candidate") /\ req[r].pc = "probing"
      BY <1>2 DEF BatchWin
    <2>2. /\ route' \in RouteStates /\ route'.probeItem = w /\ route'.live = route.live
          /\ route'.halfOpens = route.halfOpens \ (req[r].batch \ {w})
      BY <2>1 DEF TypeOK, RouteStates, NullItems
    <2>3. /\ Moves(r) /\ req'[r].pc = "inflight" /\ req'[r].item = w /\ req'[r].snap = Snap(r)
      BY <2>1, ServeMoves DEF Holds
    <2>4. Snap(r).mode = "failover"
      BY <2>1 DEF Marks, ReqShape
    <2>5. Holder(r, w)'
      BY <2>3, <2>4 DEF Holder, Snap
    <2>6. HalfOpenOwned'
      <3> SUFFICES ASSUME NEW i \in route'.halfOpens, ~(probes'[i] > 0)
                   PROVE  \E q \in Requests : Owns(q, i)'
        BY DEF HalfOpenOwned, Owns
      <3>1. CASE i = w
        BY <2>5, <3>1 DEF Owns, Holder, Snap
      <3>2. CASE i # w
        <4>1. i \in route.halfOpens /\ ~(probes[i] > 0) /\ i \notin req[r].batch
          BY <2>2, <3>2 DEF BatchWin
        <4>2. PICK q \in Requests : Owns(q, i)
          BY <4>1 DEF Marks, HalfOpenOwned, Owns
        <4>3. q # r
          BY <2>1, <4>1, <4>2 DEF Owns, Holder
        <4> QED BY <2>3, <4>2, <4>3 DEF Moves, Owns, Holder, Snap
      <3> QED BY <3>1, <3>2
    <2>7. CandidateHeld'
      <3>1. Holder(r, route.probeItem)'
        BY <2>2, <2>5 DEF Holder, Snap
      <3> QED BY <3>1 DEF CandidateHeld
    <2>8. ReqShape'
      BY <2>3 DEF Marks, ReqShape, Moves, Snap
    <2>9. Marks'
      BY <1>2, <2>2, <2>6, <2>7, <2>8 DEF Marks, LiveHolds
    <2>10. TypeOK'
      BY <2>2, <2>3, MoveType DEF BatchWin, TypeOK
    <2> QED BY <2>9, <2>10
  <1> QED BY <1>1, <1>2

\* An async probe that ends has given its member's mark back.
LEMMA AsyncProbeDoneKeeps ==
  ASSUME IInv, NEW i \in Items, NEW ok \in BOOLEAN, AsyncProbeDone(i, ok)
  PROVE  IInv'
  <1> USE DEF IInv
  <1>1. Shrinks(route, route') /\ i \notin route'.halfOpens
    <2>1. CASE ~route.live \/ i \notin route.halfOpens
      BY <2>1, ShrinksRefl DEF AsyncProbeDone, Marks, LiveHolds, TypeOK
    <2>2. CASE ~(~route.live \/ i \notin route.halfOpens) /\ ok
      BY <2>2, RestoreShrinks DEF AsyncProbeDone, TypeOK
    <2>3. CASE ~(~route.live \/ i \notin route.halfOpens) /\ ~ok
      BY <2>3, ReopenShrinks DEF AsyncProbeDone, TypeOK
    <2> QED BY <2>1, <2>2, <2>3
  <1>2. probes' \in [Items -> 0..MaxAsyncProbes] /\ \A j \in Items \ {i} : probes'[j] = probes[j]
    BY BoundsAssumption DEF AsyncProbeDone, TypeOK
  <1>3. TypeOK'
    BY <1>1, <1>2 DEF AsyncProbeDone, TypeOK, adminVars, Shrinks
  <1>4. HalfOpenOwned'
    <2> SUFFICES ASSUME NEW j \in route'.halfOpens, ~(probes'[j] > 0)
                 PROVE  \E q \in Requests : Owns(q, j)'
      BY DEF HalfOpenOwned, Owns
    <2>1. j \in route.halfOpens /\ j \in Items \ {i}
      BY <1>1 DEF Shrinks, RouteStates
    <2>2. ~(probes[j] > 0)
      BY <1>2, <2>1
    <2> QED BY <2>1, <2>2 DEF Marks, HalfOpenOwned, Owns, Holder, Snap, AsyncProbeDone
  <1>5. Marks'
    BY <1>1, <1>4
    DEF Marks, LiveHolds, ReqShape, CandidateHeld, Shrinks, AsyncProbeDone, Holder, Snap
  <1> QED BY <1>3, <1>5

\* The background prober starts probes for the members of its copy of the group.
LEMMA ProbeExpiredItemsKeeps ==
  ASSUME IInv, ProbeExpiredItems
  PROVE  IInv'
  <1> USE DEF IInv
  <1>1. PICK g \in bg :
          LET rt == groupRouteLocked(route, g)
          IN /\ StartProbes(rt, g.members)
             /\ route' = claimHalfOpenLocked(rt, g.members)
             /\ bg' = {} /\ UNCHANGED <<req, adminVars>>
    BY DEF ProbeExpiredItems
  <1> DEFINE rt == groupRouteLocked(route, g)
  <1>2. g \in GroupStates /\ g.members \in SUBSET Items
    BY DEF TypeOK, GroupStates
  <1>3. rt \in RouteStates /\ Shrinks(route, rt) /\ rt.live = TRUE
    BY <1>2, GroupRouteShrinks DEF TypeOK, Shrinks
  <1>4. /\ StartProbes(rt, g.members) /\ route' = claimHalfOpenLocked(rt, g.members)
        /\ bg' = {} /\ UNCHANGED <<req, adminVars>>
    BY <1>1
  <1> HIDE DEF rt
  <1>5. /\ route' \in RouteStates /\ route'.halfOpens = rt.halfOpens \cup Claimable(rt, g.members)
        /\ route'.probeItem = rt.probeItem /\ route'.live = TRUE
    BY <1>2, <1>3, <1>4, ClaimWrites
  <1>6. /\ ReqShape'
        /\ \A q \in Requests, i \in Items : Holder(q, i) => Holder(q, i)'
        /\ \A q \in Requests, i \in Items : Owns(q, i) => Owns(q, i)'
    BY <1>4 DEF Marks, ReqShape, Holder, Owns, Snap
  <1>7. Marks' /\ probes' \in [Items -> 0..MaxAsyncProbes]
    BY <1>2, <1>3, <1>4, <1>5, <1>6, StartProbesKeepsMarks
  <1>8. TypeOK'
    BY <1>4, <1>5, <1>7 DEF TypeOK, adminVars
  <1> QED BY <1>7, <1>8

---------------------------------------------------------------------------
(***************************************************************************)
(* The other actions only give marks back.                                 *)
(***************************************************************************)

\* Picks that claim nothing, and the steps between a pick and a dispatch.
LEMMA QuietPickKeeps ==
  ASSUME IInv, NEW r \in Requests,
         \/ PickManual(r) \/ (\E i \in Items : PickSticky(r, i)) \/ PickBehindCandidate(r)
         \/ PickAffinity(r) \/ PickNothing(r) \/ ReadGroup(r) \/ WaitAndRescan(r)
         \/ AutoClearCheck(r) \/ AutoClear(r) \/ ClaimEmergency(r) \/ Finish(r)
  PROVE  IInv'
  <1> USE DEF IInv
  <1> SUFFICES /\ Moves(r) /\ req'[r].pc # "probing"
               /\ req'[r].pc \in {"inflight", "releasing"} => req'[r].item \in Items
               /\ req[r].pc \notin {"inflight", "releasing", "probing"}
               /\ Shrinks(route, route') /\ probes' = probes /\ UNCHANGED <<bg, adminVars>>
    <2>1. route' \in RouteStates /\ probes' \in [Items -> 0..MaxAsyncProbes]
      BY DEF Shrinks, TypeOK
    <2> QED BY <2>1, FreeMoveKeepsMarks, MoveType
  <1>t. /\ route \in RouteStates /\ req[r] \in ReqStates /\ Snap(r) \in GroupStates
        /\ Snap(r).members \in SUBSET Items
    BY ReqType DEF TypeOK, GroupStates
  <1>p. {"idle", "read", "claiming", "empty", "clearing"} \subseteq ReqPCs /\ Holds = {"none", "regular", "candidate", "emergency"}
    BY DEF ReqPCs, Holds
  <1>1. CASE PickManual(r)
    <2>1. PICK avoid \in SUBSET Items :
            IF Snap(r).active \in (Snap(r).members \ avoid) \ disabled
            THEN Serve(r, Snap(r).active, "regular")
            ELSE GoTo(r, "empty")
      BY <1>1 DEF PickManual
    <2>2. CASE Snap(r).active \in (Snap(r).members \ avoid) \ disabled
      BY <1>t, <1>p, <1>1, <2>1, <2>2, ServeMoves, ShrinksRefl DEF PickManual
    <2>3. CASE Snap(r).active \notin (Snap(r).members \ avoid) \ disabled
      BY <1>t, <1>p, <1>1, <2>1, <2>3, GoToMoves, ShrinksRefl DEF PickManual
    <2> QED BY <2>2, <2>3
  <1>2. CASE \E i \in Items : PickSticky(r, i)
    BY <1>t, <1>p, <1>2, ServeMoves, ShrinksRefl DEF PickSticky
  <1>3. CASE PickBehindCandidate(r)
    BY <1>t, <1>p, <1>3, GoToMoves, PickRouteShrinks DEF PickBehindCandidate, Picking
  <1>4. CASE PickAffinity(r)
    <2>1. PICK exclude \in NullItems, skipped \in SUBSET Items :
            /\ AffinityServes(PickRoute(r, skipped), r, skipped \cup {exclude})
            /\ route' = PickRoute(r, skipped)
            /\ Serve(r, PickRoute(r, skipped).current, "regular")
      BY <1>4 DEF PickAffinity
    <2>2. PickRoute(r, skipped).current \in Items
      BY <1>t, <2>1 DEF AffinityServes
    <2> QED BY <1>4, <1>p, <2>1, <2>2, ServeMoves, PickRouteShrinks DEF PickAffinity, Picking
  <1>5. CASE PickNothing(r)
    <2>1. PICK exclude \in NullItems, skipped \in SUBSET Items :
            /\ route' = PickRoute(r, skipped)
            /\ req' = [req EXCEPT ![r].pc = "claiming",
                                   ![r].avoid = (skipped \cup {exclude}) \cap Items]
      BY <1>5 DEF PickNothing
    <2> DEFINE av == (skipped \cup {exclude}) \cap Items
    <2>2. [req[r] EXCEPT !.pc = "claiming", !.avoid = av] \in ReqStates
      BY <1>t, <1>p DEF ReqStates
    <2>3. req' = [req EXCEPT ![r] = [req[r] EXCEPT !.pc = "claiming", !.avoid = av]]
      BY <1>t, <2>1 DEF TypeOK, ReqStates
    <2>4. Moves(r) /\ req'[r].pc = "claiming"
      BY <1>t, <2>2, <2>3 DEF Moves, TypeOK, ReqStates
    <2> QED BY <1>5, <2>1, <2>4, PickRouteShrinks DEF PickNothing, Picking
  <1>6. CASE ReadGroup(r)
    <2>1. [req[r] EXCEPT !.pc = "read", !.snap = group] \in ReqStates
      BY <1>t, <1>p DEF ReqStates, TypeOK
    <2>2. req' = [req EXCEPT ![r] = [req[r] EXCEPT !.pc = "read", !.snap = group]]
      BY <1>t, <1>6 DEF ReadGroup, TypeOK, ReqStates
    <2>3. Moves(r) /\ req'[r].pc = "read"
      BY <1>t, <2>1, <2>2 DEF Moves, TypeOK, ReqStates
    <2> QED BY <1>t, <1>6, <2>3, ShrinksRefl DEF ReadGroup
  <1>7. CASE WaitAndRescan(r)
    BY <1>t, <1>7, EndRoundMoves, ShrinksRefl DEF WaitAndRescan
  <1>8. CASE AutoClearCheck(r)
    BY <1>t, <1>p, <1>8, GoToMoves, ShrinksRefl DEF AutoClearCheck
  <1>9. CASE AutoClear(r)
    BY <1>t, <1>9, EndRoundMoves, ShrinksRefl, ResetShrinks DEF AutoClear
  <1>10. CASE ClaimEmergency(r)
    <2>1. Shrinks(route, Cleaned(r)) /\ Cleaned(r) \in RouteStates
      BY PickRouteShrinks
    <2>2. CASE EmergencyOpen(Cleaned(r), Snap(r), req[r].avoid)
      <3>1. Snap(r).emergency \in Items
        BY <1>t, <2>2 DEF EmergencyOpen
      <3>2. Shrinks(Cleaned(r), claimEmergencyLocked(Cleaned(r), Snap(r)))
        BY <2>1, <3>1, ClaimEmergencyShrinks
      <3>3. Serve(r, Snap(r).emergency, "emergency")
        BY <1>10, <2>2 DEF ClaimEmergency
      <3>4. route' = claimEmergencyLocked(Cleaned(r), Snap(r))
        BY <1>10, <2>2 DEF ClaimEmergency
      <3>5. Shrinks(route, route')
        BY <2>1, <3>2, <3>4, ShrinksTrans
      <3> QED BY <1>10, <1>p, <3>1, <3>3, <3>5, ServeMoves DEF ClaimEmergency
    <2>3. CASE ~EmergencyOpen(Cleaned(r), Snap(r), req[r].avoid)
      <3>1. req' = [req EXCEPT ![r] = [req[r] EXCEPT !.pc = "empty", !.avoid = {}]]
        BY <1>t, <1>10, <2>3 DEF ClaimEmergency, TypeOK, ReqStates
      <3>2. [req[r] EXCEPT !.pc = "empty", !.avoid = {}] \in ReqStates
        BY <1>t, <1>p DEF ReqStates
      <3>3. Moves(r) /\ req'[r].pc = "empty"
        BY <1>t, <3>1, <3>2 DEF Moves, TypeOK, ReqStates
      <3> QED BY <1>10, <2>1, <2>3, <3>3 DEF ClaimEmergency
    <2> QED BY <2>2, <2>3
  <1>11. CASE Finish(r)
    <2>1. Moves(r) /\ req'[r].pc = "idle"
      BY <1>11, FreshReqType DEF Finish, Moves, TypeOK
    <2> QED BY <1>t, <1>11, <2>1, ShrinksRefl DEF Finish
  <1> QED BY <1>1, <1>2, <1>3, <1>4, <1>5, <1>6, <1>7, <1>8, <1>9, <1>10, <1>11

\* A report settles the member it is about, or finds no entry to report to.
LEMMA ReportKeeps ==
  ASSUME IInv, NEW r \in Requests, req[r].pc \in {"inflight", "releasing"},
         Moves(r), req'[r].pc = "idle", UNCHANGED <<probes, bg, adminVars>>,
         Shrinks(route, route'),
         \/ ~route.live
         \/ Snap(r).mode # "failover"
         \/ route'.probeItem # req[r].item /\ req[r].item \notin route'.halfOpens
  PROVE  IInv'
  <1> USE DEF IInv
  <1>1. \A i \in Items : Owns(r, i) => i \notin route'.halfOpens
    BY DEF Owns, Holder, Marks, LiveHolds, Shrinks
  <1>2. \A i \in Items : Holder(r, i) => route'.probeItem # i
    BY ItemsAssumption DEF Holder, Marks, LiveHolds, Shrinks
  <1>3. Marks'
    BY <1>1, <1>2, MoveKeepsMarks
  <1>4. TypeOK'
    BY MoveType DEF Shrinks, TypeOK
  <1> QED BY <1>3, <1>4

\* The outcomes of a dispatched round.
LEMMA OutcomeKeeps ==
  ASSUME IInv, NEW r \in Requests, Outcome(r)
  PROVE  IInv'
  <1> USE DEF IInv
  <1> DEFINE i == req[r].item
  <1>t. route \in RouteStates /\ Snap(r) \in GroupStates /\ "releasing" \in ReqPCs
    BY ReqType DEF TypeOK, ReqPCs
  <1>i. i \in Items
    BY DEF Outcome, Success, Failure, Release, PostCommitFailure, Marks, ReqShape
  <1>1. CASE Success(r)
    <2>1. route' = IF route.live /\ Snap(r).mode = "failover"
                   THEN recordRouteSuccess(route, i) ELSE route
      BY <1>1 DEF Success, Report
    <2>2. Settles(route, recordRouteSuccess(route, i), i)
      BY <1>t, <1>i, SuccessSettles DEF Reports
    <2>3. Moves(r) /\ req'[r].pc = "idle" /\ UNCHANGED <<probes, bg, adminVars>>
      BY <1>1, EndRoundMoves DEF Success
    <2> QED BY <1>t, <1>1, <2>1, <2>2, <2>3, ShrinksRefl, ReportKeeps DEF Settles, Success
  <1>2. CASE Failure(r)
    <2>0. PICK reached \in BOOLEAN :
            Report(r, recordRouteFailureWithLimit(route, req[r].item, reached))
      BY <1>2 DEF Failure
    <2>1. route' = IF route.live /\ Snap(r).mode = "failover"
                   THEN recordRouteFailureWithLimit(route, i, reached) ELSE route
      BY <2>0 DEF Report
    <2>2. Settles(route, recordRouteFailureWithLimit(route, i, reached), i)
      BY <1>t, <1>i, FailureSettles DEF Reports
    <2>3. Moves(r) /\ req'[r].pc = "idle" /\ UNCHANGED <<probes, bg, adminVars>>
      BY <1>2, EndRoundMoves DEF Failure
    <2> QED BY <1>t, <1>2, <2>1, <2>2, <2>3, ShrinksRefl, ReportKeeps DEF Settles, Failure
  <1>3. CASE Release(r)
    <2>1. route' = IF route.live THEN releaseRouteProbe(route, i) ELSE route
      BY <1>3 DEF Release
    <2>2. Settles(route, releaseRouteProbe(route, i), i)
      BY <1>t, <1>i, ReleaseSettles DEF Reports
    <2>3. Moves(r) /\ req'[r].pc = "idle" /\ UNCHANGED <<probes, bg, adminVars>>
      BY <1>3, EndRoundMoves DEF Release
    <2> QED BY <1>t, <1>3, <2>1, <2>2, <2>3, ShrinksRefl, ReportKeeps DEF Settles, Release
  <1>4. CASE PostCommitFailure(r)
    <2>1. Shrinks(route, route')
      BY <1>t, <1>i, <1>4, PostCommitShrinks, ShrinksRefl DEF PostCommitFailure
    <2>2. /\ Moves(r) /\ req'[r].pc = "releasing" /\ req'[r].item = i
          /\ req'[r].snap = Snap(r)
      BY <1>t, <1>4, GoToMoves DEF PostCommitFailure
    <2>3. \A j \in Items : Owns(r, j) => StillHolds(r, j)
      BY <1>4, <2>2 DEF Owns, Holder, StillHolds, PostCommitFailure
    <2>4. \A j \in Items : Holder(r, j) => StillHolds(r, j)
      BY <2>3 DEF Owns
    <2>5. Marks'
      BY <1>i, <1>4, <2>1, <2>2, <2>3, <2>4, MoveKeepsMarks DEF PostCommitFailure
    <2>6. TypeOK'
      BY <1>4, <2>1, <2>2, MoveType DEF PostCommitFailure, Shrinks, TypeOK
    <2> QED BY <2>5, <2>6
  <1> QED BY <1>1, <1>2, <1>3, <1>4 DEF Outcome

\* The recover handler gives back the mark of the hop it still knows.
LEMMA PanicKeeps ==
  ASSUME IInv, NEW r \in Requests, releaseRefChainProbeHolds(r)
  PROVE  IInv'
  <1> USE DEF IInv
  <1> DEFINE i == req[r].item
  <1>1. i \in Items
    BY ReqType DEF releaseRefChainProbeHolds, NullItems
  <1>2. Settles(route, DropHold(route, i), i)
    BY <1>1, DropHoldSettles DEF TypeOK
  <1>3. Shrinks(route, route') /\ (~route.live \/ (route'.probeItem # i /\ i \notin route'.halfOpens))
    BY <1>2, ShrinksRefl DEF releaseRefChainProbeHolds, Settles, TypeOK
  <1>4. Moves(r) /\ req'[r].pc = "idle"
    BY FreshReqType DEF releaseRefChainProbeHolds, Moves, TypeOK
  <1>5. CASE req[r].pc \in {"inflight", "releasing"}
    BY <1>3, <1>4, <1>5, ReportKeeps DEF releaseRefChainProbeHolds
  <1>6. CASE req[r].pc \notin {"inflight", "releasing"}
    <2>1. Marks'
      BY <1>3, <1>4, <1>6, FreeMoveKeepsMarks DEF releaseRefChainProbeHolds
    <2>2. TypeOK'
      BY <1>3, <1>4, MoveType DEF releaseRefChainProbeHolds, Shrinks, TypeOK
    <2> QED BY <2>1, <2>2
  <1> QED BY <1>5, <1>6

\* The clock, the administrator and the background reader move no request.
LEMMA EnvironmentKeeps ==
  ASSUME IInv, Clock \/ Admin \/ BackgroundRead
  PROVE  IInv'
  <1> USE DEF IInv
  <1>r. route \in RouteStates /\ group \in GroupStates
    BY DEF TypeOK
  <1>1. ASSUME Shrinks(route, route'), UNCHANGED <<req, probes>>,
               group' \in GroupStates, phase' \in {"present", "deleting", "removed"},
               gone' \in SUBSET Items, disabled' \in SUBSET Items, bg' \in SUBSET GroupStates
        PROVE  IInv'
    <2>1. Marks'
      BY <1>1, ShrinkKeepsMarks
    <2>2. TypeOK'
      BY <1>1 DEF TypeOK, Shrinks
    <2> QED BY <2>1, <2>2
  <1>2. CASE Clock
    <2>1. Shrinks(route, route')
      <3>1. CASE AffinityExpire
        BY <1>r, <3>1 DEF AffinityExpire, Shrinks, RouteStates
      <3>2. ASSUME NEW i \in Items, Expire(i) PROVE Shrinks(route, route')
        <4>1. [route.cooldown EXCEPT ![i] = "expired"] \in [Items -> CooldownStates]
          BY <1>r DEF RouteStates, CooldownStates
        <4> QED BY <1>r, <3>2, <4>1 DEF Expire, Shrinks, RouteStates
      <3>3. ASSUME NEW i \in Items, BlockExpire(i) PROVE Shrinks(route, route')
        BY <1>r, <3>3 DEF BlockExpire, Shrinks, RouteStates
      <3> QED BY <1>2, <3>1, <3>2, <3>3 DEF Clock
    <2>2. UNCHANGED <<req, probes, bg, group, phase, gone, disabled>>
      BY <1>2 DEF Clock, AffinityExpire, Expire, BlockExpire, adminVars
    <2> QED BY <1>1, <2>1, <2>2 DEF TypeOK
  <1>3. CASE BackgroundRead
    BY <1>r, <1>1, <1>3, ShrinksRefl DEF BackgroundRead, adminVars, TypeOK
  <1>4. CASE ResetCooldown
    BY <1>r, <1>1, <1>4, ResetShrinks DEF ResetCooldown, adminVars, TypeOK
  <1>5. ASSUME NEW i \in Items, RemoveMember(i) \/ AddMember(i) \/ ToggleDisabled(i) PROVE IInv'
    <2>1. group' \in GroupStates
      <3>1. CASE RemoveMember(i)
        <4>1. group.members \ {i} \in SUBSET Items
              /\ (IF group.active = i THEN NoItem ELSE group.active) \in NullItems
          BY <1>r DEF GroupStates, NullItems
        <4> QED BY <1>r, <3>1, <4>1 DEF RemoveMember, GroupStates
      <3> QED BY <1>r, <1>5, <3>1 DEF AddMember, ToggleDisabled, GroupStates
    <2>2. gone' \in SUBSET Items /\ disabled' \in SUBSET Items
      BY <1>5 DEF RemoveMember, AddMember, ToggleDisabled, TypeOK
    <2>3. UNCHANGED <<route, req, probes, bg, phase>>
      BY <1>5 DEF RemoveMember, AddMember, ToggleDisabled
    <2> QED BY <1>r, <1>1, <2>1, <2>2, <2>3, ShrinksRefl DEF TypeOK
  <1>6. ASSUME NEW m \in {"failover", "manual"}, NEW i \in NullItems,
               SetMode(m) \/ GroupActiveItemUpdate(i) \/ SetEmergency(i)
        PROVE  IInv'
    <2>1. group' \in GroupStates
      BY <1>r, <1>6 DEF SetMode, GroupActiveItemUpdate, SetEmergency, GroupStates
    <2> QED BY <1>r, <1>1, <1>6, <2>1, ShrinksRefl DEF SetMode, GroupActiveItemUpdate, SetEmergency, TypeOK
  <1>7. CASE DeleteGroup
    BY <1>r, <1>1, <1>7, ShrinksRefl DEF DeleteGroup, TypeOK
  <1>8. CASE RemoveGroupRoute
    <2>1. /\ EmptyRoute \in RouteStates /\ EmptyRoute.probeItem = NoItem /\ EmptyRoute.halfOpens = {}
          /\ EmptyRoute.live = FALSE
      BY BoundsAssumption DEF EmptyRoute, RouteStates, NullItems, CooldownStates
    <2>2. TypeOK'
      BY <1>8, <2>1 DEF RemoveGroupRoute, TypeOK
    <2>3. Marks'
      BY <1>8, <2>1
      DEF RemoveGroupRoute, Marks, LiveHolds, ReqShape, CandidateHeld, HalfOpenOwned, Snap
    <2> QED BY <2>2, <2>3
  <1>9. ASSUME NEW m \in {"failover", "manual"}, SetMode(m) PROVE IInv'
    <2>1. NoItem \in NullItems
      BY DEF NullItems
    <2> QED BY <1>6, <1>9, <2>1
  <1>10. ASSUME NEW i \in NullItems, GroupActiveItemUpdate(i) \/ SetEmergency(i) PROVE IInv'
    BY <1>6, <1>10
  <1> QED BY <1>2, <1>3, <1>4, <1>5, <1>7, <1>8, <1>9, <1>10 DEF Admin

\* Every step keeps the invariant.
LEMMA NextIInv == IInv /\ [Next]_vars => IInv'
  <1> SUFFICES ASSUME IInv, [Next]_vars PROVE IInv'
    OBVIOUS
  <1>1. CASE UNCHANGED vars
    BY <1>1 DEF vars, IInv, TypeOK, Marks, LiveHolds, ReqShape, CandidateHeld, HalfOpenOwned,
                Holder, Snap
  <1>2. ASSUME NEW r \in Requests, Recover(r) PROVE IInv'
    <2>1. CASE BatchFail(r)
      BY <2>1, ReqType, ReopenShrinks, BatchLoseKeeps DEF BatchFail, IInv, TypeOK, Shrinks
    <2>2. CASE BatchCancel(r)
      <3> DEFINE rt == [route EXCEPT !.halfOpens = @ \ req[r].batch]
      <3>1. rt \in RouteStates /\ Shrinks(route, rt) /\ rt.halfOpens = route.halfOpens \ req[r].batch
        BY DEF IInv, TypeOK, Shrinks, RouteStates
      <3>2. BatchLose(r, rt)
        BY <2>2 DEF BatchCancel
      <3> HIDE DEF rt
      <3> QED BY <3>1, <3>2, BatchLoseKeeps
    <2> QED BY <1>2, <2>1, <2>2, BatchWinKeeps DEF Recover
  <1>3. ASSUME NEW r \in Requests, Pick(r) PROVE IInv'
    BY <1>3, PickClosedKeeps, PickBatchKeeps, QuietPickKeeps DEF Pick
  <1>4. CASE Probe
    BY <1>4, AsyncProbeDoneKeeps, ProbeExpiredItemsKeeps, EnvironmentKeeps DEF Probe
  <1>5. CASE Next
    BY <1>2, <1>3, <1>4, <1>5, QuietPickKeeps, OutcomeKeeps, PanicKeeps, EnvironmentKeeps DEF Next
  <1> QED BY <1>1, <1>5

---------------------------------------------------------------------------
(***************************************************************************)
(* The theorems.                                                           *)
(***************************************************************************)

\* Every reachable state satisfies the inductive invariant.
THEOREM Invariance == Spec => []IInv
  BY InitIInv, NextIInv, PTL DEF Spec

\* Every reachable state is well typed, whatever the members, requests and bounds.
THEOREM TypeCorrect == Spec => []TypeOK
  <1>1. IInv => TypeOK
    BY DEF IInv
  <1> QED BY <1>1, Invariance, PTL

\* ProbeItemID, which makes every pick of the group wait, always has a request under way
\* that will give it back: no interleaving pins the group.
THEOREM CandidateNeverOrphaned == Spec => []CandidateHeld
  <1>1. IInv => CandidateHeld
    BY DEF IInv, Marks
  <1> QED BY <1>1, Invariance, PTL

\* No member is left in HALF_OPEN without a probe, a batch or a request that settles it.
THEOREM HalfOpenNeverOrphaned == Spec => []HalfOpenOwned
  <1>1. IInv => HalfOpenOwned
    BY DEF IInv, Marks
  <1> QED BY <1>1, Invariance, PTL

\* Whatever edits the group, panics or disconnects, both marks keep an owner.
THEOREM HoldsNeverOrphaned == Spec => []HoldsOwned
  <1>1. CandidateHeld /\ HalfOpenOwned => HoldsOwned
    BY DEF HoldsOwned
  <1> QED BY <1>1, CandidateNeverOrphaned, HalfOpenNeverOrphaned, PTL

---------------------------------------------------------------------------
(***************************************************************************)
(* The emergency quota.  EmergencyNoLeak is inductive with two more facts: *)
(* a missing routes entry charges nobody, and a request claims a share     *)
(* only under the failover rules.  A route operation lowers the counts; a  *)
(* report on i also releases one share of i when there is one.             *)
(***************************************************************************)
Lowers(rt, new) == \A i \in Items : new.emCounts[i] <= rt.emCounts[i]
Frees(rt, new, i) == Lowers(rt, new) /\ (rt.emCounts[i] > 0 => new.emCounts[i] < rt.emCounts[i])

NoEntryNoCharge == ~route.live => \A i \in Items : route.emCounts[i] = 0
ClaimsInFailover == \A r \in Requests : req[r].pc = "claiming" => Snap(r).mode = "failover"
Quota == NoEntryNoCharge /\ ClaimsInFailover /\ EmergencyNoLeak

\* Writing the same counts lowers them.
LEMMA SameLowers ==
  ASSUME NEW rt \in RouteStates, NEW new, new.emCounts = rt.emCounts
  PROVE  Lowers(rt, new)
  BY DEF Lowers, RouteStates

\* groupRouteLocked keeps a count or drops it.
LEMMA GroupRouteLowers ==
  ASSUME NEW rt \in RouteStates, NEW g \in GroupStates
  PROVE  Lowers(rt, groupRouteLocked(rt, g))
  <1>1. groupRouteLocked(rt, g).emCounts
          = [i \in Items |-> IF i \in g.members THEN rt.emCounts[i] ELSE 0]
    BY DEF groupRouteLocked
  <1> QED BY <1>1 DEF Lowers, RouteStates

\* releaseEmergencyLocked gives one share back when there is one.
LEMMA ReportFrees ==
  ASSUME NEW rt \in RouteStates, NEW i \in Items, NEW new, Reports(rt, new, i)
  PROVE  Frees(rt, new, i)
  <1>1. rt.emCounts \in [Items -> Nat] /\ new.emCounts = releaseEmergencyLocked(rt, i).emCounts
    BY DEF RouteStates, Reports
  <1>2. CASE emergencyHeldLocked(rt, i)
    <2>1. new.emCounts = [rt.emCounts EXCEPT ![i] = @ - 1]
      BY <1>1, <1>2 DEF releaseEmergencyLocked, RouteStates
    <2> QED BY <1>1, <2>1 DEF Frees, Lowers
  <1>3. CASE ~emergencyHeldLocked(rt, i)
    <2>1. new.emCounts = rt.emCounts
      BY <1>1, <1>3 DEF releaseEmergencyLocked
    <2> QED BY <1>1, <1>3, <2>1 DEF Frees, Lowers, emergencyHeldLocked
  <1> QED BY <1>2, <1>3

\* The emergency requests under way on a member are finitely many.
LEMMA HoldersFinite ==
  ASSUME NEW i
  PROVE  /\ IsFiniteSet(EmergencyHolders(i)) /\ Cardinality(EmergencyHolders(i)) \in Nat
         /\ IsFiniteSet(EmergencyHolders(i)') /\ Cardinality(EmergencyHolders(i)') \in Nat
  <1>1. EmergencyHolders(i) \in SUBSET Requests /\ EmergencyHolders(i)' \in SUBSET Requests
    BY DEF EmergencyHolders
  <1>2. IsFiniteSet(EmergencyHolders(i)) /\ IsFiniteSet(EmergencyHolders(i)')
    BY <1>1, RequestsAssumption, FS_Subset
  <1> QED BY <1>2, FS_CardinalityType

\* A step that lowers the counts and loses no holder it does not free keeps the quota.
LEMMA LowerKeepsQuota ==
  ASSUME TypeOK, TypeOK', Quota, NoEntryNoCharge', ClaimsInFailover',
         Lowers(route, route'), NEW r \in Requests,
         \A i \in Items : EmergencyHolders(i) \ {r} \subseteq EmergencyHolders(i)',
         \A i \in Items : r \in EmergencyHolders(i) =>
           r \in EmergencyHolders(i)' \/ Frees(route, route', i)
  PROVE  Quota'
  <1> SUFFICES ASSUME NEW i \in Items
               PROVE  route'.emCounts[i] <= Cardinality(EmergencyHolders(i)')
    BY DEF Quota, EmergencyNoLeak
  <1> DEFINE old == EmergencyHolders(i)
             now == EmergencyHolders(i)'
  <1>1. /\ route.emCounts[i] \in Nat /\ route'.emCounts[i] \in Nat
        /\ route.emCounts[i] <= Cardinality(old) /\ route'.emCounts[i] <= route.emCounts[i]
    BY DEF TypeOK, RouteStates, Quota, EmergencyNoLeak, Lowers
  <1>2. /\ IsFiniteSet(old) /\ Cardinality(old) \in Nat
        /\ IsFiniteSet(now) /\ Cardinality(now) \in Nat
    BY HoldersFinite
  <1>3. CASE r \notin old \/ r \in now
    <2>1. old \subseteq now
      BY <1>3
    <2>2. Cardinality(old) <= Cardinality(now)
      BY <1>2, <2>1, FS_Subset
    <2> QED BY <1>1, <1>2, <2>2
  <1>4. CASE r \in old /\ r \notin now
    <2>1. Frees(route, route', i)
      BY <1>4
    <2>2. Cardinality(old) - 1 <= Cardinality(now)
      <3>1. Cardinality(old \ {r}) = Cardinality(old) - 1
        BY <1>2, <1>4, FS_RemoveElement
      <3>2. old \ {r} \in SUBSET now
        OBVIOUS
      <3>3. Cardinality(old \ {r}) <= Cardinality(now)
        BY <1>2, <3>2, FS_Subset
      <3> QED BY <3>1, <3>3
    <2>3. route.emCounts[i] > 0 => route'.emCounts[i] < route.emCounts[i]
      BY <2>1 DEF Frees
    <2> HIDE DEF old, now
    <2>4. route'.emCounts[i] <= Cardinality(now)
      BY <1>1, <1>2, <2>2, <2>3
    <2> QED BY <2>4 DEF now
  <1> QED BY <1>3, <1>4

\* The other requests stay the holders they were.
LEMMA OthersHold ==
  ASSUME NEW r \in Requests, Moves(r), NEW i \in Items
  PROVE  EmergencyHolders(i) \ {r} \subseteq EmergencyHolders(i)'
  BY DEF Moves, EmergencyHolders, Holder, Snap

\* A request that moves keeps the quota when its step lowers the counts and it held no
\* share, or frees the one it held, or goes on holding it.
LEMMA MoveKeepsQuota ==
  ASSUME TypeOK, TypeOK', Quota, NEW r \in Requests, Moves(r), Lowers(route, route'),
         route.live => route'.live,
         req'[r].pc = "claiming" => req'[r].snap.mode = "failover",
         \A i \in Items : r \in EmergencyHolders(i) =>
           r \in EmergencyHolders(i)' \/ Frees(route, route', i)
  PROVE  Quota'
  <1>1. NoEntryNoCharge'
    <2>1. ASSUME ~route'.live, NEW i \in Items PROVE route'.emCounts[i] = 0
      <3>1. route.emCounts[i] = 0 /\ route'.emCounts[i] <= route.emCounts[i]
        BY <2>1 DEF Quota, NoEntryNoCharge, Lowers
      <3>2. route'.emCounts[i] \in Nat
        BY DEF TypeOK, RouteStates
      <3> QED BY <3>1, <3>2
    <2> QED BY <2>1 DEF NoEntryNoCharge
  <1>2. ClaimsInFailover'
    BY DEF Quota, ClaimsInFailover, Moves, Snap
  <1> QED BY <1>1, <1>2, OthersHold, LowerKeepsQuota

\* A request that holds no share may move on freely.
LEMMA FreeMoveKeepsQuota ==
  ASSUME TypeOK, TypeOK', Quota, NEW r \in Requests, Moves(r), Lowers(route, route'),
         route.live => route'.live,
         req'[r].pc = "claiming" => req'[r].snap.mode = "failover",
         req[r].pc \notin {"inflight", "releasing"}
  PROVE  Quota'
  BY MoveKeepsQuota DEF EmergencyHolders, Holder

\* A step that moves no request and lowers the counts keeps the quota.
LEMMA StayKeepsQuota ==
  ASSUME TypeOK, TypeOK', Quota, req' = req, Lowers(route, route'), NoEntryNoCharge'
  PROVE  Quota'
  <1>1. \A i \in Items : EmergencyHolders(i)' = EmergencyHolders(i)
    BY DEF EmergencyHolders, Holder, Snap
  <1>2. ASSUME NEW i \in Items PROVE route'.emCounts[i] <= Cardinality(EmergencyHolders(i)')
    <2>1. /\ route.emCounts[i] \in Nat /\ route'.emCounts[i] \in Nat
          /\ route.emCounts[i] <= Cardinality(EmergencyHolders(i))
          /\ route'.emCounts[i] <= route.emCounts[i]
      BY DEF TypeOK, RouteStates, Quota, EmergencyNoLeak, Lowers
    <2>2. Cardinality(EmergencyHolders(i)) \in Nat
      BY HoldersFinite
    <2>3. route'.emCounts[i] <= Cardinality(EmergencyHolders(i))
      BY <2>1, <2>2
    <2> QED BY <1>1, <2>3
  <1>3. ClaimsInFailover'
    BY DEF Quota, ClaimsInFailover, Snap
  <1> QED BY <1>2, <1>3 DEF Quota, EmergencyNoLeak

\* The first section of a pick lowers the counts.
LEMMA PickRouteLowers ==
  ASSUME TypeOK, NEW r \in Requests, NEW skipped \in SUBSET Items
  PROVE  Lowers(route, Cleaned(r)) /\ Lowers(route, PickRoute(r, skipped))
  <1>1. Lowers(route, Cleaned(r))
    BY ReqType, GroupRouteLowers DEF TypeOK, Cleaned
  <1> QED BY <1>1, PickRouteShrinks DEF Lowers

\* No pick takes a share, and only a failover pick goes on to claim one.
LEMMA PickKeepsQuota ==
  ASSUME IInv, IInv', Quota, NEW r \in Requests, Pick(r)
  PROVE  Quota'
  <1> USE DEF IInv
  <1>t. /\ route \in RouteStates /\ req[r] \in ReqStates /\ Snap(r) \in GroupStates
        /\ Snap(r).members \in SUBSET Items /\ {"empty", "claiming"} \subseteq ReqPCs
        /\ Holds = {"none", "regular", "candidate", "emergency"}
    BY ReqType DEF TypeOK, GroupStates, ReqPCs, Holds
  <1>s. Lowers(route, route)
    BY <1>t, SameLowers
  <1> SUFFICES /\ Moves(r) /\ Lowers(route, route') /\ (route.live => route'.live)
               /\ req'[r].pc = "claiming" => req'[r].snap.mode = "failover"
               /\ req[r].pc \notin {"inflight", "releasing"}
    BY FreeMoveKeepsQuota
  <1>1. CASE PickManual(r)
    <2>1. PICK avoid \in SUBSET Items :
            IF Snap(r).active \in (Snap(r).members \ avoid) \ disabled
            THEN Serve(r, Snap(r).active, "regular")
            ELSE GoTo(r, "empty")
      BY <1>1 DEF PickManual
    <2>2. CASE Snap(r).active \in (Snap(r).members \ avoid) \ disabled
      BY <1>t, <1>s, <1>1, <2>1, <2>2, ServeMoves DEF PickManual
    <2>3. CASE Snap(r).active \notin (Snap(r).members \ avoid) \ disabled
      BY <1>t, <1>s, <1>1, <2>1, <2>3, GoToMoves DEF PickManual
    <2> QED BY <2>2, <2>3
  <1>2. CASE \E i \in Items : PickSticky(r, i)
    BY <1>t, <1>s, <1>2, ServeMoves DEF PickSticky
  <1>3. CASE PickBehindCandidate(r)
    <2>1. Lowers(route, Cleaned(r)) /\ Cleaned(r).live = TRUE
      BY PickRouteLowers, PickRouteShrinks
    <2> QED BY <1>t, <1>3, <2>1, GoToMoves DEF PickBehindCandidate, Picking
  <1>4. CASE PickAffinity(r)
    <2>1. PICK exclude \in NullItems, skipped \in SUBSET Items :
            /\ AffinityServes(PickRoute(r, skipped), r, skipped \cup {exclude})
            /\ route' = PickRoute(r, skipped)
            /\ Serve(r, PickRoute(r, skipped).current, "regular")
      BY <1>4 DEF PickAffinity
    <2>2. PickRoute(r, skipped).current \in Items
      BY <1>t, <2>1 DEF AffinityServes
    <2> QED BY <1>4, <1>t, <2>1, <2>2, ServeMoves, PickRouteShrinks, PickRouteLowers
            DEF PickAffinity, Picking
  <1>5. CASE PickNothing(r)
    <2>1. PICK exclude \in NullItems, skipped \in SUBSET Items :
            /\ route' = PickRoute(r, skipped)
            /\ req' = [req EXCEPT ![r].pc = "claiming",
                                   ![r].avoid = (skipped \cup {exclude}) \cap Items]
      BY <1>5 DEF PickNothing
    <2>2. /\ \A q \in Requests \ {r} : req'[q] = req[q]
          /\ req'[r].snap = req[r].snap
      BY <1>t, <2>1 DEF TypeOK, ReqStates
    <2>3. Moves(r)
      BY <2>2 DEF Moves, TypeOK
    <2> QED BY <1>5, <2>1, <2>2, <2>3, PickRouteShrinks, PickRouteLowers DEF PickNothing, Picking, Snap
  <1>6. CASE PickClosed(r)
    <2>0. PICK exclude \in NullItems, skipped \in SUBSET Items, native \in NativeSets :
            LET rt  == PickRoute(r, skipped)
                use == Usable(r, skipped \cup {exclude})
            IN \E sel \in Closed(rt, use) :
                 LET met == {i \in Expired(rt, use) : Before(native, i, sel)}
                 IN /\ route' = [claimHalfOpenLocked(rt, met) EXCEPT !.current = sel]
                    /\ Serve(r, sel, "regular")
      BY <1>6 DEF PickClosed
    <2>1. PICK sel \in Closed(PickRoute(r, skipped), Usable(r, skipped \cup {exclude})) :
            LET met == {i \in Expired(PickRoute(r, skipped), Usable(r, skipped \cup {exclude})) :
                          Before(native, i, sel)}
            IN /\ route' = [claimHalfOpenLocked(PickRoute(r, skipped), met) EXCEPT !.current = sel]
               /\ Serve(r, sel, "regular")
      BY <2>0
    <2> DEFINE rt == PickRoute(r, skipped)
               met == {i \in Expired(rt, Usable(r, skipped \cup {exclude})) : Before(native, i, sel)}
    <2>2. sel \in Items /\ met \in SUBSET Items
      BY <1>t, <2>1 DEF Closed, Expired, Usable
    <2>3. rt \in RouteStates /\ rt.live = TRUE /\ Lowers(route, rt)
      BY PickRouteShrinks, PickRouteLowers
    <2>4. route' = [claimHalfOpenLocked(rt, met) EXCEPT !.current = sel]
      BY <2>1
    <2> HIDE DEF rt, met
    <2>5. /\ claimHalfOpenLocked(rt, met) \in RouteStates
          /\ claimHalfOpenLocked(rt, met).live = TRUE
          /\ claimHalfOpenLocked(rt, met).emCounts = rt.emCounts
      BY <2>2, <2>3, ClaimWrites
    <2>6. route'.emCounts = rt.emCounts /\ route'.live = TRUE
      BY <2>4, <2>5 DEF RouteStates
    <2>7. Lowers(route, route')
      BY <2>3, <2>6 DEF Lowers
    <2> QED BY <1>t, <1>6, <2>1, <2>2, <2>6, <2>7, ServeMoves DEF PickClosed, Picking
  <1>7. CASE PickBatch(r)
    <2>1. PICK exclude \in NullItems, skipped \in SUBSET Items :
            LET rt == PickRoute(r, skipped)
                ex == Expired(rt, Usable(r, skipped \cup {exclude}))
            IN /\ route' = claimHalfOpenLocked(rt, ex)
               /\ req' = [req EXCEPT ![r].pc = "probing", ![r].batch = ex,
                                      ![r].avoid = (skipped \cup {exclude}) \cap Items]
      BY <1>7 DEF PickBatch
    <2> DEFINE rt == PickRoute(r, skipped)
               ex == Expired(rt, Usable(r, skipped \cup {exclude}))
    <2>2. ex \in SUBSET Items
      BY <1>t DEF Expired, Usable
    <2>3. rt \in RouteStates /\ rt.live = TRUE /\ Lowers(route, rt)
      BY PickRouteShrinks, PickRouteLowers
    <2>4. route' = claimHalfOpenLocked(rt, ex)
      BY <2>1
    <2>5. /\ \A q \in Requests \ {r} : req'[q] = req[q]
          /\ req'[r].pc = "probing"
      BY <1>t, <2>1 DEF TypeOK, ReqStates
    <2> HIDE DEF rt, ex
    <2>6. route'.emCounts = rt.emCounts /\ route'.live = TRUE
      BY <2>2, <2>3, <2>4, ClaimWrites
    <2>7. Lowers(route, route') /\ Moves(r)
      BY <2>3, <2>5, <2>6 DEF Lowers, Moves, TypeOK
    <2> QED BY <1>7, <2>5, <2>6, <2>7 DEF PickBatch, Picking
  <1> QED BY <1>1, <1>2, <1>3, <1>4, <1>5, <1>6, <1>7 DEF Pick

\* A batch ends without touching a count, and goes on to claim only in failover mode.
LEMMA RecoverKeepsQuota ==
  ASSUME IInv, IInv', Quota, NEW r \in Requests, Recover(r)
  PROVE  Quota'
  <1> USE DEF IInv
  <1>t. /\ route \in RouteStates /\ req[r] \in ReqStates /\ req[r].batch \in SUBSET Items
        /\ req[r].pc = "probing" /\ Snap(r).mode = "failover" /\ "candidate" \in Holds
    BY ReqType DEF TypeOK, Recover, BatchWin, BatchFail, BatchCancel, BatchLose, Marks, ReqShape,
       Holds
  <1>s. Lowers(route, route)
    BY <1>t, SameLowers
  <1>1. ASSUME req' = [req EXCEPT ![r].pc = "claiming", ![r].batch = {}]
        PROVE  Moves(r) /\ req'[r].snap.mode = "failover"
    <2>1. /\ \A q \in Requests \ {r} : req'[q] = req[q]
          /\ req'[r].snap = req[r].snap
      BY <1>1, <1>t DEF TypeOK, ReqStates
    <2> QED BY <1>t, <2>1 DEF Moves, TypeOK, Snap
  <1>2. ASSUME NEW w \in Items, BatchWin(r, w) PROVE Quota'
    <2>1. CASE route.live
      <3>1. route'.emCounts = route.emCounts /\ route'.live = route.live
        BY <1>t, <1>2, <2>1 DEF BatchWin, RouteStates
      <3>2. Serve(r, w, "candidate")
        BY <1>2, <2>1 DEF BatchWin
      <3>3. Moves(r) /\ req'[r].pc = "inflight"
        BY <1>t, <3>2, ServeMoves
      <3>4. Lowers(route, route')
        BY <1>t, <3>1, SameLowers
      <3> QED BY <1>t, <3>1, <3>3, <3>4, FreeMoveKeepsQuota
    <2>2. CASE ~route.live
      <3>1. route' = route /\ Moves(r) /\ req'[r].snap.mode = "failover"
        BY <1>1, <1>2, <2>2 DEF BatchWin
      <3> QED BY <1>t, <1>s, <3>1, FreeMoveKeepsQuota
    <2> QED BY <2>1, <2>2
  <1>3. ASSUME NEW rt \in RouteStates, BatchLose(r, rt), rt.emCounts = route.emCounts,
               rt.live = route.live
        PROVE  Quota'
    <2>1. Moves(r) /\ req'[r].snap.mode = "failover"
      BY <1>1, <1>3 DEF BatchLose
    <2>2. route'.emCounts = route.emCounts /\ route'.live = route.live
      BY <1>3 DEF BatchLose
    <2>3. Lowers(route, route')
      BY <1>t, <2>2, SameLowers
    <2> QED BY <1>t, <2>1, <2>2, <2>3, FreeMoveKeepsQuota
  <1>4. CASE BatchFail(r)
    <2> DEFINE rt == reopenItemLocked(route, req[r].batch)
    <2>1. rt \in RouteStates /\ rt.emCounts = route.emCounts
      BY <1>t, ReopenShrinks DEF Shrinks
    <2>2. rt.live = route.live
      BY <1>t DEF reopenItemLocked, RouteStates
    <2> QED BY <1>3, <1>4, <2>1, <2>2 DEF BatchFail
  <1>5. CASE BatchCancel(r)
    <2> DEFINE rt == [route EXCEPT !.halfOpens = @ \ req[r].batch]
    <2>1. rt \in RouteStates /\ rt.emCounts = route.emCounts /\ rt.live = route.live
      BY <1>t DEF RouteStates
    <2> QED BY <1>3, <1>5, <2>1 DEF BatchCancel
  <1> QED BY <1>2, <1>4, <1>5 DEF Recover

\* The claim adds one to the count and the request that answers for it.
LEMMA ClaimKeepsQuota ==
  ASSUME IInv, IInv', Quota, NEW r \in Requests, ClaimEmergency(r)
  PROVE  Quota'
  <1> USE DEF IInv
  <1> DEFINE rt == Cleaned(r)
             e  == Snap(r).emergency
  <1>t. /\ route \in RouteStates /\ req[r] \in ReqStates /\ Snap(r) \in GroupStates
        /\ Snap(r).members \in SUBSET Items /\ "emergency" \in Holds
        /\ req[r].pc = "claiming" /\ Snap(r).mode = "failover"
    BY ReqType DEF TypeOK, GroupStates, Holds, ClaimEmergency, Quota, ClaimsInFailover
  <1>c. rt \in RouteStates /\ rt.live = TRUE /\ Lowers(route, rt)
    BY PickRouteShrinks, PickRouteLowers
  <1>1. CASE EmergencyOpen(rt, Snap(r), req[r].avoid)
    <2>1. e \in Items
      BY <1>t, <1>1 DEF EmergencyOpen
    <2>2. Serve(r, e, "emergency") /\ route' = claimEmergencyLocked(rt, Snap(r))
      BY <1>1 DEF ClaimEmergency
    <2>3. /\ Moves(r) /\ req'[r].pc = "inflight" /\ req'[r].item = e /\ req'[r].snap = Snap(r)
      BY <1>t, <2>1, <2>2, ServeMoves
    <2>4. req'[r].hold = "emergency"
      BY <1>t, <2>2 DEF Serve, TypeOK, ReqStates
    <2> HIDE DEF rt
    <2>5. route'.emCounts = [rt.emCounts EXCEPT ![e] = @ + 1] /\ route'.live = TRUE
      BY <1>c, <2>2 DEF claimEmergencyLocked, RouteStates
    <2>6. ASSUME NEW i \in Items PROVE route'.emCounts[i] <= Cardinality(EmergencyHolders(i)')
      <3> DEFINE old == EmergencyHolders(i)
                 now == EmergencyHolders(i)'
      <3>1. /\ route.emCounts[i] \in Nat /\ rt.emCounts[i] \in Nat
            /\ route.emCounts[i] <= Cardinality(old) /\ rt.emCounts[i] <= route.emCounts[i]
        BY <1>t, <1>c DEF RouteStates, Quota, EmergencyNoLeak, Lowers
      <3>2. /\ IsFiniteSet(old) /\ Cardinality(old) \in Nat
            /\ IsFiniteSet(now) /\ Cardinality(now) \in Nat
        BY HoldersFinite
      <3>3. r \notin old /\ old \subseteq now
        <4>1. r \notin old
          BY <1>t DEF EmergencyHolders, Holder
        <4> QED BY <2>3, <4>1, OthersHold
      <3>4. CASE i = e
        <4>1. r \in now
          BY <1>t, <2>3, <2>4, <3>4 DEF EmergencyHolders, Holder, Snap
        <4>2. Cardinality(old \cup {r}) = Cardinality(old) + 1
          BY <3>2, <3>3, FS_AddElement
        <4>3. old \cup {r} \in SUBSET now
          BY <3>3, <4>1
        <4>4. Cardinality(old \cup {r}) <= Cardinality(now)
          BY <3>2, <4>3, FS_Subset
        <4>5. route'.emCounts[i] = rt.emCounts[i] + 1
          BY <1>c, <2>1, <2>5, <3>4 DEF RouteStates
        <4> HIDE DEF old, now
        <4>6. route'.emCounts[i] <= Cardinality(now)
          BY <3>1, <3>2, <4>2, <4>4, <4>5
        <4> QED BY <4>6 DEF now
      <3>5. CASE i # e
        <4>1. Cardinality(old) <= Cardinality(now)
          BY <3>2, <3>3, FS_Subset
        <4>2. route'.emCounts[i] = rt.emCounts[i]
          BY <1>c, <2>1, <2>5, <3>5 DEF RouteStates
        <4> HIDE DEF old, now
        <4>3. route'.emCounts[i] <= Cardinality(now)
          BY <3>1, <3>2, <4>1, <4>2
        <4> QED BY <4>3 DEF now
      <3> QED BY <3>4, <3>5
    <2>7. NoEntryNoCharge' /\ ClaimsInFailover'
      BY <2>3, <2>5 DEF NoEntryNoCharge, ClaimsInFailover, Quota, Moves, Snap
    <2> QED BY <2>6, <2>7 DEF Quota, EmergencyNoLeak
  <1>2. CASE ~EmergencyOpen(rt, Snap(r), req[r].avoid)
    <2>1. route' = rt /\ req' = [req EXCEPT ![r].pc = "empty", ![r].avoid = {}]
      BY <1>2 DEF ClaimEmergency
    <2>2. (\A q \in Requests \ {r} : req'[q] = req[q]) /\ req'[r].pc = "empty"
      BY <1>t, <2>1 DEF TypeOK, ReqStates
    <2>3. Moves(r)
      BY <2>2 DEF Moves, TypeOK
    <2> HIDE DEF rt
    <2> QED BY <1>t, <1>c, <2>1, <2>2, <2>3, FreeMoveKeepsQuota
  <1> QED BY <1>1, <1>2

\* The steps of a request that has no member: they write no count.
LEMMA IdleKeepsQuota ==
  ASSUME IInv, IInv', Quota, NEW r \in Requests,
         ReadGroup(r) \/ WaitAndRescan(r) \/ AutoClearCheck(r) \/ AutoClear(r) \/ Finish(r)
  PROVE  Quota'
  <1> USE DEF IInv
  <1>t. route \in RouteStates /\ req[r] \in ReqStates /\ "clearing" \in ReqPCs
    BY ReqType DEF TypeOK, ReqPCs
  <1>1. route'.emCounts = route.emCounts /\ route'.live = route.live
    <2>1. ResetGroupCooldown(route).live = route.live
      BY <1>t DEF ResetGroupCooldown, RouteStates
    <2> QED BY <1>t, <2>1, ResetShrinks
            DEF ReadGroup, WaitAndRescan, AutoClearCheck, AutoClear, Finish
  <1>2. Lowers(route, route')
    BY <1>t, <1>1, SameLowers
  <1>3. Moves(r) /\ req'[r].pc # "claiming"
    <2>1. CASE ReadGroup(r)
      <3>1. (\A q \in Requests \ {r} : req'[q] = req[q]) /\ req'[r].pc = "read"
        BY <1>t, <2>1 DEF ReadGroup, TypeOK, ReqStates
      <3> QED BY <3>1 DEF Moves, TypeOK
    <2>2. CASE Finish(r)
      BY <2>2, FreshReqType DEF Finish, Moves, TypeOK
    <2>3. CASE WaitAndRescan(r) \/ AutoClear(r)
      BY <2>3, EndRoundMoves DEF WaitAndRescan, AutoClear
    <2>4. CASE AutoClearCheck(r)
      BY <1>t, <2>4, GoToMoves DEF AutoClearCheck
    <2> QED BY <2>1, <2>2, <2>3, <2>4
  <1>4. req[r].pc \notin {"inflight", "releasing"}
    BY DEF ReadGroup, WaitAndRescan, AutoClearCheck, AutoClear, Finish
  <1> QED BY <1>1, <1>2, <1>3, <1>4, FreeMoveKeepsQuota

\* A report frees the share of its request; a broken stream keeps it until the release.
LEMMA OutcomeKeepsQuota ==
  ASSUME IInv, IInv', Quota, NEW r \in Requests, Outcome(r)
  PROVE  Quota'
  <1> USE DEF IInv
  <1> DEFINE i == req[r].item
  <1>t. route \in RouteStates /\ Snap(r) \in GroupStates /\ "releasing" \in ReqPCs
    BY ReqType DEF TypeOK, ReqPCs
  <1>i. i \in Items
    BY DEF Outcome, Success, Failure, Release, PostCommitFailure, Marks, ReqShape
  <1>s. Lowers(route, route)
    BY <1>t, SameLowers
  <1>1. ASSUME EndRound(r), NEW new, Reports(route, new, i),
               \/ route' = new
               \/ route' = route /\ (~route.live \/ Snap(r).mode # "failover")
        PROVE  Quota'
    <2>1. Moves(r) /\ req'[r].pc = "idle"
      BY <1>1, EndRoundMoves
    <2>2. Frees(route, new, i) /\ Shrinks(route, new)
      BY <1>t, <1>i, <1>1, ReportFrees DEF Reports, Settles
    <2>3. Lowers(route, route') /\ (route.live => route'.live)
      BY <1>s, <1>1, <2>2 DEF Frees, Shrinks
    <2>4. ASSUME NEW j \in Items, r \in EmergencyHolders(j) PROVE Frees(route, route', j)
      <3>1. j = i /\ Snap(r).mode = "failover"
        BY <2>4 DEF EmergencyHolders, Holder
      <3>2. ~route.live => ~(route.emCounts[j] > 0)
        BY DEF Quota, NoEntryNoCharge
      <3> QED BY <1>s, <1>1, <2>2, <3>1, <3>2 DEF Frees
    <2> QED BY <2>1, <2>3, <2>4, MoveKeepsQuota
  <1>2. CASE Success(r)
    BY <1>t, <1>i, <1>1, <1>2, SuccessSettles DEF Success, Report
  <1>3. CASE Failure(r)
    <2>1. PICK reached \in BOOLEAN :
            Report(r, recordRouteFailureWithLimit(route, req[r].item, reached))
      BY <1>3 DEF Failure
    <2> QED BY <1>t, <1>i, <1>1, <1>3, <2>1, FailureSettles DEF Failure, Report
  <1>4. CASE Release(r)
    BY <1>t, <1>i, <1>1, <1>4, ReleaseSettles DEF Release
  <1>5. CASE PostCommitFailure(r)
    <2>1. /\ Moves(r) /\ req'[r].pc = "releasing" /\ req'[r].item = i
          /\ req'[r].snap = Snap(r)
      BY <1>t, <1>5, GoToMoves DEF PostCommitFailure
    <2>2. req'[r].hold = req[r].hold
      BY <1>5, ReqType DEF PostCommitFailure, GoTo, TypeOK, ReqStates
    <2>3. \A j \in Items : r \in EmergencyHolders(j) => r \in EmergencyHolders(j)'
      BY <2>1, <2>2 DEF EmergencyHolders, Holder, Snap
    <2>4. Lowers(route, recordPostCommitFailure(route, Snap(r), i))
      BY <1>t, <1>i, PostCommitShrinks, GroupRouteLowers DEF Lowers
    <2>5. Shrinks(route, recordPostCommitFailure(route, Snap(r), i))
      BY <1>t, <1>i, PostCommitShrinks
    <2>6. Lowers(route, route') /\ (route.live => route'.live)
      BY <1>s, <1>5, <2>4, <2>5 DEF PostCommitFailure, Shrinks
    <2> QED BY <2>1, <2>3, <2>6, MoveKeepsQuota
  <1> QED BY <1>2, <1>3, <1>4, <1>5 DEF Outcome

\* Probes, the clock and the administrator move no request and charge nobody.
LEMMA EnvironmentKeepsQuota ==
  ASSUME IInv, IInv', Quota, Probe \/ Clock \/ Admin
  PROVE  Quota'
  <1> USE DEF IInv
  <1>t. route \in RouteStates /\ route' \in RouteStates
    BY DEF TypeOK
  <1>0. req' = req
    BY DEF Probe, AsyncProbeDone, BackgroundRead, ProbeExpiredItems, Clock, AffinityExpire, Expire,
           BlockExpire, Admin, ResetCooldown, RemoveMember, AddMember, ToggleDisabled, SetMode,
           GroupActiveItemUpdate, SetEmergency, DeleteGroup, RemoveGroupRoute
  <1>1. ASSUME route'.emCounts = route.emCounts, route'.live = route.live PROVE Quota'
    <2>1. Lowers(route, route') /\ NoEntryNoCharge'
      BY <1>t, <1>1, SameLowers DEF Quota, NoEntryNoCharge
    <2> QED BY <1>0, <2>1, StayKeepsQuota
  <1>2. ASSUME NEW i \in Items, NEW ok \in BOOLEAN, AsyncProbeDone(i, ok) PROVE Quota'
    <2>1. /\ restoreItemLocked(route, i).emCounts = route.emCounts
          /\ restoreItemLocked(route, i).live = route.live
      BY <1>t, RestoreShrinks DEF restoreItemLocked, RouteStates
    <2>2. /\ reopenItemLocked(route, {i}).emCounts = route.emCounts
          /\ reopenItemLocked(route, {i}).live = route.live
      BY <1>t, ReopenShrinks DEF reopenItemLocked, RouteStates
    <2> QED BY <1>1, <1>2, <2>1, <2>2 DEF AsyncProbeDone
  <1>3. CASE ProbeExpiredItems
    <2>1. PICK g \in bg : route' = claimHalfOpenLocked(groupRouteLocked(route, g), g.members)
      BY <1>3 DEF ProbeExpiredItems
    <2>2. g \in GroupStates /\ g.members \in SUBSET Items
      BY DEF TypeOK, GroupStates
    <2>3. /\ groupRouteLocked(route, g) \in RouteStates /\ groupRouteLocked(route, g).live = TRUE
          /\ Lowers(route, groupRouteLocked(route, g))
      BY <1>t, <2>2, GroupRouteShrinks, GroupRouteLowers DEF Shrinks
    <2>4. route'.emCounts = groupRouteLocked(route, g).emCounts /\ route'.live = TRUE
      BY <2>1, <2>2, <2>3, ClaimWrites
    <2>5. Lowers(route, route') /\ NoEntryNoCharge'
      BY <2>3, <2>4 DEF Lowers, NoEntryNoCharge
    <2> QED BY <1>0, <2>5, StayKeepsQuota
  <1>4. CASE Clock
    <2>1. route'.emCounts = route.emCounts /\ route'.live = route.live
      BY <1>t, <1>4 DEF Clock, AffinityExpire, Expire, BlockExpire, RouteStates
    <2> QED BY <1>1, <2>1
  <1>5. CASE ResetCooldown
    <2>1. route'.emCounts = route.emCounts /\ route'.live = route.live
      BY <1>t, <1>5, ResetShrinks DEF ResetCooldown, ResetGroupCooldown, RouteStates
    <2> QED BY <1>1, <2>1
  <1>6. CASE RemoveGroupRoute
    <2>1. \A i \in Items : route'.emCounts[i] = 0
      BY <1>6 DEF RemoveGroupRoute, EmptyRoute
    <2>2. Lowers(route, route') /\ NoEntryNoCharge'
      BY <1>t, <2>1 DEF Lowers, NoEntryNoCharge, RouteStates
    <2> QED BY <1>0, <2>2, StayKeepsQuota
  <1>7. CASE route' = route
    BY <1>1, <1>7
  <1>8. Admin => ResetCooldown \/ RemoveGroupRoute \/ route' = route
    BY DEF Admin, RemoveMember, AddMember, ToggleDisabled, SetMode, GroupActiveItemUpdate,
           SetEmergency, DeleteGroup
  <1>9. Probe => (\E i \in Items, ok \in BOOLEAN : AsyncProbeDone(i, ok))
                 \/ ProbeExpiredItems \/ route' = route
    BY DEF Probe, BackgroundRead
  <1> QED BY <1>2, <1>3, <1>4, <1>5, <1>6, <1>7, <1>8, <1>9

\* The emergency quota does not leak, whatever edits the group, disconnects or breaks off
\* meanwhile.  The one step that would break it is left out by the hypothesis: the recover
\* handler of Forward gives back marks and no emergency share.
THEOREM QuotaNeverLeaks ==
  ASSUME "panic" \notin Features
  PROVE  Spec => []EmergencyNoLeak
  <1>1. Init => Quota
    <2> SUFFICES ASSUME Init PROVE Quota
      OBVIOUS
    <2>1. \A i \in Items : route.emCounts[i] = 0
      BY DEF Init, EmptyRoute
    <2>2. \A i \in Items : 0 <= Cardinality(EmergencyHolders(i))
      BY HoldersFinite
    <2>3. ClaimsInFailover
      BY DEF Init, FreshReq, ClaimsInFailover
    <2> QED BY <2>1, <2>2, <2>3 DEF Quota, NoEntryNoCharge, EmergencyNoLeak
  <1>2. IInv /\ IInv' /\ Quota /\ [Next]_vars => Quota'
    <2> SUFFICES ASSUME IInv, IInv', Quota, [Next]_vars PROVE Quota'
      OBVIOUS
    <2>1. CASE UNCHANGED vars
      <3>1. route' = route /\ req' = req
        BY <2>1 DEF vars
      <3>2. Lowers(route, route') /\ NoEntryNoCharge'
        BY <3>1, SameLowers DEF IInv, TypeOK, Quota, NoEntryNoCharge
      <3> QED BY <3>1, <3>2, StayKeepsQuota DEF IInv
    <2>2. ASSUME NEW r \in Requests PROVE ~releaseRefChainProbeHolds(r)
      BY DEF releaseRefChainProbeHolds
    <2>3. CASE Next
      BY <2>2, <2>3, PickKeepsQuota, RecoverKeepsQuota, ClaimKeepsQuota, IdleKeepsQuota,
         OutcomeKeepsQuota, EnvironmentKeepsQuota DEF Next
    <2> QED BY <2>1, <2>3
  <1>3. Quota => EmergencyNoLeak
    BY DEF Quota
  <1> QED BY <1>1, <1>2, <1>3, Invariance, PTL DEF Spec

====
