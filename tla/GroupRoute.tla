---------------------------- MODULE GroupRoute ----------------------------
(***************************************************************************)
(* The routing state of one failover group: internal/relay/route.go and    *)
(* prober.go, driven by the requests of handler.go (Forward), the          *)
(* background prober of internal/task/probe.go and the admin handlers.     *)
(*                                                                         *)
(* Every action that touches `route' is one critical section of routeMu.   *)
(* A request holds no lock between its sections, so its group snapshot,    *)
(* its probe batch and the member it serves may all be stale.              *)
(*                                                                         *)
(* Time is abstracted to what the code compares with `now': a cooldown is  *)
(* absent, running or past its deadline; an affinity or an emergency block *)
(* is in force or not.  Expire, AffinityExpire and BlockExpire move it.    *)
(***************************************************************************)
EXTENDS Naturals, FiniteSets, Functions

CONSTANTS
  Items,                   \* GroupItem IDs, the ones added later included
  InitMembers,             \* the group's members at start
  Requests,                \* request goroutines
  NoItem,                  \* the zero item ID
  Prio,                    \* Items -> Nat, GroupItem.Priority
  NativeSets,              \* members speaking the client's protocol, per client format
  InitEmergency,           \* RelayConfig.EmergencyItemID at start
  EmergencyMaxConcurrent,  \* emergencyMaxConcurrent
  MemberMaxAttempts,       \* RelayConfig.MemberMaxAttempts, strikes to cool
  MemberAffinity,          \* RelayConfig.MemberAffinitySeconds > 0
  MaxLevel,                \* bound: levels saturate here (CooldownMaxSeconds caps them)
  MaxAsyncProbes,          \* bound: async probe goroutines per member
  Features                 \* the optional behaviours of this instance

FeatureNames == {"background", "reset", "autoclear", "members", "mode",
                 "emergency", "disable", "delete", "panic", "sticky", "postcommit"}

ASSUME ItemsAssumption ==
  /\ NoItem \notin Items
  /\ InitMembers \subseteq Items
  /\ InitEmergency \in Items \cup {NoItem}
  /\ Prio \in [Items -> Nat]
  /\ \A i, j \in Items : Prio[i] = Prio[j] => i = j
  /\ NativeSets \subseteq SUBSET Items
ASSUME RequestsAssumption == IsFiniteSet(Requests)
ASSUME BoundsAssumption ==
  /\ EmergencyMaxConcurrent \in Nat
  /\ MemberMaxAttempts \in Nat \ {0}
  /\ MaxLevel \in Nat \ {0}
  /\ MaxAsyncProbes \in Nat \ {0}
  /\ MemberAffinity \in BOOLEAN
  /\ Features \subseteq FeatureNames

VARIABLES
  route,     \* routes[group.ID]: the RouteState, EmptyRoute when the map has no entry
  group,     \* the group as op's cache has it now
  phase,     \* "present"; "deleting": op.GroupDel done; "removed": RemoveGroupRoute done
  gone,      \* member IDs deleted for good
  disabled,  \* members whose channel is disabled (channelDisabledForRouting)
  req,       \* per request: where it is, and the copies it works from
  probes,    \* per member: runAsyncProbe goroutines under way
  bg         \* the group copies BackgroundProbe has collected and not yet handled

vars == <<route, group, phase, gone, disabled, req, probes, bg>>

NullItems == Items \cup {NoItem}

CooldownStates == {"none", "cooling", "expired"}

RouteStates ==
  [live      : BOOLEAN,
   current   : NullItems,                 \* CurrentItemID
   probeItem : NullItems,                 \* ProbeItemID
   affinity  : BOOLEAN,                   \* AffinityUntil > now
   armed     : BOOLEAN,                   \* affinityArmed
   cooldown  : [Items -> CooldownStates], \* Cooldowns
   levels    : [Items -> 0..MaxLevel],    \* Levels
   halfOpens : SUBSET Items,              \* HalfOpens
   strikes   : [Items -> Nat],            \* PostCommitStrikes
   emCounts  : [Items -> Nat],            \* emergencyCounts
   emBlocks  : SUBSET Items]              \* emergencyBlocks still in force

GroupStates ==
  [members   : SUBSET Items,
   mode      : {"failover", "manual"},
   active    : NullItems,                 \* ActiveItemID
   emergency : NullItems]                 \* RelayConfig.EmergencyItemID

EmptyRoute ==
  [live |-> FALSE, current |-> NoItem, probeItem |-> NoItem, affinity |-> FALSE,
   armed |-> FALSE, cooldown |-> [i \in Items |-> "none"],
   levels |-> [i \in Items |-> 0], halfOpens |-> {}, strikes |-> [i \in Items |-> 0],
   emCounts |-> [i \in Items |-> 0], emBlocks |-> {}]

InitGroup == [members |-> InitMembers, mode |-> "failover", active |-> NoItem,
              emergency |-> InitEmergency]

\* A request goroutine.  `hold' is a history variable: under which rule the member was
\* handed out.  `item' outlives its round, as the hops variable of Forward does.
ReqPCs == {"idle", "read", "probing", "claiming", "empty", "clearing", "inflight", "releasing"}
Holds == {"none", "regular", "candidate", "emergency"}
ReqStates ==
  [pc : ReqPCs, item : NullItems, hold : Holds, snap : GroupStates,
   batch : SUBSET Items, avoid : SUBSET Items]
FreshReq ==
  [pc |-> "idle", item |-> NoItem, hold |-> "none", snap |-> InitGroup,
   batch |-> {}, avoid |-> {}]

---------------------------------------------------------------------------
(***************************************************************************)
(* Route operations, one operator per function that holds routeMu.         *)
(***************************************************************************)

\* Cap the backoff level.
NextLevel(l) == IF l < MaxLevel THEN l + 1 ELSE MaxLevel

\* groupRouteLocked: create the entry if it is missing and drop whatever belongs to an ID
\* that the CALLER'S copy of the group does not list.
groupRouteLocked(rt, g) ==
  LET kept(f, zero) == [i \in Items |-> IF i \in g.members THEN f[i] ELSE zero]
      keepsCurrent  == rt.current \in g.members \cup {NoItem}
  IN [live      |-> TRUE,
      current   |-> IF keepsCurrent THEN rt.current ELSE NoItem,
      probeItem |-> IF rt.probeItem \in g.members THEN rt.probeItem ELSE NoItem,
      affinity  |-> keepsCurrent /\ rt.affinity,
      armed     |-> keepsCurrent /\ rt.armed,
      cooldown  |-> kept(rt.cooldown, "none"),
      levels    |-> kept(rt.levels, 0),
      halfOpens |-> rt.halfOpens \cap g.members,
      strikes   |-> kept(rt.strikes, 0),
      emCounts  |-> kept(rt.emCounts, 0),
      emBlocks  |-> rt.emBlocks \cap g.members]

\* claimHalfOpenLocked for each member of S in turn: the members it succeeds for.
Claimable(rt, S) ==
  {i \in S : rt.probeItem = NoItem /\ rt.cooldown[i] = "expired" /\ i \notin rt.halfOpens}
claimHalfOpenLocked(rt, S) ==
  [rt EXCEPT !.halfOpens = @ \cup Claimable(rt, S)]

restoreItemLocked(rt, i) ==
  [rt EXCEPT !.cooldown[i] = "none", !.levels[i] = 0, !.halfOpens = @ \ {i}]

\* Fault: a failed probe leaves the member half open.
reopenKeepsMark(rt, S) ==
  [rt EXCEPT !.cooldown = [i \in Items |-> IF i \in S THEN "cooling" ELSE @[i]],
             !.levels   = [i \in Items |-> IF i \in S THEN NextLevel(@[i]) ELSE @[i]]]

\* reopenItemLocked for each member of S.
reopenItemLocked(rt, S) ==
  [rt EXCEPT !.cooldown  = [i \in Items |-> IF i \in S THEN "cooling" ELSE @[i]],
             !.levels    = [i \in Items |-> IF i \in S THEN NextLevel(@[i]) ELSE @[i]],
             !.halfOpens = @ \ S]

EmergencyActive(rt) == FoldFunction(+, 0, rt.emCounts)
emergencyHeldLocked(rt, i) == rt.emCounts[i] > 0
\* Fault: the count is not checked before it goes down.
releaseEmergencyUnchecked(rt, i) == [rt EXCEPT !.emCounts[i] = @ - 1]
releaseEmergencyLocked(rt, i) ==
  IF emergencyHeldLocked(rt, i) THEN [rt EXCEPT !.emCounts[i] = @ - 1] ELSE rt

\* The current member has failed: leave it and arm the affinity of its successor.
LeaveCurrent(rt, i) ==
  IF rt.current = i
  THEN [rt EXCEPT !.current = NoItem, !.affinity = FALSE, !.armed = TRUE]
  ELSE rt

\* "The member is the candidate or half open", the test three functions share.
UnderRecovery(rt, i) == rt.probeItem = i \/ i \in rt.halfOpens

\* recordRouteSuccess.
recordRouteSuccess(rt, i) ==
  LET struck    == [rt EXCEPT !.strikes[i] = 0]
      restored  == [restoreItemLocked(struck, i) EXCEPT
                      !.probeItem = NoItem, !.emBlocks = @ \ {i}]
      confirmed == IF ~UnderRecovery(rt, i) THEN struck
                   ELSE IF rt.current = NoItem \/ ~rt.affinity
                        THEN [restored EXCEPT !.current = i, !.affinity = FALSE]
                        ELSE restored
  IN IF emergencyHeldLocked(rt, i) THEN releaseEmergencyLocked(confirmed, i)
     ELSE IF confirmed.current = i /\ confirmed.armed
          THEN [confirmed EXCEPT !.armed = FALSE, !.affinity = @ \/ MemberAffinity]
          ELSE confirmed

\* recordRouteFailureWithLimit; `reached' is threshold <= failures.
recordRouteFailureWithLimit(rt, i, reached) ==
  LET recovering ==
        LET freed == [rt EXCEPT !.halfOpens = @ \ {i}, !.probeItem = NoItem]
            outcome == IF reached THEN reopenItemLocked(freed, {i})
                       ELSE [freed EXCEPT !.cooldown[i] = "none"]
        IN releaseEmergencyLocked(LeaveCurrent(outcome, i), i)
      regular ==
        LET cooled == [rt EXCEPT !.cooldown[i] = "cooling",
                                 !.emBlocks = IF emergencyHeldLocked(rt, i)
                                              THEN @ \cup {i} ELSE @]
        IN releaseEmergencyLocked(LeaveCurrent(cooled, i), i)
  IN CASE UnderRecovery(rt, i)             -> recovering
       [] ~UnderRecovery(rt, i) /\ reached -> regular
       [] OTHER                            -> releaseEmergencyLocked(rt, i)

\* recordPostCommitFailure.
recordPostCommitFailure(rt0, g, i) ==
  LET rt     == groupRouteLocked(rt0, g)
      struck == [rt EXCEPT !.strikes[i] = @ + 1]
      cooled == [rt EXCEPT !.strikes[i] = 0, !.cooldown[i] = "cooling"]
  IN CASE rt.cooldown[i] # "none"                -> rt
       [] /\ rt.cooldown[i] = "none"
          /\ rt.strikes[i] + 1 < MemberMaxAttempts -> struck
       [] OTHER                                  -> LeaveCurrent(cooled, i)

\* Fault: the half-open mark is given back and the candidate is not.
DropHoldKeepsCandidate(rt, i) == [rt EXCEPT !.halfOpens = @ \ {i}]

\* The mark part of releaseRouteProbe, all that releaseRefChainProbeHolds gives back.
DropHold(rt, i) ==
  [rt EXCEPT !.halfOpens = @ \ {i}, !.probeItem = IF @ = i THEN NoItem ELSE @]

\* Fault: a round without a verdict keeps its share of the emergency quota.
releaseRouteProbeKeepsQuota(rt, i) == DropHold(rt, i)
releaseRouteProbe(rt, i) == releaseEmergencyLocked(DropHold(rt, i), i)

ResetGroupCooldown(rt) ==
  [rt EXCEPT !.cooldown = [i \in Items |-> "none"], !.levels = [i \in Items |-> 0],
             !.strikes = [i \in Items |-> 0], !.emBlocks = {}]

\* allMembersInCooldown on the caller's copy of the group.
allMembersInCooldown(rt, g) ==
  LET enabled == g.members \ disabled
  IN /\ g.mode = "failover" /\ rt.live
     /\ enabled # {}
     /\ \A i \in enabled : rt.cooldown[i] = "cooling"

\* claimEmergencyLocked lets the request on the emergency member.
EmergencyOpen(rt, g, avoid) ==
  /\ g.emergency \in (g.members \ avoid) \ disabled
  /\ EmergencyActive(rt) < EmergencyMaxConcurrent
  /\ g.emergency \notin rt.halfOpens \cup rt.emBlocks
claimEmergencyLocked(rt, g) == [rt EXCEPT !.emCounts[g.emergency] = @ + 1]

\* passthroughOrderedItems: members speaking the client's protocol come first.
Before(native, i, j) ==
  IF (i \in native) = (j \in native) THEN Prio[i] < Prio[j] ELSE i \in native

---------------------------------------------------------------------------
Init ==
  /\ route = EmptyRoute
  /\ group = InitGroup
  /\ phase = "present"
  /\ gone = {}
  /\ disabled = {}
  /\ req = [r \in Requests |-> FreshReq]
  /\ probes = [i \in Items |-> 0]
  /\ bg = {}

Snap(r) == req[r].snap
adminVars == <<group, phase, gone, disabled>>

\* Move request r to control point pc and change nothing else of it.
GoTo(r, pc) == req' = [req EXCEPT ![r].pc = pc]

\* The member i is handed to request r.
Serve(r, i, hold) ==
  req' = [req EXCEPT ![r] = [@ EXCEPT !.pc = "inflight", !.item = i, !.hold = hold,
                                      !.batch = {}, !.avoid = {}]]

\* The round of request r is over; the loop goes round again or Forward returns.  The
\* variable hops keeps its value, which only the recover handler ever reads again.
EndRound(r) ==
  req' = [req EXCEPT ![r] = [FreshReq EXCEPT !.item = IF "panic" \in Features
                                                      THEN req[r].item ELSE NoItem]]

\* groupLookupFunc at the top of a round: a failing lookup just waits.
ReadGroup(r) ==
  /\ req[r].pc = "idle"
  /\ phase = "present"
  /\ req' = [req EXCEPT ![r].pc = "read", ![r].snap = group]
  /\ UNCHANGED <<route, probes, bg, adminVars>>

\* pickGroupItemSkipping, manual mode: the active member or nothing; no lock is taken.
PickManual(r) ==
  /\ req[r].pc = "read" /\ Snap(r).mode = "manual"
  /\ \E avoid \in SUBSET Items :
       IF Snap(r).active \in (Snap(r).members \ avoid) \ disabled
       THEN Serve(r, Snap(r).active, "regular")
       ELSE GoTo(r, "empty")
  /\ UNCHANGED <<route, probes, bg, adminVars>>

\* pickSessionStickyLocked: any member may be the one a session is bound to.
PickSticky(r, i) ==
  /\ "sticky" \in Features
  /\ req[r].pc = "read" /\ Snap(r).mode = "failover"
  /\ i \in Snap(r).members \ disabled
  /\ route.cooldown[i] # "cooling"
  /\ Serve(r, i, "regular")
  /\ UNCHANGED <<route, probes, bg, adminVars>>

\* The first section of a failover pick: the cleaned route, without a current member the
\* request skips.  While a candidate is being confirmed the pick ends before the latter.
Picking(r) == req[r].pc = "read" /\ Snap(r).mode = "failover"
Cleaned(r) == groupRouteLocked(route, Snap(r))
PickRoute(r, skipped) ==
  LET rt == Cleaned(r)
  IN IF rt.current \in skipped
     THEN [rt EXCEPT !.current = NoItem, !.affinity = FALSE, !.armed = FALSE]
     ELSE rt

\* The pick waits for the confirmation of the candidate and returns no member.
PickBehindCandidate(r) ==
  /\ Picking(r)
  /\ Cleaned(r).probeItem # NoItem
  /\ route' = Cleaned(r)
  /\ GoTo(r, "empty")
  /\ UNCHANGED <<probes, bg, adminVars>>

\* Within the affinity period the current member is kept.
AffinityServes(rt, r, avoid) ==
  rt.affinity /\ rt.current \in (Snap(r).members \ avoid) \ disabled
PickAffinity(r) ==
  /\ Picking(r)
  /\ Cleaned(r).probeItem = NoItem
  /\ \E exclude \in NullItems, skipped \in SUBSET Items :
       LET rt == PickRoute(r, skipped)
       IN /\ AffinityServes(rt, r, skipped \cup {exclude})
          /\ route' = rt
          /\ Serve(r, rt.current, "regular")
  /\ UNCHANGED <<probes, bg, adminVars>>

\* The scan: members it may use, the CLOSED ones, and the ones whose cooldown is over.
Usable(r, avoid) == (Snap(r).members \ avoid) \ disabled
Closed(rt, S) == {i \in S : rt.cooldown[i] = "none"}
Expired(rt, S) == {i \in S : rt.cooldown[i] = "expired" /\ i \notin rt.halfOpens}

\* ensureProbeLocked for the claimable members of S: one goroutine each.
StartProbes(rt, S) ==
  /\ \A i \in Claimable(rt, S) : probes[i] < MaxAsyncProbes
  /\ probes' = [i \in Items |-> IF i \in Claimable(rt, S) THEN probes[i] + 1 ELSE probes[i]]

\* The first CLOSED member of the scan is served, and the expired members met before it
\* are probed in the background.
PickClosed(r) ==
  /\ Picking(r)
  /\ Cleaned(r).probeItem = NoItem
  /\ \E exclude \in NullItems, skipped \in SUBSET Items, native \in NativeSets :
       LET rt  == PickRoute(r, skipped)
           av  == skipped \cup {exclude}
           use == Usable(r, av)
       IN /\ ~AffinityServes(rt, r, av)
          /\ \E sel \in Closed(rt, use) :
               LET met == {i \in Expired(rt, use) : Before(native, i, sel)}
               IN /\ \A j \in Closed(rt, use) \ {sel} : Before(native, sel, j)
                  /\ StartProbes(rt, met)
                  /\ route' = [claimHalfOpenLocked(rt, met) EXCEPT !.current = sel]
                  /\ Serve(r, sel, "regular")
  /\ UNCHANGED <<bg, adminVars>>

\* No CLOSED member: all expired members become HALF_OPEN together and the request
\* probes them as one batch, outside the lock.
PickBatch(r) ==
  /\ Picking(r)
  /\ Cleaned(r).probeItem = NoItem
  /\ \E exclude \in NullItems, skipped \in SUBSET Items :
       LET rt  == PickRoute(r, skipped)
           av  == skipped \cup {exclude}
           use == Usable(r, av)
       IN /\ ~AffinityServes(rt, r, av)
          /\ Closed(rt, use) = {}
          /\ Expired(rt, use) # {}
          /\ route' = claimHalfOpenLocked(rt, Expired(rt, use))
          /\ req' = [req EXCEPT ![r].pc = "probing", ![r].batch = Expired(rt, use),
                                 ![r].avoid = av \cap Items]
  /\ UNCHANGED <<probes, bg, adminVars>>

\* Neither: the request goes on to the emergency section.
PickNothing(r) ==
  /\ Picking(r)
  /\ Cleaned(r).probeItem = NoItem
  /\ \E exclude \in NullItems, skipped \in SUBSET Items :
       LET rt  == PickRoute(r, skipped)
           av  == skipped \cup {exclude}
           use == Usable(r, av)
       IN /\ ~AffinityServes(rt, r, av)
          /\ Closed(rt, use) \cup Expired(rt, use) = {}
          /\ route' = rt
          /\ req' = [req EXCEPT ![r].pc = "claiming", ![r].avoid = av \cap Items]
  /\ UNCHANGED <<probes, bg, adminVars>>

\* Fault: the losers of the batch keep their half-open marks.
BatchWinKeepsLosers(r, w) ==
  /\ req[r].pc = "probing" /\ w \in req[r].batch
  /\ IF route.live
     THEN /\ route' = [route EXCEPT !.probeItem = w]
          /\ Serve(r, w, "candidate")
     ELSE /\ req' = [req EXCEPT ![r].pc = "claiming", ![r].batch = {}]
          /\ UNCHANGED route
  /\ UNCHANGED <<probes, bg, adminVars>>

\* recoverExpiredItems, last section, after every probe of the batch has answered.
\* A route that was removed meanwhile makes the batch come to nothing.
BatchWin(r, w) ==
  /\ req[r].pc = "probing" /\ w \in req[r].batch
  /\ IF route.live
     THEN /\ route' = [route EXCEPT !.halfOpens = @ \ (req[r].batch \ {w}), !.probeItem = w]
          /\ Serve(r, w, "candidate")
     ELSE /\ req' = [req EXCEPT ![r].pc = "claiming", ![r].batch = {}]
          /\ UNCHANGED route
  /\ UNCHANGED <<probes, bg, adminVars>>

BatchLose(r, route1) ==
  /\ req[r].pc = "probing"
  /\ route' = IF route.live THEN route1 ELSE route
  /\ req' = [req EXCEPT ![r].pc = "claiming", ![r].batch = {}]
  /\ UNCHANGED <<probes, bg, adminVars>>

\* Every probe failed: all members of the batch back off.
BatchFail(r) == BatchLose(r, reopenItemLocked(route, req[r].batch))

\* Fault: a cancelled batch returns without touching the route.
BatchCancelKeepsMarks(r) == BatchLose(r, route)

\* The client left: the marks go, nobody is blamed.
BatchCancel(r) == BatchLose(r, [route EXCEPT !.halfOpens = @ \ req[r].batch])

\* claimEmergencyItemSkipping, a section of its own.
ClaimEmergency(r) ==
  /\ req[r].pc = "claiming"
  /\ LET rt == Cleaned(r)
     IN IF EmergencyOpen(rt, Snap(r), req[r].avoid)
        THEN /\ route' = claimEmergencyLocked(rt, Snap(r))
             /\ Serve(r, Snap(r).emergency, "emergency")
        ELSE /\ route' = rt
             /\ req' = [req EXCEPT ![r].pc = "empty", ![r].avoid = {}]
  /\ UNCHANGED <<probes, bg, adminVars>>

\* No member: wait and scan again.
WaitAndRescan(r) ==
  /\ req[r].pc = "empty"
  /\ EndRound(r)
  /\ UNCHANGED <<route, probes, bg, adminVars>>

\* No member and AllCooldownRetryBaseSeconds > 0: check, then clear, in two sections.
AutoClearCheck(r) ==
  /\ "autoclear" \in Features
  /\ req[r].pc = "empty"
  /\ allMembersInCooldown(route, Snap(r))
  /\ GoTo(r, "clearing")
  /\ UNCHANGED <<route, probes, bg, adminVars>>
AutoClear(r) ==
  /\ req[r].pc = "clearing"
  /\ route' = IF route.live THEN ResetGroupCooldown(route) ELSE route
  /\ EndRound(r)
  /\ UNCHANGED <<probes, bg, adminVars>>

---------------------------------------------------------------------------
(***************************************************************************)
(* Outcomes of a dispatched round.  A manual-mode snapshot keeps no health *)
(* records, yet releaseRouteProbe does not look at the mode.               *)
(***************************************************************************)
Report(r, route1) ==
  route' = IF route.live /\ Snap(r).mode = "failover" THEN route1 ELSE route

Success(r) ==
  /\ req[r].pc = "inflight"
  /\ Report(r, recordRouteSuccess(route, req[r].item))
  /\ EndRound(r)
  /\ UNCHANGED <<probes, bg, adminVars>>

Failure(r) ==
  /\ req[r].pc = "inflight"
  /\ \E reached \in BOOLEAN :
       Report(r, recordRouteFailureWithLimit(route, req[r].item, reached))
  /\ EndRound(r)
  /\ UNCHANGED <<probes, bg, adminVars>>

Release(r) ==
  /\ req[r].pc \in {"inflight", "releasing"}
  /\ route' = IF route.live THEN releaseRouteProbe(route, req[r].item) ELSE route
  /\ EndRound(r)
  /\ UNCHANGED <<probes, bg, adminVars>>

\* A stream that broke after its first byte: strike first, release in a later section.
PostCommitFailure(r) ==
  /\ "postcommit" \in Features
  /\ req[r].pc = "inflight"
  /\ route' = IF Snap(r).mode = "failover"
              THEN recordPostCommitFailure(route, Snap(r), req[r].item) ELSE route
  /\ GoTo(r, "releasing")
  /\ UNCHANGED <<probes, bg, adminVars>>

\* Fault: the recover handler gives nothing back.
PanicKeepsHolds(r) ==
  /\ "panic" \in Features
  /\ req[r].pc \in {"idle", "read", "inflight", "releasing"}
  /\ req[r].item # NoItem
  /\ req' = [req EXCEPT ![r] = FreshReq]
  /\ UNCHANGED <<route, probes, bg, adminVars>>

\* The recover of Forward, in a round or between two: hops may be the last round's.  A panic
\* inside the selection itself, before hops is assigned, is not modelled: the marks of the batch
\* or the candidate of that round would be in no hops.  The probes of a batch have a recover of
\* their own (runProbeSafely).
releaseRefChainProbeHolds(r) ==
  /\ "panic" \in Features
  /\ req[r].pc \in {"idle", "read", "inflight", "releasing"}
  /\ req[r].item # NoItem
  /\ route' = IF route.live THEN DropHold(route, req[r].item) ELSE route
  /\ req' = [req EXCEPT ![r] = FreshReq]
  /\ UNCHANGED <<probes, bg, adminVars>>

\* The request is over; the goroutine's next request has no hops yet.
Finish(r) ==
  /\ req[r].pc = "idle" /\ req[r].item # NoItem
  /\ req' = [req EXCEPT ![r] = FreshReq]
  /\ UNCHANGED <<route, probes, bg, adminVars>>

---------------------------------------------------------------------------
\* runAsyncProbe writes its verdict unless the mark is gone.
AsyncProbeDone(i, ok) ==
  /\ probes[i] > 0
  /\ probes' = [probes EXCEPT ![i] = @ - 1]
  /\ route' = IF ~route.live \/ i \notin route.halfOpens THEN route
              ELSE IF ok THEN restoreItemLocked(route, i)
              ELSE reopenItemLocked(route, {i})
  /\ UNCHANGED <<req, bg, adminVars>>

\* BackgroundProbe copies the due groups, then ProbeExpiredItems handles each copy.
BackgroundRead ==
  /\ "background" \in Features
  /\ phase = "present" /\ group.mode = "failover" /\ bg = {}
  /\ bg' = {group}
  /\ UNCHANGED <<route, req, probes, adminVars>>
ProbeExpiredItems ==
  \E g \in bg :
    LET rt == groupRouteLocked(route, g)
    IN /\ StartProbes(rt, g.members)
       /\ route' = claimHalfOpenLocked(rt, g.members)
       /\ bg' = {}
       /\ UNCHANGED <<req, adminVars>>

\* The clock passes a deadline.
Expire(i) ==
  /\ route.cooldown[i] = "cooling"
  /\ route' = [route EXCEPT !.cooldown[i] = "expired"]
  /\ UNCHANGED <<req, probes, bg, adminVars>>
AffinityExpire ==
  /\ route.affinity
  /\ route' = [route EXCEPT !.affinity = FALSE]
  /\ UNCHANGED <<req, probes, bg, adminVars>>
BlockExpire(i) ==
  /\ i \in route.emBlocks
  /\ route' = [route EXCEPT !.emBlocks = @ \ {i}]
  /\ UNCHANGED <<req, probes, bg, adminVars>>

---------------------------------------------------------------------------
\* The administrator: ResetGroupCooldown, GroupUpdate in parts, GroupActiveItemUpdate.
ResetCooldown ==
  /\ "reset" \in Features
  /\ route.live
  /\ route' = ResetGroupCooldown(route)
  /\ UNCHANGED <<req, probes, bg, adminVars>>
RemoveMember(i) ==
  /\ "members" \in Features /\ phase = "present" /\ i \in group.members
  /\ group' = [group EXCEPT !.members = @ \ {i},
                              !.active = IF @ = i THEN NoItem ELSE @]
  /\ gone' = gone \cup {i}
  /\ UNCHANGED <<route, req, probes, bg, phase, disabled>>
AddMember(i) ==
  /\ "members" \in Features /\ phase = "present" /\ i \notin group.members \cup gone
  /\ group' = [group EXCEPT !.members = @ \cup {i}]
  /\ UNCHANGED <<route, req, probes, bg, phase, gone, disabled>>
SetMode(m) ==
  /\ "mode" \in Features /\ phase = "present"
  /\ group' = [group EXCEPT !.mode = m]
  /\ UNCHANGED <<route, req, probes, bg, phase, gone, disabled>>
GroupActiveItemUpdate(i) ==
  /\ "mode" \in Features /\ phase = "present"
  /\ i \in group.members \cup {NoItem}
  /\ group' = [group EXCEPT !.active = i]
  /\ UNCHANGED <<route, req, probes, bg, phase, gone, disabled>>
\* The code does not check that the emergency member is a member.
SetEmergency(i) ==
  /\ "emergency" \in Features /\ phase = "present"
  /\ group' = [group EXCEPT !.emergency = i]
  /\ UNCHANGED <<route, req, probes, bg, phase, gone, disabled>>
ToggleDisabled(i) ==
  /\ "disable" \in Features
  /\ disabled' = IF i \in disabled THEN disabled \ {i} ELSE disabled \cup {i}
  /\ UNCHANGED <<route, req, probes, bg, group, phase, gone>>
\* deleteGroup: op.GroupDel, then RemoveGroupRoute.
DeleteGroup ==
  /\ "delete" \in Features /\ phase = "present"
  /\ phase' = "deleting"
  /\ UNCHANGED <<route, req, probes, bg, group, gone, disabled>>
RemoveGroupRoute ==
  /\ phase = "deleting"
  /\ phase' = "removed"
  /\ route' = EmptyRoute
  /\ UNCHANGED <<req, probes, bg, group, gone, disabled>>

---------------------------------------------------------------------------
Pick(r) ==
  \/ PickManual(r)
  \/ \E i \in Items : PickSticky(r, i)
  \/ PickBehindCandidate(r)
  \/ PickAffinity(r)
  \/ PickClosed(r)
  \/ PickBatch(r)
  \/ PickNothing(r)
Recover(r) == (\E w \in Items : BatchWin(r, w)) \/ BatchFail(r) \/ BatchCancel(r)
Outcome(r) == Success(r) \/ Failure(r) \/ Release(r) \/ PostCommitFailure(r)
Probe == (\E i \in Items, ok \in BOOLEAN : AsyncProbeDone(i, ok))
         \/ BackgroundRead \/ ProbeExpiredItems
Clock == AffinityExpire \/ \E i \in Items : Expire(i) \/ BlockExpire(i)
Admin ==
  \/ ResetCooldown
  \/ \E i \in Items : RemoveMember(i) \/ AddMember(i) \/ ToggleDisabled(i)
  \/ \E m \in {"failover", "manual"} : SetMode(m)
  \/ \E i \in NullItems : GroupActiveItemUpdate(i) \/ SetEmergency(i)
  \/ DeleteGroup
  \/ RemoveGroupRoute

Next ==
  \/ \E r \in Requests :
       \/ ReadGroup(r) \/ Pick(r) \/ Recover(r) \/ ClaimEmergency(r)
       \/ WaitAndRescan(r) \/ AutoClearCheck(r) \/ AutoClear(r)
       \/ Outcome(r) \/ releaseRefChainProbeHolds(r) \/ Finish(r)
  \/ Probe \/ Clock \/ Admin

Spec == Init /\ [][Next]_vars

\* A request under way and a probe come to an end: the member timeouts, the stream idle
\* timeout and the probe deadline see to it.  Nothing makes clients send requests.
Fairness ==
  /\ \A r \in Requests : WF_vars(Recover(r)) /\ WF_vars(Outcome(r))
  /\ \A i \in Items : WF_vars(\E ok \in BOOLEAN : AsyncProbeDone(i, ok))
FairSpec == Spec /\ Fairness

---------------------------------------------------------------------------
(***************************************************************************)
(* Invariants.                                                             *)
(***************************************************************************)

\* Every variable stays in its type.
TypeOK ==
  /\ route \in RouteStates
  /\ group \in GroupStates
  /\ phase \in {"present", "deleting", "removed"}
  /\ gone \in SUBSET Items
  /\ disabled \in SUBSET Items
  /\ req \in [Requests -> ReqStates]
  /\ probes \in [Items -> 0..MaxAsyncProbes]
  /\ bg \in SUBSET GroupStates

\* A request that will still report on member i, under the failover rules.
Holder(r, i) ==
  /\ req[r].pc \in {"inflight", "releasing"}
  /\ req[r].item = i
  /\ Snap(r).mode = "failover"

\* The group is never pinned: whenever ProbeItemID makes every pick wait, the request
\* confirming that candidate is still under way and will give the candidate back.
CandidateHeld ==
  route.probeItem # NoItem => \E r \in Requests : Holder(r, route.probeItem)

\* No member is stuck in HALF_OPEN: each mark has a live owner, an async probe, a batch
\* that will be settled, or a request that will report on the member.
HalfOpenOwned ==
  \A i \in route.halfOpens :
    \/ probes[i] > 0
    \/ \E r \in Requests : Holder(r, i) \/ (req[r].pc = "probing" /\ i \in req[r].batch)

\* Both marks have an owner, whatever edits the group or panics on the way.
HoldsOwned == CandidateHeld /\ HalfOpenOwned

\* The emergency quota does not leak: a member is never charged for more emergency
\* requests than are under way on it.
EmergencyHolders(i) == {r \in Requests : Holder(r, i) /\ req[r].hold = "emergency"}
EmergencyNoLeak ==
  \A i \in Items : route.emCounts[i] <= Cardinality(EmergencyHolders(i))

---------------------------------------------------------------------------
(***************************************************************************)
(* Liveness.                                                               *)
(***************************************************************************)

\* Picks do not wait for a candidate for ever: ProbeItemID always returns to zero, even
\* when overlapping batches replace one candidate by another.
CandidateSettles == route.probeItem # NoItem ~> route.probeItem = NoItem

\* Every member leaves HALF_OPEN again.
HalfOpenSettles == \A i \in Items : i \in route.halfOpens ~> i \notin route.halfOpens

---------------------------------------------------------------------------
(***************************************************************************)
(* What comments of the code promise and interleavings break.              *)
(***************************************************************************)

\* Affinity never points at a member in cooldown (route.go, recordPostCommitFailure).
AffinityNotOpen ==
  route.affinity /\ route.current # NoItem => route.cooldown[route.current] # "cooling"

====
