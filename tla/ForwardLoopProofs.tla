------------------------- MODULE ForwardLoopProofs -------------------------
(***************************************************************************)
(* The safety of ForwardLoop for every set of members and every limit.     *)
(* IInv is inductive; each action is shown to preserve it on its own, from  *)
(* lemmas that say what the shared steps of the loop do to the request's   *)
(* record and lifecycle.                                                   *)
(***************************************************************************)
EXTENDS ForwardLoop, FiniteSetTheorems, TLAPS

\* The number of members is a natural number, so the skip counter has a range.
LEMMA MembersCounted == Cardinality(Members) \in Nat
  BY ConstantsOK, FS_CardinalityType

\* The parts of IInv beside TypeOK.
Shape ==
  /\ OneAnswer /\ NothingLeft /\ StoppedIsClosed /\ OneLateRound /\ RoundsCounted
  /\ ItemChosen /\ CancelIsCurrent /\ ResponseHeld /\ LateIsStopped /\ FinalIsDone /\ CallsAim

\* IInv is its type part and its shape.
LEMMA InvParts == IInv <=> TypeOK /\ Shape
  BY DEF IInv, Shape

\* The request starts in the inductive invariant.
LEMMA InitInv == Init => TypeOK /\ Shape
<1> SUFFICES ASSUME Init PROVE TypeOK /\ Shape
  OBVIOUS
<1>1. TypeOK
  <2>1. loop \in Locals
    BY ConstantsOK, MembersCounted DEF Init, Locals
  <2>2. seen \in Sets
    BY ConstantsOK DEF Init, Sets
  <2>3. rq \in Records
    BY ConstantsOK DEF Init, Records
  <2>4. lc \in Lifecycles
    BY ConstantsOK DEF Init, Lifecycles, Contexts
  <2>5. kill \in [{"stop", "interrupt"} -> Calls]
    BY ConstantsOK DEF Init, Calls, NoCall
  <2>6. pc \in PCs /\ streaming \in BOOLEAN /\ result \in Results
    BY DEF Init, PCs, Results
  <2>7. resp \in {"none", "open", "closed"} /\ owed \in 0..1 /\ late \in 0..MaxRounds
    BY ConstantsOK DEF Init
  <2>8. client \in BOOLEAN /\ allStopped \in BOOLEAN
    BY DEF Init
  <2> QED
    BY <2>1, <2>2, <2>3, <2>4, <2>5, <2>6, <2>7, <2>8 DEF TypeOK
<1>2. Shape
  BY ConstantsOK DEF Init, Shape, OneAnswer, NothingLeft, StoppedIsClosed, OneLateRound,
     RoundsCounted, ItemChosen, CancelIsCurrent, ResponseHeld, LateIsStopped, FinalIsDone,
     CallsAim, NoCall, Holding, InRound, Final
<1> QED
  BY <1>1, <1>2

---------------------------------------------------------------------------
(* What the shared steps do. *)

\* A record keeps its type under every status the marks write.
LEMMA StatusType ==
  ASSUME NEW r \in Records, NEW s \in {"running", "committed"} \cup Final
  PROVE [r EXCEPT !.status = s] \in Records
  BY DEF Records

\* A record keeps all but the cancel when its round is released.
LEMMA ReleasedRecord ==
  ASSUME rq \in Records
  PROVE /\ Released \in Records
        /\ Released.status = rq.status /\ Released.cancel = 0 /\ Released.round = rq.round
        /\ Released.stopRequested = rq.stopRequested
  BY ConstantsOK DEF Released, Records

\* markCommitted after the round was released.
LEMMA CommittedRecord ==
  ASSUME rq \in Records
  PROVE /\ Committed \in Records
        /\ Committed.status = "committed" /\ Committed.cancel = 0 /\ Committed.round = rq.round
        /\ Committed.stopRequested = rq.stopRequested
<1>1. Committed = [Released EXCEPT !.status = "committed"]
  BY DEF Committed, Released
<1>2. Committed \in Records
  BY <1>1, StatusType, ReleasedRecord
<1> QED
  BY <1>2 DEF Committed, Records

\* A finished record has its status and no cancel, and keeps the rest.
LEMMA FinishedRecord ==
  ASSUME rq \in Records, NEW s \in Final
  PROVE /\ Finished(s) \in Records
        /\ Finished(s).status = s /\ Finished(s).cancel = 0 /\ Finished(s).round = rq.round
        /\ Finished(s).stopRequested = rq.stopRequested
<1> DEFINE r == [rq EXCEPT !.status = s]
<1>1. r \in Records
  BY StatusType
<1>2. \A q \in Records : [q EXCEPT !.cancel = 0] \in Records
  BY ConstantsOK DEF Records
<1>3. Finished(s) = [r EXCEPT !.cancel = 0]
  BY DEF Finished
<1>4. Finished(s) \in Records
  BY <1>1, <1>2, <1>3
<1> QED
  BY <1>4 DEF Finished, Records

\* A round started under a lifecycle's number.
LEMMA StartedRecord ==
  ASSUME rq \in Records, rq.round < MaxRounds, NEW id \in 0..MaxRounds
  PROVE /\ Started(id) \in Records
        /\ Started(id).status = rq.status /\ Started(id).cancel = id
        /\ Started(id).round = rq.round + 1 /\ Started(id).stopRequested = rq.stopRequested
<1> DEFINE r == [rq EXCEPT !.round = rq.round + 1]
<1>1. r \in Records
  BY ConstantsOK DEF Records
<1>2. \A q \in Records : [q EXCEPT !.cancel = id] \in Records
  BY DEF Records
<1>3. Started(id) = [r EXCEPT !.cancel = id]
  BY DEF Started
<1>4. Started(id) \in Records
  BY <1>1, <1>2, <1>3
<1> QED
  BY <1>4 DEF Started, Records

\* A cancelled context is not live, and nothing else of the lifecycle changes.
LEMMA CanceledLifecycle ==
  ASSUME lc \in Lifecycles, NEW c \in Contexts
  PROVE /\ Canceled(c) \in Lifecycles /\ Canceled(c).id = lc.id
        /\ Canceled(c).stopped = lc.stopped /\ Canceled(c).attached = lc.attached
        /\ c # "live" => Canceled(c).ctx # "live"
        /\ Canceled(c).ctx \in {lc.ctx, c}
  BY DEF Canceled, Lifecycles

\* A halted lifecycle is stopped and otherwise as it was.
LEMMA HaltedLifecycle ==
  ASSUME NEW l \in Lifecycles
  PROVE /\ Halted(l) \in Lifecycles /\ Halted(l).id = l.id /\ Halted(l).stopped
        /\ Halted(l).attached = l.attached /\ Halted(l).ctx = l.ctx
  BY DEF Halted, Lifecycles

\* Stop, as the owner of the round calls it: the context is over, the lifecycle stopped.
LEMMA EndedLifecycle ==
  ASSUME lc \in Lifecycles
  PROVE /\ Ended \in Lifecycles /\ Ended.id = lc.id /\ Ended.stopped
        /\ Ended.attached = lc.attached /\ Ended.ctx # "live" /\ Ended.ctx \in {lc.ctx, "over"}
<1>1. "over" \in Contexts /\ "over" # "live"
  BY DEF Contexts
<1> QED
  BY <1>1, CanceledLifecycle, HaltedLifecycle DEF Ended

\* Closing what is attached leaves no attached response open.
LEMMA ClosedResponse ==
  ASSUME resp \in {"none", "open", "closed"}
  PROVE /\ ClosedIfAttached \in {"none", "open", "closed"}
        /\ lc.attached => ClosedIfAttached # "open"
        /\ resp # "open" => ClosedIfAttached # "open"
  BY DEF ClosedIfAttached

\* releaseRoundLifecycle in a round.
LEMMA ReleaseEnds ==
  ASSUME TypeOK, rq.cancel # 0, releaseRoundLifecycle
  PROVE /\ lc' \in Lifecycles /\ lc'.id = lc.id /\ lc'.stopped /\ lc'.attached = lc.attached
        /\ lc'.ctx # "live"
        /\ resp' \in {"none", "open", "closed"}
        /\ lc.attached => resp' # "open"
        /\ resp # "open" => resp' # "open"
  BY EndedLifecycle, ClosedResponse DEF TypeOK, releaseRoundLifecycle

\* A new lifecycle has the next number, is not stopped and holds nothing.
LEMMA NewLifecycle ==
  ASSUME lc \in Lifecycles, lc.id < MaxRounds
  PROVE /\ newRoundLifecycle \in Lifecycles /\ newRoundLifecycle.id = lc.id + 1
        /\ ~newRoundLifecycle.stopped /\ ~newRoundLifecycle.attached
        /\ newRoundLifecycle.ctx # "admin"
  BY ConstantsOK DEF newRoundLifecycle, Lifecycles, Contexts

\* The loop's locals keep their type, and their round, through every selection.
LEMMA LocalsKept ==
  ASSUME loop \in Locals
  PROVE /\ Masked \in Locals /\ Masked.rounds = loop.rounds
        /\ Unexcluded \in Locals /\ Unexcluded.rounds = loop.rounds
        /\ Excluding \in Locals /\ Excluding.rounds = loop.rounds
        /\ Rescan \in Locals /\ Rescan.rounds = loop.rounds
        /\ AllRefsBroken \in Locals /\ AllRefsBroken.rounds = loop.rounds
<1>1. Masked \in Locals /\ Masked.rounds = loop.rounds
  BY DEF Masked, Locals
<1>2. Unexcluded \in Locals /\ Unexcluded.rounds = loop.rounds
  BY DEF Unexcluded, Locals
<1>3. Excluding \in Locals /\ Excluding.rounds = loop.rounds
  BY DEF Excluding, Locals
<1>4. Rescan \in Locals /\ Rescan.rounds = loop.rounds
  BY DEF Rescan, Locals
<1>5. AllRefsBroken \in Locals /\ AllRefsBroken.rounds = loop.rounds
  <2> DEFINE l == [loop EXCEPT !.maskDone = TRUE, !.exclude = NoItem]
  <2>1. l \in Locals /\ l.rounds = loop.rounds
    BY DEF Locals
  <2>2. AllRefsBroken = [l EXCEPT !.refSkips = 0]
    BY DEF AllRefsBroken, Locals
  <2> HIDE DEF l
  <2> QED
    BY <2>1, <2>2, MembersCounted DEF Locals
<1> QED
  BY <1>1, <1>2, <1>3, <1>4, <1>5

\* A chosen member is the loop's item.
LEMMA ChosenLocals ==
  ASSUME loop \in Locals, NEW m \in Members
  PROVE Chosen(m) \in Locals /\ Chosen(m).rounds = loop.rounds /\ Chosen(m).item = m
<1> DEFINE l == [loop EXCEPT !.maskDone = TRUE, !.item = m]
<1>1. l \in Locals /\ l.rounds = loop.rounds /\ l.item = m
  BY DEF Locals
<1>2. Chosen(m) = [l EXCEPT !.refSkips = 0]
  BY DEF Chosen
<1> HIDE DEF l
<1> QED
  BY <1>1, <1>2, MembersCounted DEF Locals

\* A broken reference is counted below the number of members.
LEMMA BrokenRefLocals ==
  ASSUME loop \in Locals, NEW m \in Members, loop.refSkips < Cardinality(Members)
  PROVE BrokenRef(m) \in Locals /\ BrokenRef(m).rounds = loop.rounds
<1> DEFINE n == loop.refSkips + 1
<1>1. n \in 0..Cardinality(Members)
  BY MembersCounted DEF Locals
<1>2. BrokenRef(m) = [loop EXCEPT !.maskDone = TRUE, !.refSkips = n, !.exclude = m]
  BY DEF BrokenRef
<1> HIDE DEF n
<1> QED
  BY <1>1, <1>2 DEF Locals

\* The head of the loop counts the round within the type.
LEMMA NextRoundLocals ==
  ASSUME loop \in Locals, loop.rounds <= MaxRounds
  PROVE /\ NextRound(loop.rounds + 1) \in Locals
        /\ NextRound(loop.rounds + 1).rounds = loop.rounds + 1
<1> DEFINE n == loop.rounds + 1
<1>1. n \in 0..MaxRounds + 1
  BY ConstantsOK DEF Locals
<1>2. \A k \in 0..MaxRounds + 1 : [loop EXCEPT !.rounds = k] \in Locals
  BY DEF Locals
<1>3. \A l \in Locals : [l EXCEPT !.item = NoItem] \in Locals
  BY DEF Locals
<1>4. NextRound(n) = [[loop EXCEPT !.rounds = n] EXCEPT !.item = NoItem]
  BY DEF NextRound
<1>5. NextRound(n) \in Locals
  BY <1>1, <1>2, <1>3, <1>4
<1> HIDE DEF n
<1>6. NextRound(n).rounds = n
  BY <1>5 DEF NextRound, Locals
<1> QED
  BY <1>5, <1>6 DEF n

\* So do the request's member sets.
LEMMA SetsKept ==
  ASSUME NEW s \in Sets, NEW S \in SUBSET Members
  PROVE Skipping(s, S) \in Sets
  BY DEF Skipping, Sets

\* The once-only retries of a member are sets of members and counts below the limit.
LEMMA RetriedSets ==
  ASSUME seen \in Sets, NEW m \in Members
  PROVE /\ EofRetried(m) \in Sets /\ Sanitized(m) \in Sets
        /\ seen.retries[m] < MaxAccountRetries => AccountRetried(m) \in Sets
<1>1. EofRetried(m) \in Sets
  BY DEF EofRetried, Sets
<1>2. Sanitized(m) \in Sets
  BY DEF Sanitized, Sets
<1>3. ASSUME seen.retries[m] < MaxAccountRetries PROVE AccountRetried(m) \in Sets
  <2>1. seen.retries \in [Members -> 0..MaxAccountRetries]
    BY DEF Sets
  <2>2. [seen.retries EXCEPT ![m] = @ + 1] \in [Members -> 0..MaxAccountRetries]
    BY <1>3, <2>1, ConstantsOK
  <2>3. AccountRetried(m) = [seen EXCEPT !.retries = [seen.retries EXCEPT ![m] = @ + 1]]
    BY DEF AccountRetried
  <2> DEFINE f == [seen.retries EXCEPT ![m] = @ + 1]
  <2> HIDE DEF f
  <2> QED
    BY <2>2, <2>3 DEF Sets, f
<1> QED
  BY <1>1, <1>2, <1>3


\* Admission: refused unregistered, failed at once, or into the loop.
LEMMA EnterInv == TypeOK /\ Shape /\ Enter => TypeOK' /\ Shape'
<1> SUFFICES ASSUME TypeOK, Shape, Enter PROVE TypeOK' /\ Shape'
  OBVIOUS
<1>1. /\ rq' \in Records
      /\ rq'.cancel = rq.cancel /\ rq'.round = rq.round /\ rq'.stopRequested = rq.stopRequested
      /\ pc' = "done" \/ pc' = "top"
      /\ pc' = "done" => rq'.status \in Final \cup {"none"}
      /\ pc' = "top" => rq'.status \notin Final
  <2>1. rq \in Records /\ rq.cancel = 0 /\ rq.status = "none"
    BY DEF TypeOK, Shape, NothingLeft, FinalIsDone, InRound, Enter
  <2>2. LET r == [rq EXCEPT !.status = "running"] IN
        /\ r \in Records /\ r.status = "running"
        /\ r.cancel = rq.cancel /\ r.round = rq.round /\ r.stopRequested = rq.stopRequested
    BY <2>1, StatusType DEF Records
  <2>3. "failed" \in Final /\ "running" \notin Final
    BY DEF Final
  <2> QED
    BY <2>1, <2>2, <2>3, FinishedRecord DEF Enter, End
<1> QED
  BY <1>1 DEF TypeOK, PCs, Enter, Loops, Shape, OneAnswer, NothingLeft, StoppedIsClosed,
     OneLateRound, RoundsCounted, ItemChosen, CancelIsCurrent, ResponseHeld, LateIsStopped,
     FinalIsDone, CallsAim, Holding, InRound

\* The head of the loop lets a request on only if it was not stopped.
LEMMA TopInv == TypeOK /\ Shape /\ Top => TypeOK' /\ Shape'
<1> SUFFICES ASSUME TypeOK, Shape, Top PROVE TypeOK' /\ Shape'
  OBVIOUS
<1>1. /\ rq' \in Records
      /\ rq'.cancel = 0 /\ rq'.round = rq.round /\ rq'.stopRequested = rq.stopRequested
      /\ loop' \in Locals /\ loop'.rounds \in {loop.rounds, loop.rounds + 1} /\ result' = "none"
      /\ \/ pc' = "done" /\ rq'.status \in Final
         \/ /\ pc' = "select" /\ rq' = rq /\ ~rq.stopRequested
            /\ loop'.rounds = loop.rounds + 1 /\ loop'.rounds <= MaxRounds
  <2>1. rq \in Records /\ rq.cancel = 0
    BY DEF TypeOK, Shape, NothingLeft, InRound, Top, LoopHead
  <2>2. "failed" \in Final /\ "canceled" \in Final /\ "success" \in Final
    BY DEF Final
  <2>3. /\ loop \in Locals /\ loop.rounds \in 0..MaxRounds
        /\ loop.rounds + 1 \in 0..MaxRounds + 1
    BY ConstantsOK DEF TypeOK, Shape, RoundsCounted, Locals, Top, LoopHead
  <2>4. NextRound(loop.rounds + 1) \in Locals /\ NextRound(loop.rounds + 1).rounds = loop.rounds + 1
    BY <2>3, NextRoundLocals, ConstantsOK
  <2>5. /\ rq' \in Records
        /\ rq'.cancel = 0 /\ rq'.round = rq.round /\ rq'.stopRequested = rq.stopRequested
        /\ \/ pc' = "done" /\ rq'.status \in Final
           \/ /\ pc' = "select" /\ rq' = rq /\ ~rq.stopRequested /\ loop.rounds < MaxRounds
              /\ loop' = NextRound(loop.rounds + 1)
    BY <2>1, <2>2, FinishedRecord DEF Top, LoopHead, End
  <2>6. loop' = loop \/ loop' = NextRound(loop.rounds + 1)
    BY DEF Top, LoopHead
  <2>7. result' = "none"
    BY DEF Top, LoopHead
  <2> QED
    BY <2>3, <2>4, <2>5, <2>6, <2>7, ConstantsOK
<1> QED
  BY <1>1, ConstantsOK DEF Top, TypeOK, PCs, Loops, Shape, OneAnswer, NothingLeft,
     StoppedIsClosed, OneLateRound, RoundsCounted, ItemChosen, CancelIsCurrent, ResponseHeld,
     LateIsStopped, FinalIsDone, CallsAim, Holding, InRound, LoopHead, Results, Locals, Records,
     Lifecycles

\* Without a group the request waits or fails.
LEMMA NoGroupInv == TypeOK /\ Shape /\ NoGroup => TypeOK' /\ Shape'
<1> SUFFICES ASSUME TypeOK, Shape, NoGroup PROVE TypeOK' /\ Shape'
  OBVIOUS
<1>1. /\ rq' \in Records
      /\ rq'.cancel = 0 /\ rq'.round = rq.round /\ rq'.stopRequested = rq.stopRequested
      /\ \/ pc' = "done" /\ rq'.status \in Final
         \/ pc' = "waiting" /\ rq' = rq
  <2>1. rq \in Records /\ rq.cancel = 0
    BY DEF TypeOK, Shape, NothingLeft, InRound, NoGroup
  <2>2. "failed" \in Final /\ "canceled" \in Final /\ "success" \in Final
    BY DEF Final
  <2> QED
    BY <2>1, <2>2, FinishedRecord DEF NoGroup, End, Wait
<1> QED
  BY <1>1, ConstantsOK DEF NoGroup, TypeOK, PCs, Loops, Shape, OneAnswer, NothingLeft,
     StoppedIsClosed, OneLateRound, RoundsCounted, ItemChosen, CancelIsCurrent, ResponseHeld,
     LateIsStopped, FinalIsDone, CallsAim, Holding, InRound

\* Without a member the request waits or fails.
LEMMA NoMemberInv == TypeOK /\ Shape /\ NoMember => TypeOK' /\ Shape'
<1> SUFFICES ASSUME TypeOK, Shape, NoMember PROVE TypeOK' /\ Shape'
  OBVIOUS
<1>1. /\ rq' \in Records /\ seen' \in Sets
      /\ rq'.cancel = 0 /\ rq'.round = rq.round /\ rq'.stopRequested = rq.stopRequested
      /\ loop' \in Locals /\ loop'.rounds = loop.rounds
      /\ \/ pc' = "done" /\ rq'.status \in Final
         \/ pc' = "waiting" /\ rq' = rq
  <2>1. rq \in Records /\ rq.cancel = 0
    BY DEF TypeOK, Shape, NothingLeft, InRound, NoMember
  <2>2. "failed" \in Final /\ "canceled" \in Final /\ "success" \in Final
    BY DEF Final
  <2>3. seen' \in Sets
    BY SetsKept DEF NoMember, TypeOK
  <2>4. loop' \in Locals /\ loop'.rounds = loop.rounds
    BY LocalsKept DEF NoMember, TypeOK
  <2> QED
    BY <2>1, <2>2, <2>3, <2>4, FinishedRecord DEF NoMember, End, Wait
<1> QED
  BY <1>1, ConstantsOK DEF NoMember, TypeOK, PCs, Loops, Shape, OneAnswer, NothingLeft,
     StoppedIsClosed, OneLateRound, RoundsCounted, ItemChosen, CancelIsCurrent, ResponseHeld,
     LateIsStopped, FinalIsDone, CallsAim, Holding, InRound

\* A pick makes one answer owed.
LEMMA PickInv == TypeOK /\ Shape /\ Pick => TypeOK' /\ Shape'
<1> SUFFICES ASSUME TypeOK, Shape, Pick PROVE TypeOK' /\ Shape'
  OBVIOUS
<1>1. /\ seen' \in Sets /\ loop' \in Locals /\ loop'.rounds = loop.rounds
      /\ \/ pc' = "picked" /\ owed' = owed + 1 /\ loop'.item \in Members
         \/ pc' \in {"top", "waiting"} /\ owed' = owed
  <2>1. PICK skip \in SUBSET Members, m \in Members \ {loop.exclude} :
          /\ seen' = Skipping(seen, skip)
          /\ \/ pc' = "picked" /\ owed' = owed + 1 /\ loop' = Chosen(m)
             \/ /\ loop.refSkips < Cardinality(Members)
                /\ pc' = "top" /\ owed' = owed /\ loop' = BrokenRef(m)
             \/ pc' = "waiting" /\ owed' = owed /\ loop' = AllRefsBroken
    BY DEF Pick
  <2>2. seen' \in Sets
    BY <2>1, SetsKept DEF TypeOK
  <2>3. loop \in Locals
    BY DEF TypeOK
  <2> QED
    BY <2>1, <2>2, <2>3, LocalsKept, ChosenLocals, BrokenRefLocals
<1> QED
  BY <1>1, ConstantsOK DEF Pick, TypeOK, PCs, Loops, Shape, OneAnswer, NothingLeft,
     StoppedIsClosed, OneLateRound, RoundsCounted, ItemChosen, CancelIsCurrent, ResponseHeld,
     LateIsStopped, FinalIsDone, CallsAim, Holding, InRound

---------------------------------------------------------------------------
(* Where a pass of the loop ends: the request is over, or the loop goes on with the record *)
(* released and the locals of the same round.                                              *)
Onward ==
  /\ rq' \in Records /\ rq'.cancel = 0
  /\ rq'.round = rq.round /\ rq'.stopRequested = rq.stopRequested
  /\ loop' \in Locals /\ loop'.rounds = loop.rounds /\ seen' \in Sets
  /\ \/ pc' = "done" /\ rq'.status \in Final
     \/ pc' \in {"top", "waiting"} /\ rq'.status = rq.status

\* A request that ends goes onward.
LEMMA EndOnward ==
  ASSUME TypeOK, NEW s \in Final, End(s), loop' = loop, seen' \in Sets
  PROVE Onward
  BY FinishedRecord DEF Onward, End, TypeOK

\* So does one that retries.
LEMMA RetryOnward ==
  ASSUME TypeOK, NEW l \in Locals, l.rounds = loop.rounds, NEW s \in Sets, Retry(l, s)
  PROVE Onward
  BY ReleasedRecord DEF Onward, Retry, TypeOK

\* So does one that gives its member up.
LEMMA GiveUpOnward ==
  ASSUME TypeOK, NEW s \in Sets, GiveUp(s)
  PROVE Onward
<1>1. Excluding \in Locals /\ Excluding.rounds = loop.rounds /\ "failed" \in Final
  BY LocalsKept DEF TypeOK, Final
<1>2. CASE Retry(Excluding, s)
  BY <1>1, <1>2, RetryOnward
<1>3. CASE End("failed") /\ seen' = s /\ UNCHANGED loop
  BY <1>1, <1>3, EndOnward
<1> QED
  BY <1>2, <1>3 DEF GiveUp

\* A member that cannot be used is answered before anything was started.
LEMMA UnusableInv == TypeOK /\ Shape /\ Unusable => TypeOK' /\ Shape'
<1> SUFFICES ASSUME TypeOK, Shape, Unusable PROVE TypeOK' /\ Shape'
  OBVIOUS
<1>1. Onward
  <2>1. /\ seen \in Sets /\ loop \in Locals /\ rq \in Records /\ rq.cancel = 0
        /\ loop.item \in Members \cup {NoItem} /\ "failed" \in Final
    BY DEF TypeOK, Shape, NothingLeft, InRound, Unusable, Locals, Final
  <2>2. CASE Wait /\ loop' = Unexcluded /\ UNCHANGED seen
    BY <2>1, <2>2, LocalsKept DEF Onward, Wait
  <2>3. CASE End("failed") /\ UNCHANGED <<loop, seen>>
    BY <2>1, <2>3, EndOnward
  <2>4. CASE GiveUp(Skipping(seen, {loop.item}))
    <3>1. loop.item \in Members
      BY DEF Shape, ItemChosen, Unusable, Holding
    <3> QED
      BY <2>1, <2>4, <3>1, SetsKept, GiveUpOnward
  <2> QED
    BY <2>2, <2>3, <2>4 DEF Unusable
<1> QED
  BY <1>1, ConstantsOK DEF Unusable, TypeOK, PCs, Loops, Shape, OneAnswer, NothingLeft,
     StoppedIsClosed, OneLateRound, RoundsCounted, ItemChosen, CancelIsCurrent, ResponseHeld,
     LateIsStopped, FinalIsDone, CallsAim, Holding, InRound, Onward, Settle

\* The round that fails before anything is sent leaves no lifecycle alive.
LEMMA DispatchErrorInv == TypeOK /\ Shape /\ DispatchError => TypeOK' /\ Shape'
<1> SUFFICES ASSUME TypeOK, Shape, DispatchError PROVE TypeOK' /\ Shape'
  OBVIOUS
<1>1. \/ /\ Onward /\ lc' = lc /\ late' = late /\ pc' = "done"
      \/ /\ rq' \in Records /\ rq'.cancel = 0 /\ rq'.status = rq.status
         /\ rq'.round = rq.round + 1 /\ rq'.stopRequested = rq.stopRequested
         /\ lc' \in Lifecycles /\ lc'.id = lc.id + 1 /\ lc'.ctx = "over" /\ ~lc'.attached
         /\ loop' \in Locals /\ loop'.rounds = loop.rounds
         /\ pc' \in {"top", "waiting"}
         /\ late' = IF rq.stopRequested THEN late + 1 ELSE late
  <2>1. /\ rq \in Records /\ lc \in Lifecycles /\ loop \in Locals /\ seen \in Sets
        /\ lc.id < loop.rounds /\ rq.round < loop.rounds /\ loop.rounds <= MaxRounds
        /\ lc.id \in Nat /\ rq.round \in Nat /\ loop.rounds \in Nat
        /\ "canceled" \in Final
    BY ConstantsOK DEF TypeOK, Shape, RoundsCounted, DispatchError, Records, Lifecycles,
       Locals, Final
  <2>2. CASE ~client
    BY <2>1, <2>2, EndOnward DEF DispatchError, End
  <2>3. CASE client
    <3>1. rq.round < MaxRounds /\ lc.id < MaxRounds /\ 0 \in 0..MaxRounds
      BY <2>1, ConstantsOK
    <3>2. /\ rq' \in Records /\ rq'.cancel = 0 /\ rq'.status = rq.status
          /\ rq'.round = rq.round + 1 /\ rq'.stopRequested = rq.stopRequested
      BY <2>1, <2>3, <3>1, StartedRecord DEF DispatchError
    <3>3. /\ lc' \in Lifecycles /\ lc'.id = lc.id + 1 /\ lc'.ctx = "over" /\ ~lc'.attached
      <4>1. LET h == Halted(newRoundLifecycle) IN
            h \in Lifecycles /\ h.id = lc.id + 1 /\ ~h.attached
        BY <2>1, <3>1, NewLifecycle, HaltedLifecycle
      <4>2. lc' = [Halted(newRoundLifecycle) EXCEPT !.ctx = "over"]
        BY <2>3 DEF DispatchError
      <4> QED
        BY <4>1, <4>2 DEF Lifecycles, Contexts
    <3>4. loop' \in Locals /\ loop'.rounds = loop.rounds /\ pc' \in {"top", "waiting"}
      BY <2>1, <2>3, LocalsKept DEF DispatchError, RouteFailure
    <3> QED
      BY <2>3, <3>2, <3>3, <3>4 DEF DispatchError, CountLate
  <2> QED
    BY <2>2, <2>3
<1>2. /\ pc = "picked" /\ owed' = owed - 1
      /\ UNCHANGED <<seen, result, resp, streaming, client, allStopped, kill>>
  BY DEF DispatchError, Loops, Settle
<1>3. /\ lc.id \in Nat /\ rq.round \in Nat /\ loop.rounds \in Nat /\ late \in Nat
      /\ kill["interrupt"].id \in Nat /\ owed \in Nat /\ MaxRounds \in Nat
  BY ConstantsOK DEF TypeOK, Lifecycles, Records, Locals, Calls
<1>4. CASE pc' = "done"
  <2>1. TypeOK'
    BY <1>1, <1>2, <1>3, <1>4, ConstantsOK DEF TypeOK, PCs, Holding, Onward, Shape,
       OneAnswer, LateIsStopped
  <2>2. Shape'
    BY <1>1, <1>2, <1>3, <1>4, ConstantsOK DEF Shape, Onward, OneAnswer, NothingLeft,
       StoppedIsClosed, OneLateRound, RoundsCounted, ItemChosen, CancelIsCurrent, ResponseHeld,
       LateIsStopped, FinalIsDone, CallsAim, Holding, InRound
  <2> QED
    BY <2>1, <2>2
<1>5. CASE pc' \in {"top", "waiting"}
  <2>1. TypeOK'
    BY <1>1, <1>2, <1>3, <1>5, ConstantsOK DEF TypeOK, PCs, Holding, Onward, Shape,
       OneAnswer, LateIsStopped
  <2>2. Shape'
    BY <1>1, <1>2, <1>3, <1>5, ConstantsOK DEF Shape, Onward, OneAnswer, NothingLeft,
       StoppedIsClosed, OneLateRound, RoundsCounted, ItemChosen, CancelIsCurrent, ResponseHeld,
       LateIsStopped, FinalIsDone, CallsAim, Holding, InRound
  <2> QED
    BY <2>1, <2>2
<1> QED
  BY <1>1, <1>4, <1>5 DEF Onward

\* The account and the key are found.
LEMMA DispatchInv == TypeOK /\ Shape /\ Dispatch => TypeOK' /\ Shape'
<1> SUFFICES ASSUME TypeOK, Shape, Dispatch PROVE TypeOK' /\ Shape'
  OBVIOUS
<1>1. pc' = "rpm"
  BY DEF Dispatch
<1> QED
  BY <1>1, ConstantsOK DEF Dispatch, TypeOK, PCs, Loops, Shape, OneAnswer, NothingLeft,
     StoppedIsClosed, OneLateRound, RoundsCounted, ItemChosen, CancelIsCurrent, ResponseHeld,
     LateIsStopped, FinalIsDone, CallsAim, Holding, InRound

\* The RPM wait ends with a fresh lifecycle or with the request.
LEMMA WaitChannelRPMInv == TypeOK /\ Shape /\ WaitChannelRPM => TypeOK' /\ Shape'
<1> SUFFICES ASSUME TypeOK, Shape, WaitChannelRPM PROVE TypeOK' /\ Shape'
  OBVIOUS
<1>1. \/ /\ pc' = "ready" /\ rq' = rq /\ owed' = owed
         /\ lc' \in Lifecycles /\ lc'.id = lc.id + 1 /\ ~lc'.stopped /\ ~lc'.attached
      \/ Onward /\ lc' = lc /\ pc' = "done" /\ owed' = owed - 1
  <2>1. /\ rq \in Records /\ lc \in Lifecycles /\ seen \in Sets /\ "canceled" \in Final
        /\ lc.id < MaxRounds
    BY ConstantsOK DEF TypeOK, Shape, RoundsCounted, WaitChannelRPM, Lifecycles, Locals, Final
  <2>2. CASE pc' = "ready" /\ lc' = newRoundLifecycle /\ UNCHANGED <<rq, owed>>
    BY <2>1, <2>2, NewLifecycle
  <2>3. CASE Settle /\ End("canceled") /\ UNCHANGED lc
    BY <2>1, <2>3, EndOnward DEF WaitChannelRPM, Settle, End
  <2> QED
    BY <2>2, <2>3 DEF WaitChannelRPM
<1>2. /\ pc = "rpm"
      /\ UNCHANGED <<loop, seen, result, resp, late, streaming, client, allStopped, kill>>
  BY DEF WaitChannelRPM, Loops, Settle
<1>3. /\ lc.id \in Nat /\ rq.round \in Nat /\ loop.rounds \in Nat /\ late \in Nat
      /\ kill["interrupt"].id \in Nat /\ owed \in Nat /\ MaxRounds \in Nat
  BY ConstantsOK DEF TypeOK, Lifecycles, Records, Locals, Calls
<1>4. CASE pc' = "ready"
  <2>1. TypeOK'
    BY <1>1, <1>2, <1>3, <1>4, ConstantsOK DEF TypeOK, PCs, Holding, Onward, Shape,
       OneAnswer, LateIsStopped
  <2>2. Shape'
    BY <1>1, <1>2, <1>3, <1>4, ConstantsOK DEF Shape, Onward, OneAnswer, NothingLeft,
       StoppedIsClosed, OneLateRound, RoundsCounted, ItemChosen, CancelIsCurrent, ResponseHeld,
       LateIsStopped, FinalIsDone, CallsAim, Holding, InRound
  <2> QED
    BY <2>1, <2>2
<1>5. CASE pc' = "done"
  <2>1. TypeOK'
    BY <1>1, <1>2, <1>3, <1>5, ConstantsOK DEF TypeOK, PCs, Holding, Onward, Shape,
       OneAnswer, LateIsStopped
  <2>2. Shape'
    BY <1>1, <1>2, <1>3, <1>5, ConstantsOK DEF Shape, Onward, OneAnswer, NothingLeft,
       StoppedIsClosed, OneLateRound, RoundsCounted, ItemChosen, CancelIsCurrent, ResponseHeld,
       LateIsStopped, FinalIsDone, CallsAim, Holding, InRound
  <2> QED
    BY <2>1, <2>2
<1> QED
  BY <1>1, <1>4, <1>5 DEF Onward

\* Without a WARP slot the fresh lifecycle is ended again.
LEMMA NoWarpSlotInv == TypeOK /\ Shape /\ NoWarpSlot => TypeOK' /\ Shape'
<1> SUFFICES ASSUME TypeOK, Shape, NoWarpSlot PROVE TypeOK' /\ Shape'
  OBVIOUS
<1>1. /\ Onward /\ owed' = owed - 1
      /\ lc' \in Lifecycles /\ lc'.id = lc.id /\ lc'.stopped /\ lc'.ctx # "live"
      /\ lc'.attached = lc.attached
  <2>1. /\ rq \in Records /\ lc \in Lifecycles /\ seen \in Sets /\ loop \in Locals
        /\ "failed" \in Final /\ rq.cancel = 0
    BY DEF TypeOK, Shape, NothingLeft, InRound, NoWarpSlot, Final
  <2>2. Onward
    BY <2>1, EndOnward DEF NoWarpSlot, Wait, Onward
  <2> QED
    BY <2>1, <2>2, EndedLifecycle DEF NoWarpSlot, Settle
<1> QED
  BY <1>1, ConstantsOK DEF NoWarpSlot, TypeOK, PCs, Loops, Shape, OneAnswer, NothingLeft,
     StoppedIsClosed, OneLateRound, RoundsCounted, ItemChosen, CancelIsCurrent, ResponseHeld,
     LateIsStopped, FinalIsDone, CallsAim, Holding, InRound, Onward, Settle

\* The one step that can make a round late.
LEMMA StartRoundInv == TypeOK /\ Shape /\ StartRound => TypeOK' /\ Shape'
<1> SUFFICES ASSUME TypeOK, Shape, StartRound PROVE TypeOK' /\ Shape'
  OBVIOUS
<1>1. /\ rq' \in Records /\ rq'.status = rq.status /\ rq'.cancel = lc.id
      /\ rq'.round = rq.round + 1 /\ rq'.stopRequested = rq.stopRequested
      /\ lc.id > 0 /\ rq.round < loop.rounds
  <2>1. /\ rq \in Records /\ lc.id \in 0..MaxRounds /\ rq.round \in 0..MaxRounds
        /\ rq.round < loop.rounds /\ loop.rounds <= MaxRounds /\ loop.rounds \in Nat
        /\ lc.id > 0
    BY ConstantsOK DEF TypeOK, Shape, RoundsCounted, CancelIsCurrent, InRound, StartRound,
       Records, Lifecycles, Locals
  <2>2. rq.round < MaxRounds
    BY <2>1, ConstantsOK
  <2> QED
    BY <2>1, <2>2, StartedRecord DEF StartRound
<1> QED
  BY <1>1, ConstantsOK DEF StartRound, TypeOK, PCs, Loops, Shape, OneAnswer, NothingLeft,
     StoppedIsClosed, OneLateRound, RoundsCounted, ItemChosen, CancelIsCurrent, ResponseHeld,
     LateIsStopped, FinalIsDone, CallsAim, Holding, InRound, CountLate, Records, Lifecycles,
     Locals

\* The upstream call returns a response or an error.
LEMMA SendInv == TypeOK /\ Shape /\ Send => TypeOK' /\ Shape'
<1> SUFFICES ASSUME TypeOK, Shape, Send PROVE TypeOK' /\ Shape'
  OBVIOUS
<1>1. /\ result' \in Results /\ resp' \in {"none", "open", "closed"}
      /\ resp' = "open" => result' = "ok"
  <2>1. resp # "open" /\ resp \in {"none", "open", "closed"}
    BY DEF Send, TypeOK, Shape, ResponseHeld
  <2> QED
    BY <2>1 DEF Send, Results
<1> QED
  BY <1>1, ConstantsOK DEF Send, TypeOK, PCs, Loops, Shape, OneAnswer, NothingLeft,
     StoppedIsClosed, OneLateRound, RoundsCounted, ItemChosen, CancelIsCurrent, ResponseHeld,
     LateIsStopped, FinalIsDone, CallsAim, Holding, InRound

\* The response that arrives after Stop is closed by Attach.
LEMMA AttachInv == TypeOK /\ Shape /\ Attach => TypeOK' /\ Shape'
<1> SUFFICES ASSUME TypeOK, Shape, Attach PROVE TypeOK' /\ Shape'
  OBVIOUS
<1>1. /\ lc' \in Lifecycles /\ lc'.id = lc.id /\ lc'.ctx = lc.ctx /\ lc'.stopped = lc.stopped
      /\ result = "ok" => lc'.attached
      /\ resp' \in {"none", "open", "closed"}
      /\ resp' = "open" => resp = "open" /\ (lc'.attached => ~lc.stopped)
  <2>1. lc \in Lifecycles /\ resp \in {"none", "open", "closed"} /\ ~lc.attached
    BY DEF Attach, TypeOK, Shape, ResponseHeld
  <2> QED
    BY <2>1 DEF Attach, Lifecycles
<1> QED
  BY <1>1, ConstantsOK DEF Attach, TypeOK, PCs, Loops, Shape, OneAnswer, NothingLeft,
     StoppedIsClosed, OneLateRound, RoundsCounted, ItemChosen, CancelIsCurrent, ResponseHeld,
     LateIsStopped, FinalIsDone, CallsAim, Holding, InRound

---------------------------------------------------------------------------
(* The answer, the failed round and the stream. *)

\* A complete answer is the pick's one answer; a stream still owes it.
LEMMA CommitInv == TypeOK /\ Shape /\ Commit => TypeOK' /\ Shape'
<1> SUFFICES ASSUME TypeOK, Shape, Commit PROVE TypeOK' /\ Shape'
  OBVIOUS
<1>1. /\ result' \in Results
      /\ \/ /\ pc' = "failed" /\ rq' = rq /\ lc' = lc /\ owed' = owed
            /\ resp' \in {resp, "closed"} /\ resp' # "open"
         \/ pc' = "streaming" /\ rq' = rq /\ lc' = lc /\ owed' = owed /\ resp' = resp /\ result = "ok"
         \/ /\ pc' = "writing" /\ owed' = owed - 1 /\ resp' = "closed"
            /\ lc' \in Lifecycles /\ lc'.id = lc.id /\ lc'.attached = lc.attached /\ lc'.ctx # "live"
            /\ rq' \in Records /\ rq'.cancel = 0 /\ rq'.status = "committed"
            /\ rq'.round = rq.round /\ rq'.stopRequested = rq.stopRequested
  <2>1. /\ rq \in Records /\ lc \in Lifecycles /\ result \in Results /\ "plain" \in Results
        /\ result # "ok" => resp # "open"
    BY DEF TypeOK, Shape, ResponseHeld, Commit, Results, Errors
  <2>2. CASE result # "ok"
    BY <2>1, <2>2 DEF Commit
  <2>3. CASE result = "ok" /\ streaming
    BY <2>1, <2>3 DEF Commit
  <2>4. CASE result = "ok" /\ ~streaming
    BY <2>1, <2>4, EndedLifecycle, CommittedRecord DEF Commit, Settle
  <2> QED
    BY <2>2, <2>3, <2>4
<1>2. /\ pc = "attached"
      /\ UNCHANGED <<loop, seen, late, streaming, client, allStopped, kill>>
  BY DEF Commit, Loops, Settle
<1>3. /\ lc.id \in Nat /\ rq.round \in Nat /\ loop.rounds \in Nat /\ late \in Nat
      /\ kill["interrupt"].id \in Nat /\ owed \in Nat /\ MaxRounds \in Nat
  BY ConstantsOK DEF TypeOK, Lifecycles, Records, Locals, Calls
<1>4. CASE pc' = "failed"
  <2>1. TypeOK'
    BY <1>1, <1>2, <1>3, <1>4, ConstantsOK DEF TypeOK, PCs, Holding, Onward, Shape,
       OneAnswer, LateIsStopped
  <2>2. Shape'
    BY <1>1, <1>2, <1>3, <1>4, ConstantsOK DEF Shape, Onward, OneAnswer, NothingLeft,
       StoppedIsClosed, OneLateRound, RoundsCounted, ItemChosen, CancelIsCurrent, ResponseHeld,
       LateIsStopped, FinalIsDone, CallsAim, Holding, InRound, Final
  <2> QED
    BY <2>1, <2>2
<1>5. CASE pc' = "streaming"
  <2>1. TypeOK'
    BY <1>1, <1>2, <1>3, <1>5, ConstantsOK DEF TypeOK, PCs, Holding, Onward, Shape,
       OneAnswer, LateIsStopped
  <2>2. Shape'
    BY <1>1, <1>2, <1>3, <1>5, ConstantsOK DEF Shape, Onward, OneAnswer, NothingLeft,
       StoppedIsClosed, OneLateRound, RoundsCounted, ItemChosen, CancelIsCurrent, ResponseHeld,
       LateIsStopped, FinalIsDone, CallsAim, Holding, InRound, Final
  <2> QED
    BY <2>1, <2>2
<1>6. CASE pc' = "writing"
  <2>1. TypeOK'
    BY <1>1, <1>2, <1>3, <1>6, ConstantsOK DEF TypeOK, PCs, Holding, Onward, Shape,
       OneAnswer, LateIsStopped
  <2>2. Shape'
    BY <1>1, <1>2, <1>3, <1>6, ConstantsOK DEF Shape, Onward, OneAnswer, NothingLeft,
       StoppedIsClosed, OneLateRound, RoundsCounted, ItemChosen, CancelIsCurrent, ResponseHeld,
       LateIsStopped, FinalIsDone, CallsAim, Holding, InRound, Final
  <2> QED
    BY <2>1, <2>2
<1> QED
  BY <1>1, <1>4, <1>5, <1>6

\* The answer is written to the client, or not.
LEMMA WriteInv == TypeOK /\ Shape /\ Write => TypeOK' /\ Shape'
<1> SUFFICES ASSUME TypeOK, Shape, Write PROVE TypeOK' /\ Shape'
  OBVIOUS
<1>1. Onward /\ pc' = "done"
  <2>1. "success" \in Final /\ "failed" \in Final /\ "canceled" \in Final /\ seen \in Sets
    BY DEF Final, TypeOK
  <2> QED
    BY <2>1, EndOnward DEF Write, End
<1> QED
  BY <1>1, ConstantsOK DEF Write, TypeOK, PCs, Loops, Shape, OneAnswer, NothingLeft,
     StoppedIsClosed, OneLateRound, RoundsCounted, ItemChosen, CancelIsCurrent, ResponseHeld,
     LateIsStopped, FinalIsDone, CallsAim, Holding, InRound, Onward

\* Whatever the error, the failed round is released and answered once.
LEMMA FailedRoundInv == TypeOK /\ Shape /\ FailedRound => TypeOK' /\ Shape'
<1> SUFFICES ASSUME TypeOK, Shape, FailedRound PROVE TypeOK' /\ Shape'
  OBVIOUS
<1>1. /\ Onward
      /\ lc' \in Lifecycles /\ lc'.id = lc.id /\ lc'.stopped /\ lc'.attached = lc.attached
      /\ lc'.ctx # "live" /\ resp' \in {"none", "open", "closed"} /\ resp' # "open"
  <2>1. /\ rq \in Records /\ lc \in Lifecycles /\ loop \in Locals /\ seen \in Sets
        /\ rq.cancel # 0 /\ resp # "open" /\ loop.item \in Members
        /\ "failed" \in Final /\ "canceled" \in Final
    BY DEF TypeOK, Shape, CancelIsCurrent, ItemChosen, ResponseHeld, FailedRound, InRound,
       Holding, Final, Lifecycles
  <2>2. /\ lc' \in Lifecycles /\ lc'.id = lc.id /\ lc'.stopped /\ lc'.attached = lc.attached
        /\ lc'.ctx # "live" /\ resp' \in {"none", "open", "closed"} /\ resp' # "open"
    BY <2>1, ReleaseEnds DEF FailedRound, EndRound
  <2> DEFINE m == loop.item
             reject(s) == GiveUp(Skipping(s, {m})) \/ GiveUp(s)
             strike == RouteFailure /\ rq' = Released /\ UNCHANGED seen
  <2>3. ASSUME Retry(loop, seen) PROVE Onward
    BY <2>1, <2>3, RetryOnward
  <2>4. ASSUME End("canceled"), UNCHANGED <<loop, seen>> PROVE Onward
    BY <2>1, <2>4, EndOnward
  <2>5. ASSUME strike PROVE Onward
    BY <2>1, <2>5, LocalsKept, ReleasedRecord DEF Onward, RouteFailure
  <2>6. ASSUME NEW s \in Sets, GiveUp(Skipping(s, {m})) PROVE Onward
    BY <2>1, <2>6, SetsKept, GiveUpOnward
  <2>7. ASSUME NEW s \in Sets, GiveUp(s) PROVE Onward
    BY <2>7, GiveUpOnward
  <2>8. ASSUME NEW s \in Sets, reject(s) PROVE Onward
    BY <2>6, <2>7, <2>8
  <2>9. ASSUME NEW s \in Sets, Retry(loop, s) PROVE Onward
    BY <2>1, <2>9, RetryOnward
  <2>10. /\ EofRetried(m) \in Sets /\ Sanitized(m) \in Sets
         /\ seen.retries[m] < MaxAccountRetries => AccountRetried(m) \in Sets
    BY <2>1, RetriedSets
  <2>11. \/ Retry(loop, seen)
         \/ End("canceled") /\ UNCHANGED <<loop, seen>>
         \/ seen.retries[m] < MaxAccountRetries /\ Retry(loop, AccountRetried(m))
         \/ Retry(loop, EofRetried(m)) \/ Retry(loop, Sanitized(m))
         \/ strike \/ reject(seen) \/ reject(Sanitized(m))
         \/ GiveUp(Skipping(seen, {m})) \/ GiveUp(seen)
    <3> HIDE DEF m
    <3>1. m = loop.item
      BY DEF m
    <3> QED
      BY ONLY <3>1, FailedRound DEF FailedRound
  <2> HIDE DEF m, reject, strike
  <2>12. Onward
    BY <2>1, <2>3, <2>4, <2>5, <2>6, <2>7, <2>8, <2>9, <2>10, <2>11
  <2> QED
    BY <2>2, <2>12
<1>2. /\ pc = "failed" /\ owed' = owed - 1
      /\ UNCHANGED <<result, late, streaming, client, allStopped, kill>>
  BY DEF FailedRound, Loops, Settle, EndRound
<1>3. /\ lc.id \in Nat /\ rq.round \in Nat /\ loop.rounds \in Nat /\ late \in Nat
      /\ kill["interrupt"].id \in Nat /\ owed \in Nat /\ MaxRounds \in Nat
  BY ConstantsOK DEF TypeOK, Lifecycles, Records, Locals, Calls
<1>4. CASE pc' = "done"
  <2>1. TypeOK'
    BY <1>1, <1>2, <1>3, <1>4, ConstantsOK DEF TypeOK, PCs, Holding, Onward, Shape,
       OneAnswer, LateIsStopped
  <2>2. Shape'
    BY <1>1, <1>2, <1>3, <1>4, ConstantsOK DEF Shape, Onward, OneAnswer, NothingLeft,
       StoppedIsClosed, OneLateRound, RoundsCounted, ItemChosen, CancelIsCurrent, ResponseHeld,
       LateIsStopped, FinalIsDone, CallsAim, Holding, InRound
  <2> QED
    BY <2>1, <2>2
<1>5. CASE pc' \in {"top", "waiting"}
  <2>1. TypeOK'
    BY <1>1, <1>2, <1>3, <1>5, ConstantsOK DEF TypeOK, PCs, Holding, Onward, Shape,
       OneAnswer, LateIsStopped
  <2>2. Shape'
    BY <1>1, <1>2, <1>3, <1>5, ConstantsOK DEF Shape, Onward, OneAnswer, NothingLeft,
       StoppedIsClosed, OneLateRound, RoundsCounted, ItemChosen, CancelIsCurrent, ResponseHeld,
       LateIsStopped, FinalIsDone, CallsAim, Holding, InRound
  <2> QED
    BY <2>1, <2>2
<1> QED
  BY <1>1, <1>4, <1>5 DEF Onward

\* The first event commits the request.
LEMMA StreamEventInv == TypeOK /\ Shape /\ StreamEvent => TypeOK' /\ Shape'
<1> SUFFICES ASSUME TypeOK, Shape, StreamEvent PROVE TypeOK' /\ Shape'
  OBVIOUS
<1>1. /\ rq' \in Records /\ rq'.status = "committed" /\ rq'.cancel = rq.cancel
      /\ rq'.round = rq.round /\ rq'.stopRequested = rq.stopRequested
  <2>1. rq \in Records
    BY DEF TypeOK
  <2> QED
    BY <2>1, StatusType DEF StreamEvent, Records
<1> QED
  BY <1>1, ConstantsOK DEF StreamEvent, TypeOK, PCs, Loops, Shape, OneAnswer, NothingLeft,
     StoppedIsClosed, OneLateRound, RoundsCounted, ItemChosen, CancelIsCurrent, ResponseHeld,
     LateIsStopped, FinalIsDone, CallsAim, Holding, InRound, Final

\* The end of the stream closes the response.
LEMMA StreamEndInv == TypeOK /\ Shape /\ StreamEnd => TypeOK' /\ Shape'
<1> SUFFICES ASSUME TypeOK, Shape, StreamEnd PROVE TypeOK' /\ Shape'
  OBVIOUS
<1>1. /\ result' \in Results
      /\ rq' \in Records /\ rq'.cancel = 0 /\ rq'.status = rq.status
      /\ rq'.round = rq.round /\ rq'.stopRequested = rq.stopRequested
      /\ lc' \in Lifecycles /\ lc'.id = lc.id /\ lc'.stopped /\ lc'.attached = lc.attached
      /\ lc'.ctx # "live" /\ resp' \in {"none", "open", "closed"} /\ resp' # "open"
  <2>1. rq \in Records /\ rq.cancel # 0 /\ (resp = "open" => lc.attached)
    BY DEF TypeOK, Shape, CancelIsCurrent, ResponseHeld, StreamEnd, InRound, Lifecycles, Records
  <2>2. result' \in Results
    BY DEF StreamEnd, Results
  <2> QED
    BY <2>1, <2>2, ReleaseEnds, ReleasedRecord DEF StreamEnd
<1>2. /\ pc = "streaming"
      /\ UNCHANGED <<loop, seen, owed, late, streaming, client, allStopped, kill>>
  BY DEF StreamEnd, Loops, Settle
<1>3. /\ lc.id \in Nat /\ rq.round \in Nat /\ loop.rounds \in Nat /\ late \in Nat
      /\ kill["interrupt"].id \in Nat /\ owed \in Nat /\ MaxRounds \in Nat
  BY ConstantsOK DEF TypeOK, Lifecycles, Records, Locals, Calls
<1>4. CASE pc' = "ended"
  <2>1. TypeOK'
    BY <1>1, <1>2, <1>3, <1>4, ConstantsOK DEF TypeOK, PCs, Holding, Onward, Shape,
       OneAnswer, LateIsStopped
  <2>2. Shape'
    BY <1>1, <1>2, <1>3, <1>4, ConstantsOK DEF Shape, Onward, OneAnswer, NothingLeft,
       StoppedIsClosed, OneLateRound, RoundsCounted, ItemChosen, CancelIsCurrent, ResponseHeld,
       LateIsStopped, FinalIsDone, CallsAim, Holding, InRound
  <2> QED
    BY <2>1, <2>2
<1> QED
  BY <1>4 DEF StreamEnd

\* The verdict on the stream is the pick's one answer.
LEMMA StreamVerdictInv == TypeOK /\ Shape /\ StreamVerdict => TypeOK' /\ Shape'
<1> SUFFICES ASSUME TypeOK, Shape, StreamVerdict PROVE TypeOK' /\ Shape'
  OBVIOUS
<1>1. Onward /\ pc' = "done"
  <2>1. "success" \in Final /\ "failed" \in Final /\ "canceled" \in Final /\ seen \in Sets
    BY DEF Final, TypeOK
  <2> QED
    BY <2>1, EndOnward DEF StreamVerdict, End
<1> QED
  BY <1>1, ConstantsOK DEF StreamVerdict, TypeOK, PCs, Loops, Shape, OneAnswer, NothingLeft,
     StoppedIsClosed, OneLateRound, RoundsCounted, ItemChosen, CancelIsCurrent, ResponseHeld,
     LateIsStopped, FinalIsDone, CallsAim, Holding, InRound, Onward, Settle

\* A wait ends in the loop or in the request's end.
LEMMA RequestWaitInv == TypeOK /\ Shape /\ RequestWait => TypeOK' /\ Shape'
<1> SUFFICES ASSUME TypeOK, Shape, RequestWait PROVE TypeOK' /\ Shape'
  OBVIOUS
<1>1. Onward
  <2>1. "canceled" \in Final /\ seen \in Sets /\ loop \in Locals /\ rq \in Records /\ rq.cancel = 0
    BY DEF Final, TypeOK, Shape, NothingLeft, InRound, RequestWait
  <2>2. CASE pc' = "top" /\ UNCHANGED rq
    BY <2>1, <2>2 DEF RequestWait, Onward
  <2>3. CASE End("canceled")
    BY <2>1, <2>3, EndOnward DEF RequestWait
  <2> QED
    BY <2>2, <2>3 DEF RequestWait
<1> QED
  BY <1>1, ConstantsOK DEF RequestWait, TypeOK, PCs, Loops, Shape, OneAnswer, NothingLeft,
     StoppedIsClosed, OneLateRound, RoundsCounted, ItemChosen, CancelIsCurrent, ResponseHeld,
     LateIsStopped, FinalIsDone, CallsAim, Holding, InRound, Onward

\* A panic leaves nothing of the request behind.
LEMMA PanicInv == TypeOK /\ Shape /\ Panic => TypeOK' /\ Shape'
<1> SUFFICES ASSUME TypeOK, Shape, Panic PROVE TypeOK' /\ Shape'
  OBVIOUS
<1>1. /\ rq' \in Records /\ rq'.status \in Final /\ rq'.cancel = 0
      /\ rq'.round = rq.round /\ rq'.stopRequested = rq.stopRequested
      /\ lc' \in Lifecycles /\ lc'.id = lc.id /\ lc'.attached = lc.attached
      /\ lc'.ctx # "live"
      /\ resp' \in {"none", "open", "closed"} /\ resp' # "open"
  <2>1. /\ rq \in Records /\ lc \in Lifecycles /\ resp \in {"none", "open", "closed"}
        /\ "failed" \in Final
        /\ rq.status \in Final => rq.cancel = 0
        /\ resp = "open" => lc.attached
        /\ lc.id = 0 => lc.ctx # "live"
    BY DEF TypeOK, Shape, NothingLeft, FinalIsDone, ResponseHeld, CancelIsCurrent, Panic,
       InRound, Final
  <2>2. /\ rq' \in Records /\ rq'.status \in Final /\ rq'.cancel = 0
        /\ rq'.round = rq.round /\ rq'.stopRequested = rq.stopRequested
    BY <2>1, FinishedRecord DEF Panic, abandonUnfinishedRequest
  <2> QED
    BY <2>1, <2>2, EndedLifecycle, ClosedResponse DEF Panic
<1>2. /\ owed' = 0
      /\ UNCHANGED <<loop, seen, result, late, streaming, client, allStopped, kill>>
  BY DEF Panic, Loops, Settle
<1>3. /\ lc.id \in Nat /\ rq.round \in Nat /\ loop.rounds \in Nat /\ late \in Nat
      /\ kill["interrupt"].id \in Nat /\ owed \in Nat /\ MaxRounds \in Nat
  BY ConstantsOK DEF TypeOK, Lifecycles, Records, Locals, Calls
<1>4. CASE pc' = "done"
  <2>1. TypeOK'
    BY <1>1, <1>2, <1>3, <1>4, ConstantsOK DEF TypeOK, PCs, Holding, Onward, Shape,
       OneAnswer, LateIsStopped
  <2>2. Shape'
    BY <1>1, <1>2, <1>3, <1>4, ConstantsOK DEF Shape, Onward, OneAnswer, NothingLeft,
       StoppedIsClosed, OneLateRound, RoundsCounted, ItemChosen, CancelIsCurrent, ResponseHeld,
       LateIsStopped, FinalIsDone, CallsAim, Holding, InRound
  <2> QED
    BY <2>1, <2>2
<1> QED
  BY <1>4 DEF Panic

---------------------------------------------------------------------------
(* The client, the timers and the operator. *)

\* The client leaves.
LEMMA ClientLeavesInv == TypeOK /\ Shape /\ ClientLeaves => TypeOK' /\ Shape'
<1> SUFFICES ASSUME TypeOK, Shape, ClientLeaves PROVE TypeOK' /\ Shape'
  OBVIOUS
<1>1. /\ lc' \in Lifecycles /\ lc'.id = lc.id /\ lc'.stopped = lc.stopped
      /\ lc'.attached = lc.attached /\ lc'.ctx # "live"
  BY CanceledLifecycle DEF ClientLeaves, TypeOK, Contexts
<1>2. UNCHANGED <<pc, streaming, loop, seen, result, owed, late, rq, resp, allStopped, kill>>
  BY DEF ClientLeaves, Forwarding
<1>3. client' \in BOOLEAN
  BY DEF ClientLeaves
<1>4. TypeOK'
  BY <1>1, <1>2, <1>3, Zenon DEF TypeOK
<1>5. Shape'
  BY <1>1, <1>2, ConstantsOK DEF Shape, OneAnswer, NothingLeft, StoppedIsClosed,
     OneLateRound, RoundsCounted, ItemChosen, CancelIsCurrent, ResponseHeld, LateIsStopped,
     FinalIsDone, CallsAim, Holding, InRound
<1> QED
  BY <1>4, <1>5

\* A timer of the round fires.
LEMMA TimerInv == TypeOK /\ Shape /\ Timer => TypeOK' /\ Shape'
<1> SUFFICES ASSUME TypeOK, Shape, Timer PROVE TypeOK' /\ Shape'
  OBVIOUS
<1>1. /\ lc' \in Lifecycles /\ lc'.id = lc.id /\ lc'.stopped = lc.stopped
      /\ lc'.attached = lc.attached /\ lc'.ctx # "live"
  BY CanceledLifecycle DEF Timer, TypeOK, Contexts
<1> QED
  BY <1>1, ConstantsOK DEF Timer, TypeOK, PCs, Loops, Shape, OneAnswer, NothingLeft,
     StoppedIsClosed, OneLateRound, RoundsCounted, ItemChosen, CancelIsCurrent, ResponseHeld,
     LateIsStopped, FinalIsDone, CallsAim, Holding, InRound, Forwarding

\* StopRequest sets its flag and leaves a running Interrupt alone.
LEMMA StopRequestInv == TypeOK /\ Shape /\ StopRequest => TypeOK' /\ Shape'
<1> SUFFICES ASSUME TypeOK, Shape, StopRequest PROVE TypeOK' /\ Shape'
  OBVIOUS
<1>1. /\ rq' \in Records /\ rq'.stopRequested /\ rq'.status = rq.status /\ rq'.cancel = rq.cancel
      /\ rq'.round = rq.round
      /\ kill' \in [{"stop", "interrupt"} -> Calls] /\ kill'["interrupt"] = kill["interrupt"]
  <2>1. rq \in Records /\ kill \in [{"stop", "interrupt"} -> Calls]
    BY DEF TypeOK
  <2>2. LET r == [rq EXCEPT !.stopRequested = TRUE] IN
        /\ r \in Records /\ r.stopRequested /\ r.status = rq.status /\ r.cancel = rq.cancel
        /\ r.round = rq.round
    BY <2>1 DEF Records
  <2> DEFINE c == [step |-> IF rq.cancel = 0 THEN "wake" ELSE "cancel", id |-> rq.cancel, asked |-> 0]
  <2>3. c \in Calls
    BY <2>1, ConstantsOK DEF Records, Calls
  <2>4. kill' = [kill EXCEPT !["stop"] = c]
    BY DEF StopRequest
  <2> HIDE DEF c
  <2>5. kill' \in [{"stop", "interrupt"} -> Calls] /\ kill'["interrupt"] = kill["interrupt"]
    BY <2>1, <2>3, <2>4
  <2> QED
    BY <2>2, <2>5 DEF StopRequest
<1> QED
  BY <1>1, ConstantsOK DEF StopRequest, TypeOK, PCs, Loops, Shape, OneAnswer, NothingLeft,
     StoppedIsClosed, OneLateRound, RoundsCounted, ItemChosen, CancelIsCurrent, ResponseHeld,
     LateIsStopped, FinalIsDone, CallsAim, Holding, InRound, Forwarding

\* An Interrupt aims at the round whose cancel it took.
LEMMA InterruptInv ==
  ASSUME NEW n \in 1..MaxRounds
  PROVE TypeOK /\ Shape /\ Interrupt(n) => TypeOK' /\ Shape'
<1> SUFFICES ASSUME TypeOK, Shape, Interrupt(n) PROVE TypeOK' /\ Shape'
  OBVIOUS
<1>1. /\ kill' \in [{"stop", "interrupt"} -> Calls] /\ kill'["stop"] = kill["stop"]
      /\ kill'["interrupt"].id = rq.cancel /\ kill'["interrupt"].asked = rq.round
      /\ rq.cancel # 0
  <2>1. rq \in Records /\ kill \in [{"stop", "interrupt"} -> Calls] /\ n \in 0..MaxRounds
    BY ConstantsOK DEF TypeOK
  <2> DEFINE c == [step |-> "cancel", id |-> rq.cancel, asked |-> n]
  <2>2. c \in Calls /\ c.id = rq.cancel /\ c.asked = n
    BY <2>1 DEF Records, Calls
  <2>3. kill' = [kill EXCEPT !["interrupt"] = c] /\ rq.cancel # 0 /\ rq.round = n
    BY DEF Interrupt, InterruptCall
  <2> HIDE DEF c
  <2> QED
    BY <2>1, <2>2, <2>3
<1> QED
  BY <1>1, ConstantsOK DEF Interrupt, TypeOK, PCs, Loops, Shape, OneAnswer, NothingLeft,
     StoppedIsClosed, OneLateRound, RoundsCounted, ItemChosen, CancelIsCurrent, ResponseHeld,
     LateIsStopped, FinalIsDone, CallsAim, Holding, InRound, InterruptCall, Forwarding,
     Lifecycles

\* A call in progress moves on; its aim stays.
LEMMA CallMoves ==
  ASSUME TypeOK, NEW p \in {"stop", "interrupt"}, NEW c \in Calls,
         kill' = [kill EXCEPT ![p] = c]
  PROVE /\ kill' \in [{"stop", "interrupt"} -> Calls]
        /\ kill'[p] = c
        /\ \A q \in {"stop", "interrupt"} \ {p} : kill'[q] = kill[q]
  BY DEF TypeOK

\* The taken cancel is called.
LEMMA KillCancelInv ==
  ASSUME NEW p \in {"stop", "interrupt"}
  PROVE TypeOK /\ Shape /\ KillCancel(p) => TypeOK' /\ Shape'
<1> SUFFICES ASSUME TypeOK, Shape, KillCancel(p) PROVE TypeOK' /\ Shape'
  OBVIOUS
<1>1. /\ lc' \in Lifecycles /\ lc'.id = lc.id /\ lc'.stopped = lc.stopped
      /\ lc'.attached = lc.attached /\ (lc'.ctx = "live" => lc.ctx = "live")
      /\ kill' \in [{"stop", "interrupt"} -> Calls]
      /\ \A q \in {"stop", "interrupt"} : /\ kill'[q].id = kill[q].id
                                          /\ kill'[q].asked = kill[q].asked
                                          /\ kill'[q].step # "idle" => kill[q].step # "idle"
  <2>1. lc \in Lifecycles /\ kill \in [{"stop", "interrupt"} -> Calls] /\ "admin" \in Contexts
    BY DEF TypeOK, Contexts
  <2>2. /\ lc' \in Lifecycles /\ lc'.id = lc.id /\ lc'.stopped = lc.stopped
        /\ lc'.attached = lc.attached /\ (lc'.ctx = "live" => lc.ctx = "live")
    BY <2>1, CanceledLifecycle DEF KillCancel
  <2> DEFINE c == [kill[p] EXCEPT !.step = "halt"]
  <2>3. c \in Calls /\ c.id = kill[p].id /\ c.asked = kill[p].asked
    BY <2>1 DEF Calls
  <2>4. kill' = [kill EXCEPT ![p] = c] /\ kill[p].step # "idle"
    BY DEF KillCancel
  <2> HIDE DEF c
  <2>5. /\ kill' \in [{"stop", "interrupt"} -> Calls] /\ kill'[p] = c
        /\ \A q \in {"stop", "interrupt"} \ {p} : kill'[q] = kill[q]
    BY <2>3, <2>4, CallMoves
  <2> QED
    BY <2>2, <2>3, <2>4, <2>5
<1> QED
  BY <1>1, ConstantsOK DEF KillCancel, TypeOK, PCs, Loops, Shape, OneAnswer, NothingLeft,
     StoppedIsClosed, OneLateRound, RoundsCounted, ItemChosen, CancelIsCurrent, ResponseHeld,
     LateIsStopped, FinalIsDone, CallsAim, Holding, InRound, Forwarding

\* The lifecycle is stopped and what it holds closed.
LEMMA KillHaltInv ==
  ASSUME NEW p \in {"stop", "interrupt"}
  PROVE TypeOK /\ Shape /\ KillHalt(p) => TypeOK' /\ Shape'
<1> SUFFICES ASSUME TypeOK, Shape, KillHalt(p) PROVE TypeOK' /\ Shape'
  OBVIOUS
<1>1. /\ lc' \in Lifecycles /\ lc'.id = lc.id /\ lc'.attached = lc.attached /\ lc'.ctx = lc.ctx
      /\ resp' \in {"none", "open", "closed"} /\ (resp' = "open" => resp = "open")
      /\ lc'.stopped /\ lc'.attached => lc.stopped \/ resp' # "open"
      /\ lc.stopped => lc'.stopped
      /\ kill' \in [{"stop", "interrupt"} -> Calls]
      /\ \A q \in {"stop", "interrupt"} :
           kill'[q].step # "idle" => /\ kill[q].step # "idle"
                                     /\ q = "interrupt" => kill'[q] = kill[q]
  <2>1. lc \in Lifecycles /\ resp \in {"none", "open", "closed"}
    BY DEF TypeOK
  <2>2. /\ lc' \in Lifecycles /\ lc'.id = lc.id /\ lc'.attached = lc.attached /\ lc'.ctx = lc.ctx
        /\ resp' \in {"none", "open", "closed"} /\ (resp' = "open" => resp = "open")
        /\ lc'.stopped /\ lc'.attached => lc.stopped \/ resp' # "open"
        /\ lc.stopped => lc'.stopped
    BY <2>1, HaltedLifecycle, ClosedResponse DEF KillHalt, ClosedIfAttached
  <2> DEFINE c == IF p = "stop" THEN [NoCall EXCEPT !.step = "wake"] ELSE NoCall
  <2>3. c \in Calls /\ (p = "interrupt" => c.step = "idle")
    BY ConstantsOK DEF Calls, NoCall
  <2>4. kill' = [kill EXCEPT ![p] = c] /\ kill[p].step # "idle"
    BY DEF KillHalt
  <2> HIDE DEF c
  <2>5. /\ kill' \in [{"stop", "interrupt"} -> Calls] /\ kill'[p] = c
        /\ \A q \in {"stop", "interrupt"} \ {p} : kill'[q] = kill[q]
    BY <2>3, <2>4, CallMoves
  <2> QED
    BY <2>2, <2>3, <2>4, <2>5
<1> QED
  BY <1>1, ConstantsOK DEF KillHalt, TypeOK, PCs, Loops, Shape, OneAnswer, NothingLeft,
     StoppedIsClosed, OneLateRound, RoundsCounted, ItemChosen, CancelIsCurrent, ResponseHeld,
     LateIsStopped, FinalIsDone, CallsAim, Holding, InRound, Forwarding

\* stopCh is closed.
LEMMA StopWakeInv == TypeOK /\ Shape /\ StopWake => TypeOK' /\ Shape'
<1> SUFFICES ASSUME TypeOK, Shape, StopWake PROVE TypeOK' /\ Shape'
  OBVIOUS
<1>1. /\ rq' \in Records /\ rq'.stopRequested = rq.stopRequested /\ rq'.status = rq.status
      /\ rq'.cancel = rq.cancel /\ rq'.round = rq.round
      /\ kill' \in [{"stop", "interrupt"} -> Calls] /\ kill'["interrupt"] = kill["interrupt"]
      /\ kill'["stop"].step = "idle"
  <2>1. rq \in Records
    BY DEF TypeOK
  <2>2. /\ rq' \in Records /\ rq'.stopRequested = rq.stopRequested /\ rq'.status = rq.status
        /\ rq'.cancel = rq.cancel /\ rq'.round = rq.round
    BY <2>1 DEF Records, StopWake
  <2>3. NoCall \in Calls /\ NoCall.step = "idle" /\ kill' = [kill EXCEPT !["stop"] = NoCall]
    BY ConstantsOK DEF Calls, NoCall, StopWake
  <2> QED
    BY <2>2, <2>3, CallMoves
<1> QED
  BY <1>1, ConstantsOK DEF StopWake, TypeOK, PCs, Loops, Shape, OneAnswer, NothingLeft,
     StoppedIsClosed, OneLateRound, RoundsCounted, ItemChosen, CancelIsCurrent, ResponseHeld,
     LateIsStopped, FinalIsDone, CallsAim, Holding, InRound, Forwarding

\* The switch is no part of what the invariant says.
LEMMA SwitchAllInv == TypeOK /\ Shape /\ SwitchAll => TypeOK' /\ Shape'
<1> SUFFICES ASSUME TypeOK, Shape, SwitchAll PROVE TypeOK' /\ Shape'
  OBVIOUS
<1>1. allStopped' \in BOOLEAN /\ UNCHANGED <<Forwarding, rq, lc, resp, client, kill>>
  BY DEF SwitchAll, TypeOK
<1> QED
  BY <1>1, ConstantsOK DEF SwitchAll, TypeOK, PCs, Loops, Shape, OneAnswer, NothingLeft,
     StoppedIsClosed, OneLateRound, RoundsCounted, ItemChosen, CancelIsCurrent, ResponseHeld,
     LateIsStopped, FinalIsDone, CallsAim, Holding, InRound, Forwarding

\* A stuttering step changes nothing the invariant speaks of.
LEMMA StutterInv == TypeOK /\ Shape /\ UNCHANGED vars => TypeOK' /\ Shape'
  BY DEF vars, TypeOK, Shape, OneAnswer, NothingLeft, StoppedIsClosed, OneLateRound,
     RoundsCounted, ItemChosen, CancelIsCurrent, ResponseHeld, LateIsStopped, FinalIsDone,
     CallsAim, Holding, InRound

---------------------------------------------------------------------------
(* The invariant and what follows from it. *)

\* Every step keeps the invariant.
LEMMA NextInv == TypeOK /\ Shape /\ [Next]_vars => TypeOK' /\ Shape'
<1> SUFFICES ASSUME TypeOK, Shape, [Next]_vars PROVE TypeOK' /\ Shape'
  OBVIOUS
<1>1. CASE Forward
  BY <1>1, EnterInv, TopInv, NoGroupInv, NoMemberInv, PickInv, UnusableInv, DispatchErrorInv,
     DispatchInv, WaitChannelRPMInv, NoWarpSlotInv, StartRoundInv, SendInv, AttachInv, CommitInv,
     WriteInv, FailedRoundInv, StreamEventInv, StreamEndInv, StreamVerdictInv, RequestWaitInv
     DEF Forward
<1>2. CASE Operator
  BY <1>2, StopRequestInv, InterruptInv, StopWakeInv, SwitchAllInv, KillCancelInv, KillHaltInv
     DEF Operator
<1>3. CASE Panic \/ ClientLeaves \/ Timer
  BY <1>3, PanicInv, ClientLeavesInv, TimerInv
<1>4. CASE UNCHANGED vars
  BY <1>4, StutterInv
<1> QED
  BY <1>1, <1>2, <1>3, <1>4 DEF Next

\* The inductive invariant: what the loop, the record, the lifecycle and the operator's calls
\* have to do with each other in every reachable state.
THEOREM Invariant == Spec => []IInv
<1>1. Init => IInv
  BY InitInv, InvParts
<1>2. IInv /\ [Next]_vars => IInv'
  <2>1. TypeOK' /\ Shape' => IInv'
    BY DEF IInv, Shape
  <2> QED
    BY <2>1, NextInv, InvParts
<1> QED
  BY <1>1, <1>2, PTL DEF Spec

\* The type invariant of the request.
THEOREM TypeCorrect == Spec => []TypeOK
<1>1. IInv => TypeOK
  BY DEF IInv
<1> QED
  BY <1>1, Invariant, PTL

\* Forward answers every pick of a member exactly once, whatever the round's outcome: the
\* assumption under which GroupRoute models the route state.
THEOREM AnsweredOnce == Spec => []OneAnswer
<1>1. IInv => OneAnswer
  BY DEF IInv
<1> QED
  BY <1>1, Invariant, PTL

\* No path out of a round leaves its cancel, its context or its response behind.
THEOREM LeavesNothing == Spec => []NothingLeft
<1>1. IInv => NothingLeft
  BY DEF IInv
<1> QED
  BY <1>1, Invariant, PTL

\* Stop and Attach, in either order, leave no response open.
THEOREM StopCloses == Spec => []StoppedIsClosed
<1>1. IInv => StoppedIsClosed
  BY DEF IInv
<1> QED
  BY <1>1, Invariant, PTL

\* A stopped request starts at most one more round.
THEOREM AtMostOneLate == Spec => []OneLateRound
<1>1. IInv => OneLateRound
  BY DEF IInv
<1> QED
  BY <1>1, Invariant, PTL

\* A record whose status is final belongs to a request that has returned: of all the steps
\* only a late panic still writes the status, and it writes what is there.
LEMMA FinalKept ==
  ASSUME IInv, [Next]_vars, rq.status \in Final
  PROVE rq'.status = rq.status
<1>1. pc = "done" /\ rq \in Records
  BY DEF IInv, FinalIsDone, TypeOK
<1>2. CASE Forward
  BY <1>1, <1>2 DEF Forward, Enter, Top, LoopHead, NoGroup, NoMember, Pick, Unusable,
     DispatchError, Dispatch, WaitChannelRPM, NoWarpSlot, StartRound, Send, Attach, Commit,
     Write, FailedRound, StreamEvent, StreamEnd, StreamVerdict, RequestWait
<1>3. CASE Panic
  BY <1>3 DEF Panic, abandonUnfinishedRequest
<1>4. CASE StopRequest \/ StopWake
  BY <1>1, <1>4 DEF StopRequest, StopWake, Records
<1>5. CASE rq' = rq
  BY <1>5
<1>6. ClientLeaves \/ Timer \/ SwitchAll \/ UNCHANGED vars => rq' = rq
  BY DEF ClientLeaves, Timer, SwitchAll, vars
<1>7. ASSUME NEW n \in 1..MaxRounds, Interrupt(n) PROVE rq' = rq
  BY <1>7 DEF Interrupt, InterruptCall
<1>8. ASSUME NEW p \in {"stop", "interrupt"}, KillCancel(p) \/ KillHalt(p) PROVE rq' = rq
  BY <1>8 DEF KillCancel, KillHalt
<1> QED
  BY <1>2, <1>3, <1>4, <1>5, <1>6, <1>7, <1>8 DEF Next, Operator

\* A final status is never replaced, not even by a panic after it was set.
THEOREM FinalForGood == Spec => FinalStays
<1>1. IInv /\ [Next]_vars => [rq.status \in Final => rq'.status = rq.status]_vars
  BY FinalKept
<1> QED
  BY <1>1, Invariant, PTL DEF Spec, FinalStays

\* The steps of the goroutine end a context by its own timeout or release, never as the operator.
LEMMA ForwardIsNoAdmin ==
  ASSUME IInv, Forward, lc.ctx = "live"
  PROVE lc'.ctx # "admin"
<1>1. lc \in Lifecycles /\ "live" # "admin" /\ "over" # "admin"
  BY DEF IInv, TypeOK
<1>2. lc' = lc => lc'.ctx # "admin"
  BY <1>1
<1>3. lc' = Ended => lc'.ctx # "admin"
  BY <1>1, EndedLifecycle
<1>4. CASE Enter \/ Top \/ NoGroup \/ NoMember \/ Pick \/ Unusable \/ Dispatch \/ StartRound \/ Send
  BY <1>2, <1>4 DEF Enter, Top, LoopHead, NoGroup, NoMember, Pick, Unusable, Dispatch,
     StartRound, Send
<1>5. CASE Write \/ StreamEvent \/ StreamVerdict \/ RequestWait
  BY <1>2, <1>5 DEF Write, StreamEvent, StreamVerdict, RequestWait
<1>6. CASE NoWarpSlot \/ Commit \/ FailedRound \/ StreamEnd
  <2>1. lc' = lc \/ lc' = Ended
    BY <1>6 DEF NoWarpSlot, Commit, FailedRound, EndRound, StreamEnd, releaseRoundLifecycle
  <2> QED
    BY <1>2, <1>3, <2>1
<1>7. CASE Attach
  BY <1>1, <1>2, <1>7 DEF Attach, Lifecycles
<1>8. CASE DispatchError \/ WaitChannelRPM
  <2>1. lc.ctx = "live" => pc \notin {"picked", "rpm"}
    BY DEF IInv, NothingLeft, InRound
  <2> QED
    BY <1>8, <2>1 DEF DispatchError, WaitChannelRPM
<1> QED
  BY <1>4, <1>5, <1>6, <1>7, <1>8 DEF Forward

\* Only a call of the operator ends a context as the operator, and an Interrupt does so only
\* while the round it was asked for is the current one.
LEMMA AdminAims ==
  ASSUME IInv, [Next]_vars, lc.ctx = "live", lc'.ctx = "admin", ~rq.stopRequested
  PROVE kill["interrupt"].asked = rq.round
<1>1. lc \in Lifecycles /\ lc' # lc
  BY DEF IInv, TypeOK
<1>2. ~Forward
  BY ForwardIsNoAdmin
<1>3. ~Panic
  <2>1. Panic => lc' = Ended
    BY <1>1 DEF Panic
  <2> QED
    BY <1>1, <2>1, EndedLifecycle
<1>4. ~ClientLeaves /\ ~Timer
  BY <1>1, CanceledLifecycle DEF ClientLeaves, Timer, Contexts
<1>5. ~StopRequest /\ ~StopWake /\ ~SwitchAll /\ ~UNCHANGED vars
  BY <1>1 DEF StopRequest, StopWake, SwitchAll, vars
<1>6. \A n \in 1..MaxRounds : ~Interrupt(n)
  BY <1>1 DEF Interrupt, InterruptCall
<1>7. \A p \in {"stop", "interrupt"} : ~KillHalt(p)
  BY <1>1, HaltedLifecycle DEF KillHalt
<1>8. ~KillCancel("stop")
  BY DEF IInv, CallsAim, KillCancel
<1>9. KillCancel("interrupt")
  BY <1>2, <1>3, <1>4, <1>5, <1>6, <1>7, <1>8 DEF Next, Operator
<1> QED
  BY <1>1, <1>9 DEF IInv, CallsAim, KillCancel

\* A late Interrupt never ends a round other than the one the operator saw.
THEOREM InterruptAims == Spec => InterruptHitsItsRound
<1>1. IInv /\ [Next]_vars =>
        [lc.ctx = "live" /\ lc'.ctx = "admin" /\ ~rq.stopRequested
           => kill["interrupt"].asked = rq.round]_vars
  BY AdminAims
<1> QED
  BY <1>1, Invariant, PTL DEF Spec, InterruptHitsItsRound

=============================================================================
