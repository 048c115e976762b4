--------------------------- MODULE RequestProofs ---------------------------
(***************************************************************************)
(* What the requests share.  The body budget for any number of requests    *)
(* and any sizes: it is what the requests hold and never more than its     *)
(* limit, and no request stays blocked while there is room for it, or is   *)
(* blocked by nobody.  The mappings of a session: a request restores what  *)
(* it masked.  The registry: what the consoles show of the requests.  The  *)
(* dashboard: the sums over what the requests used fit together.  And the  *)
(* restored stream: an answer reaches the client once, whole and in order. *)
(***************************************************************************)
EXTENDS BodyBudget, MaskSession, RequestRegistry, UsageTrend, MaskStream, FiniteSetTheorems, SequenceTheorems,
        NaturalsInduction, TLAPS

\* Both parts together are inductive: a blocked request has a chunk in hand, so the
\* steps that read or end the input are not its steps.
IInv == BudgetTypeOK /\ BudgetNoLostWakeup

\* A release of n units, n at most what a request holds, keeps both parts, whatever else
\* the releasing request r does to its own record as long as it is not blocked then.
LEMMA ReleaseKeeps ==
  ASSUME IInv, NEW n \in Nat, NEW r \in Readers, NEW me \in BodyStates,
         me.asleep = FALSE \/ (me.asleep = reader[r].asleep /\ me.want = reader[r].want),
         releaseRelayBodyBudget(n, [reader EXCEPT ![r] = me])
  PROVE  IInv'
<1> DEFINE rq == [reader EXCEPT ![r] = me]
<1>1. rq \in [Readers -> BodyStates]
  BY DEF IInv, BudgetTypeOK
<1>2. used' \in 0..Limit /\ (n = 0 => used' = used)
  BY BudgetAssumption DEF IInv, BudgetTypeOK, releaseRelayBodyBudget
<1>3. /\ reader' = WakeAll(rq, n)
      /\ reader' \in [Readers -> BodyStates]
  BY <1>1 DEF releaseRelayBodyBudget, WakeAll, BodyStates
<1>4. CASE n = 0
  <2>1. \A s \in Readers : reader'[s].asleep = rq[s].asleep /\ reader'[s].want = rq[s].want
    BY <1>1, <1>3, <1>4 DEF WakeAll, BodyStates
  <2>2. \A s \in Readers :
          rq[s].asleep => reader[s].asleep /\ rq[s].want = reader[s].want
    BY DEF IInv, BudgetTypeOK, BodyStates
  <2> QED
    BY <2>1, <2>2, <1>2, <1>3, <1>4 DEF IInv, BudgetTypeOK, BudgetNoLostWakeup
<1>5. CASE n > 0
  <2>1. \A s \in Readers : reader'[s].asleep = FALSE
    BY <1>1, <1>3, <1>5 DEF WakeAll, BodyStates
  <2> QED
    BY <2>1, <1>2, <1>3 DEF IInv, BudgetTypeOK, BudgetNoLostWakeup
<1> QED BY <1>4, <1>5

\* FreshBody is a request record that is not blocked.
LEMMA FreshReqShape == FreshBody \in BodyStates /\ FreshBody.asleep = FALSE
BY DEF FreshBody, BodyStates, BodyPCs

\* readBudget giving up keeps the invariant.
LEMMA ReadFailsKeeps ==
  ASSUME IInv, NEW r \in Readers, ReadFails(r)
  PROVE  IInv'
<1> DEFINE me == IF reader[r].pc = "reading" THEN FreshBody
                 ELSE [reader[r] EXCEPT !.pc = "failing", !.cur = 0, !.want = 0,
                                     !.asleep = FALSE]
<1>1. reader[r] \in BodyStates /\ reader[r].cur \in Nat
  BY DEF IInv, BudgetTypeOK, BodyStates
<1>2. me \in BodyStates /\ me.asleep = FALSE
  BY <1>1, FreshReqShape DEF BodyStates, BodyPCs
<1>3. releaseRelayBodyBudget(reader[r].cur, [reader EXCEPT ![r] = me])
  BY DEF ReadFails
<1> HIDE DEF me
<1> QED BY <1>1, <1>2, <1>3, ReleaseKeeps

\* Every step of a request keeps the invariant.
LEMMA StepKeeps ==
  ASSUME IInv, NEW r \in Readers, Step(r)
  PROVE  IInv'
<1>0. /\ reader \in [Readers -> BodyStates] /\ reader[r] \in BodyStates
      /\ used \in 0..Limit /\ Limit \in Nat /\ MaxChunk \in Nat
      /\ reader[r].base \in Nat /\ reader[r].cur \in Nat /\ reader[r].copy \in Nat
      /\ reader[r].want \in Nat
  BY BudgetAssumption DEF IInv, BudgetTypeOK, BodyStates
<1>1. ASSUME NEW packed \in BOOLEAN, Start(r, packed) PROVE IInv'
  BY <1>0, <1>1 DEF Start, IInv, BudgetTypeOK, BudgetNoLostWakeup, BodyStates, BodyPCs
<1>2. CASE Abort(r)
  BY <1>2, ReadFailsKeeps DEF Abort
<1>3. ASSUME NEW n \in 1..MaxChunk, ReadChunk(r, n) PROVE IInv'
  <2>1. CASE ReadFails(r)
    BY <2>1, ReadFailsKeeps
  <2>2. CASE reader' = [reader EXCEPT ![r].want = n] /\ UNCHANGED used
    <3>1. reader[r].want = 0
      BY <1>3 DEF ReadChunk
    <3> QED BY <1>0, <2>2, <3>1 DEF IInv, BudgetTypeOK, BudgetNoLostWakeup, BodyStates
  <2> QED BY <1>3, <2>1, <2>2 DEF ReadChunk
<1>4. CASE acquireRelayBodyBudget(r)
  <2>1. CASE used + reader[r].want > Limit
    <3>1. reader' = [reader EXCEPT ![r].asleep = TRUE] /\ used' = used /\ reader[r].want > 0
      BY <1>4, <2>1 DEF acquireRelayBodyBudget
    <3>2. BudgetTypeOK'
      BY <1>0, <3>1 DEF BudgetTypeOK, BodyStates
    <3>3. \A s \in Readers : reader'[s].want = reader[s].want /\ (s # r => reader'[s] = reader[s])
      BY <1>0, <3>1 DEF BodyStates
    <3> QED BY <2>1, <3>1, <3>2, <3>3 DEF IInv, BudgetNoLostWakeup
  <2>2. CASE ~(used + reader[r].want > Limit)
    <3>1. /\ reader' = [reader EXCEPT ![r].cur = @ + reader[r].want, ![r].want = 0]
          /\ used' = used + reader[r].want /\ ~reader[r].asleep
      BY <1>4, <2>2 DEF acquireRelayBodyBudget
    <3>2. BudgetTypeOK'
      <4> DEFINE me == [reader[r] EXCEPT !.cur = reader[r].cur + reader[r].want, !.want = 0]
      <4>1. reader' = [reader EXCEPT ![r] = me]
        BY <1>0, <3>1
      <4>2. me \in BodyStates
        <5>1. reader[r].cur + reader[r].want \in Nat /\ 0 \in Nat
          BY <1>0
        <5> QED BY <1>0, <5>1, Zenon DEF BodyStates
      <4>3. used' \in 0..Limit
        BY <1>0, <2>2, <3>1
      <4> QED BY <1>0, <4>1, <4>2, <4>3 DEF BudgetTypeOK
    <3>3. /\ reader'[r].asleep = reader[r].asleep
          /\ \A s \in Readers : s # r => reader'[s] = reader[s]
      BY <1>0, <3>1 DEF BodyStates
    <3>4. \A s \in Readers : reader[s].want \in Nat
      BY <1>0 DEF BodyStates
    <3> QED BY <1>0, <3>1, <3>2, <3>3, <3>4 DEF IInv, BudgetNoLostWakeup
  <2> QED BY <2>1, <2>2
<1>5. CASE EndOfInput(r)
  BY <1>0, <1>5 DEF EndOfInput, IInv, BudgetTypeOK, BudgetNoLostWakeup, BodyStates, BodyPCs
<1>6. CASE DropCompressed(r)
  <2> DEFINE me == [reader[r] EXCEPT !.pc = "admitting", !.base = reader[r].cur, !.cur = 0]
  <2>1. me \in BodyStates /\ me.asleep = reader[r].asleep /\ me.want = reader[r].want
    BY <1>0 DEF BodyStates, BodyPCs
  <2>2. releaseRelayBodyBudget(reader[r].base, [reader EXCEPT ![r] = me])
    BY <1>0, <1>6 DEF DropCompressed
  <2> HIDE DEF me
  <2> QED BY <1>0, <2>1, <2>2, ReleaseKeeps
<1>7. CASE FailDecode(r)
  BY <1>0, <1>7, FreshReqShape, ReleaseKeeps DEF FailDecode
<1>8. CASE tryAcquireRelayBodyBudget(r)
  BY <1>0, <1>8 DEF tryAcquireRelayBodyBudget, IInv, BudgetTypeOK, BudgetNoLostWakeup, BodyStates, BodyPCs
<1>9. CASE Served(r)
  <2> DEFINE me == [reader[r] EXCEPT !.pc = "closing", !.copy = 0]
  <2>1. me \in BodyStates /\ me.asleep = reader[r].asleep /\ me.want = reader[r].want
    BY <1>0 DEF BodyStates, BodyPCs
  <2>2. releaseRelayBodyBudget(reader[r].copy, [reader EXCEPT ![r] = me])
    BY <1>0, <1>9 DEF Served
  <2> HIDE DEF me
  <2> QED BY <1>0, <2>1, <2>2, ReleaseKeeps
<1>10. CASE releaseBody(r)
  BY <1>0, <1>10, FreshReqShape, ReleaseKeeps DEF releaseBody
<1> QED
  BY <1>1, <1>2, <1>3, <1>4, <1>5, <1>6, <1>7, <1>8, <1>9, <1>10 DEF Step

\* The invariant holds in every reachable state.
THEOREM Invariance == BudgetSpec => []IInv
<1>1. BudgetInit => IInv
  BY BudgetAssumption DEF BudgetInit, IInv, BudgetTypeOK, BudgetNoLostWakeup, FreshBody, BodyStates, BodyPCs
<1>2. IInv /\ [BudgetNext]_budgetVars => IInv'
  <2> SUFFICES ASSUME IInv, [BudgetNext]_budgetVars PROVE IInv'
    OBVIOUS
  <2>1. CASE BudgetNext
    BY <2>1, StepKeeps DEF BudgetNext
  <2>2. CASE UNCHANGED budgetVars
    BY <2>2 DEF budgetVars, IInv, BudgetTypeOK, BudgetNoLostWakeup
  <2> QED BY <2>1, <2>2
<1> QED BY <1>1, <1>2, PTL DEF BudgetSpec

\* The process never holds more body bytes than its budget, for any number of requests.
THEOREM BudgetNeverExceeded == BudgetSpec => []BudgetTypeOK
<1>1. IInv => BudgetTypeOK
  BY DEF IInv
<1> QED BY <1>1, Invariance, PTL

\* A request blocked in acquireRelayBodyBudget really lacks room.
THEOREM WakeupNeverLost == BudgetSpec => []BudgetNoLostWakeup
<1>1. IInv => BudgetNoLostWakeup
  BY DEF IInv
<1> QED BY <1>1, Invariance, PTL

-----------------------------------------------------------------------------
(* Sums.  FoldFunction is a recursive function over the subsets of its     *)
(* domain, which takes the terms in the order of CHOOSE.  A finite set of  *)
(* subsets without a smallest counterexample stands in for induction.      *)

First(s) == CHOOSE x \in s : TRUE
Adds(h, g, S) ==
  h = [s \in SUBSET S |-> IF s = {} THEN 0 ELSE g[First(s)] + h[s \ {First(s)}]]
Total(g, S) == (CHOOSE h : Adds(h, g, S))[S]

\* The sum that FoldFunction computes.
LEMMA FoldIsTotal ==
  ASSUME NEW g
  PROVE  FoldFunction(+, 0, g) = Total(g, DOMAIN g)
  BY DEF FoldFunction, FoldFunctionOnSet, MapThenFoldSet, Adds, First, Total

\* Among sets of subsets of a finite set one has no smaller one below it.
LEMMA HasSmallest ==
  ASSUME NEW S, IsFiniteSet(S), NEW T \in SUBSET SUBSET S, T # {}
  PROVE  \E m \in T : \A n \in T : ~(n \subseteq m /\ n # m)
<1>1. IsWellFoundedOn(StrictSubsetOrdering(S), FiniteSubsetsOf(S))
  BY FS_StrictSubsetOrderingWellFounded
<1>2. T \subseteq FiniteSubsetsOf(S)
  BY FS_FiniteSubsetsOfFinite
<1>3. \E m \in T : \A n \in T : <<n, m>> \notin StrictSubsetOrdering(S)
  BY <1>1, <1>2, WFMin
<1>4. PICK m \in T : \A n \in T : <<n, m>> \notin StrictSubsetOrdering(S)
  BY <1>3
<1>5. \A n \in T : ~(n \subseteq m /\ n # m)
  <2> SUFFICES ASSUME NEW n \in T, n \subseteq m, n # m PROVE FALSE
    OBVIOUS
  <2>1. <<n, m>> \in StrictSubsetOrdering(S)
    BY DEF StrictSubsetOrdering
  <2> QED
    BY <1>4, <2>1
<1> QED
  BY <1>5

LEMMA FirstInside ==
  ASSUME NEW s, s # {}
  PROVE  First(s) \in s /\ s \ {First(s)} \subseteq s /\ s \ {First(s)} # s
<1>1. First(s) \in s
  BY DEF First
<1> QED
  BY <1>1

LEMMA AddsStep ==
  ASSUME NEW g, NEW h, NEW S, Adds(h, g, S)
  PROVE  /\ h[{}] = 0
         /\ \A s \in SUBSET S : s # {} => h[s] = g[First(s)] + h[s \ {First(s)}]
  BY DEF Adds

LEMMA AddsAgree ==
  ASSUME NEW g, NEW h, NEW U, Adds(h, g, U), NEW f, NEW k, NEW V, Adds(k, f, V),
         NEW W, W \subseteq U, W \subseteq V, IsFiniteSet(W), \A x \in W : g[x] = f[x]
  PROVE  h[W] = k[W]
<1> DEFINE bad == {w \in SUBSET W : h[w] # k[w]}
<1>1. SUFFICES ASSUME bad # {} PROVE FALSE
  OBVIOUS
<1>2. PICK m \in bad : \A n \in bad : ~(n \subseteq m /\ n # m)
  <2>1. bad \in SUBSET SUBSET W
    OBVIOUS
  <2> HIDE DEF bad
  <2> QED
    BY <1>1, <2>1, HasSmallest
<1>3. m # {}
  BY AddsStep
<1>4. /\ h[m] = g[First(m)] + h[m \ {First(m)}]
      /\ k[m] = f[First(m)] + k[m \ {First(m)}]
  <2>1. m \in SUBSET U /\ m \in SUBSET V
    OBVIOUS
  <2> QED
    BY <1>3, <2>1, AddsStep
<1>5. First(m) \in m /\ m \ {First(m)} \notin bad
  BY <1>2, <1>3, FirstInside
<1> QED
  BY <1>4, <1>5

LEMMA AddsExists ==
  ASSUME NEW g, NEW S, IsFiniteSet(S)
  PROVE  \E h : Adds(h, g, S)
<1> DEFINE bad == {T \in SUBSET S : ~\E h : Adds(h, g, T)}
<1>1. SUFFICES ASSUME bad # {} PROVE FALSE
  OBVIOUS
<1>2. PICK M \in bad : \A n \in bad : ~(n \subseteq M /\ n # M)
  <2>1. bad \in SUBSET SUBSET S
    OBVIOUS
  <2> HIDE DEF bad
  <2> QED
    BY <1>1, <2>1, HasSmallest
<1> DEFINE Below(t) == CHOOSE h : Adds(h, g, t)
           Rest(s) == s \ {First(s)}
           F == [s \in SUBSET M |-> IF s = {} THEN 0 ELSE g[First(s)] + Below(Rest(s))[Rest(s)]]
<1>3. \A t \in SUBSET M : t # M => Adds(Below(t), g, t)
  BY <1>2
<1> HIDE DEF Below
<1>4. \A s \in SUBSET M : s # {} => F[Rest(s)] = Below(Rest(s))[Rest(s)]
  <2> SUFFICES ASSUME NEW s \in SUBSET M, s # {} PROVE F[Rest(s)] = Below(Rest(s))[Rest(s)]
    OBVIOUS
  <2> DEFINE t == Rest(s)
  <2>1. t \in SUBSET M /\ t # M
    BY FirstInside
  <2>2. Adds(Below(t), g, t)
    BY <1>3, <2>1
  <2> HIDE DEF t
  <2>3. CASE t = {}
    <3>1. Below(t)[t] = 0
      BY <2>2, <2>3, AddsStep
    <3>2. F[t] = 0
      BY <2>1, <2>3
    <3> QED
      BY <3>1, <3>2 DEF t
  <2>4. CASE t # {}
    <3>1. Rest(t) \subseteq t /\ Rest(t) # t
      BY <2>4, FirstInside
    <3>2. Adds(Below(Rest(t)), g, Rest(t))
      BY <1>3, <2>1, <3>1
    <3>3. IsFiniteSet(Rest(t))
      BY <2>1, <3>1, FS_Subset
    <3>4. Below(t)[Rest(t)] = Below(Rest(t))[Rest(t)]
      BY <2>2, <3>1, <3>2, <3>3, AddsAgree
    <3>5. Below(t)[t] = g[First(t)] + Below(t)[Rest(t)]
      BY <2>2, <2>4, AddsStep
    <3>6. F[t] = g[First(t)] + Below(Rest(t))[Rest(t)]
      BY <2>1, <2>4
    <3> QED
      BY <3>4, <3>5, <3>6 DEF t
  <2> QED
    BY <2>3, <2>4 DEF t
<1>5. F = [s \in SUBSET M |-> IF s = {} THEN 0 ELSE g[First(s)] + F[Rest(s)]]
  BY <1>4
<1>6. Adds(F, g, M)
  BY <1>5 DEF Adds
<1> QED
  BY <1>2, <1>6

LEMMA TotalAdds ==
  ASSUME NEW g, NEW S, IsFiniteSet(S)
  PROVE  Adds(CHOOSE h : Adds(h, g, S), g, S)
  BY AddsExists

\* A sum does not depend on what is not summed.
LEMMA TotalAgrees ==
  ASSUME NEW g, NEW f, NEW S, IsFiniteSet(S), \A x \in S : g[x] = f[x]
  PROVE  Total(g, S) = Total(f, S)
  BY TotalAdds, AddsAgree DEF Total

LEMMA TotalStep ==
  ASSUME NEW g, NEW S, IsFiniteSet(S)
  PROVE  /\ S = {} => Total(g, S) = 0
         /\ S # {} => /\ IsFiniteSet(S \ {First(S)})
                      /\ Total(g, S) = g[First(S)] + Total(g, S \ {First(S)})
<1> DEFINE h == CHOOSE k : Adds(k, g, S)
           R == S \ {First(S)}
           h2 == CHOOSE k : Adds(k, g, R)
<1>1. Adds(h, g, S) /\ Total(g, S) = h[S]
  BY TotalAdds DEF Total
<1>2. IsFiniteSet(R)
  BY FS_Subset
<1>3. Adds(h2, g, R) /\ Total(g, R) = h2[R]
  BY <1>2, TotalAdds DEF Total
<1> HIDE DEF h, h2
<1>4. h[R] = h2[R]
  BY <1>1, <1>2, <1>3, AddsAgree
<1>5. CASE S = {}
  BY <1>1, <1>5, AddsStep
<1>6. CASE S # {}
  <2>1. h[S] = g[First(S)] + h[R]
    BY <1>1, <1>6, AddsStep
  <2> QED
    BY <1>1, <1>2, <1>3, <1>4, <1>6, <2>1
<1> QED
  BY <1>5, <1>6

\* A sum of numbers is one, and no part of it is larger.
LEMMA TotalBounds ==
  ASSUME NEW S, IsFiniteSet(S), NEW g, \A x \in S : g[x] \in Nat
  PROVE  Total(g, S) \in Nat /\ \A x \in S : g[x] <= Total(g, S)
<1> DEFINE Good(s) == Total(g, s) \in Nat /\ \A x \in s : g[x] <= Total(g, s)
           bad == {s \in SUBSET S : ~Good(s)}
<1>1. SUFFICES ASSUME bad # {} PROVE FALSE
  OBVIOUS
<1>2. PICK m \in bad : \A n \in bad : ~(n \subseteq m /\ n # m)
  <2>1. bad \in SUBSET SUBSET S
    OBVIOUS
  <2> HIDE DEF bad
  <2> QED
    BY <1>1, <2>1, HasSmallest
<1>3. IsFiniteSet(m)
  BY FS_Subset
<1>4. m # {}
  <2>1. ASSUME m = {} PROVE Good(m)
    <3>1. Total(g, m) = 0
      BY <1>3, <2>1, TotalStep
    <3> QED
      BY <2>1, <3>1
  <2> QED
    BY <2>1
<1> DEFINE rest == m \ {First(m)}
<1>5. Total(g, m) = g[First(m)] + Total(g, rest)
  BY <1>3, <1>4, TotalStep
<1>6. First(m) \in m /\ rest \subseteq m /\ rest # m
  BY <1>4, FirstInside
<1>7. Good(rest)
  BY <1>2, <1>6
<1>8. g[First(m)] \in Nat
  BY <1>6
<1>9. \A x \in m : x = First(m) \/ x \in rest
  OBVIOUS
<1>10. \A x \in m : g[x] \in Nat
  OBVIOUS
<1>11. Good(m)
  <2> HIDE DEF rest
  <2>1. Total(g, m) \in Nat /\ g[First(m)] <= Total(g, m)
    BY <1>5, <1>7, <1>8
  <2>2. \A x \in rest : g[x] <= Total(g, m)
    <3> SUFFICES ASSUME NEW x \in rest PROVE g[x] <= Total(g, m)
      OBVIOUS
    <3>1. g[x] \in Nat /\ g[x] <= Total(g, rest) /\ Total(g, rest) \in Nat
      BY <1>6, <1>7, <1>10
    <3> QED
      BY <1>5, <1>8, <3>1
  <2> QED
    BY <1>9, <2>1, <2>2
<1> QED
  BY <1>2, <1>11

\* One term changes: the sum changes by as much.
LEMMA TotalChanges ==
  ASSUME NEW S, IsFiniteSet(S), NEW g, NEW f, \A x \in S : g[x] \in Nat /\ f[x] \in Nat,
         NEW r \in S, \A x \in S : x # r => f[x] = g[x]
  PROVE  Total(f, S) = Total(g, S) + f[r] - g[r]
<1> DEFINE bad == {s \in SUBSET S : r \in s /\ Total(f, s) # Total(g, s) + f[r] - g[r]}
<1>1. SUFFICES ASSUME bad # {} PROVE FALSE
  OBVIOUS
<1>2. PICK m \in bad : \A n \in bad : ~(n \subseteq m /\ n # m)
  <2>1. bad \in SUBSET SUBSET S
    OBVIOUS
  <2> HIDE DEF bad
  <2> QED
    BY <1>1, <2>1, HasSmallest
<1>3. IsFiniteSet(m) /\ r \in m
  BY FS_Subset
<1> DEFINE rest == m \ {First(m)}
<1>4. /\ Total(g, m) = g[First(m)] + Total(g, rest) /\ Total(f, m) = f[First(m)] + Total(f, rest)
      /\ IsFiniteSet(rest)
  BY <1>3, TotalStep
<1>5. First(m) \in m /\ rest \subseteq m /\ rest # m
  BY <1>3, FirstInside
<1>6. Total(g, rest) \in Nat /\ Total(f, rest) \in Nat
  BY <1>4, <1>5, TotalBounds
<1>7. g[First(m)] \in Nat /\ f[First(m)] \in Nat /\ g[r] \in Nat /\ f[r] \in Nat
  BY <1>5
<1>8. CASE First(m) = r
  <2>1. \A x \in rest : g[x] = f[x]
    BY <1>5, <1>8
  <2>2. Total(g, rest) = Total(f, rest)
    BY <1>4, <2>1, TotalAgrees
  <2> QED
    BY <1>2, <1>4, <1>6, <1>7, <1>8, <2>2
<1>9. CASE First(m) # r
  <2>1. Total(f, rest) = Total(g, rest) + f[r] - g[r]
    BY <1>2, <1>3, <1>5, <1>9
  <2>2. f[First(m)] = g[First(m)]
    BY <1>5, <1>9
  <2> QED
    BY <1>2, <1>4, <1>6, <1>7, <2>1, <2>2
<1> QED
  BY <1>8, <1>9

\* Nothing adds up to nothing.
LEMMA TotalZero ==
  ASSUME NEW S, IsFiniteSet(S), NEW g, \A x \in S : g[x] = 0
  PROVE  Total(g, S) = 0
<1> DEFINE bad == {s \in SUBSET S : Total(g, s) # 0}
<1>1. SUFFICES ASSUME bad # {} PROVE FALSE
  OBVIOUS
<1>2. PICK m \in bad : \A n \in bad : ~(n \subseteq m /\ n # m)
  <2>1. bad \in SUBSET SUBSET S
    OBVIOUS
  <2> HIDE DEF bad
  <2> QED
    BY <1>1, <2>1, HasSmallest
<1>3. IsFiniteSet(m)
  BY FS_Subset
<1>4. m # {}
  BY <1>3, TotalStep
<1>5. Total(g, m) = g[First(m)] + Total(g, m \ {First(m)})
  BY <1>3, <1>4, TotalStep
<1>6. First(m) \in m /\ m \ {First(m)} \notin bad
  BY <1>2, <1>4, FirstInside
<1> QED
  BY <1>5, <1>6

-----------------------------------------------------------------------------
(* The budget is what the requests hold *)

ChargeOf(b) == b.base + b.cur + b.copy
Charges(rq) == [s \in Readers |-> ChargeOf(rq[s])]

\* What a request holds at each place of Forward: no charge outlives the section that gives it
\* back, and a body and its copy keep to their size limits.
Shape(b) ==
  /\ b.pc = "idle" => ChargeOf(b) = 0 /\ b.want = 0
  /\ b.pc = "reading" => b.base = 0 /\ b.copy = 0 /\ b.cur + b.want <= MaxCompressed
  /\ b.pc = "decoding" => b.copy = 0 /\ b.base <= MaxCompressed /\ b.cur + b.want <= MaxDecompressed
  /\ b.pc = "failing" => b.cur = 0 /\ b.copy = 0
  /\ b.pc = "dropping" => b.copy = 0 /\ b.cur <= MaxDecompressed
  /\ b.pc = "admitting" => b.cur = 0 /\ b.copy = 0 /\ b.base <= MaxDecompressed
  /\ b.pc = "serving" => b.cur = 0
  /\ b.pc = "closing" => b.cur = 0 /\ b.copy = 0
  /\ b.asleep => b.pc \in {"reading", "decoding"}

ExactInv ==
  /\ IInv /\ \A r \in Readers : Shape(reader[r])
  /\ used = Total(Charges(reader), Readers)

LEMMA FreshShape == Shape(FreshBody) /\ ChargeOf(FreshBody) = 0
  BY BudgetAssumption DEF Shape, ChargeOf, FreshBody

LEMMA ChargesAreNumbers ==
  ASSUME ExactInv, NEW r \in Readers
  PROVE  /\ reader[r] \in BodyStates /\ ChargeOf(reader[r]) \in Nat
         /\ Charges(reader)[r] = ChargeOf(reader[r]) /\ ChargeOf(reader[r]) <= used
<1>1. \A s \in Readers : Charges(reader)[s] = ChargeOf(reader[s]) /\ ChargeOf(reader[s]) \in Nat
  BY DEF ExactInv, IInv, BudgetTypeOK, BodyStates, Charges, ChargeOf
<1>2. \A s \in Readers : Charges(reader)[s] <= Total(Charges(reader), Readers)
  BY <1>1, BudgetAssumption, TotalBounds
<1> QED
  BY <1>1, <1>2 DEF ExactInv, IInv, BudgetTypeOK

\* A request changes its own record and the budget by the difference; others may wake up.
LEMMA ChangeExact ==
  ASSUME ExactInv, IInv', NEW r \in Readers, Shape(reader'[r]),
         \A s \in Readers : s # r => /\ reader'[s].pc = reader[s].pc /\ reader'[s].base = reader[s].base
                                     /\ reader'[s].cur = reader[s].cur /\ reader'[s].copy = reader[s].copy
                                     /\ reader'[s].want = reader[s].want
                                     /\ reader'[s].asleep => reader[s].asleep,
         used' = used + ChargeOf(reader'[r]) - ChargeOf(reader[r])
  PROVE  ExactInv'
<1> DEFINE g == Charges(reader)
           f == Charges(reader')
<1>1. \A s \in Readers : g[s] = ChargeOf(reader[s]) /\ f[s] = ChargeOf(reader'[s])
  BY DEF Charges
<1>2. \A s \in Readers : g[s] \in Nat /\ f[s] \in Nat
  BY <1>1 DEF ExactInv, IInv, BudgetTypeOK, BodyStates, ChargeOf
<1>3. \A s \in Readers : s # r => f[s] = g[s]
  BY <1>1 DEF ChargeOf
<1> HIDE DEF f, g
<1>4. Total(f, Readers) = Total(g, Readers) + f[r] - g[r]
  BY <1>2, <1>3, BudgetAssumption, TotalChanges
<1>5. used' = Total(f, Readers)
  BY <1>1, <1>4 DEF ExactInv, g
<1>6. used' = Total(Charges(reader'), Readers)
  BY <1>5 DEF f
<1>7. \A s \in Readers : Shape(reader'[s])
  <2> SUFFICES ASSUME NEW s \in Readers, s # r PROVE Shape(reader'[s])
    OBVIOUS
  <2>1. Shape(reader[s])
    BY DEF ExactInv
  <2> QED
    BY <2>1 DEF Shape, ChargeOf
<1> QED
  BY <1>6, <1>7 DEF ExactInv

\* A release gives back no more than the request holds.
LEMMA ReleaseExact ==
  ASSUME ExactInv, IInv', NEW n \in Nat, NEW r \in Readers, NEW me \in BodyStates, Shape(me),
         ChargeOf(me) + n = ChargeOf(reader[r]), releaseRelayBodyBudget(n, [reader EXCEPT ![r] = me])
  PROVE  ExactInv'
<1> DEFINE rq == [reader EXCEPT ![r] = me]
<1>1. rq \in [Readers -> BodyStates] /\ rq[r] = me /\ \A s \in Readers : s # r => rq[s] = reader[s]
  BY DEF ExactInv, IInv, BudgetTypeOK
<1>2. reader' = WakeAll(rq, n) /\ used' = IF n < used THEN used - n ELSE 0
  BY DEF releaseRelayBodyBudget
<1> HIDE DEF rq
<1>3. \A s \in Readers : /\ reader'[s].pc = rq[s].pc /\ reader'[s].base = rq[s].base
                         /\ reader'[s].cur = rq[s].cur /\ reader'[s].copy = rq[s].copy
                         /\ reader'[s].want = rq[s].want /\ (reader'[s].asleep => rq[s].asleep)
  BY <1>1, <1>2 DEF WakeAll, BodyStates
<1>4. Shape(reader'[r]) /\ ChargeOf(reader'[r]) = ChargeOf(me)
  <2>1. ChargeOf(reader'[r]) = ChargeOf(me)
    BY <1>1, <1>3 DEF ChargeOf
  <2> QED
    BY <1>1, <1>3, <2>1 DEF Shape
<1>5. ChargeOf(me) \in Nat
  BY DEF ChargeOf, BodyStates
<1>6. used' = used + ChargeOf(reader'[r]) - ChargeOf(reader[r])
  <2>1. used \in Nat /\ ChargeOf(reader[r]) <= used /\ ChargeOf(reader[r]) \in Nat
    BY ChargesAreNumbers, BudgetAssumption DEF ExactInv, IInv, BudgetTypeOK
  <2> QED
    BY <1>2, <1>4, <1>5, <2>1
<1>7. \A s \in Readers : s # r => /\ reader'[s].pc = reader[s].pc /\ reader'[s].base = reader[s].base
                                  /\ reader'[s].cur = reader[s].cur /\ reader'[s].copy = reader[s].copy
                                  /\ reader'[s].want = reader[s].want
                                  /\ reader'[s].asleep => reader[s].asleep
  BY <1>1, <1>3
<1> QED
  BY <1>4, <1>6, <1>7, ChangeExact

\* One record changes, and the budget by the difference.
LEMMA RecordExact ==
  ASSUME ExactInv, IInv', NEW r \in Readers, NEW me, Shape(me), reader' = [reader EXCEPT ![r] = me],
         used' = used + ChargeOf(me) - ChargeOf(reader[r])
  PROVE  ExactInv'
<1>1. reader'[r] = me /\ \A s \in Readers : s # r => reader'[s] = reader[s]
  BY DEF ExactInv, IInv, BudgetTypeOK
<1> QED
  BY <1>1, ChangeExact

LEMMA ReadFailsExact ==
  ASSUME ExactInv, IInv', NEW r \in Readers, InReadBudget(r), ReadFails(r)
  PROVE  ExactInv'
<1> DEFINE b == reader[r]
           out == [b EXCEPT !.pc = "failing", !.cur = 0, !.want = 0, !.asleep = FALSE]
<1>1. b \in BodyStates /\ Shape(b) /\ b.cur \in Nat /\ b.base \in Nat /\ b.copy \in Nat
  BY DEF ExactInv, IInv, BudgetTypeOK, BodyStates
<1>2. CASE b.pc = "reading"
  <2>1. releaseRelayBodyBudget(b.cur, [reader EXCEPT ![r] = FreshBody])
    BY <1>2 DEF ReadFails
  <2>2. ChargeOf(FreshBody) + b.cur = ChargeOf(b)
    BY <1>1, <1>2, FreshShape DEF Shape, ChargeOf
  <2> QED
    BY <1>1, <2>1, <2>2, FreshShape, FreshReqShape, ReleaseExact
<1>3. CASE b.pc # "reading"
  <2>1. releaseRelayBodyBudget(b.cur, [reader EXCEPT ![r] = out])
    BY <1>3 DEF ReadFails
  <2>2. b.pc = "decoding"
    BY <1>3 DEF InReadBudget
  <2>3. /\ out \in BodyStates /\ out.pc = "failing" /\ out.cur = 0 /\ out.base = b.base /\ out.copy = b.copy
        /\ out.asleep = FALSE
    BY <1>1 DEF BodyStates, BodyPCs
  <2> HIDE DEF out
  <2>4. Shape(out) /\ ChargeOf(out) + b.cur = ChargeOf(b)
    BY <1>1, <2>2, <2>3 DEF Shape, ChargeOf
  <2> QED
    BY <1>1, <2>1, <2>3, <2>4, ReleaseExact
<1> QED
  BY <1>2, <1>3

LEMMA StepExact ==
  ASSUME ExactInv, NEW r \in Readers, Step(r)
  PROVE  ExactInv'
<1> DEFINE b == reader[r]
<1>11. IInv'
  BY StepKeeps DEF ExactInv
<1>0. /\ reader \in [Readers -> BodyStates] /\ b \in BodyStates /\ Shape(b)
      /\ b.base \in Nat /\ b.cur \in Nat /\ b.copy \in Nat /\ b.want \in Nat
      /\ used \in Nat /\ Limit \in Nat /\ MaxCompressed \in Nat /\ MaxDecompressed \in Nat
      /\ MaxCompressed <= MaxDecompressed /\ ChargeOf(b) \in Nat
  BY BudgetAssumption DEF ExactInv, IInv, BudgetTypeOK, BodyStates, ChargeOf
<1>1. ASSUME NEW packed \in BOOLEAN, Start(r, packed) PROVE ExactInv'
  <2> DEFINE me == [b EXCEPT !.pc = "reading", !.packed = packed]
  <2>1. reader' = [reader EXCEPT ![r] = me] /\ used' = used /\ b.pc = "idle"
    BY <1>0, <1>1 DEF Start
  <2>2. /\ me.pc = "reading" /\ me.base = b.base /\ me.cur = b.cur /\ me.copy = b.copy
        /\ me.want = b.want /\ me.asleep = b.asleep
    BY <1>0 DEF BodyStates
  <2> HIDE DEF me
  <2>3. ChargeOf(me) = ChargeOf(b) /\ b.base = 0 /\ b.cur = 0 /\ b.copy = 0
    BY <1>0, <2>1, <2>2 DEF ChargeOf, Shape
  <2>4. Shape(me)
    BY <1>0, <2>1, <2>2, <2>3 DEF Shape
  <2>5. used' = used + ChargeOf(me) - ChargeOf(b)
    BY <1>0, <2>1, <2>3, <2>4
  <2> QED
    BY <1>11, <2>1, <2>3, <2>4, <2>5, RecordExact
<1>2. CASE Abort(r)
  BY <1>2, <1>11, ReadFailsExact DEF Abort
<1>3. ASSUME NEW n \in 1..MaxChunk, ReadChunk(r, n) PROVE ExactInv'
  <2>1. CASE b.cur + n > SizeLimit(r) \/ n > Limit
    BY <1>3, <1>11, <2>1, ReadFailsExact DEF ReadChunk
  <2>2. CASE ~(b.cur + n > SizeLimit(r) \/ n > Limit)
    <3> DEFINE me == [b EXCEPT !.want = n]
    <3>1. /\ reader' = [reader EXCEPT ![r] = me] /\ used' = used /\ b.pc \in {"reading", "decoding"}
          /\ n \in Nat /\ b.cur + n <= SizeLimit(r)
      BY <1>0, <1>3, <2>2, BudgetAssumption DEF ReadChunk, InReadBudget, SizeLimit
    <3>2. /\ me.pc = b.pc /\ me.base = b.base /\ me.cur = b.cur /\ me.copy = b.copy
          /\ me.want = n /\ me.asleep = b.asleep
      BY <1>0 DEF BodyStates
    <3> HIDE DEF me
    <3>3. ChargeOf(me) = ChargeOf(b)
      BY <3>2 DEF ChargeOf
    <3>4. Shape(me)
      BY <1>0, <3>1, <3>2, <3>3 DEF Shape, SizeLimit
    <3>5. used' = used + ChargeOf(me) - ChargeOf(b)
      BY <1>0, <3>1, <3>3, <3>4
    <3> QED
      BY <1>11, <3>1, <3>3, <3>4, <3>5, RecordExact
  <2> QED
    BY <2>1, <2>2
<1>4. CASE acquireRelayBodyBudget(r)
  <2>1. CASE used + b.want > Limit
    <3> DEFINE me == [b EXCEPT !.asleep = TRUE]
    <3>1. reader' = [reader EXCEPT ![r] = me] /\ used' = used /\ b.pc \in {"reading", "decoding"}
      BY <1>0, <1>4, <2>1 DEF acquireRelayBodyBudget, InReadBudget
    <3>2. /\ me.pc = b.pc /\ me.base = b.base /\ me.cur = b.cur /\ me.copy = b.copy
          /\ me.want = b.want
      BY <1>0 DEF BodyStates
    <3> HIDE DEF me
    <3>3. ChargeOf(me) = ChargeOf(b)
      BY <3>2 DEF ChargeOf
    <3>4. Shape(me)
      BY <1>0, <3>1, <3>2, <3>3 DEF Shape
    <3>5. used' = used + ChargeOf(me) - ChargeOf(b)
      BY <1>0, <3>1, <3>3, <3>4
    <3> QED
      BY <1>11, <3>1, <3>3, <3>4, <3>5, RecordExact
  <2>2. CASE ~(used + b.want > Limit)
    <3> DEFINE me1 == [b EXCEPT !.cur = b.cur + b.want]
               me == [me1 EXCEPT !.want = 0]
    <3>1. reader' = [reader EXCEPT ![r] = me] /\ used' = used + b.want /\ b.pc \in {"reading", "decoding"}
      BY <1>0, <1>4, <2>2 DEF acquireRelayBodyBudget, InReadBudget
    <3>2. /\ me.pc = b.pc /\ me.base = b.base /\ me.cur = b.cur + b.want /\ me.copy = b.copy
          /\ me.want = 0 /\ me.asleep = b.asleep
      BY <1>0 DEF BodyStates
    <3> HIDE DEF me
    <3>3. ChargeOf(me) = ChargeOf(b) + b.want
      BY <1>0, <3>2 DEF ChargeOf
    <3>4. Shape(me)
      BY <1>0, <3>1, <3>2, <3>3 DEF Shape
    <3>5. used' = used + ChargeOf(me) - ChargeOf(b)
      BY <1>0, <3>1, <3>3, <3>4
    <3> QED
      BY <1>11, <3>1, <3>3, <3>4, <3>5, RecordExact
  <2> QED
    BY <2>1, <2>2
<1>5. CASE EndOfInput(r)
  <2>0. b.pc \in {"reading", "decoding"} /\ b.want = 0 /\ ~b.asleep /\ used' = used
    BY <1>0, <1>5 DEF EndOfInput, InReadBudget, ExactInv, IInv, BudgetNoLostWakeup
  <2>1. CASE b.pc = "decoding"
    <3> DEFINE me == [b EXCEPT !.pc = "dropping"]
    <3>1. reader' = [reader EXCEPT ![r] = me]
      BY <1>0, <1>5, <2>1 DEF EndOfInput
    <3>2. /\ me.pc = "dropping" /\ me.base = b.base /\ me.cur = b.cur /\ me.copy = b.copy
          /\ me.want = b.want /\ me.asleep = b.asleep
      BY <1>0 DEF BodyStates
    <3> HIDE DEF me
    <3>3. ChargeOf(me) = ChargeOf(b)
      BY <3>2 DEF ChargeOf
    <3>4. Shape(me)
      BY <1>0, <2>0, <2>1, <3>2, <3>3 DEF Shape
    <3>5. used' = used + ChargeOf(me) - ChargeOf(b)
      BY <1>0, <2>0, <3>1, <3>3, <3>4
    <3> QED
      BY <1>11, <2>0, <3>1, <3>3, <3>4, <3>5, RecordExact
  <2>2. CASE b.pc = "reading"
    <3> DEFINE on == IF b.packed /\ b.cur > 0 THEN "decoding" ELSE "admitting"
               me1 == [b EXCEPT !.pc = on]
               me2 == [me1 EXCEPT !.base = b.cur]
               me == [me2 EXCEPT !.cur = 0]
    <3>1. reader' = [reader EXCEPT ![r] = me]
      BY <1>0, <1>5, <2>2 DEF EndOfInput
    <3>6. on \in {"decoding", "admitting"}
      OBVIOUS
    <3> HIDE DEF on
    <3>2. /\ me.pc = on /\ me.base = b.cur /\ me.cur = 0 /\ me.copy = b.copy
          /\ me.want = b.want /\ me.asleep = b.asleep
      BY <1>0 DEF BodyStates
    <3> HIDE DEF me
    <3>3. ChargeOf(me) = ChargeOf(b)
      BY <1>0, <2>2, <3>2 DEF ChargeOf, Shape
    <3>4. Shape(me)
      BY <1>0, <2>0, <2>2, <3>6, <3>2, <3>3 DEF Shape
    <3>5. used' = used + ChargeOf(me) - ChargeOf(b)
      BY <1>0, <2>0, <3>1, <3>3, <3>4
    <3> QED
      BY <1>11, <2>0, <3>1, <3>3, <3>4, <3>5, RecordExact
  <2> QED
    BY <2>0, <2>1, <2>2
<1>6. CASE DropCompressed(r)
  <2> DEFINE me1 == [b EXCEPT !.pc = "admitting"]
             me2 == [me1 EXCEPT !.base = b.cur]
             me == [me2 EXCEPT !.cur = 0]
  <2>1. releaseRelayBodyBudget(b.base, [reader EXCEPT ![r] = me]) /\ b.pc = "dropping"
    BY <1>0, <1>6 DEF DropCompressed
  <2>2. /\ me \in BodyStates /\ me.pc = "admitting" /\ me.base = b.cur /\ me.cur = 0 /\ me.copy = b.copy
        /\ me.want = b.want /\ me.asleep = b.asleep
    BY <1>0 DEF BodyStates, BodyPCs
  <2> HIDE DEF me
  <2>3. Shape(me) /\ ChargeOf(me) + b.base = ChargeOf(b)
    BY <1>0, <2>1, <2>2 DEF Shape, ChargeOf
  <2> QED
    BY <1>0, <1>11, <2>1, <2>2, <2>3, ReleaseExact
<1>7. CASE FailDecode(r)
  <2>1. ChargeOf(FreshBody) + b.base = ChargeOf(b)
    BY <1>0, <1>7, FreshShape DEF FailDecode, Shape, ChargeOf
  <2> QED
    BY <1>0, <1>7, <1>11, <2>1, FreshShape, FreshReqShape, ReleaseExact DEF FailDecode
<1>8. CASE tryAcquireRelayBodyBudget(r)
  <2>1. CASE used + b.base > Limit
    <3> DEFINE me == [b EXCEPT !.pc = "closing"]
    <3>1. reader' = [reader EXCEPT ![r] = me] /\ used' = used /\ b.pc = "admitting"
      BY <1>0, <1>8, <2>1 DEF tryAcquireRelayBodyBudget
    <3>2. /\ me.pc = "closing" /\ me.base = b.base /\ me.cur = b.cur /\ me.copy = b.copy
          /\ me.want = b.want /\ me.asleep = b.asleep
      BY <1>0 DEF BodyStates
    <3> HIDE DEF me
    <3>3. ChargeOf(me) = ChargeOf(b)
      BY <3>2 DEF ChargeOf
    <3>4. Shape(me)
      BY <1>0, <3>1, <3>2, <3>3 DEF Shape
    <3>5. used' = used + ChargeOf(me) - ChargeOf(b)
      BY <1>0, <3>1, <3>3, <3>4
    <3> QED
      BY <1>11, <3>1, <3>3, <3>4, <3>5, RecordExact
  <2>2. CASE ~(used + b.base > Limit)
    <3> DEFINE me1 == [b EXCEPT !.pc = "serving"]
               me == [me1 EXCEPT !.copy = b.base]
    <3>1. reader' = [reader EXCEPT ![r] = me] /\ used' = used + b.base /\ b.pc = "admitting"
      BY <1>0, <1>8, <2>2 DEF tryAcquireRelayBodyBudget
    <3>2. /\ me.pc = "serving" /\ me.base = b.base /\ me.cur = b.cur /\ me.copy = b.base
          /\ me.want = b.want /\ me.asleep = b.asleep
      BY <1>0 DEF BodyStates
    <3> HIDE DEF me
    <3>3. ChargeOf(me) = ChargeOf(b) + b.base
      BY <1>0, <3>1, <3>2 DEF ChargeOf, Shape
    <3>4. Shape(me)
      BY <1>0, <3>1, <3>2, <3>3 DEF Shape
    <3>5. used' = used + ChargeOf(me) - ChargeOf(b)
      BY <1>0, <3>1, <3>3, <3>4
    <3> QED
      BY <1>11, <3>1, <3>3, <3>4, <3>5, RecordExact
  <2> QED
    BY <2>1, <2>2
<1>9. CASE Served(r)
  <2> DEFINE me1 == [b EXCEPT !.pc = "closing"]
             me == [me1 EXCEPT !.copy = 0]
  <2>1. releaseRelayBodyBudget(b.copy, [reader EXCEPT ![r] = me]) /\ b.pc = "serving"
    BY <1>0, <1>9 DEF Served
  <2>2. /\ me \in BodyStates /\ me.pc = "closing" /\ me.base = b.base /\ me.cur = b.cur /\ me.copy = 0
        /\ me.want = b.want /\ me.asleep = b.asleep
    BY <1>0 DEF BodyStates, BodyPCs
  <2> HIDE DEF me
  <2>3. Shape(me) /\ ChargeOf(me) + b.copy = ChargeOf(b)
    BY <1>0, <2>1, <2>2 DEF Shape, ChargeOf
  <2> QED
    BY <1>0, <1>11, <2>1, <2>2, <2>3, ReleaseExact
<1>10. CASE releaseBody(r)
  <2>1. ChargeOf(FreshBody) + b.base = ChargeOf(b)
    BY <1>0, <1>10, FreshShape DEF releaseBody, Shape, ChargeOf
  <2> QED
    BY <1>0, <1>10, <1>11, <2>1, FreshShape, FreshReqShape, ReleaseExact DEF releaseBody
<1> QED
  BY <1>1, <1>2, <1>3, <1>4, <1>5, <1>6, <1>7, <1>8, <1>9, <1>10 DEF Step

LEMMA ExactStarts == BudgetInit => ExactInv
<1> SUFFICES ASSUME BudgetInit PROVE ExactInv
  OBVIOUS
<1>1. IInv
  BY BudgetAssumption DEF BudgetInit, IInv, BudgetTypeOK, BudgetNoLostWakeup, FreshBody, BodyStates, BodyPCs
<1>2. \A r \in Readers : reader[r] = FreshBody /\ Charges(reader)[r] = 0
  BY FreshShape DEF BudgetInit, Charges
<1>3. used = Total(Charges(reader), Readers)
  BY <1>2, BudgetAssumption, TotalZero DEF BudgetInit
<1> QED
  BY <1>1, <1>2, <1>3, FreshShape DEF ExactInv

LEMMA ExactHolds == BudgetSpec => []ExactInv
<1>1. ExactInv /\ [BudgetNext]_budgetVars => ExactInv'
  <2> SUFFICES ASSUME ExactInv, [BudgetNext]_budgetVars PROVE ExactInv'
    OBVIOUS
  <2>1. CASE BudgetNext
    BY <2>1, StepExact DEF BudgetNext
  <2>2. CASE UNCHANGED budgetVars
    <3>1. used' = used /\ reader' = reader
      BY <2>2 DEF budgetVars
    <3> QED
      BY <3>1 DEF ExactInv, IInv, BudgetTypeOK, BudgetNoLostWakeup
  <2> QED
    BY <2>1, <2>2
<1> QED
  BY <1>1, ExactStarts, PTL DEF BudgetSpec

\* Nothing leaks and nothing is given back twice: the budget is the sum of what the requests hold
\* on every path through reading, decoding, refusal and failure.
THEOREM BudgetIsExact == BudgetSpec => []BudgetExact
<1>1. ExactInv => BudgetExact
  <2> SUFFICES ASSUME ExactInv PROVE BudgetExact
    OBVIOUS
  <2>1. [r \in Readers |-> Charge(r)] = Charges(reader) /\ DOMAIN Charges(reader) = Readers
    BY DEF Charge, Charges, ChargeOf
  <2>2. FoldFunction(+, 0, Charges(reader)) = Total(Charges(reader), Readers)
    BY <2>1, FoldIsTotal
  <2>3. used <= Limit
    BY BudgetAssumption DEF ExactInv, IInv, BudgetTypeOK
  <2> QED
    BY <2>1, <2>2, <2>3 DEF ExactInv, BudgetExact
<1> QED
  BY <1>1, ExactHolds, PTL

\* A request that waits, or is refused its copy, has others to blame: alone it would fit.
THEOREM AloneIsAdmitted == BudgetSpec => []LoneAdmitted
<1>1. ExactInv => LoneAdmitted
  <2> SUFFICES ASSUME ExactInv, NEW r \in Readers,
                      reader[r].asleep \/ (reader[r].pc = "admitting" /\ used + reader[r].base > Limit),
                      ~OthersHold(r)
               PROVE  FALSE
    BY DEF LoneAdmitted
  <2> DEFINE g == Charges(reader)
             f == [s \in Readers |-> 0]
             b == reader[r]
  <2>1. \A s \in Readers : g[s] = ChargeOf(reader[s]) /\ g[s] \in Nat
    BY ChargesAreNumbers
  <2>2. \A s \in Readers : s # r => g[s] = 0
    <3> SUFFICES ASSUME NEW s \in Readers, s # r PROVE g[s] = 0
      OBVIOUS
    <3>1. ~(ChargeOf(reader[s]) > 0)
      BY DEF OthersHold, Charge, ChargeOf
    <3> QED
      BY <2>1, <3>1
  <2>3. used = ChargeOf(b)
    <3> HIDE DEF g
    <3>1. Total(f, Readers) = 0
      BY BudgetAssumption, TotalZero
    <3>2. \A s \in Readers : f[s] = 0
      OBVIOUS
    <3> HIDE DEF f
    <3>3. Total(g, Readers) = Total(f, Readers) + g[r] - f[r]
      BY <2>1, <2>2, <3>2, BudgetAssumption, TotalChanges
    <3>4. Total(g, Readers) = g[r]
      BY <2>1, <3>1, <3>2, <3>3
    <3> QED
      BY <2>1, <3>4 DEF ExactInv, g
  <2>4. /\ b.base \in Nat /\ b.cur \in Nat /\ b.copy \in Nat /\ b.want \in Nat /\ Shape(b)
        /\ b.asleep => used + b.want > Limit
    BY DEF ExactInv, IInv, BudgetTypeOK, BudgetNoLostWakeup, BodyStates
  <2>5. CASE b.asleep
    BY <2>3, <2>4, <2>5, BudgetAssumption DEF Shape, ChargeOf
  <2>6. CASE b.pc = "admitting" /\ used + b.base > Limit
    BY <2>3, <2>4, <2>6, BudgetAssumption DEF Shape, ChargeOf
  <2> QED
    BY <2>5, <2>6
<1> QED
  BY <1>1, ExactHolds, PTL

-----------------------------------------------------------------------------
(* The masking sessions (MaskSession) for any requests, keys and values: as long as the      *)
(* record of a key was never dropped, every request of the key holds the one mapping that    *)
(* is published, or, before the first placeholder, the one whose requests are counted.       *)

MaskValues == UNION {ValuesOf[t] : t \in Turns}
SessionRecords == [key : MaskKeys, of : Turns]
Placeholders == Turns \X MaskValues

TurnStates ==
  [pc : {"new", "masking", "sent", "done", "refused"}, of : Turns \cup {0},
   todo : SUBSET MaskValues, body : SUBSET Placeholders, back : SUBSET Placeholders]

SessionTypeOK ==
  /\ sessions \in Seq(SessionRecords)
  /\ inflight \in [MaskKeys -> [of : Turns \cup {0}, refs : Nat]]
  /\ bound \in [Turns -> SUBSET MaskValues]
  /\ turn \in [Turns -> TurnStates]
  /\ lost \in SUBSET MaskKeys

\* A mapping serves one key only.
OwnKey ==
  /\ \A t \in Turns : turn[t].pc # "new" => turn[t].of \in Turns /\ KeyOf[turn[t].of] = KeyOf[t]
  /\ \A k \in MaskKeys : inflight[k].refs > 0 => inflight[k].of \in Turns /\ KeyOf[inflight[k].of] = k
  /\ \A r \in ToSet(sessions) : KeyOf[r.of] = r.key
  /\ \A r, q \in ToSet(sessions) : r.key = q.key => r = q

\* What a request put into its body it can look up, and what it restored was all of it.
BodyBound ==
  /\ \A t \in Turns : turn[t].pc = "new" => turn[t].body = {}
  /\ \A t \in Turns : \A x \in turn[t].body : x[1] = turn[t].of /\ x[2] \in bound[turn[t].of]
  /\ \A t \in Turns : turn[t].pc \in {"done", "refused"} => turn[t].back = turn[t].body
  /\ \A t \in Turns : turn[t].pc \notin {"done", "refused"} => turn[t].back = {}

\* The requests that are masking under key k.
MaskingFor(k) == {t \in Turns : KeyOf[t] = k /\ turn[t].pc = "masking"}

\* A record of k is what every request of k holds, or held for its body.
RecordShared(k) ==
  \A r \in ToSet(sessions) : r.key = k =>
    \A t \in Turns : KeyOf[t] = k /\ (turn[t].pc = "masking" \/ turn[t].body # {}) => turn[t].of = r.of

\* Before the first placeholder of k, the requests under way share the mapping that counts them.
InflightShared(k) ==
  /\ \A m \in Turns : KeyOf[m] = k => bound[m] = {}
  /\ inflight[k].refs = Cardinality(MaskingFor(k))
  /\ \A t \in MaskingFor(k) : turn[t].of = inflight[k].of

KeyShared ==
  \A k \in MaskKeys \ lost : RecordShared(k) /\ (~Published(k) => InflightShared(k))

SessionInv == SessionTypeOK /\ OwnKey /\ BodyBound /\ KeyShared

\* What is left of a sequence without its n-th element.
LEMMA RemoveAtFacts ==
  ASSUME NEW S, NEW s \in Seq(S), NEW n \in 1..Len(s)
  PROVE  /\ RemoveAt(s, n) \in Seq(S) /\ Len(RemoveAt(s, n)) = Len(s) - 1
         /\ \A i \in 1..(n - 1) : RemoveAt(s, n)[i] = s[i]
         /\ \A i \in n..(Len(s) - 1) : RemoveAt(s, n)[i] = s[i + 1]
<1> DEFINE a == SubSeq(s, 1, n - 1)
           b == SubSeq(s, n + 1, Len(s))
<1>1. a \in Seq(S) /\ Len(a) = n - 1 /\ \A i \in 1..(n - 1) : a[i] = s[i]
  OBVIOUS
<1>2. b \in Seq(S) /\ Len(b) = Len(s) - n /\ \A i \in 1..(Len(s) - n) : b[i] = s[n + i]
  OBVIOUS
<1>3. RemoveAt(s, n) = a \o b
  BY DEF RemoveAt
<1> HIDE DEF a, b
<1>4. Len(a \o b) = Len(s) - 1 /\ a \o b \in Seq(S)
  <2>3. a \in Seq(S) /\ b \in Seq(S)
    BY <1>1, <1>2
  <2>1. Len(a \o b) = Len(a) + Len(b) /\ (a \o b) \in Seq(S)
    <3> HIDE <1>1, <1>2, <1>3
    <3> QED BY <2>3
  <2>2. (n - 1) + (Len(s) - n) = Len(s) - 1
    OBVIOUS
  <2> QED BY <2>1, <2>2, <1>1, <1>2
<1>5. ASSUME NEW i \in 1..(n - 1) PROVE (a \o b)[i] = s[i]
  <2>0. i \in Nat /\ i >= 1 /\ i <= n - 1 /\ n \in Nat /\ n <= Len(s) /\ Len(s) \in Nat
    OBVIOUS
  <2>1. i \in 1..(Len(a) + Len(b)) /\ i <= Len(a)
    BY <1>1, <1>2, <2>0
  <2>2. (a \o b)[i] = a[i]
    BY <2>1, <1>1, <1>2
  <2> QED BY <2>2, <1>1
<1>6. ASSUME NEW i \in n..(Len(s) - 1) PROVE (a \o b)[i] = s[i + 1]
  <2>1. i \in Nat /\ n \in Nat /\ i <= Len(s) - 1 /\ i > n - 1 /\ Len(s) \in Nat
    OBVIOUS
  <2>3. i \in 1..(Len(a) + Len(b)) /\ i > Len(a) /\ i - Len(a) = i - (n - 1)
    BY <2>1, <1>1, <1>2
  <2>4. (a \o b)[i] = b[i - Len(a)]
    BY <2>3, <1>1, <1>2
  <2>5. i - (n - 1) \in 1..(Len(s) - n)
    BY <2>1
  <2>6. (a \o b)[i] = b[i - (n - 1)]
    BY <2>3, <2>4
  <2>7. b[i - (n - 1)] = s[n + (i - (n - 1))] /\ n + (i - (n - 1)) = i + 1
    BY <1>2, <2>1, <2>5
  <2> QED BY <2>6, <2>7
<1> QED BY <1>3, <1>4, <1>5, <1>6

\* What a call leaves of the records: every one was there before, and no key lost its own.
LEMMA OthersRecords ==
  ASSUME SessionTypeOK, NEW k, Published(k)
  PROVE  /\ Touched(sessions, k) \in Seq(SessionRecords)
         /\ ToSet(Touched(sessions, k)) \subseteq ToSet(sessions)
         /\ \A r \in ToSet(sessions) : \E q \in ToSet(Touched(sessions, k)) : q.key = r.key
<1> DEFINE n == CHOOSE i \in DOMAIN sessions : sessions[i].key = k
           rest == RemoveAt(sessions, n)
           mine == RecordOf(k)
<1>1. sessions \in Seq(SessionRecords)
  BY DEF SessionTypeOK
<1>2. n \in DOMAIN sessions /\ sessions[n].key = k
  BY DEF Published
<1>3. mine \in ToSet(sessions) /\ mine.key = k
  <2>1. sessions[n] \in ToSet(sessions) /\ sessions[n].key = k
    BY <1>2 DEF ToSet
  <2> HIDE DEF n
  <2> QED BY <2>1 DEF RecordOf
<1>4. mine \in SessionRecords
  BY <1>1, <1>3 DEF ToSet
<1>5. Touched(sessions, k) = Append(rest, mine)
  BY DEF Touched, Others
<1>6. /\ rest \in Seq(SessionRecords) /\ Len(rest) = Len(sessions) - 1
      /\ \A i \in 1..(n - 1) : rest[i] = sessions[i]
      /\ \A i \in n..Len(rest) : rest[i] = sessions[i + 1]
  <2> HIDE DEF n
  <2>1. n \in 1..Len(sessions) /\ rest = RemoveAt(sessions, n)
    BY <1>1, <1>2
  <2> HIDE DEF rest
  <2> QED BY <2>1, <1>1, RemoveAtFacts, Zenon
<1> HIDE DEF n, rest, mine
<1>7. ToSet(rest) \subseteq ToSet(sessions)
  <2> SUFFICES ASSUME NEW i \in DOMAIN rest
               PROVE  rest[i] \in ToSet(sessions)
    BY DEF ToSet
  <2>1. i \in 1..(n - 1) \/ i \in n..Len(rest)
    BY <1>1, <1>2, <1>6
  <2>2. CASE i \in n..Len(rest)
    <3>1. rest[i] = sessions[i + 1] /\ i + 1 \in DOMAIN sessions
      BY <2>2, <1>1, <1>2, <1>6
    <3> QED BY <3>1 DEF ToSet
  <2>3. CASE i \in 1..(n - 1)
    BY <2>3, <1>1, <1>2, <1>6 DEF ToSet
  <2> QED BY <2>1, <2>2, <2>3
<1>8. \A r \in ToSet(sessions) : r \in ToSet(rest) \/ r.key = k
  <2> SUFFICES ASSUME NEW i \in DOMAIN sessions, i # n
               PROVE  sessions[i] \in ToSet(rest)
    BY <1>2 DEF ToSet
  <2>1. CASE i < n
    BY <2>1, <1>1, <1>2, <1>6 DEF ToSet
  <2>2. CASE i > n
    <3>1. i - 1 \in n..Len(rest) /\ i - 1 \in DOMAIN rest /\ rest[i - 1] = sessions[i]
      BY <2>2, <1>1, <1>2, <1>6
    <3> QED BY <3>1 DEF ToSet
  <2> QED BY <2>1, <2>2, <1>1, <1>2
<1>9. ToSet(Append(rest, mine)) = ToSet(rest) \cup {mine}
  <2>1. /\ DOMAIN Append(rest, mine) = DOMAIN rest \cup {Len(rest) + 1}
        /\ \A i \in DOMAIN rest : Append(rest, mine)[i] = rest[i]
        /\ Append(rest, mine)[Len(rest) + 1] = mine
    BY <1>4, <1>6
  <2> QED BY <2>1 DEF ToSet
<1> QED BY <1>3, <1>4, <1>5, <1>6, <1>7, <1>8, <1>9

LEMMA TouchedRecords ==
  ASSUME SessionTypeOK, NEW k
  PROVE  /\ Touched(sessions, k) \in Seq(SessionRecords)
         /\ ToSet(Touched(sessions, k)) \subseteq ToSet(sessions)
         /\ \A r \in ToSet(sessions) : \E q \in ToSet(Touched(sessions, k)) : q.key = r.key
<1>1. CASE Published(k)
  BY <1>1, OthersRecords
<1>2. CASE ~Published(k)
  BY <1>2 DEF Touched, SessionTypeOK
<1> QED BY <1>1, <1>2

\* Published, in terms of the records.
LEMMA PublishedRecords == \A k : Published(k) <=> \E r \in ToSet(sessions) : r.key = k
BY DEF Published, ToSet

\* The record that RecordOf takes is one of them.
LEMMA RecordOfFacts ==
  ASSUME SessionTypeOK, NEW k, Published(k)
  PROVE  RecordOf(k) \in ToSet(sessions) /\ RecordOf(k).key = k /\ RecordOf(k) \in SessionRecords
<1>1. \E r \in ToSet(sessions) : r.key = k
  BY PublishedRecords
<1>2. RecordOf(k) \in ToSet(sessions) /\ RecordOf(k).key = k
  BY <1>1 DEF RecordOf
<1> QED BY <1>2 DEF SessionTypeOK, ToSet

LEMMA MaskingFinite == \A k : IsFiniteSet(MaskingFor(k))
BY SessionAssumption, FS_Subset DEF MaskingFor

\* The records stay, but for the order of their use.
SameRecords ==
  /\ sessions' \in Seq(SessionRecords)
  /\ ToSet(sessions') \subseteq ToSet(sessions)
  /\ \A r \in ToSet(sessions) : \E q \in ToSet(sessions') : q.key = r.key

LEMMA SameRecordsPublish ==
  ASSUME SessionTypeOK, SameRecords
  PROVE  \A k : Published(k)' <=> Published(k)
<1>1. \A k : Published(k)' <=> \E r \in ToSet(sessions') : r.key = k
  BY DEF Published, ToSet
<1>2. ASSUME NEW k PROVE (\E r \in ToSet(sessions') : r.key = k) <=> (\E r \in ToSet(sessions) : r.key = k)
  BY DEF SameRecords
<1> QED BY <1>1, <1>2, PublishedRecords

LEMMA GetOrCreateKeeps ==
  ASSUME SessionInv, NEW t \in Turns, GetOrCreate(t)
  PROVE  SessionInv'
<1> DEFINE k == KeyOf[t]
           m == IF k = NoKey THEN t
                ELSE IF Published(k) THEN RecordOf(k).of
                ELSE IF inflight[k].refs > 0 THEN inflight[k].of ELSE t
<1>0. SessionTypeOK /\ OwnKey /\ BodyBound /\ KeyShared
  BY DEF SessionInv
<1>1. SameRecords
  BY <1>0, TouchedRecords DEF GetOrCreate, SameRecords
<1>2. \A j : Published(j)' <=> Published(j)
  BY <1>0, <1>1, SameRecordsPublish
<1>3. k \in MaskKeys \/ k = NoKey
  BY DEF MaskKeys
<1>4. m \in Turns /\ KeyOf[m] = k
  <2>1. CASE k # NoKey /\ Published(k)
    BY <2>1, <1>0, RecordOfFacts DEF OwnKey, SessionRecords
  <2>2. CASE k # NoKey /\ ~Published(k) /\ inflight[k].refs > 0
    BY <2>2, <1>0, <1>3 DEF OwnKey
  <2> QED BY <2>1, <2>2
<1>5. /\ turn[t].pc = "new" /\ turn[t].body = {} /\ turn[t].back = {}
      /\ turn' = [turn EXCEPT ![t].pc = "masking", ![t].of = m, ![t].todo = ValuesOf[t]]
      /\ inflight' = IF k = NoKey \/ Published(k) THEN inflight
                     ELSE [inflight EXCEPT ![k] = [of |-> m, refs |-> @.refs + 1]]
      /\ bound' = bound /\ lost' = lost
  BY <1>0 DEF GetOrCreate, BodyBound
<1> HIDE DEF m
<1>6. /\ turn'[t] = [turn[t] EXCEPT !.pc = "masking", !.of = m, !.todo = ValuesOf[t]]
      /\ \A u \in Turns : u # t => turn'[u] = turn[u]
      /\ turn'[t].pc = "masking" /\ turn'[t].of = m /\ turn'[t].body = {} /\ turn'[t].back = {}
  BY <1>0, <1>5 DEF SessionTypeOK
<1>7. SessionTypeOK'
  <2>1. ValuesOf[t] \in SUBSET MaskValues
    BY DEF MaskValues
  <2>2. turn' \in [Turns -> TurnStates]
    <3>1. turn[t] \in TurnStates
      BY <1>0 DEF SessionTypeOK
    <3>2. turn'[t] \in TurnStates
      BY <3>1, <2>1, <1>4, <1>6 DEF TurnStates
    <3> QED BY <3>2, <1>0, <1>5 DEF SessionTypeOK
  <2>3. inflight' \in [MaskKeys -> [of : Turns \cup {0}, refs : Nat]]
    BY <1>0, <1>3, <1>4, <1>5 DEF SessionTypeOK
  <2> QED BY <2>2, <2>3, <1>0, <1>1, <1>5 DEF SessionTypeOK, SameRecords
<1>8. OwnKey'
  <2>1. \A j \in MaskKeys : inflight'[j].refs > 0 => inflight'[j].of \in Turns /\ KeyOf[inflight'[j].of] = j
    BY <1>0, <1>3, <1>4, <1>5 DEF OwnKey, SessionTypeOK
  <2>2. \A u \in Turns : turn'[u].pc # "new" => turn'[u].of \in Turns /\ KeyOf[turn'[u].of] = KeyOf[u]
    BY <1>0, <1>4, <1>6 DEF OwnKey
  <2> QED BY <2>1, <2>2, <1>0, <1>1 DEF OwnKey, SameRecords
<1>9. BodyBound'
  <2>1. ASSUME NEW u \in Turns
        PROVE  /\ turn'[u].pc = "new" => turn'[u].body = {}
               /\ \A x \in turn'[u].body : x[1] = turn'[u].of /\ x[2] \in bound[turn'[u].of]
               /\ turn'[u].pc \in {"done", "refused"} => turn'[u].back = turn'[u].body
               /\ turn'[u].pc \notin {"done", "refused"} => turn'[u].back = {}
    <3>1. CASE u = t
      BY <3>1, <1>6
    <3>2. CASE u # t
      BY <3>2, <1>0, <1>6 DEF BodyBound
    <3> QED BY <3>1, <3>2
  <2> QED BY <2>1, <1>5 DEF BodyBound
<1>10. ASSUME NEW j \in MaskKeys \ lost PROVE RecordShared(j)'
  <2> SUFFICES ASSUME NEW r \in ToSet(sessions'), r.key = j, NEW u \in Turns, KeyOf[u] = j,
                      turn'[u].pc = "masking" \/ turn'[u].body # {}
               PROVE  turn'[u].of = r.of
    BY DEF RecordShared
  <2>1. r \in ToSet(sessions)
    BY <1>1 DEF SameRecords
  <2>2. CASE u = t
    <3>1. k = j /\ k # NoKey /\ Published(k)
      BY <2>1, <2>2, PublishedRecords DEF MaskKeys
    <3>2. m = RecordOf(k).of
      BY <3>1 DEF m
    <3>3. RecordOf(k) = r
      BY <3>1, <2>1, <1>0, RecordOfFacts DEF OwnKey
    <3> QED BY <2>2, <3>2, <3>3, <1>6
  <2>3. CASE u # t
    BY <2>1, <2>3, <1>0, <1>6 DEF KeyShared, RecordShared
  <2> QED BY <2>2, <2>3
<1>11. ASSUME NEW j \in MaskKeys \ lost, ~Published(j)' PROVE InflightShared(j)'
  <2>1. ~Published(j) /\ InflightShared(j)
    BY <1>0, <1>2, <1>11 DEF KeyShared
  <2>2. IsFiniteSet(MaskingFor(j)) /\ inflight[j].refs = Cardinality(MaskingFor(j))
    BY <2>1, MaskingFinite DEF InflightShared
  <2>3. CASE j # k
    <3>1. MaskingFor(j)' = MaskingFor(j)
      BY <2>3, <1>6 DEF MaskingFor
    <3>2. inflight'[j] = inflight[j]
      BY <2>3, <1>5, <1>0, <1>3 DEF SessionTypeOK
    <3>3. \A u \in MaskingFor(j) : turn'[u].of = turn[u].of
      BY <2>3, <1>6 DEF MaskingFor
    <3> QED BY <3>1, <3>2, <3>3, <2>1, <1>5 DEF InflightShared
  <2>4. CASE j = k
    <3>1. MaskingFor(j)' = MaskingFor(j) \cup {t} /\ t \notin MaskingFor(j)
      BY <2>4, <1>5, <1>6 DEF MaskingFor
    <3>2. inflight'[j] = [of |-> m, refs |-> inflight[j].refs + 1]
      BY <2>4, <2>1, <1>5, <1>0, <1>3 DEF SessionTypeOK, MaskKeys
    <3>3. Cardinality(MaskingFor(j)') = Cardinality(MaskingFor(j)) + 1
      BY <3>1, <2>2, FS_AddElement
    <3>4. \A u \in MaskingFor(j) : turn[u].of = m
      <4>1. CASE inflight[k].refs > 0
        BY <4>1, <2>1, <2>4, <1>3 DEF InflightShared, m, MaskKeys
      <4>2. CASE ~(inflight[k].refs > 0)
        <5>1. Cardinality(MaskingFor(j)) \in Nat
          BY <2>2, FS_CardinalityType
        <5>2. Cardinality(MaskingFor(j)) = 0
          BY <4>2, <2>2, <2>4, <5>1
        <5> QED BY <5>2, <2>2, FS_EmptySet
      <4> QED BY <4>1, <4>2
    <3>5. \A u \in MaskingFor(j)' : turn'[u].of = m
      BY <3>1, <3>4, <1>6 DEF MaskingFor
    <3>6. inflight'[j].of = m /\ inflight'[j].refs = Cardinality(MaskingFor(j)')
      BY <3>2, <3>3, <2>2
    <3>7. \A n \in Turns : KeyOf[n] = j => bound'[n] = {}
      BY <2>1, <1>5 DEF InflightShared
    <3> QED BY <3>5, <3>6, <3>7 DEF InflightShared
  <2> QED BY <2>3, <2>4
<1>12. KeyShared'
  BY <1>5, <1>10, <1>11 DEF KeyShared
<1> QED BY <1>7, <1>8, <1>9, <1>12 DEF SessionInv

\* Eviction: a record that goes takes its key into lost.
LEMMA EvictionLoses ==
  ASSUME SessionTypeOK, NEW k \in MaskKeys, NEW m \in Turns, publish(k, m), ~Published(k)
  PROVE  /\ sessions' \in Seq(SessionRecords) /\ lost' \in SUBSET MaskKeys /\ lost \subseteq lost'
         /\ [key |-> k, of |-> m] \in ToSet(sessions')
         /\ ToSet(sessions') \subseteq ToSet(sessions) \cup {[key |-> k, of |-> m]}
         /\ \A r \in ToSet(sessions) : r \in ToSet(sessions') \/ r.key \in lost'
<1> DEFINE n == Evicting(sessions)
           new == [key |-> k, of |-> m]
           rest == SubSeq(sessions, n + 1, Len(sessions))
<1>1. sessions \in Seq(SessionRecords) /\ new \in SessionRecords
  BY DEF SessionTypeOK, SessionRecords
<1>2. n \in 0..Len(sessions)
  BY <1>1, SessionAssumption DEF Evicting
<1>3. lost' = lost \cup {sessions[i].key : i \in 1..n} /\ sessions' = Append(rest, new)
  BY DEF publish
<1> HIDE DEF n, new
<1>4. /\ rest \in Seq(SessionRecords) /\ Len(rest) = Len(sessions) - n
      /\ \A i \in 1..Len(rest) : rest[i] = sessions[n + i]
  BY <1>1, <1>2
<1> HIDE DEF rest
<1>5. /\ sessions' \in Seq(SessionRecords) /\ Len(sessions') = Len(rest) + 1
      /\ \A i \in 1..Len(rest) : sessions'[i] = rest[i]
      /\ sessions'[Len(rest) + 1] = new
  BY <1>1, <1>3, <1>4
<1>6. lost' \in SUBSET MaskKeys
  <2>1. ASSUME NEW i \in 1..n PROVE sessions[i].key \in MaskKeys
    <3>1. i \in 1..Len(sessions)
      BY <1>1, <1>2
    <3>2. sessions[i] \in SessionRecords
      BY <3>1, <1>1
    <3> QED BY <3>2 DEF SessionRecords
  <2> QED BY <2>1, <1>3 DEF SessionTypeOK
<1>7. new \in ToSet(sessions')
  <2>1. Len(rest) + 1 \in DOMAIN sessions'
    BY <1>4, <1>5
  <2> QED BY <2>1, <1>5 DEF ToSet
<1>8. ASSUME NEW i \in DOMAIN sessions' PROVE sessions'[i] \in ToSet(sessions) \cup {new}
  <2>1. CASE i = Len(rest) + 1
    BY <2>1, <1>5
  <2>2. CASE i # Len(rest) + 1
    <3>1. i \in 1..Len(rest)
      BY <2>2, <1>4, <1>5
    <3>2. n + i \in DOMAIN sessions
      BY <3>1, <1>1, <1>2, <1>4
    <3>3. sessions'[i] = sessions[n + i]
      BY <3>1, <1>4, <1>5
    <3> QED BY <3>2, <3>3 DEF ToSet
  <2> QED BY <2>1, <2>2
<1>9. ASSUME NEW i \in DOMAIN sessions PROVE sessions[i] \in ToSet(sessions') \/ sessions[i].key \in lost'
  <2>1. CASE i <= n
    BY <2>1, <1>1, <1>3
  <2>2. CASE ~(i <= n)
    <3>1. i - n \in 1..Len(rest) /\ n + (i - n) = i /\ i - n \in DOMAIN sessions'
      BY <2>2, <1>1, <1>2, <1>4, <1>5
    <3>2. sessions'[i - n] = sessions[i]
      BY <3>1, <1>4, <1>5
    <3> QED BY <3>1, <3>2 DEF ToSet
  <2> QED BY <2>1, <2>2
<1>10. ToSet(sessions') \subseteq ToSet(sessions) \cup {new}
  BY <1>8 DEF ToSet
<1>11. \A r \in ToSet(sessions) : r \in ToSet(sessions') \/ r.key \in lost'
  BY <1>9 DEF ToSet
<1>12. lost \subseteq lost'
  BY <1>3
<1> QED BY <1>5, <1>6, <1>7, <1>10, <1>11, <1>12 DEF new

LEMMA RecallKeeps ==
  ASSUME SessionInv, NEW t \in Turns, NEW s \in ValuesOf[t], Recall(t, s)
  PROVE  SessionInv'
<1> DEFINE k == KeyOf[t]
           m == turn[t].of
           new == [key |-> k, of |-> m]
<1>0. SessionTypeOK /\ OwnKey /\ BodyBound /\ KeyShared
  BY DEF SessionInv
<1>1. /\ turn[t].pc = "masking" /\ turn[t].back = {}
      /\ m \in Turns /\ KeyOf[m] = k
      /\ turn' = [turn EXCEPT ![t].todo = @ \ {s}, ![t].body = @ \cup {<<m, s>>}]
      /\ bound' = [bound EXCEPT ![m] = @ \cup {s}]
  BY <1>0 DEF Recall, OwnKey, BodyBound
<1>2. k \in MaskKeys \/ k = NoKey
  BY DEF MaskKeys
<1> HIDE DEF m
<1>3. /\ turn[t] \in TurnStates /\ turn'[t] = [turn[t] EXCEPT !.todo = @ \ {s}, !.body = @ \cup {<<m, s>>}]
      /\ \A u \in Turns : u # t => turn'[u] = turn[u]
      /\ turn'[t].body = turn[t].body \cup {<<m, s>>}
      /\ \A u \in Turns : /\ turn'[u].pc = turn[u].pc /\ turn'[u].of = turn[u].of
                          /\ turn'[u].back = turn[u].back
      /\ \A u \in Turns : u # m => bound'[u] = bound[u]
      /\ bound'[m] = bound[m] \cup {s}
  BY <1>0, <1>1 DEF SessionTypeOK, TurnStates
<1>4. s \in MaskValues
  BY DEF MaskValues
<1> DEFINE Others5 ==
             /\ sessions' \in Seq(SessionRecords) /\ lost' \in SUBSET MaskKeys /\ lost \subseteq lost'
             /\ \A r \in ToSet(sessions') : r \in ToSet(sessions) \/ (k # NoKey /\ r = new /\ ~Published(k))
             /\ \A r \in ToSet(sessions) : r \in ToSet(sessions') \/ r.key \in lost'
             /\ inflight' \in [MaskKeys -> [of : Turns \cup {0}, refs : Nat]]
             /\ \A j \in MaskKeys : inflight'[j] = inflight[j] \/ (j = k /\ inflight'[j].refs = 0)
             /\ k # NoKey /\ bound[m] = {} => Published(k)'
<1>5. Others5
  <2>1. CASE bound[m] # {} \/ k = NoKey
    <3>1. sessions' = sessions /\ inflight' = inflight /\ lost' = lost
      BY <2>1 DEF Recall, m
    <3> QED BY <2>1, <3>1, <1>0 DEF SessionTypeOK
  <2>2. ASSUME bound[m] = {}, k # NoKey PROVE Others5
    <3>1. publish(k, m) /\ k \in MaskKeys
      BY <2>2, <1>2 DEF Recall, m
    <3>2. /\ inflight' = [inflight EXCEPT ![k] = [of |-> 0, refs |-> 0]]
          /\ inflight' \in [MaskKeys -> [of : Turns \cup {0}, refs : Nat]]
          /\ \A j \in MaskKeys : inflight'[j] = inflight[j] \/ (j = k /\ inflight'[j].refs = 0)
      BY <3>1, <1>0 DEF publish, SessionTypeOK
    <3>3. CASE Published(k)
      <4>1. sessions' = sessions /\ lost' = lost /\ Published(k)'
        BY <3>1, <3>3 DEF publish, Published
      <4> QED BY <4>1, <3>2, <1>0 DEF SessionTypeOK
    <3>4. CASE ~Published(k)
      <4>1. /\ sessions' \in Seq(SessionRecords) /\ lost' \in SUBSET MaskKeys /\ lost \subseteq lost'
            /\ new \in ToSet(sessions')
            /\ ToSet(sessions') \subseteq ToSet(sessions) \cup {new}
            /\ \A r \in ToSet(sessions) : r \in ToSet(sessions') \/ r.key \in lost'
        BY <3>1, <3>4, <1>0, <1>1, EvictionLoses
      <4>2. Published(k)'
        BY <4>1 DEF Published, ToSet
      <4> QED BY <4>1, <4>2, <3>2, <3>4, <2>2
    <3> QED BY <3>3, <3>4
  <2> QED BY <2>1, <2>2
<1>6. SessionTypeOK'
  <2>1. <<m, s>> \in Placeholders
    BY <1>1, <1>4 DEF Placeholders
  <2>2. turn'[t] \in TurnStates
    BY <2>1, <1>3 DEF TurnStates
  <2>3. turn' \in [Turns -> TurnStates]
    BY <2>2, <1>0, <1>1 DEF SessionTypeOK
  <2>4. bound' \in [Turns -> SUBSET MaskValues]
    BY <1>0, <1>1, <1>4 DEF SessionTypeOK
  <2> QED BY <2>3, <2>4, <1>5 DEF SessionTypeOK
<1>7. OwnKey'
  <2>1. \A u \in Turns : turn'[u].pc # "new" => turn'[u].of \in Turns /\ KeyOf[turn'[u].of] = KeyOf[u]
    BY <1>0, <1>3 DEF OwnKey
  <2>2. \A j \in MaskKeys : inflight'[j].refs > 0 => inflight'[j].of \in Turns /\ KeyOf[inflight'[j].of] = j
    BY <1>0, <1>5 DEF OwnKey
  <2>3. \A r \in ToSet(sessions') : KeyOf[r.of] = r.key
    BY <1>0, <1>1, <1>5 DEF OwnKey
  <2>4. \A r, q \in ToSet(sessions') : r.key = q.key => r = q
    BY <1>0, <1>5, PublishedRecords DEF OwnKey
  <2> QED BY <2>1, <2>2, <2>3, <2>4 DEF OwnKey
<1>8. BodyBound'
  <2>1. ASSUME NEW u \in Turns
        PROVE  /\ turn'[u].pc = "new" => turn'[u].body = {}
               /\ turn'[u].pc \in {"done", "refused"} => turn'[u].back = turn'[u].body
               /\ turn'[u].pc \notin {"done", "refused"} => turn'[u].back = {}
    <3>1. CASE u = t
      BY <3>1, <1>1, <1>3
    <3>2. CASE u # t
      BY <3>2, <1>0, <1>3 DEF BodyBound
    <3> QED BY <3>1, <3>2
  <2>2. ASSUME NEW u \in Turns, NEW x \in turn'[u].body
        PROVE  x[1] = turn'[u].of /\ x[2] \in bound'[turn'[u].of]
    <3>1. turn'[u].of = turn[u].of /\ bound[turn[u].of] \subseteq bound'[turn[u].of]
      <4>1. turn[u].of \in Turns
        BY <1>0, <1>1, <1>3 DEF BodyBound, OwnKey
      <4>2. CASE turn[u].of = m
        BY <4>2, <1>3
      <4>3. CASE turn[u].of # m
        BY <4>1, <4>3, <1>3
      <4> QED BY <4>2, <4>3
    <3>2. CASE x \in turn[u].body
      BY <3>1, <3>2, <1>0 DEF BodyBound
    <3>3. CASE x \notin turn[u].body
      <4>1. u = t /\ x = <<m, s>>
        BY <3>3, <1>3
      <4> QED BY <4>1, <1>3 DEF m
    <3> QED BY <3>2, <3>3
  <2> QED BY <2>1, <2>2 DEF BodyBound
<1>9. ASSUME NEW j \in MaskKeys \ lost' PROVE RecordShared(j)'
  <2> SUFFICES ASSUME NEW r \in ToSet(sessions'), r.key = j, NEW u \in Turns, KeyOf[u] = j,
                      turn'[u].pc = "masking" \/ turn'[u].body # {}
               PROVE  turn'[u].of = r.of
    BY DEF RecordShared
  <2>1. turn[u].pc = "masking" \/ turn[u].body # {}
    BY <1>1, <1>3
  <2>2. j \notin lost /\ turn'[u].of = turn[u].of
    BY <1>3, <1>5
  <2>3. CASE r \in ToSet(sessions)
    BY <2>1, <2>2, <2>3, <1>0 DEF KeyShared, RecordShared
  <2>4. CASE r \notin ToSet(sessions)
    <3>1. r = new /\ ~Published(j) /\ j = k
      BY <2>4, <1>5
    <3>2. InflightShared(j)
      BY <3>1, <2>2, <1>0 DEF KeyShared
    <3>3. CASE turn[u].pc = "masking"
      <4>1. u \in MaskingFor(j) /\ t \in MaskingFor(j)
        BY <3>1, <3>3, <1>1 DEF MaskingFor
      <4> QED BY <4>1, <3>1, <3>2, <2>2 DEF InflightShared, m
    <3>4. CASE turn[u].pc # "masking"
      <4>1. PICK x \in turn[u].body : x[2] \in bound[turn[u].of]
        BY <3>4, <2>1, <1>0 DEF BodyBound
      <4>2. turn[u].of \in Turns /\ KeyOf[turn[u].of] = j
        BY <2>1, <1>0 DEF OwnKey, BodyBound
      <4> QED BY <4>1, <4>2, <3>2 DEF InflightShared
    <3> QED BY <3>3, <3>4
  <2> QED BY <2>3, <2>4
<1>10. ASSUME NEW j \in MaskKeys \ lost', ~Published(j)' PROVE InflightShared(j)'
  <2>1. ~Published(j)
    <3>1. \A r \in ToSet(sessions) : r.key # j
      BY <1>10, <1>5 DEF Published, ToSet
    <3> QED BY <3>1, PublishedRecords
  <2>2. InflightShared(j)
    BY <2>1, <1>0, <1>5 DEF KeyShared
  <2>3. j # k
    <3>1. SUFFICES ASSUME j = k PROVE FALSE
      OBVIOUS
    <3>2. bound[m] = {} /\ k # NoKey
      BY <3>1, <2>2, <1>1 DEF InflightShared, MaskKeys
    <3> QED BY <3>1, <3>2, <1>5, <1>10
  <2>4. MaskingFor(j)' = MaskingFor(j)
    BY <1>3 DEF MaskingFor
  <2>5. \A u \in Turns : KeyOf[u] = j => bound'[u] = {}
    BY <2>2, <2>3, <1>1, <1>3 DEF InflightShared
  <2>6. inflight'[j] = inflight[j]
    BY <2>3, <1>5
  <2>7. \A u \in MaskingFor(j) : turn'[u].of = turn[u].of
    BY <1>3 DEF MaskingFor
  <2> QED BY <2>2, <2>4, <2>5, <2>6, <2>7 DEF InflightShared
<1>11. KeyShared'
  BY <1>9, <1>10 DEF KeyShared
<1> QED BY <1>6, <1>7, <1>8, <1>11 DEF SessionInv

\* Apply ends for t, whose record becomes me: the count of its key goes down with the set of
\* its requests.
LEMMA EndKeeps ==
  ASSUME SessionInv, NEW t \in Turns, turn[t].pc = "masking", NEW me \in TurnStates,
         me.pc \in {"sent", "done", "refused"}, me.of = turn[t].of, me.back = {},
         me.body = {} \/ (me.body = turn[t].body /\ me.pc = "sent"),
         turn' = [turn EXCEPT ![t] = me], End(KeyOf[t]), bound' = bound, lost' = lost
  PROVE  SessionInv'
<1> DEFINE k == KeyOf[t]
<1>0. SessionTypeOK /\ OwnKey /\ BodyBound /\ KeyShared
  BY DEF SessionInv
<1>1. SameRecords
  BY <1>0, TouchedRecords DEF End, SameRecords
<1>2. \A j : Published(j)' <=> Published(j)
  BY <1>0, <1>1, SameRecordsPublish
<1>3. k \in MaskKeys \/ k = NoKey
  BY DEF MaskKeys
<1>4. turn'[t] = me /\ \A u \in Turns : u # t => turn'[u] = turn[u]
  BY <1>0 DEF SessionTypeOK
<1>5. /\ inflight' \in [MaskKeys -> [of : Turns \cup {0}, refs : Nat]]
      /\ \A j \in MaskKeys : j # k => inflight'[j] = inflight[j]
      /\ \A j \in MaskKeys : inflight'[j].refs > 0 => inflight[j].refs > 0 /\ inflight'[j].of = inflight[j].of
      /\ k # NoKey /\ inflight[k].refs # 0 => inflight'[k].refs = inflight[k].refs - 1
      /\ k # NoKey /\ inflight[k].refs # 0 /\ inflight[k].refs # 1 => inflight'[k].of = inflight[k].of
  BY <1>0, <1>3 DEF End, SessionTypeOK
<1>6. SessionTypeOK'
  <2>1. turn' \in [Turns -> TurnStates]
    BY <1>0 DEF SessionTypeOK
  <2> QED BY <2>1, <1>0, <1>1, <1>5 DEF SessionTypeOK, SameRecords
<1>7. OwnKey'
  <2>1. \A u \in Turns : turn'[u].pc # "new" => turn'[u].of \in Turns /\ KeyOf[turn'[u].of] = KeyOf[u]
    BY <1>0, <1>4 DEF OwnKey
  <2>2. \A j \in MaskKeys : inflight'[j].refs > 0 => inflight'[j].of \in Turns /\ KeyOf[inflight'[j].of] = j
    BY <1>0, <1>5 DEF OwnKey
  <2> QED BY <2>1, <2>2, <1>0, <1>1 DEF OwnKey, SameRecords
<1>8. BodyBound'
  <2>1. ASSUME NEW u \in Turns
        PROVE  /\ turn'[u].pc = "new" => turn'[u].body = {}
               /\ \A x \in turn'[u].body : x[1] = turn'[u].of /\ x[2] \in bound[turn'[u].of]
               /\ turn'[u].pc \in {"done", "refused"} => turn'[u].back = turn'[u].body
               /\ turn'[u].pc \notin {"done", "refused"} => turn'[u].back = {}
    <3>1. CASE u = t
      <4>1. turn'[u] = me
        BY <3>1, <1>4
      <4>2. \A x \in me.body : x[1] = me.of /\ x[2] \in bound[me.of]
        BY <1>0 DEF BodyBound
      <4>3. me.pc # "new" /\ (me.pc \in {"done", "refused"} => me.back = me.body)
        OBVIOUS
      <4> QED BY <4>1, <4>2, <4>3
    <3>2. CASE u # t
      BY <3>2, <1>0, <1>4 DEF BodyBound
    <3> QED BY <3>1, <3>2
  <2> QED BY <2>1 DEF BodyBound
<1>9. ASSUME NEW j \in MaskKeys \ lost PROVE RecordShared(j)'
  <2> SUFFICES ASSUME NEW r \in ToSet(sessions'), r.key = j, NEW u \in Turns, KeyOf[u] = j,
                      turn'[u].pc = "masking" \/ turn'[u].body # {}
               PROVE  turn'[u].of = r.of
    BY DEF RecordShared
  <2>1. r \in ToSet(sessions) /\ turn'[u].of = turn[u].of
    BY <1>1, <1>4 DEF SameRecords
  <2>2. turn[u].pc = "masking" \/ turn[u].body # {}
    BY <1>4
  <2> QED BY <2>1, <2>2, <1>0 DEF KeyShared, RecordShared
<1>10. ASSUME NEW j \in MaskKeys \ lost, ~Published(j)' PROVE InflightShared(j)'
  <2>1. InflightShared(j)
    BY <1>0, <1>2, <1>10 DEF KeyShared
  <2>2. /\ IsFiniteSet(MaskingFor(j)) /\ inflight[j].refs = Cardinality(MaskingFor(j))
        /\ Cardinality(MaskingFor(j)) \in Nat
    BY <2>1, MaskingFinite, FS_CardinalityType DEF InflightShared
  <2>3. \A u \in Turns : KeyOf[u] = j => bound'[u] = {}
    BY <2>1 DEF InflightShared
  <2>4. CASE j # k
    <3>1. MaskingFor(j)' = MaskingFor(j)
      BY <2>4, <1>4 DEF MaskingFor
    <3>2. inflight'[j] = inflight[j]
      BY <2>4, <1>5
    <3>3. \A u \in MaskingFor(j) : turn'[u].of = turn[u].of
      BY <2>4, <1>4 DEF MaskingFor
    <3> QED BY <3>1, <3>2, <3>3, <2>1, <2>3 DEF InflightShared
  <2>5. CASE j = k
    <3>1. t \in MaskingFor(j) /\ k # NoKey
      BY <2>5 DEF MaskingFor, MaskKeys
    <3>2. MaskingFor(j)' = MaskingFor(j) \ {t}
      BY <2>5, <1>4 DEF MaskingFor
    <3>3. Cardinality(MaskingFor(j)') = Cardinality(MaskingFor(j)) - 1
      BY <3>1, <3>2, <2>2, FS_RemoveElement
    <3>4. inflight[j].refs # 0
      BY <3>1, <2>2, FS_EmptySet
    <3>5. inflight'[j].refs = Cardinality(MaskingFor(j)')
      BY <3>1, <3>3, <3>4, <2>2, <2>5, <1>5
    <3>6. \A u \in MaskingFor(j)' : turn'[u].of = inflight'[j].of
      <4>1. CASE inflight[j].refs = 1
        <5>1. IsFiniteSet(MaskingFor(j)') /\ Cardinality(MaskingFor(j)') = 0
          BY <4>1, <3>1, <3>2, <3>3, <2>2, FS_RemoveElement
        <5> QED BY <5>1, FS_EmptySet
      <4>2. CASE inflight[j].refs # 1
        <5>1. inflight'[j].of = inflight[j].of
          BY <4>2, <3>1, <3>4, <2>5, <1>5
        <5>2. ASSUME NEW u \in MaskingFor(j)' PROVE turn'[u].of = inflight[j].of
          <6>1. u \in MaskingFor(j) /\ u # t
            BY <3>2
          <6> QED BY <6>1, <2>1, <1>4 DEF InflightShared, MaskingFor
        <5> QED BY <5>1, <5>2
      <4> QED BY <4>1, <4>2
    <3> QED BY <3>5, <3>6, <2>3 DEF InflightShared
  <2> QED BY <2>4, <2>5
<1>11. KeyShared'
  BY <1>9, <1>10 DEF KeyShared
<1> QED BY <1>6, <1>7, <1>8, <1>11 DEF SessionInv

\* Apply returns or panics: in the second case nothing was sent.
LEMMA ApplyEndKeeps ==
  ASSUME SessionInv, NEW t \in Turns, ApplyDone(t) \/ ApplyFails(t)
  PROVE  SessionInv'
<1>1. turn[t] \in TurnStates /\ turn[t].back = {} /\ turn[t].pc = "masking"
  BY DEF SessionInv, SessionTypeOK, BodyBound, ApplyDone, ApplyFails
<1>2. CASE ApplyDone(t)
  <2> DEFINE me == [turn[t] EXCEPT !.pc = IF turn[t].body = {} THEN "done" ELSE "sent"]
  <2>1. /\ me \in TurnStates /\ me.pc \in {"sent", "done", "refused"} /\ me.of = turn[t].of
        /\ me.back = {} /\ (me.body = {} \/ (me.body = turn[t].body /\ me.pc = "sent"))
    BY <1>1 DEF TurnStates
  <2>2. turn' = [turn EXCEPT ![t] = me] /\ End(KeyOf[t]) /\ bound' = bound /\ lost' = lost
    BY <1>2 DEF ApplyDone
  <2> HIDE DEF me
  <2> QED BY <2>1, <2>2, <1>1, EndKeeps
<1>3. CASE ApplyFails(t)
  <2> DEFINE me == [turn[t] EXCEPT !.pc = "refused", !.todo = {}, !.body = {}]
  <2>1. /\ me \in TurnStates /\ me.pc \in {"sent", "done", "refused"} /\ me.of = turn[t].of
        /\ me.back = {} /\ me.body = {}
    BY <1>1 DEF TurnStates
  <2>2. turn' = [turn EXCEPT ![t] = me] /\ End(KeyOf[t]) /\ bound' = bound /\ lost' = lost
    BY <1>3 DEF ApplyFails
  <2> HIDE DEF me
  <2> QED BY <2>1, <2>2, <1>1, EndKeeps
<1> QED BY <1>2, <1>3

\* The lookup of the own placeholders finds every one.
LEMMA RestoreKeeps ==
  ASSUME SessionInv, NEW t \in Turns, Restore(t)
  PROVE  SessionInv'
<1>0. SessionTypeOK /\ OwnKey /\ BodyBound /\ KeyShared
  BY DEF SessionInv
<1>1. /\ turn[t].pc = "sent" /\ turn[t] \in TurnStates
      /\ turn' = [turn EXCEPT ![t].pc = "done", ![t].back = Lookup(t, turn[t].of)]
      /\ UNCHANGED <<sessions, inflight, bound, lost>>
  BY <1>0 DEF Restore, SessionTypeOK
<1>2. Lookup(t, turn[t].of) = turn[t].body
  BY <1>0 DEF Lookup, BodyBound
<1>3. /\ turn'[t] = [turn[t] EXCEPT !.pc = "done", !.back = turn[t].body]
      /\ \A u \in Turns : u # t => turn'[u] = turn[u]
  BY <1>0, <1>1, <1>2 DEF SessionTypeOK
<1>4. /\ turn'[t].pc = "done" /\ turn'[t].of = turn[t].of /\ turn'[t].body = turn[t].body
      /\ turn'[t].back = turn[t].body /\ turn'[t] \in TurnStates
  <2> DEFINE old == turn[t]
             b == old.body
  <2>1. old \in TurnStates /\ b \in SUBSET Placeholders
    BY <1>1 DEF TurnStates
  <2>2. turn'[t] = [old EXCEPT !.pc = "done", !.back = b]
    BY <1>3
  <2> HIDE DEF b
  <2>3. /\ turn'[t].pc = "done" /\ turn'[t].of = old.of /\ turn'[t].body = old.body
        /\ turn'[t].back = b /\ turn'[t] \in TurnStates
    <3> HIDE DEF old
    <3> QED BY <2>1, <2>2 DEF TurnStates
  <2> QED BY <2>3 DEF b
<1>5. SessionTypeOK'
  BY <1>0, <1>1, <1>4 DEF SessionTypeOK
<1>6. OwnKey'
  <2>1. ASSUME NEW u \in Turns, turn'[u].pc # "new"
        PROVE  turn'[u].of \in Turns /\ KeyOf[turn'[u].of] = KeyOf[u]
    <3>1. turn'[u].of = turn[u].of /\ turn[u].pc # "new"
      BY <2>1, <1>1, <1>3, <1>4
    <3> QED BY <3>1, <1>0 DEF OwnKey
  <2> QED BY <2>1, <1>0, <1>1 DEF OwnKey
<1>7. BodyBound'
  <2>1. ASSUME NEW u \in Turns
        PROVE  /\ turn'[u].pc = "new" => turn'[u].body = {}
               /\ \A x \in turn'[u].body : x[1] = turn'[u].of /\ x[2] \in bound[turn'[u].of]
               /\ turn'[u].pc \in {"done", "refused"} => turn'[u].back = turn'[u].body
               /\ turn'[u].pc \notin {"done", "refused"} => turn'[u].back = {}
    <3>1. CASE u = t
      BY <3>1, <1>0, <1>4 DEF BodyBound
    <3>2. CASE u # t
      BY <3>2, <1>0, <1>3 DEF BodyBound
    <3> QED BY <3>1, <3>2
  <2> QED BY <2>1, <1>1 DEF BodyBound
<1>8. KeyShared'
  <2>1. \A j : MaskingFor(j)' = MaskingFor(j)
    BY <1>1, <1>3, <1>4 DEF MaskingFor
  <2>2. \A u \in Turns : turn'[u].of = turn[u].of /\ turn'[u].body = turn[u].body
                         /\ (turn'[u].pc = "masking" <=> turn[u].pc = "masking")
    BY <1>1, <1>3, <1>4
  <2>3. \A j \in MaskKeys : (RecordShared(j) => RecordShared(j)') /\ (Published(j)' <=> Published(j))
    BY <2>2, <1>1 DEF RecordShared, Published
  <2>4. \A j \in MaskKeys : InflightShared(j) => InflightShared(j)'
    BY <2>1, <2>2, <1>1 DEF InflightShared, MaskingFor
  <2> QED BY <2>3, <2>4, <1>0, <1>1 DEF KeyShared
<1> QED BY <1>5, <1>6, <1>7, <1>8 DEF SessionInv

\* The record that expires takes its key into lost.
LEMMA PruneKeeps ==
  ASSUME SessionInv, PruneExpired
  PROVE  SessionInv'
<1>0. SessionTypeOK /\ OwnKey /\ BodyBound /\ KeyShared
  BY DEF SessionInv
<1>1. /\ sessions \in Seq(SessionRecords) /\ sessions # <<>> /\ sessions' = Tail(sessions)
      /\ lost' = lost \cup {Head(sessions).key} /\ UNCHANGED <<inflight, bound, turn>>
  BY <1>0 DEF PruneExpired, SessionTypeOK
<1>2. /\ sessions' \in Seq(SessionRecords) /\ Head(sessions) \in SessionRecords
      /\ Len(sessions) \in Nat /\ Len(sessions) > 0
      /\ Head(sessions) = sessions[1] /\ Len(sessions') = Len(sessions) - 1
      /\ \A i \in 1..Len(sessions') : sessions'[i] = sessions[i + 1]
  BY <1>1
<1>3. ToSet(sessions') \subseteq ToSet(sessions)
  <2> SUFFICES ASSUME NEW i \in DOMAIN sessions' PROVE sessions'[i] \in ToSet(sessions)
    BY DEF ToSet
  <2>1. i \in 1..Len(sessions') /\ i + 1 \in DOMAIN sessions
    BY <1>1, <1>2
  <2> QED BY <2>1, <1>2 DEF ToSet
<1>4. \A r \in ToSet(sessions) : r \in ToSet(sessions') \/ r.key \in lost'
  <2> SUFFICES ASSUME NEW i \in DOMAIN sessions PROVE sessions[i] \in ToSet(sessions') \/ sessions[i].key \in lost'
    BY DEF ToSet
  <2>1. CASE i = 1
    BY <2>1, <1>1, <1>2
  <2>2. CASE i # 1
    <3>1. i - 1 \in 1..Len(sessions') /\ i - 1 \in DOMAIN sessions' /\ (i - 1) + 1 = i
      BY <2>2, <1>1, <1>2
    <3>2. sessions'[i - 1] = sessions[i]
      BY <3>1, <1>2
    <3> QED BY <3>1, <3>2 DEF ToSet
  <2> QED BY <2>1, <2>2
<1>5. SessionTypeOK'
  BY <1>0, <1>1, <1>2 DEF SessionTypeOK, SessionRecords
<1>6. OwnKey' /\ BodyBound'
  BY <1>0, <1>1, <1>3 DEF OwnKey, BodyBound
<1>7. ASSUME NEW j \in MaskKeys \ lost' PROVE RecordShared(j)' /\ (~Published(j)' => InflightShared(j)')
  <2>1. j \notin lost /\ (~Published(j)' => ~Published(j))
    <3>1. Published(j)' <=> \E r \in ToSet(sessions') : r.key = j
      BY DEF Published, ToSet
    <3> QED BY <3>1, <1>1, <1>4, PublishedRecords
  <2>2. RecordShared(j) /\ (~Published(j) => InflightShared(j))
    BY <2>1, <1>0 DEF KeyShared
  <2>3. RecordShared(j)'
    BY <2>2, <1>1, <1>3 DEF RecordShared
  <2>4. InflightShared(j)' <=> InflightShared(j)
    BY <1>1 DEF InflightShared, MaskingFor
  <2> QED BY <2>1, <2>2, <2>3, <2>4
<1> QED BY <1>5, <1>6, <1>7 DEF SessionInv, KeyShared

LEMMA SessionStarts == SessionInit => SessionInv
<1> SUFFICES ASSUME SessionInit PROVE SessionInv
  OBVIOUS
<1>1. ToSet(sessions) = {}
  BY DEF SessionInit, ToSet
<1>2. SessionTypeOK
  BY DEF SessionInit, SessionTypeOK, TurnStates
<1>3. OwnKey /\ BodyBound
  BY <1>1 DEF SessionInit, OwnKey, BodyBound
<1>4. KeyShared
  <2>1. \A j : MaskingFor(j) = {}
    BY DEF SessionInit, MaskingFor
  <2>2. \A j \in MaskKeys : InflightShared(j)
    BY <2>1, FS_EmptySet DEF SessionInit, InflightShared
  <2> QED BY <2>2, <1>1 DEF KeyShared, RecordShared
<1> QED BY <1>2, <1>3, <1>4 DEF SessionInv

LEMMA SessionStep == SessionInv /\ [SessionNext]_sessionVars => SessionInv'
<1> SUFFICES ASSUME SessionInv, [SessionNext]_sessionVars PROVE SessionInv'
  OBVIOUS
<1>1. CASE UNCHANGED sessionVars
  <2>1. UNCHANGED <<sessions, inflight, bound, turn, lost>>
    BY <1>1 DEF sessionVars
  <2>2. \A j : MaskingFor(j)' = MaskingFor(j) /\ (Published(j)' <=> Published(j))
    BY <2>1 DEF MaskingFor, Published
  <2>3. KeyShared'
    BY <2>1, <2>2 DEF SessionInv, KeyShared, RecordShared, InflightShared
  <2>4. SessionTypeOK' /\ OwnKey' /\ BodyBound'
    BY <2>1 DEF SessionInv, SessionTypeOK, OwnKey, BodyBound
  <2> QED BY <2>3, <2>4 DEF SessionInv
<1>2. CASE PruneExpired
  BY <1>2, PruneKeeps
<1>3. ASSUME NEW t \in Turns, GetOrCreate(t) PROVE SessionInv'
  BY <1>3, GetOrCreateKeeps
<1>4. ASSUME NEW t \in Turns, NEW s \in ValuesOf[t], Recall(t, s) PROVE SessionInv'
  BY <1>4, RecallKeeps
<1>5. ASSUME NEW t \in Turns, ApplyDone(t) \/ ApplyFails(t) PROVE SessionInv'
  BY <1>5, ApplyEndKeeps
<1>6. ASSUME NEW t \in Turns, Restore(t) PROVE SessionInv'
  BY <1>6, RestoreKeeps
<1> QED BY <1>1, <1>2, <1>3, <1>4, <1>5, <1>6 DEF SessionNext

\* A request restores what it masked, and the requests of a session whose record was never
\* dropped send one placeholder for one value (mask/session.go, handler.go), for any requests.
THEOREM SessionsHold == SessionSpec => []SessionsSound
<1>1. SessionInv => SessionsSound
  <2> SUFFICES ASSUME SessionInv PROVE SessionsSound
    OBVIOUS
  <2>0. OwnKey /\ BodyBound /\ KeyShared
    BY DEF SessionInv
  <2>1. RestoresOwn
    BY <2>0 DEF RestoresOwn, BodyBound
  <2>2. ASSUME NEW t \in Turns, NEW u \in Turns, KeyOf[t] = KeyOf[u], KeyOf[t] \notin lost \cup {NoKey},
               NEW x \in turn[t].body, NEW y \in turn[u].body, x[2] = y[2]
        PROVE  x = y
    <3>1. KeyOf[t] \in MaskKeys \ lost
      BY <2>2 DEF MaskKeys
    <3>2. /\ turn[t].of \in Turns /\ KeyOf[turn[t].of] = KeyOf[t] /\ x[1] = turn[t].of
          /\ x[2] \in bound[turn[t].of] /\ y[1] = turn[u].of
      BY <2>0 DEF OwnKey, BodyBound
    <3>3. Published(KeyOf[t])
      BY <3>1, <3>2, <2>0 DEF KeyShared, InflightShared
    <3>4. turn[t].of = turn[u].of
      BY <3>1, <3>3, <2>0, <2>2, PublishedRecords DEF KeyShared, RecordShared
    <3>5. x \in Turns \X MaskValues /\ y \in Turns \X MaskValues
      BY DEF SessionInv, SessionTypeOK, TurnStates, Placeholders
    <3> QED BY <3>2, <3>4, <3>5, <2>2
  <2>3. TurnsAgree
    BY <2>2 DEF TurnsAgree
  <2> QED BY <2>1, <2>3 DEF SessionsSound
<1> QED BY <1>1, SessionStarts, SessionStep, PTL DEF SessionSpec

-----------------------------------------------------------------------------
(* The table of requests (RequestRegistry) for any requests, consoles and limits: a stage of *)
(* a request goes with a status, what is done waits in the trimmed queue, and the ring is    *)
(* the end of the list of failures, counted back from its next slot.                         *)

RecStates ==
  [st : Statuses \cup {"none"}, stage : {"new", "live", "finishing", "done"}, round : Nat,
   sending : BOOLEAN, masked : BOOLEAN, body : {"none", "full", "preview"},
   error : FailureKinds \cup {"none"}]
ItemStates == [id : Ids, st : Statuses \cup {"none"}, round : Nat, masked : BOOLEAN]
WatcherStates == [open : BOOLEAN, pending : Nat, sent : [Ids -> ItemStates \cup {<<>>}]]
Summary == [id : Ids, class : {ClassifyError(e) : e \in FailureKinds \cup {"none"}}]

RegistryTypeOK ==
  /\ entries \in SUBSET Ids
  /\ rec \in [Ids -> RecStates]
  /\ finished \in Seq(Ids)
  /\ watchers \in [Consoles -> WatcherStates]
  /\ addresses \in Seq(Addresses)

\* The stage of a request, its status and its bodies go together, and what is done and still
\* in the table waits in the queue that trims it.
StageInv ==
  \A id \in Ids :
    /\ rec[id].stage = "live" => rec[id].st \in {"running", "committed"}
    /\ rec[id].stage \in {"finishing", "done"} => rec[id].st \in Finals
    /\ rec[id].stage = "done" => rec[id].body = "preview"
    /\ id \in entries => rec[id].stage # "new"
    /\ id \in entries /\ rec[id].stage = "done" => id \in Range(finished)

Bounded ==
  /\ Len(finished) <= MaxFinished
  /\ IsInjective(addresses) /\ Len(addresses) <= MaxClientIPs

\* The ring holds the last failures, counted back from the next slot.
RingInv ==
  /\ ring.next \in 0..(MaxFailureRecords - 1) /\ DOMAIN ring.slot = 0..(MaxFailureRecords - 1)
  /\ failures \in Seq(Summary)
  /\ ring.count = IF Len(failures) < MaxFailureRecords THEN Len(failures) ELSE MaxFailureRecords
  /\ \A i \in 1..ring.count :
       ring.slot[IF i <= ring.next THEN ring.next - i ELSE ring.next - i + MaxFailureRecords]
         = failures[Len(failures) - i + 1]

RegistryInv == RegistryTypeOK /\ StageInv /\ Bounded /\ ConsoleCurrent /\ RingInv

\* Publication: what a console that stays connected then shows of the request.
LEMMA PublishFacts ==
  ASSUME RegistryTypeOK, NEW id \in Ids, NEW r \in RecStates, Publish(id, r)
  PROVE  /\ rec' \in [Ids -> RecStates] /\ watchers' \in [Consoles -> WatcherStates]
         /\ rec'[id] = r /\ \A j \in Ids : j # id => rec'[j] = rec[j]
         /\ \A c \in Consoles : watchers'[c].open =>
              /\ watchers[c].open
              /\ watchers'[c].sent[id] = [id |-> id, st |-> r.st, round |-> r.round, masked |-> r.masked]
              /\ \A j \in Ids : j # id => watchers'[c].sent[j] = watchers[c].sent[j]
<1> DEFINE item == [id |-> id, st |-> r.st, round |-> r.round, masked |-> r.masked]
<1>1. rec' = [rec EXCEPT ![id] = r] /\ publishRequestLocked(item)
  BY DEF Publish
<1>2. rec' \in [Ids -> RecStates] /\ rec'[id] = r /\ \A j \in Ids : j # id => rec'[j] = rec[j]
  BY <1>1 DEF RegistryTypeOK
<1>3. item \in ItemStates /\ item.id = id
  BY DEF ItemStates, RecStates
<1> HIDE DEF item
<1>4. ASSUME NEW c \in Consoles
      PROVE  /\ watchers'[c] \in WatcherStates
             /\ watchers'[c].open =>
                  /\ watchers[c].open
                  /\ watchers'[c].sent[id] = item
                  /\ \A j \in Ids : j # id => watchers'[c].sent[j] = watchers[c].sent[j]
  <2> DEFINE w == watchers[c]
  <2>1. w \in WatcherStates
    BY DEF RegistryTypeOK
  <2>2. watchers'[c] = CASE ~w.open -> w
          [] w.open /\ w.pending < StreamBuffer -> [w EXCEPT !.pending = @ + 1, !.sent[item.id] = item]
          [] OTHER -> [Disconnected EXCEPT !.pending = w.pending]
    BY <1>1 DEF publishRequestLocked
  <2> HIDE DEF w
  <2>3. CASE ~w.open
    BY <2>1, <2>2, <2>3
  <2>4. CASE w.open /\ w.pending < StreamBuffer
    <3>1. watchers'[c] = [w EXCEPT !.pending = @ + 1, !.sent[item.id] = item]
      BY <2>2, <2>4
    <3> DEFINE q == w.sent
    <3>2. q \in [Ids -> ItemStates \cup {<<>>}] /\ w.pending \in Nat
      BY <2>1 DEF WatcherStates
    <3>3. watchers'[c] = [open |-> w.open, pending |-> w.pending + 1, sent |-> [q EXCEPT ![id] = item]]
      BY <2>1, <3>1, <1>3 DEF WatcherStates
    <3> HIDE DEF q
    <3>4. [q EXCEPT ![id] = item] \in [Ids -> ItemStates \cup {<<>>}]
      BY <3>2, <1>3
    <3> QED BY <3>2, <3>3, <3>4, <2>1, <2>4 DEF WatcherStates, q, w
  <2>5. CASE w.open /\ ~(w.pending < StreamBuffer)
    <3>1. watchers'[c] = [Disconnected EXCEPT !.pending = w.pending]
      BY <2>2, <2>5
    <3> QED BY <3>1, <2>1 DEF Disconnected, WatcherStates
  <2> QED BY <2>1, <2>3, <2>4, <2>5 DEF WatcherStates
<1>5. watchers' = [c \in Consoles |-> watchers'[c]]
  BY <1>1 DEF publishRequestLocked
<1>6. watchers' \in [Consoles -> WatcherStates]
  BY <1>4, <1>5
<1> QED BY <1>2, <1>4, <1>6 DEF item

\* A publication keeps the consoles current.
LEMMA PublishShows ==
  ASSUME RegistryTypeOK, ConsoleCurrent, NEW id \in Ids, NEW r \in RecStates, Publish(id, r),
         entries' \subseteq entries \cup {id}
  PROVE  ConsoleCurrent'
<1> SUFFICES ASSUME NEW c \in Consoles, watchers'[c].open, NEW j \in entries', j \in Ids
             PROVE  LET seen == watchers'[c].sent[j]
                    IN \/ seen = Item(j)'
                       \/ rec'[j].stage = "finishing" /\ seen = [Item(j)' EXCEPT !.st = seen.st]
                                                      /\ seen.st \in {"running", "committed"}
  BY DEF ConsoleCurrent, RegistryTypeOK
<1>1. /\ rec'[id] = r /\ \A i \in Ids : i # id => rec'[i] = rec[i]
      /\ watchers[c].open
      /\ watchers'[c].sent[id] = [id |-> id, st |-> r.st, round |-> r.round, masked |-> r.masked]
      /\ \A i \in Ids : i # id => watchers'[c].sent[i] = watchers[c].sent[i]
  BY PublishFacts
<1>2. CASE j = id
  BY <1>1, <1>2 DEF Item
<1>3. CASE j # id
  <2>1. watchers'[c].sent[j] = watchers[c].sent[j] /\ Item(j)' = Item(j) /\ rec'[j] = rec[j] /\ j \in entries
    BY <1>1, <1>3 DEF Item
  <2> QED BY <2>1, <1>1 DEF ConsoleCurrent
<1> QED BY <1>2, <1>3

\* A step that publishes a change of one request in flight and touches nothing else.
LEMMA ChangeKeeps ==
  ASSUME RegistryInv, NEW id \in Ids, NEW r \in RecStates, Publish(id, r),
         rec[id].stage = "live", r.stage = "live", r.st \in {"running", "committed"},
         UNCHANGED <<entries, finished, ring, addresses, failures>>
  PROVE  RegistryInv'
<1>0. RegistryTypeOK /\ StageInv /\ Bounded /\ ConsoleCurrent /\ RingInv
  BY DEF RegistryInv
<1>1. /\ rec' \in [Ids -> RecStates] /\ watchers' \in [Consoles -> WatcherStates]
      /\ rec'[id] = r /\ \A j \in Ids : j # id => rec'[j] = rec[j]
  BY <1>0, PublishFacts
<1>2. RegistryTypeOK'
  BY <1>0, <1>1 DEF RegistryTypeOK
<1>3. StageInv'
  BY <1>0, <1>1 DEF StageInv
<1>4. Bounded' /\ RingInv'
  BY <1>0 DEF Bounded, RingInv
<1>5. ConsoleCurrent'
  BY <1>0, PublishShows
<1> QED BY <1>2, <1>3, <1>4, <1>5 DEF RegistryInv

LEMMA LiveStepsKeep ==
  ASSUME RegistryInv, NEW id \in Ids,
         \/ applyMaskResult(id) \/ startRound(id) \/ finishRound(id)
         \/ setRelayMode(id) \/ noteOutputChars(id) \/ markCommitted(id)
  PROVE  RegistryInv'
<1>0. rec[id] \in RecStates /\ (rec[id].stage = "live" => rec[id].st \in {"running", "committed"})
  BY DEF RegistryInv, RegistryTypeOK, StageInv
<1>1. CASE applyMaskResult(id)
  <2> DEFINE r == [rec[id] EXCEPT !.masked = TRUE]
  <2>1. r \in RecStates /\ r.stage = rec[id].stage /\ r.st = rec[id].st
    BY <1>0 DEF RecStates
  <2>2. Publish(id, r) /\ rec[id].stage = "live" /\ UNCHANGED <<entries, finished, ring, addresses, failures>>
    BY <1>1 DEF applyMaskResult
  <2> HIDE DEF r
  <2> QED BY <2>1, <2>2, <1>0, ChangeKeeps
<1>2. CASE startRound(id)
  <2> DEFINE r == [rec[id] EXCEPT !.round = @ + 1, !.sending = TRUE]
  <2>1. r \in RecStates /\ r.stage = rec[id].stage /\ r.st = rec[id].st
    <3> DEFINE old == rec[id]
               n == old.round + 1
    <3>1. old \in RecStates /\ n \in Nat
      BY <1>0 DEF RecStates
    <3>2. r = [old EXCEPT !.round = n, !.sending = TRUE]
      OBVIOUS
    <3> HIDE DEF n, old
    <3>3. /\ [old EXCEPT !.round = n, !.sending = TRUE] \in RecStates
          /\ [old EXCEPT !.round = n, !.sending = TRUE].stage = old.stage
          /\ [old EXCEPT !.round = n, !.sending = TRUE].st = old.st
      BY <3>1 DEF RecStates
    <3> HIDE DEF r
    <3>4. r \in RecStates /\ r.stage = old.stage /\ r.st = old.st
      BY <3>2, <3>3
    <3> QED BY <3>4 DEF old
  <2>2. Publish(id, r) /\ rec[id].stage = "live" /\ UNCHANGED <<entries, finished, ring, addresses, failures>>
    BY <1>2 DEF startRound
  <2> HIDE DEF r
  <2> QED BY <2>1, <2>2, <1>0, ChangeKeeps
<1>3. CASE finishRound(id)
  <2> DEFINE r == [rec[id] EXCEPT !.sending = FALSE]
  <2>1. r \in RecStates /\ r.stage = rec[id].stage /\ r.st = rec[id].st
    BY <1>0 DEF RecStates
  <2>2. Publish(id, r) /\ rec[id].stage = "live" /\ UNCHANGED <<entries, finished, ring, addresses, failures>>
    BY <1>3 DEF finishRound
  <2> HIDE DEF r
  <2> QED BY <2>1, <2>2, <1>0, ChangeKeeps
<1>4. CASE setRelayMode(id) \/ noteOutputChars(id)
  BY <1>0, <1>4, ChangeKeeps DEF setRelayMode, noteOutputChars
<1>5. CASE markCommitted(id)
  <2> DEFINE r == [rec[id] EXCEPT !.st = "committed"]
  <2>1. r \in RecStates /\ r.stage = rec[id].stage /\ r.st = "committed"
    BY <1>0 DEF RecStates, Statuses
  <2>2. Publish(id, r) /\ rec[id].stage = "live" /\ UNCHANGED <<entries, finished, ring, addresses, failures>>
    BY <1>5 DEF markCommitted
  <2> HIDE DEF r
  <2> QED BY <2>1, <2>2, <1>0, ChangeKeeps
<1> QED BY <1>1, <1>2, <1>3, <1>4, <1>5

\* The first phase of the end: nobody is told yet.
LEMMA MarkKeeps ==
  ASSUME RegistryInv, NEW id \in Ids, NEW outcome \in Finals, NEW e \in FailureKinds \cup {"none"},
         mark(id, outcome, e)
  PROVE  RegistryInv'
<1>0. RegistryTypeOK /\ StageInv /\ Bounded /\ ConsoleCurrent /\ RingInv
  BY DEF RegistryInv
<1>1. /\ rec[id] \in RecStates /\ rec[id].stage = "live" /\ rec[id].st \in {"running", "committed"}
      /\ rec' = [rec EXCEPT ![id].st = outcome, ![id].sending = FALSE, ![id].stage = "finishing",
                            ![id].error = e]
      /\ UNCHANGED <<entries, finished, ring, watchers, addresses, failures>>
  BY <1>0 DEF mark, RegistryTypeOK
<1>2. /\ rec'[id] = [rec[id] EXCEPT !.st = outcome, !.sending = FALSE, !.stage = "finishing", !.error = e]
      /\ rec' = [rec EXCEPT ![id] = rec'[id]]
      /\ \A j \in Ids : j # id => rec'[j] = rec[j]
  BY <1>0, <1>1 DEF RegistryTypeOK
<1>3. /\ rec'[id] \in RecStates /\ rec'[id].stage = "finishing" /\ rec'[id].st = outcome
      /\ rec'[id].round = rec[id].round /\ rec'[id].masked = rec[id].masked
  <2>1. outcome \in Statuses \cup {"none"}
    BY DEF Statuses
  <2> DEFINE old == rec[id]
  <2>2. old \in RecStates
    BY <1>1
  <2>3. rec'[id] = [old EXCEPT !.st = outcome, !.sending = FALSE, !.stage = "finishing", !.error = e]
    BY <1>2
  <2> HIDE DEF old
  <2>4. /\ rec'[id] \in RecStates /\ rec'[id].stage = "finishing" /\ rec'[id].st = outcome
        /\ rec'[id].round = old.round /\ rec'[id].masked = old.masked
    BY <2>1, <2>2, <2>3 DEF RecStates
  <2> QED BY <2>4 DEF old
<1>4. RegistryTypeOK'
  <2>1. rec' \in [Ids -> RecStates]
    BY <1>0, <1>2, <1>3 DEF RegistryTypeOK
  <2> QED BY <2>1, <1>0, <1>1 DEF RegistryTypeOK
<1>5. StageInv'
  <2> SUFFICES ASSUME NEW j \in Ids
               PROVE  /\ rec'[j].stage = "live" => rec'[j].st \in {"running", "committed"}
                      /\ rec'[j].stage \in {"finishing", "done"} => rec'[j].st \in Finals
                      /\ rec'[j].stage = "done" => rec'[j].body = "preview"
                      /\ j \in entries => rec'[j].stage # "new"
                      /\ j \in entries /\ rec'[j].stage = "done" => j \in Range(finished)
    BY <1>1 DEF StageInv
  <2>1. CASE j = id
    BY <2>1, <1>3
  <2>2. CASE j # id
    BY <2>2, <1>0, <1>2 DEF StageInv
  <2> QED BY <2>1, <2>2
<1>6. Bounded' /\ RingInv'
  BY <1>0, <1>1 DEF Bounded, RingInv
<1>7. ConsoleCurrent'
  <2> SUFFICES ASSUME NEW c \in Consoles, watchers[c].open, NEW j \in entries, j \in Ids
               PROVE  LET seen == watchers[c].sent[j]
                      IN \/ seen = Item(j)'
                         \/ rec'[j].stage = "finishing" /\ seen = [Item(j)' EXCEPT !.st = seen.st]
                                                        /\ seen.st \in {"running", "committed"}
    BY <1>0, <1>1 DEF ConsoleCurrent, RegistryTypeOK
  <2>1. CASE j # id
    <3>1. Item(j)' = Item(j) /\ rec'[j] = rec[j]
      BY <2>1, <1>2 DEF Item
    <3> QED BY <3>1, <1>0 DEF ConsoleCurrent
  <2>2. CASE j = id
    <3>1. watchers[c].sent[id] = Item(id)
      BY <2>2, <1>0, <1>1 DEF ConsoleCurrent
    <3>2. Item(id)' = [id |-> id, st |-> outcome, round |-> rec[id].round, masked |-> rec[id].masked]
      BY <1>3 DEF Item
    <3>3. Item(id) = [id |-> id, st |-> rec[id].st, round |-> rec[id].round, masked |-> rec[id].masked]
      BY DEF Item
    <3>4. Item(id) = [Item(id)' EXCEPT !.st = rec[id].st] /\ Item(id).st = rec[id].st
      BY <3>2, <3>3
    <3> QED BY <2>2, <3>1, <3>4, <1>1, <1>3
  <2> QED BY <2>1, <2>2
<1> QED BY <1>4, <1>5, <1>6, <1>7 DEF RegistryInv

\* A turn of the ring.
LEMMA Modulus ==
  ASSUME NEW m \in Nat \ {0}, NEW x \in Nat
  PROVE  /\ x < m => x % m = x
         /\ m <= x /\ x < 2 * m => x % m = x - m
<1>1. ASSUME x < m PROVE x % m = x
  BY <1>1
<1>2. ASSUME m <= x, x < 2 * m PROVE x % m = x - m
  BY <1>2
<1> QED BY <1>1, <1>2

LEMMA ElementsAppend ==
  ASSUME NEW S, NEW s \in Seq(S), NEW x \in S
  PROVE  /\ Append(s, x) \in Seq(S) /\ Len(Append(s, x)) = Len(s) + 1
         /\ Range(Append(s, x)) = Range(s) \cup {x}
<1>1. /\ Append(s, x) \in Seq(S) /\ Len(Append(s, x)) = Len(s) + 1
      /\ DOMAIN Append(s, x) = DOMAIN s \cup {Len(s) + 1}
      /\ \A i \in DOMAIN s : Append(s, x)[i] = s[i]
      /\ Append(s, x)[Len(s) + 1] = x
  OBVIOUS
<1> QED BY <1>1 DEF Range

\* What the front of a sequence loses is found in its other part.
LEMMA ElementsSplit ==
  ASSUME NEW S, NEW s \in Seq(S), NEW n \in 0..Len(s)
  PROVE  /\ SubSeq(s, n + 1, Len(s)) \in Seq(S) /\ Len(SubSeq(s, n + 1, Len(s))) = Len(s) - n
         /\ \A i \in 1..(Len(s) - n) : SubSeq(s, n + 1, Len(s))[i] = s[n + i]
         /\ \A x \in Range(s) : x \in Range(SubSeq(s, 1, n)) \/ x \in Range(SubSeq(s, n + 1, Len(s)))
<1> DEFINE a == SubSeq(s, 1, n)
           b == SubSeq(s, n + 1, Len(s))
<1>1. /\ Len(a) = n /\ DOMAIN a = 1..n
      /\ \A i \in 1..n : a[i] = s[i]
  OBVIOUS
<1>2. b \in Seq(S) /\ Len(b) = Len(s) - n /\ DOMAIN b = 1..(Len(s) - n)
  OBVIOUS
<1>3. \A i \in 1..(Len(s) - n) : b[i] = s[n + i]
  OBVIOUS
<1> HIDE DEF a, b
<1>4. ASSUME NEW i \in DOMAIN s PROVE s[i] \in Range(a) \/ s[i] \in Range(b)
  <2>1. CASE i <= n
    <3>1. i \in 1..n
      BY <2>1
    <3> QED BY <3>1, <1>1 DEF Range
  <2>2. CASE ~(i <= n)
    <3>1. i - n \in 1..(Len(s) - n) /\ n + (i - n) = i
      BY <2>2
    <3>2. b[i - n] = s[n + (i - n)]
      BY <3>1, <1>3
    <3> QED BY <3>1, <3>2, <1>2 DEF Range
  <2> QED BY <2>1, <2>2
<1>5. \A x \in Range(s) : x \in Range(a) \/ x \in Range(b)
  BY <1>4 DEF Range
<1> QED BY <1>2, <1>3, <1>5 DEF a, b

\* A visit keeps the addresses distinct and within their limit.
LEMMA AddressesBounded ==
  ASSUME addresses \in Seq(Addresses), IsInjective(addresses), Len(addresses) <= MaxClientIPs,
         NEW a \in Addresses, trackClientRequest(a)
  PROVE  addresses' \in Seq(Addresses) /\ IsInjective(addresses)' /\ Len(addresses') <= MaxClientIPs
<1>1. ASSUME NEW kept \in Seq(Addresses), addresses' = Append(kept, a), IsInjective(kept),
             a \notin Range(kept), Len(kept) < MaxClientIPs
      PROVE  addresses' \in Seq(Addresses) /\ IsInjective(addresses)' /\ Len(addresses') <= MaxClientIPs
  <2>1. /\ addresses' \in Seq(Addresses) /\ Len(addresses') = Len(kept) + 1
        /\ \A i \in 1..Len(kept) : addresses'[i] = kept[i]
        /\ addresses'[Len(kept) + 1] = a
    BY <1>1
  <2>2. Len(addresses') <= MaxClientIPs
    BY <2>1, <1>1, RegistryAssumption
  <2>3. \A i \in 1..Len(kept) : kept[i] # a
    BY <1>1 DEF Range
  <2>4. ASSUME NEW i \in DOMAIN addresses', NEW j \in DOMAIN addresses', addresses'[i] = addresses'[j]
        PROVE  i = j
    <3>1. /\ i \in 1..Len(kept) \/ i = Len(kept) + 1
          /\ j \in 1..Len(kept) \/ j = Len(kept) + 1
      BY <2>1
    <3> QED BY <3>1, <2>1, <2>3, <2>4, <1>1 DEF IsInjective
  <2> QED BY <2>1, <2>2, <2>4 DEF IsInjective
<1> DEFINE at == CHOOSE i \in DOMAIN addresses : addresses[i] = a
           full == a \notin Range(addresses) /\ Len(addresses) >= MaxClientIPs
<1>2. CASE a \in Range(addresses)
  <2>1. at \in DOMAIN addresses /\ addresses[at] = a
    BY <1>2 DEF Range
  <2> HIDE DEF at
  <2> DEFINE kept == RemoveAt(addresses, at)
  <2>2. addresses' = Append(kept, a)
    BY <1>2 DEF trackClientRequest, at
  <2>3. at \in 1..Len(addresses)
    BY <2>1
  <2>4. /\ kept \in Seq(Addresses) /\ Len(kept) = Len(addresses) - 1
        /\ \A i \in 1..(at - 1) : kept[i] = addresses[i]
        /\ \A i \in at..(Len(addresses) - 1) : kept[i] = addresses[i + 1]
    BY <2>3, RemoveAtFacts, Zenon
  <2> HIDE DEF kept
  <2>5. ASSUME NEW i \in DOMAIN kept
        PROVE  \/ i < at /\ i \in DOMAIN addresses /\ kept[i] = addresses[i]
               \/ i >= at /\ i + 1 \in DOMAIN addresses /\ kept[i] = addresses[i + 1]
    <3>1. i \in 1..(at - 1) \/ i \in at..(Len(addresses) - 1)
      BY <2>3, <2>4
    <3> QED BY <3>1, <2>3, <2>4
  <2>6. IsInjective(kept)
    <3> SUFFICES ASSUME NEW i \in DOMAIN kept, NEW j \in DOMAIN kept, kept[i] = kept[j]
                 PROVE  i = j
      BY DEF IsInjective
    <3>1. i \in Nat /\ j \in Nat /\ at \in Nat
      BY <2>3, <2>4
    <3>2. CASE i < at /\ j < at
      BY <3>1, <3>2, <2>5 DEF IsInjective
    <3>3. CASE i < at /\ j >= at
      <4>1. i = j + 1
        BY <3>1, <3>3, <2>5 DEF IsInjective
      <4> QED BY <4>1, <3>1, <3>3
    <3>4. CASE i >= at /\ j < at
      <4>1. i + 1 = j
        BY <3>1, <3>4, <2>5 DEF IsInjective
      <4> QED BY <4>1, <3>1, <3>4
    <3>5. CASE i >= at /\ j >= at
      <4>1. i + 1 = j + 1
        BY <3>1, <3>5, <2>5 DEF IsInjective
      <4> QED BY <4>1, <3>1
    <3> QED BY <3>1, <3>2, <3>3, <3>4, <3>5
  <2>7. a \notin Range(kept)
    <3> SUFFICES ASSUME NEW i \in DOMAIN kept, kept[i] = a PROVE FALSE
      BY DEF Range
    <3>1. i \in Nat /\ at \in Nat
      BY <2>3, <2>4
    <3>2. i = at \/ i + 1 = at
      BY <2>1, <2>5 DEF IsInjective
    <3>3. i < at => i = at
      BY <2>1, <2>5, <3>1 DEF IsInjective
    <3>4. i >= at => i + 1 = at
      BY <2>1, <2>5, <3>1 DEF IsInjective
    <3> QED BY <3>1, <3>3, <3>4
  <2>8. Len(kept) < MaxClientIPs
    BY <2>4, RegistryAssumption
  <2> QED BY <2>2, <2>4, <2>6, <2>7, <2>8, <1>1
<1>3. CASE full
  <2> DEFINE n == Len(addresses) \div 2
             kept == SubSeq(addresses, n + 1, Len(addresses))
  <2>1. addresses' = Append(kept, a)
    BY <1>3 DEF trackClientRequest
  <2>2. n \in 0..Len(addresses) /\ n > 0
    BY <1>3, RegistryAssumption
  <2> HIDE DEF n
  <2>3. /\ kept \in Seq(Addresses) /\ Len(kept) = Len(addresses) - n
        /\ \A i \in 1..(Len(addresses) - n) : kept[i] = addresses[n + i]
    BY <2>2, ElementsSplit
  <2> HIDE DEF kept
  <2>4. ASSUME NEW i \in DOMAIN kept PROVE n + i \in DOMAIN addresses /\ kept[i] = addresses[n + i] /\ i \in Nat
    BY <2>2, <2>3
  <2>5. IsInjective(kept)
    <3> SUFFICES ASSUME NEW i \in DOMAIN kept, NEW j \in DOMAIN kept, kept[i] = kept[j]
                 PROVE  i = j
      BY DEF IsInjective
    <3>1. n + i = n + j
      BY <2>4 DEF IsInjective
    <3> QED BY <3>1, <2>2, <2>4
  <2>6. a \notin Range(kept)
    BY <2>4, <1>3 DEF Range
  <2>7. Len(kept) < MaxClientIPs
    BY <2>2, <2>3, RegistryAssumption
  <2> QED BY <2>1, <2>3, <2>5, <2>6, <2>7, <1>1
<1>4. CASE a \notin Range(addresses) /\ ~full
  <2>1. addresses' = Append(addresses, a)
    BY <1>4 DEF trackClientRequest
  <2>2. Len(addresses) < MaxClientIPs
    BY <1>4, RegistryAssumption
  <2> QED BY <2>1, <2>2, <1>4, <1>1
<1> QED BY <1>2, <1>3, <1>4

LEMMA NewRequestKeeps ==
  ASSUME RegistryInv, NEW id \in Ids, NEW a \in Addresses, newRequestState(id, a)
  PROVE  RegistryInv'
<1>0. RegistryTypeOK /\ StageInv /\ Bounded /\ ConsoleCurrent /\ RingInv
  BY DEF RegistryInv
<1> DEFINE r == [rec[id] EXCEPT !.st = "running", !.stage = "live", !.body = "full"]
<1>1. r \in RecStates /\ r.st = "running" /\ r.stage = "live"
  <2>1. rec[id] \in RecStates
    BY <1>0 DEF RegistryTypeOK
  <2> QED BY <2>1 DEF RecStates, Statuses
<1>2. /\ rec[id].stage = "new" /\ Publish(id, r) /\ entries' = entries \cup {id}
      /\ trackClientRequest(a) /\ UNCHANGED <<finished, ring, failures>>
  BY DEF newRequestState
<1> HIDE DEF r
<1>3. /\ rec' \in [Ids -> RecStates] /\ watchers' \in [Consoles -> WatcherStates]
      /\ rec'[id] = r /\ \A j \in Ids : j # id => rec'[j] = rec[j]
  BY <1>0, <1>1, <1>2, PublishFacts
<1>4. addresses' \in Seq(Addresses) /\ IsInjective(addresses)' /\ Len(addresses') <= MaxClientIPs
  BY <1>0, <1>2, AddressesBounded DEF RegistryTypeOK, Bounded
<1>5. RegistryTypeOK'
  BY <1>0, <1>2, <1>3, <1>4 DEF RegistryTypeOK
<1>6. StageInv'
  BY <1>0, <1>1, <1>2, <1>3 DEF StageInv
<1>7. Bounded' /\ RingInv'
  BY <1>0, <1>2, <1>4 DEF Bounded, RingInv
<1>8. ConsoleCurrent'
  BY <1>0, <1>1, <1>2, PublishShows
<1> QED BY <1>5, <1>6, <1>7, <1>8 DEF RegistryInv

\* One more failure, which the ring may have to make room for.
LEMMA RingAppends ==
  ASSUME RingInv, NEW s \in Summary, appendFailureLocked(s), failures' = Append(failures, s)
  PROVE  RingInv'
<1> DEFINE M == MaxFailureRecords
           n == Len(failures)
           at(i) == IF i <= ring.next THEN ring.next - i ELSE ring.next - i + M
<1>1. /\ M \in Nat \ {0} /\ n \in Nat
      /\ ring.next \in 0..(M - 1) /\ DOMAIN ring.slot = 0..(M - 1) /\ failures \in Seq(Summary)
      /\ ring.count = IF n < M THEN n ELSE M
      /\ \A i \in 1..ring.count : ring.slot[at(i)] = failures[n - i + 1]
  <2>1. M \in Nat \ {0}
    BY RegistryAssumption
  <2>2. /\ ring.next \in 0..(M - 1) /\ DOMAIN ring.slot = 0..(M - 1) /\ failures \in Seq(Summary)
        /\ ring.count = IF n < M THEN n ELSE M
    BY DEF RingInv
  <2>3. \A i \in 1..ring.count : ring.slot[at(i)] = failures[n - i + 1]
    BY DEF RingInv
  <2>4. n \in Nat
    BY <2>2
  <2> QED BY <2>1, <2>2, <2>3, <2>4
<1>2. /\ ring'.slot = [ring.slot EXCEPT ![ring.next] = s]
      /\ ring'.next = (ring.next + 1) % M
      /\ ring'.count = IF ring.count < M THEN ring.count + 1 ELSE ring.count
  BY DEF appendFailureLocked
<1>3. ring'.next = IF ring.next + 1 = M THEN 0 ELSE ring.next + 1
  BY <1>1, <1>2, Modulus
<1>4. /\ failures' \in Seq(Summary) /\ Len(failures') = n + 1
      /\ \A i \in 1..n : failures'[i] = failures[i]
      /\ failures'[n + 1] = s
  BY <1>1
<1>5. ring'.count = IF n + 1 < M THEN n + 1 ELSE M
  BY <1>1, <1>2
<1>6. ring'.next \in 0..(M - 1) /\ DOMAIN ring'.slot = 0..(M - 1)
  BY <1>1, <1>2, <1>3
<1>7. ASSUME NEW i \in 1..ring'.count
      PROVE  ring'.slot[IF i <= ring'.next THEN ring'.next - i ELSE ring'.next - i + M]
               = failures'[Len(failures') - i + 1]
  <2> DEFINE x == IF i <= ring'.next THEN ring'.next - i ELSE ring'.next - i + M
  <2>1. i \in Nat /\ i >= 1 /\ i <= n + 1 /\ i <= M
    BY <1>1, <1>5
  <2>2. CASE i = 1
    <3>1. x = ring.next
      <4> DEFINE p == ring.next
                 q == ring'.next
      <4>1. p \in 0..(M - 1) /\ q = IF p + 1 = M THEN 0 ELSE p + 1
        BY <1>1, <1>3
      <4> HIDE DEF p, q, M
      <4>2. (IF 1 <= q THEN q - 1 ELSE q - 1 + M) = p
        BY <4>1, <1>1
      <4> QED BY <4>2, <2>2 DEF p, q
    <3>2. ring'.slot[x] = s
      BY <3>1, <1>1, <1>2
    <3>3. Len(failures') - i + 1 = n + 1
      BY <2>2, <1>1, <1>4
    <3> QED BY <3>2, <3>3, <1>4
  <2>3. CASE i # 1
    <3>1. x = at(i - 1) /\ x # ring.next /\ x \in 0..(M - 1)
      <4> DEFINE p == ring.next
                 q == ring'.next
                 y == IF i <= q THEN q - i ELSE q - i + M
      <4>1. p \in 0..(M - 1) /\ q = IF p + 1 = M THEN 0 ELSE p + 1
        BY <1>1, <1>3
      <4> HIDE DEF p, q, M
      <4>2. y = (IF i - 1 <= p THEN p - (i - 1) ELSE p - (i - 1) + M) /\ y # p /\ y \in 0..(M - 1)
        BY <4>1, <1>1, <2>1, <2>3
      <4> QED BY <4>2 DEF p, q
    <3>2. i - 1 \in 1..ring.count
      BY <2>1, <2>3, <1>1, <1>5
    <3>3. ring'.slot[x] = ring.slot[at(i - 1)]
      BY <3>1, <1>1, <1>2
    <3>4. ring.slot[at(i - 1)] = failures[n - (i - 1) + 1]
      BY <3>2, <1>1
    <3>5. Len(failures') - i + 1 = n - (i - 1) + 1 /\ n - (i - 1) + 1 \in 1..n
      BY <2>1, <2>3, <1>1, <1>4
    <3>6. failures'[n - (i - 1) + 1] = failures[n - (i - 1) + 1]
      BY <3>5, <1>4
    <3> QED BY <3>3, <3>4, <3>5, <3>6
  <2> QED BY <2>2, <2>3
<1> QED BY <1>4, <1>5, <1>6, <1>7 DEF RingInv

\* Trimming keeps the queue short, and what it drops leaves the table.
LEMMA TrimFacts ==
  ASSUME finished \in Seq(Ids), NEW id \in Ids, Len(finished) <= MaxFinished
  PROVE  /\ TrimFinished(id).queue \in Seq(Ids)
         /\ Len(TrimFinished(id).queue) <= MaxFinished
         /\ \A x \in Range(finished) \cup {id} :
              x \in Range(TrimFinished(id).queue) \/ x \in TrimFinished(id).gone
<1> DEFINE queue == Append(finished, id)
           excess == Len(queue) - MaxFinished
<1>1. /\ queue \in Seq(Ids) /\ Len(queue) = Len(finished) + 1
      /\ Range(queue) = Range(finished) \cup {id}
  BY ElementsAppend
<1>2. TrimFinished(id) =
        IF Len(queue) > MaxFinished
        THEN [queue |-> SubSeq(queue, excess + 1, Len(queue)), gone |-> Range(SubSeq(queue, 1, excess))]
        ELSE [queue |-> queue, gone |-> {}]
  BY DEF TrimFinished
<1> HIDE DEF queue
<1>3. CASE Len(queue) > MaxFinished
  <2>1. excess \in 0..Len(queue)
    BY <1>1, <1>3, RegistryAssumption
  <2> HIDE DEF excess
  <2>2. /\ SubSeq(queue, excess + 1, Len(queue)) \in Seq(Ids)
        /\ Len(SubSeq(queue, excess + 1, Len(queue))) = Len(queue) - excess
        /\ \A x \in Range(queue) : \/ x \in Range(SubSeq(queue, 1, excess))
                                   \/ x \in Range(SubSeq(queue, excess + 1, Len(queue)))
    BY <1>1, <2>1, ElementsSplit
  <2>3. Len(queue) - excess <= MaxFinished
    BY <1>1, RegistryAssumption DEF excess
  <2> QED BY <1>1, <1>2, <1>3, <2>2, <2>3
<1>4. CASE ~(Len(queue) > MaxFinished)
  BY <1>1, <1>2, <1>4, RegistryAssumption
<1> QED BY <1>3, <1>4

LEMMA FinishKeeps ==
  ASSUME RegistryInv, NEW id \in Ids, finish(id)
  PROVE  RegistryInv'
<1>0. RegistryTypeOK /\ StageInv /\ Bounded /\ ConsoleCurrent /\ RingInv
  BY DEF RegistryInv
<1> DEFINE r == [rec[id] EXCEPT !.stage = "done", !.body = "preview"]
           summary == [id |-> id, class |-> ClassifyError(rec[id].error)]
<1>1. /\ r \in RecStates /\ r.stage = "done" /\ r.body = "preview" /\ r.st = rec[id].st
      /\ rec[id].error \in FailureKinds \cup {"none"}
  <2>1. rec[id] \in RecStates
    BY <1>0 DEF RegistryTypeOK
  <2> QED BY <2>1 DEF RecStates
<1>2. /\ rec[id].stage = "finishing" /\ Publish(id, r)
      /\ \/ appendFailureLocked(summary) /\ failures' = Append(failures, summary)
         \/ ring' = ring /\ failures' = failures
      /\ finished' = TrimFinished(id).queue
      /\ entries' = entries \ TrimFinished(id).gone
      /\ addresses' = addresses
  BY DEF finish
<1>3. summary \in Summary
  BY <1>1 DEF Summary
<1> HIDE DEF r, summary
<1>4. /\ rec' \in [Ids -> RecStates] /\ watchers' \in [Consoles -> WatcherStates]
      /\ rec'[id] = r /\ \A j \in Ids : j # id => rec'[j] = rec[j]
  BY <1>0, <1>1, <1>2, PublishFacts
<1>5. /\ finished' \in Seq(Ids) /\ Len(finished') <= MaxFinished
      /\ \A x \in Range(finished) \cup {id} : x \in Range(finished') \/ x \in TrimFinished(id).gone
  BY <1>0, <1>2, TrimFacts DEF RegistryTypeOK, Bounded
<1>6. RegistryTypeOK'
  BY <1>0, <1>2, <1>4, <1>5 DEF RegistryTypeOK
<1>7. StageInv'
  BY <1>0, <1>1, <1>2, <1>4, <1>5 DEF StageInv
<1>8. Bounded'
  BY <1>0, <1>2, <1>5 DEF Bounded
<1>9. RingInv'
  <2>1. CASE ring' = ring /\ failures' = failures
    BY <2>1, <1>0 DEF RingInv
  <2> QED BY <2>1, <1>0, <1>2, <1>3, RingAppends
<1>10. ConsoleCurrent'
  BY <1>0, <1>1, <1>2, PublishShows
<1> QED BY <1>6, <1>7, <1>8, <1>9, <1>10 DEF RegistryInv

LEMMA ClearKeeps ==
  ASSUME RegistryInv, Clear
  PROVE  RegistryInv'
<1>0. RegistryTypeOK /\ StageInv /\ Bounded /\ ConsoleCurrent /\ RingInv
  BY DEF RegistryInv
<1>1. /\ entries' = {id \in entries : rec[id].st \in {"running", "committed"}}
      /\ ring' = [ring EXCEPT !.next = 0, !.count = 0]
      /\ finished' = <<>> /\ failures' = <<>>
      /\ UNCHANGED <<rec, watchers, addresses>>
  BY DEF Clear
<1>2. RegistryTypeOK'
  BY <1>0, <1>1 DEF RegistryTypeOK
<1>3. StageInv'
  BY <1>0, <1>1 DEF StageInv, Finals
<1>4. Bounded'
  BY <1>0, <1>1, RegistryAssumption DEF Bounded
<1>5. RingInv'
  BY <1>0, <1>1, RegistryAssumption DEF RingInv
<1>6. ConsoleCurrent'
  BY <1>0, <1>1 DEF ConsoleCurrent, Item
<1> QED BY <1>2, <1>3, <1>4, <1>5, <1>6 DEF RegistryInv

LEMMA OverviewKeeps ==
  ASSUME RegistryInv, NEW c \in Consoles, streamOverview(c)
  PROVE  RegistryInv'
<1>0. RegistryTypeOK /\ StageInv /\ Bounded /\ ConsoleCurrent /\ RingInv
  BY DEF RegistryInv
<1>1. UNCHANGED <<entries, rec, finished, ring, addresses, failures>>
  BY DEF streamOverview, OpenRequestStream, ReadStream, CloseRequestStream
<1>2. \A id \in Ids : Item(id)' = Item(id)
  BY <1>1 DEF Item
<1>3. /\ \A d \in Consoles : d # c => watchers'[d] = watchers[d]
      /\ watchers' = [watchers EXCEPT ![c] = watchers'[c]]
      /\ watchers'[c] \in WatcherStates
      /\ watchers'[c].open => \/ watchers[c].open /\ watchers'[c].sent = watchers[c].sent
                              \/ \A id \in entries : watchers'[c].sent[id] = Item(id)
  <2>1. watchers[c] \in WatcherStates
    BY <1>0 DEF RegistryTypeOK
  <2>2. CASE OpenRequestStream(c)
    <3> DEFINE w == [open |-> TRUE, pending |-> 0,
                     sent |-> [id \in Ids |-> IF id \in entries THEN Item(id) ELSE <<>>]]
    <3>1. watchers' = [watchers EXCEPT ![c] = w]
      BY <2>2 DEF OpenRequestStream
    <3>2. \A id \in Ids : Item(id) \in ItemStates
      BY <1>0 DEF RegistryTypeOK, RecStates, Item, ItemStates
    <3>3. w \in WatcherStates
      BY <3>2 DEF WatcherStates
    <3>4. \A id \in entries : w.sent[id] = Item(id)
      BY <1>0 DEF RegistryTypeOK
    <3> HIDE DEF w
    <3> QED BY <3>1, <3>3, <3>4, <1>0 DEF RegistryTypeOK
  <2>3. CASE ReadStream(c)
    <3> DEFINE w == [watchers[c] EXCEPT !.pending = @ - 1]
    <3>1. watchers' = [watchers EXCEPT ![c] = w] /\ watchers[c].pending > 0
      BY <2>3 DEF ReadStream
    <3>2. w \in WatcherStates /\ w.open = watchers[c].open /\ w.sent = watchers[c].sent
      <4> DEFINE old == watchers[c]
                 n == old.pending - 1
      <4>1. old \in WatcherStates /\ n \in Nat
        BY <2>1, <3>1 DEF WatcherStates
      <4>2. w = [old EXCEPT !.pending = n]
        OBVIOUS
      <4> HIDE DEF old, n, w
      <4>3. w \in WatcherStates /\ w.open = old.open /\ w.sent = old.sent
        BY <4>1, <4>2 DEF WatcherStates
      <4> QED BY <4>3 DEF old
    <3> HIDE DEF w
    <3> QED BY <3>1, <3>2, <1>0 DEF RegistryTypeOK
  <2>4. CASE CloseRequestStream(c)
    <3>1. watchers' = [watchers EXCEPT ![c] = Disconnected]
      BY <2>4 DEF CloseRequestStream
    <3>2. Disconnected \in WatcherStates /\ Disconnected.open = FALSE
      BY DEF Disconnected, WatcherStates
    <3> QED BY <3>1, <3>2, <1>0 DEF RegistryTypeOK
  <2> QED BY <2>2, <2>3, <2>4 DEF streamOverview
<1>4. RegistryTypeOK'
  BY <1>0, <1>1, <1>3 DEF RegistryTypeOK
<1>5. StageInv' /\ Bounded' /\ RingInv'
  BY <1>0, <1>1 DEF StageInv, Bounded, RingInv
<1>6. ConsoleCurrent'
  <2> SUFFICES ASSUME NEW d \in Consoles, watchers'[d].open, NEW j \in entries, j \in Ids
               PROVE  LET seen == watchers'[d].sent[j]
                      IN \/ seen = Item(j)
                         \/ rec[j].stage = "finishing" /\ seen = [Item(j) EXCEPT !.st = seen.st]
                                                       /\ seen.st \in {"running", "committed"}
    BY <1>0, <1>1, <1>2 DEF ConsoleCurrent, RegistryTypeOK
  <2> QED BY <1>0, <1>3 DEF ConsoleCurrent
<1> QED BY <1>4, <1>5, <1>6 DEF RegistryInv

LEMMA RegistryStarts == RegistryInit => RegistryInv
<1> SUFFICES ASSUME RegistryInit PROVE RegistryInv
  OBVIOUS
<1>1. RegistryTypeOK
  BY DEF RegistryInit, RegistryTypeOK, RecStates, WatcherStates, Disconnected
<1>2. StageInv /\ ConsoleCurrent
  BY DEF RegistryInit, StageInv, ConsoleCurrent
<1>3. Bounded
  BY RegistryAssumption DEF RegistryInit, Bounded, IsInjective
<1>4. RingInv
  BY RegistryAssumption DEF RegistryInit, RingInv, NoRing
<1> QED BY <1>1, <1>2, <1>3, <1>4 DEF RegistryInv

LEMMA RegistryStep == RegistryInv /\ [RegistryNext]_registryVars => RegistryInv'
<1> SUFFICES ASSUME RegistryInv, [RegistryNext]_registryVars PROVE RegistryInv'
  OBVIOUS
<1>1. CASE UNCHANGED registryVars
  BY <1>1 DEF registryVars, RegistryInv, RegistryTypeOK, StageInv, Bounded, RingInv,
     ConsoleCurrent, Item
<1>2. CASE Clear
  BY <1>2, ClearKeeps
<1>3. ASSUME NEW c \in Consoles, streamOverview(c) PROVE RegistryInv'
  BY <1>3, OverviewKeeps
<1>4. ASSUME NEW id \in Ids,
             \/ applyMaskResult(id) \/ startRound(id) \/ finishRound(id)
             \/ setRelayMode(id) \/ noteOutputChars(id) \/ markCommitted(id)
      PROVE  RegistryInv'
  BY <1>4, LiveStepsKeep
<1>5. ASSUME NEW id \in Ids, finish(id) PROVE RegistryInv'
  BY <1>5, FinishKeeps
<1>6. ASSUME NEW id \in Ids, NEW a \in Addresses, newRequestState(id, a) PROVE RegistryInv'
  BY <1>6, NewRequestKeeps
<1>7. ASSUME NEW id \in Ids, mark(id, "success", "none") \/ mark(id, "canceled", "none")
      PROVE  RegistryInv'
  BY <1>7, MarkKeeps DEF Finals
<1>8. ASSUME NEW id \in Ids, NEW e \in FailureKinds, mark(id, "failed", e) PROVE RegistryInv'
  BY <1>8, MarkKeeps DEF Finals
<1> QED BY <1>1, <1>2, <1>3, <1>4, <1>5, <1>6, <1>7, <1>8 DEF RegistryNext

\* A set listed by a sequence has no more elements than the sequence has places.
LEMMA ListedBound ==
  ASSUME NEW S, NEW s \in Seq(S), NEW T, T \subseteq Range(s)
  PROVE  Cardinality(T) \in Nat /\ Cardinality(T) <= Len(s)
<1>1. IsFiniteSet(1..Len(s)) /\ Cardinality(1..Len(s)) = Len(s)
  <2> DEFINE n == Len(s)
  <2>1. n \in Nat
    OBVIOUS
  <2> HIDE DEF n
  <2>2. IsFiniteSet(1..n) /\ Cardinality(1..n) = IF 1 > n THEN 0 ELSE n - 1 + 1
    BY <2>1, FS_Interval
  <2>3. IsFiniteSet(1..n) /\ Cardinality(1..n) = n
    BY <2>1, <2>2
  <2> QED BY <2>3 DEF n
<1>2. s \in Surjection(1..Len(s), Range(s))
  BY DEF Surjection, Range
<1>3. IsFiniteSet(Range(s)) /\ Cardinality(Range(s)) <= Len(s)
  BY <1>1, <1>2, FS_Surjection
<1>4. IsFiniteSet(T) /\ Cardinality(T) <= Cardinality(Range(s)) /\ Cardinality(T) \in Nat
      /\ Cardinality(Range(s)) \in Nat
  BY <1>3, FS_Subset, FS_CardinalityType
<1> QED BY <1>3, <1>4

\* What the log page relies on (relay/state.go), for any requests, consoles and limits: bounded
\* memory, consoles that miss nothing, and a failure page that never shows a stale slot.
THEOREM RegistryHolds == RegistrySpec => []RegistrySound
<1>1. RegistryInv => RegistrySound
  <2> SUFFICES ASSUME RegistryInv PROVE RegistrySound
    OBVIOUS
  <2>0. RegistryTypeOK /\ StageInv /\ Bounded /\ ConsoleCurrent /\ RingInv
    BY DEF RegistryInv
  <2>1. HistoryBounded
    <3>1. \A id \in entries : rec[id].st \in Finals => rec[id].stage = "finishing" \/ id \in Range(finished)
      BY <2>0 DEF RegistryTypeOK, RecStates, StageInv, Finals
    <3>2. {id \in entries : rec[id].stage = "done"} \subseteq Range(finished)
      BY <2>0 DEF RegistryTypeOK, StageInv
    <3> DEFINE D == {id \in entries : rec[id].stage = "done"}
    <3>3. finished \in Seq(Ids) /\ Len(finished) <= MaxFinished
      BY <2>0 DEF RegistryTypeOK, Bounded
    <3> HIDE DEF D
    <3>4. Cardinality(D) \in Nat /\ Cardinality(D) <= Len(finished)
      BY <3>2, <3>3, ListedBound DEF D
    <3>5. Cardinality(D) <= MaxFinished
      BY <3>3, <3>4, RegistryAssumption
    <3> QED BY <2>0, <3>1, <3>5 DEF HistoryBounded, StageInv, Bounded, D
  <2>2. FailuresRecent
    <3> DEFINE n == Len(failures)
               M == MaxFailureRecords
               lo == IF n > M THEN n - M + 1 ELSE 1
               recent == SubSeq(failures, lo, n)
    <3>1. M \in Nat \ {0} /\ n \in Nat /\ ring.next \in 0..(M - 1) /\ failures \in Seq(Summary)
          /\ ring.count = (IF n < M THEN n ELSE M)
      BY <2>0, RegistryAssumption DEF RingInv
    <3>5. lo \in 1..(n + 1) /\ ring.count = n - lo + 1
      <4> HIDE DEF n, M
      <4>1. CASE n > M
        <5>1. lo = n - M + 1 /\ ring.count = M
          BY <4>1, <3>1
        <5> QED BY <5>1, <4>1, <3>1
      <4>2. CASE ~(n > M)
        <5>1. lo = 1 /\ ring.count = n
          BY <4>2, <3>1
        <5> QED BY <5>1, <4>2, <3>1
      <4> QED BY <4>1, <4>2
    <3> HIDE DEF lo
    <3>2. /\ recent \in Seq(Summary) /\ Len(recent) = ring.count
          /\ \A i \in 1..ring.count : recent[i] = failures[lo + i - 1]
      BY <3>1, <3>5
    <3> HIDE DEF recent
    <3>3. ASSUME NEW i \in 1..ring.count
          PROVE  ring.slot[(ring.next - i + M) % M] = recent[(Len(recent) - i) + 1]
      <4>1. ring.slot[IF i <= ring.next THEN ring.next - i ELSE ring.next - i + M] = failures[n - i + 1]
        BY <2>0 DEF RingInv
      <4>2. i \in Nat /\ i >= 1 /\ i <= M /\ ring.next - i + M \in Nat
        BY <3>1
      <4>3. (ring.next - i + M) % M = IF i <= ring.next THEN ring.next - i ELSE ring.next - i + M
        <5>1. i <= ring.next => M <= ring.next - i + M /\ ring.next - i + M < 2 * M
                                /\ (ring.next - i + M) - M = ring.next - i
          BY <3>1, <4>2
        <5>2. ~(i <= ring.next) => ring.next - i + M < M
          BY <3>1, <4>2
        <5> QED BY <5>1, <5>2, <4>2, <3>1, Modulus
      <4>4. (Len(recent) - i) + 1 \in 1..ring.count /\ lo + ((Len(recent) - i) + 1) - 1 = n - i + 1
        <5> DEFINE k == Len(recent)
        <5>3. k = ring.count /\ n \in Nat
          BY <3>1, <3>2
        <5>4. lo \in Int /\ ring.count = n - lo + 1
          BY <3>5, <3>1
        <5>5. i <= ring.count
          BY <5>3, <5>4, <3>5, <3>1
        <5>1. k = n - lo + 1 /\ n \in Nat /\ lo \in Int /\ i <= k
          BY <5>3, <5>4, <5>5
        <5> HIDE DEF k, n
        <5>2. (k - i) + 1 \in 1..k /\ lo + ((k - i) + 1) - 1 = n - i + 1
          BY <5>1, <4>2
        <5> QED BY <5>2, <3>2 DEF k, n
      <4>5. recent[(Len(recent) - i) + 1] = failures[n - i + 1]
        BY <3>2, <4>4
      <4> QED BY <4>1, <4>3, <4>5
    <3>4. NewestSummaries = Reverse(recent)
      BY <3>2, <3>3 DEF NewestSummaries, Reverse
    <3> QED BY <3>4, <3>5 DEF FailuresRecent, FailureSummaries, recent, lo
  <2> QED BY <2>0, <2>1, <2>2 DEF RegistrySound
<1> QED BY <1>1, RegistryStarts, RegistryStep, PTL DEF RegistrySpec

-----------------------------------------------------------------------------
(***************************************************************************)
(* The dashboard (UsageTrend), for any models, reports and passing of time *)
(* and any retention.  Its series and cards are sums over the buckets.     *)
(***************************************************************************)

\* One more term.
LEMMA TotalInsert ==
  ASSUME NEW S, IsFiniteSet(S), NEW g, \A x \in S : g[x] \in Nat,
         NEW A \in SUBSET S, NEW e \in S \ A
  PROVE  Total(g, A \cup {e}) = Total(g, A) + g[e]
<1> DEFINE Good(w) == \A x \in S \ w : Total(g, w \cup {x}) = Total(g, w) + g[x]
           bad == {w \in SUBSET S : ~Good(w)}
<1>1. SUFFICES ASSUME bad # {} PROVE FALSE
  OBVIOUS
<1>2. PICK m \in bad : \A n \in bad : ~(n \subseteq m /\ n # m)
  <2>1. bad \in SUBSET SUBSET S
    OBVIOUS
  <2> HIDE DEF bad
  <2> QED BY <1>1, <2>1, HasSmallest
<1>3. PICK x \in S \ m : Total(g, m \cup {x}) # Total(g, m) + g[x]
  BY <1>2
<1> DEFINE u == m \cup {x}
           f == First(u)
<1>4. u \subseteq S /\ u # {} /\ IsFiniteSet(u) /\ IsFiniteSet(m)
  BY <1>2, <1>3, FS_Subset
<1>5. f \in u /\ Total(g, u) = g[f] + Total(g, u \ {f})
  BY <1>4, TotalStep, FirstInside
<1> HIDE DEF f
<1>6. f # x
  <2>1. ASSUME f = x PROVE FALSE
    <3>1. u \ {f} = m
      BY <2>1, <1>3
    <3>2. Total(g, m) \in Nat /\ g[x] \in Nat
      BY <1>2, <1>3, <1>4, TotalBounds
    <3>3. Total(g, u) = g[x] + Total(g, m)
      BY <1>5, <2>1, <3>1
    <3>4. Total(g, u) # Total(g, m) + g[x]
      BY <1>3
    <3> HIDE DEF u
    <3> QED BY <3>2, <3>3, <3>4
  <2> QED BY <2>1
<1>7. f \in m
  BY <1>5, <1>6
<1> DEFINE rest == m \ {f}
<1>8. rest \in SUBSET S /\ rest \subseteq m /\ rest # m
  BY <1>2, <1>7
<1>9. Good(rest)
  BY <1>2, <1>8
<1>10. u \ {f} = rest \cup {x} /\ m = rest \cup {f} /\ x \in S \ rest /\ f \in S \ rest
  BY <1>2, <1>3, <1>6, <1>7
<1>11. Total(g, u \ {f}) = Total(g, rest) + g[x] /\ Total(g, m) = Total(g, rest) + g[f]
  BY <1>9, <1>10
<1>12. IsFiniteSet(rest)
  BY <1>4, <1>8, FS_Subset
<1>13. Total(g, rest) \in Nat
  BY <1>8, <1>12, TotalBounds
<1>14. g[x] \in Nat /\ g[f] \in Nat
  BY <1>10
<1> QED BY <1>3, <1>5, <1>11, <1>13, <1>14

\* A part of the terms, each made smaller or left, adds up to less.
LEMMA TotalBelow ==
  ASSUME NEW S, IsFiniteSet(S), NEW A \in SUBSET S, NEW f, NEW g,
         \A x \in S : g[x] \in Nat, \A x \in A : f[x] \in Nat /\ f[x] <= g[x]
  PROVE  Total(f, A) <= Total(g, S)
<1> DEFINE bad == {w \in SUBSET S : ~(Total(f, w \cap A) <= Total(g, w))}
<1>1. SUFFICES ASSUME bad # {} PROVE FALSE
  <2>1. S \cap A = A /\ S \in SUBSET S
    OBVIOUS
  <2> QED BY <1>1, <2>1
<1>2. PICK m \in bad : \A n \in bad : ~(n \subseteq m /\ n # m)
  <2>1. bad \in SUBSET SUBSET S
    OBVIOUS
  <2> HIDE DEF bad
  <2> QED BY <1>1, <2>1, HasSmallest
<1>3. m \in SUBSET S /\ IsFiniteSet(m) /\ ~(Total(f, m \cap A) <= Total(g, m))
  BY <1>2, FS_Subset
<1>4. m # {}
  <2>1. ASSUME m = {} PROVE FALSE
    <3>1. m \cap A = {} /\ IsFiniteSet({})
      BY <2>1, <1>3
    <3>2. Total(f, {}) = 0 /\ Total(g, {}) = 0
      BY <3>1, TotalStep
    <3> QED BY <1>3, <2>1, <3>1, <3>2
  <2> QED BY <2>1
<1> DEFINE e == First(m)
           rest == m \ {e}
<1>5. e \in m /\ rest \subseteq m /\ rest # m /\ Total(g, m) = g[e] + Total(g, rest)
  BY <1>3, <1>4, FirstInside, TotalStep
<1> HIDE DEF e
<1>6. rest \in SUBSET S /\ Total(f, rest \cap A) <= Total(g, rest)
  BY <1>2, <1>3, <1>5
<1>7. Total(g, rest) \in Nat /\ g[e] \in Nat
  <2>1. IsFiniteSet(rest)
    BY <1>6, FS_Subset
  <2> QED BY <1>3, <1>5, <1>6, <2>1, TotalBounds
<1>8. IsFiniteSet(A) /\ rest \cap A \in SUBSET A
  BY FS_Subset
<1>9. Total(f, rest \cap A) \in Nat
  <2>1. IsFiniteSet(rest \cap A)
    BY <1>8, FS_Subset
  <2> QED BY <2>1, TotalBounds
<1>10. CASE e \in A
  <2>1. m \cap A = (rest \cap A) \cup {e} /\ e \in A \ (rest \cap A)
    BY <1>5, <1>10
  <2>2. Total(f, m \cap A) = Total(f, rest \cap A) + f[e]
    BY <1>8, <2>1, TotalInsert
  <2>3. f[e] \in Nat /\ f[e] <= g[e]
    BY <1>10
  <2> QED BY <1>3, <1>5, <1>6, <1>7, <1>9, <2>2, <2>3
<1>11. CASE e \notin A
  <2>1. m \cap A = rest \cap A
    BY <1>5, <1>11
  <2>2. Total(f, m \cap A) = Total(f, rest \cap A)
    BY <2>1
  <2> HIDE DEF rest
  <2> QED BY <1>3, <1>5, <1>6, <1>7, <1>9, <2>2
<1> QED BY <1>10, <1>11

\* What is sorted into parts adds up, part by part, to the whole.
PartOf(S, p, t) == {x \in S : p[x] = t}
LEMMA TotalParts ==
  ASSUME NEW S, IsFiniteSet(S), NEW g, \A x \in S : g[x] \in Nat,
         NEW T, IsFiniteSet(T), NEW p, \A x \in S : p[x] \in T,
         NEW h, \A t \in T : h[t] = Total(g, PartOf(S, p, t))
  PROVE  Total(h, T) = Total(g, S)
<1> DEFINE H(w) == [t \in T |-> Total(g, PartOf(w, p, t))]
           bad == {w \in SUBSET S : Total(H(w), T) # Total(g, w)}
<1>1. Total(h, T) = Total(H(S), T)
  BY TotalAgrees
<1>2. SUFFICES ASSUME bad # {} PROVE FALSE
  <2>1. S \in SUBSET S
    OBVIOUS
  <2> HIDE DEF H
  <2> QED BY <1>1, <1>2, <2>1
<1>3. PICK m \in bad : \A n \in bad : ~(n \subseteq m /\ n # m)
  <2>1. bad \in SUBSET SUBSET S
    OBVIOUS
  <2> HIDE DEF bad
  <2> QED BY <1>2, <2>1, HasSmallest
<1>4. m \in SUBSET S /\ IsFiniteSet(m) /\ Total(H(m), T) # Total(g, m)
  BY <1>3, FS_Subset
<1>5. \A w \in SUBSET S : \A t \in T : H(w)[t] = Total(g, PartOf(w, p, t)) /\ H(w)[t] \in Nat
  <2> SUFFICES ASSUME NEW w \in SUBSET S, NEW t \in T PROVE Total(g, PartOf(w, p, t)) \in Nat
    OBVIOUS
  <2>1. PartOf(w, p, t) \subseteq S
    BY DEF PartOf
  <2>2. IsFiniteSet(PartOf(w, p, t))
    BY <2>1, FS_Subset
  <2> QED BY <2>1, <2>2, TotalBounds
<1> HIDE DEF H
<1>6. m # {}
  <2>1. ASSUME m = {} PROVE FALSE
    <3>1. \A t \in T : PartOf(m, p, t) = {}
      BY <2>1 DEF PartOf
    <3>2. Total(g, {}) = 0
      BY <1>4, <2>1, TotalStep
    <3>3. \A t \in T : H(m)[t] = 0
      BY <1>4, <1>5, <3>1, <3>2
    <3> QED BY <1>4, <2>1, <3>2, <3>3, TotalZero
  <2> QED BY <2>1
<1> DEFINE e == First(m)
           rest == m \ {e}
<1>7. e \in m /\ rest \subseteq m /\ rest # m /\ Total(g, m) = g[e] + Total(g, rest)
  BY <1>4, <1>6, FirstInside, TotalStep
<1> HIDE DEF e
<1>8. rest \in SUBSET S /\ Total(H(rest), T) = Total(g, rest)
  BY <1>3, <1>4, <1>7
<1>9. e \in S /\ g[e] \in Nat /\ p[e] \in T
  BY <1>4, <1>7
<1>10. \A t \in T : t # p[e] => H(m)[t] = H(rest)[t]
  <2> SUFFICES ASSUME NEW t \in T, t # p[e] PROVE PartOf(m, p, t) = PartOf(rest, p, t)
    BY <1>4, <1>5, <1>8
  <2> QED BY DEF PartOf
<1>11. H(m)[p[e]] = H(rest)[p[e]] + g[e]
  <2> DEFINE part == PartOf(rest, p, p[e])
  <2>1. PartOf(m, p, p[e]) = part \cup {e} /\ part \in SUBSET S /\ e \in S \ part
    BY <1>7, <1>8, <1>9 DEF PartOf
  <2> HIDE DEF part
  <2>2. Total(g, part \cup {e}) = Total(g, part) + g[e]
    BY <2>1, TotalInsert
  <2> QED BY <1>4, <1>5, <1>8, <1>9, <2>1, <2>2 DEF part
<1>12. Total(H(m), T) = Total(H(rest), T) + H(m)[p[e]] - H(rest)[p[e]]
  <2>1. \A t \in T : H(rest)[t] \in Nat /\ H(m)[t] \in Nat
    BY <1>4, <1>5, <1>8
  <2>2. \A t \in T : t # p[e] => H(m)[t] = H(rest)[t]
    BY <1>10
  <2> HIDE DEF rest
  <2> DEFINE a == H(rest)
             b == H(m)
  <2>3. /\ \A t \in T : a[t] \in Nat /\ b[t] \in Nat
        /\ \A t \in T : t # p[e] => b[t] = a[t]
    BY <2>1, <2>2
  <2>4. p[e] \in T
    BY <1>9
  <2> HIDE DEF a, b
  <2>5. Total(b, T) = Total(a, T) + b[p[e]] - a[p[e]]
    BY <2>3, <2>4, TotalChanges
  <2> QED BY <2>5 DEF a, b
<1>13. Total(g, rest) \in Nat
  <2>1. IsFiniteSet(rest)
    BY <1>8, FS_Subset
  <2> QED BY <1>8, <2>1, TotalBounds
<1>14. H(rest)[p[e]] \in Nat
  BY <1>5, <1>8, <1>9
<1> QED BY <1>4, <1>7, <1>8, <1>9, <1>11, <1>12, <1>13, <1>14

\* Every row is of an hour that was, of a known model, and has a token for each counted request.
UsageRow == [tokens : Nat, requests : Nat, errors : Nat]
RowSound(now, k, row) ==
  /\ k \in Int \X UsageModels /\ k[1] <= now
  /\ row \in UsageRow /\ row.requests <= row.tokens
UsageInv ==
  /\ hour \in Int /\ IsFiniteSet(DOMAIN buckets)
  /\ \A k \in DOMAIN buckets : RowSound(hour, k, buckets[k])

LEMMA UsageStarts == UsageInit => UsageInv
<1> SUFFICES ASSUME UsageInit PROVE UsageInv
  OBVIOUS
<1>1. DOMAIN buckets = {} /\ hour \in Int
  BY DEF UsageInit
<1> QED BY <1>1, FS_EmptySet DEF UsageInv

\* A row that is added to.
LEMMA AddedKeeps ==
  ASSUME UsageInv, NEW k, NEW row, buckets' = Added(k, row), UNCHANGED hour, RowSound(hour, k, row)
  PROVE  UsageInv'
<1>1. DOMAIN buckets' = DOMAIN buckets \cup {k}
  BY DEF Added
<1>2. \A x \in DOMAIN buckets' : buckets'[x] = IF x = k THEN row ELSE buckets[x]
  BY DEF Added
<1>3. IsFiniteSet(DOMAIN buckets')
  BY <1>1, FS_AddElement DEF UsageInv
<1>4. \A x \in DOMAIN buckets' : RowSound(hour, x, buckets'[x])
  BY <1>1, <1>2 DEF UsageInv
<1> QED BY <1>3, <1>4 DEF UsageInv

LEMMA BucketIsRow ==
  ASSUME UsageInv, NEW m \in UsageModels
  PROVE  RowSound(hour, <<hour, m>>, BucketOf(<<hour, m>>))
<1>1. <<hour, m>> \in Int \X UsageModels /\ <<hour, m>>[1] = hour
  BY DEF UsageInv
<1>2. Empty \in UsageRow /\ Empty.requests <= Empty.tokens
  BY DEF Empty, UsageRow
<1> QED BY <1>1, <1>2 DEF UsageInv, BucketOf, RowSound

LEMMA UsageStep ==
  ASSUME UsageInv, [UsageNext]_usageVars
  PROVE  UsageInv'
<1>1. ASSUME NEW m \in UsageModels, RecordErrorBucket(m) PROVE UsageInv'
  <2> DEFINE k == <<hour, m>>
             row == [BucketOf(k) EXCEPT !.errors = @ + 1]
  <2>1. buckets' = Added(k, row) /\ UNCHANGED hour
    BY <1>1 DEF RecordErrorBucket
  <2>2. RowSound(hour, k, BucketOf(k))
    BY BucketIsRow
  <2>3. RowSound(hour, k, row)
    <3>1. PICK b : b = BucketOf(k)
      OBVIOUS
    <3>2. b \in UsageRow /\ row = [b EXCEPT !.errors = @ + 1]
      BY <2>2, <3>1 DEF RowSound
    <3> HIDE DEF row
    <3>3. row \in UsageRow /\ row.tokens = b.tokens /\ row.requests = b.requests
      BY <3>2 DEF UsageRow
    <3> QED BY <2>2, <3>1, <3>3 DEF RowSound
  <2> HIDE DEF k, row
  <2> QED BY <2>1, <2>3, AddedKeeps
<1>2. ASSUME NEW m \in UsageModels, NEW n \in Reports, RecordUsageBucket(m, n) PROVE UsageInv'
  <2> DEFINE k == <<hour, m>>
             row == [BucketOf(k) EXCEPT !.tokens = @ + n, !.requests = @ + 1]
  <2>1. buckets' = Added(k, row) /\ UNCHANGED hour /\ n > 0
    BY <1>2 DEF RecordUsageBucket
  <2>2. RowSound(hour, k, BucketOf(k))
    BY BucketIsRow
  <2>3. n \in Nat /\ n >= 1
    BY <2>1, UsageAssumption
  <2>4. RowSound(hour, k, row)
    <3>1. PICK b : b = BucketOf(k)
      OBVIOUS
    <3>2. b \in UsageRow /\ row = [b EXCEPT !.tokens = @ + n, !.requests = @ + 1]
      BY <2>2, <3>1 DEF RowSound
    <3> HIDE DEF row
    <3>3. row \in UsageRow /\ row.tokens = b.tokens + n /\ row.requests = b.requests + 1
      <4>1. row = [tokens |-> b.tokens + n, requests |-> b.requests + 1, errors |-> b.errors]
        BY <3>2 DEF UsageRow
      <4> QED BY <2>3, <3>2, <4>1 DEF UsageRow
    <3>4. b.tokens \in Nat /\ b.requests \in Nat /\ b.requests <= b.tokens
      BY <2>2, <3>1, <3>2 DEF RowSound, UsageRow
    <3>5. row.requests <= row.tokens
      BY <2>3, <3>3, <3>4
    <3> QED BY <2>2, <3>3, <3>5 DEF RowSound
  <2> HIDE DEF k, row
  <2> QED BY <2>1, <2>4, AddedKeeps
<1>3. ASSUME UsageBucketCleanExpired PROVE UsageInv'
  <2>1. /\ DOMAIN buckets' \subseteq DOMAIN buckets /\ UNCHANGED hour
        /\ \A k \in DOMAIN buckets' : buckets'[k] = buckets[k]
    BY <1>3 DEF UsageBucketCleanExpired
  <2>2. IsFiniteSet(DOMAIN buckets')
    BY <2>1, FS_Subset DEF UsageInv
  <2> QED BY <2>1, <2>2 DEF UsageInv, RowSound
<1>4. ASSUME NEW h \in Jumps, HoursPass(h) PROVE UsageInv'
  <2>1. hour' \in Int /\ hour <= hour' /\ UNCHANGED buckets
    BY <1>4, UsageAssumption DEF HoursPass, UsageInv
  <2>2. \A k \in DOMAIN buckets : k[1] \in Int
    BY DEF UsageInv, RowSound
  <2> QED BY <2>1, <2>2 DEF UsageInv, RowSound
<1>5. CASE UNCHANGED usageVars
  BY <1>5 DEF usageVars, UsageInv, RowSound
<1> QED BY <1>1, <1>2, <1>3, <1>4, <1>5 DEF UsageNext

\* The points of a series lie on its axis.
LEMMA PointsOnAxis ==
  ASSUME UsageInv, NEW r \in DOMAIN usageWindows \ {"forever"},
         NEW k \in DOMAIN buckets, k[1] >= WindowStart(r)
  PROVE  PointOf(r, k) \in 0..usageWindows[r].count - 1
<1>1. k[1] \in Int /\ hour \in Int /\ k[1] <= hour
  BY DEF UsageInv, RowSound
<1> DEFINE d == k[1] - WindowStart(r)
<1>2. r \in {"24h", "7d", "30d", "1y", "3y"}
  BY DEF usageWindows
<1>3. CASE r = "24h"
  <2>1. usageWindows[r] = [span |-> 24, step |-> 1, count |-> 24]
    BY <1>3 DEF usageWindows
  <2> QED BY <1>1, <2>1 DEF WindowStart, PointOf
<1>4. CASE r = "7d"
  <2>1. usageWindows[r] = [span |-> 168, step |-> 6, count |-> 28]
    BY <1>4 DEF usageWindows
  <2> QED BY <1>1, <2>1 DEF WindowStart, PointOf
<1>5. CASE r = "30d"
  <2>1. usageWindows[r] = [span |-> 720, step |-> 24, count |-> 30]
    BY <1>5 DEF usageWindows
  <2> QED BY <1>1, <2>1 DEF WindowStart, PointOf
<1>6. CASE r = "1y"
  <2>1. usageWindows[r] = [span |-> 8760, step |-> 168, count |-> 53]
    BY <1>6 DEF usageWindows
  <2> QED BY <1>1, <2>1 DEF WindowStart, PointOf
<1>7. CASE r = "3y"
  <2>1. usageWindows[r] = [span |-> 26280, step |-> 720, count |-> 37]
    BY <1>7 DEF usageWindows
  <2> QED BY <1>1, <2>1 DEF WindowStart, PointOf
<1> QED BY <1>2, <1>3, <1>4, <1>5, <1>6, <1>7

\* Sums over functions are totals.
LEMMA SumIsTotal == \A f, S : SumFunctionOnSet(f, S) = Total(f, S)
  BY DEF SumFunctionOnSet, FoldFunctionOnSet, MapThenFoldSet, Adds, First, Total
LEMMA SumOfAll == \A f : SumFunction(f) = Total(f, DOMAIN f)
  BY SumIsTotal DEF SumFunction

LEMMA TokensAreNumbers ==
  ASSUME UsageInv
  PROVE  \A k \in DOMAIN buckets : /\ Tokens[k] \in Nat /\ Requests[k] \in Nat
                                   /\ Requests[k] <= Tokens[k]
  BY DEF UsageInv, RowSound, UsageRow, Tokens, Requests

(* The sums of the dashboard *)

InWindow(since) == {k \in DOMAIN buckets : k[1] >= since}
LEMMA WindowFinite ==
  ASSUME UsageInv, NEW since
  PROVE  /\ IsFiniteSet(InWindow(since)) /\ InWindow(since) \subseteq DOMAIN buckets
         /\ \A k \in InWindow(since) : Tokens[k] \in Nat
<1>1. InWindow(since) \subseteq DOMAIN buckets
  BY DEF InWindow
<1> QED BY <1>1, FS_Subset, TokensAreNumbers DEF UsageInv

\* A series is the sum of its window.
LEMMA TrendIsTotal ==
  ASSUME UsageInv, NEW r \in DOMAIN usageWindows \ {"forever"}
  PROVE  SumFunction(UsageTrendPoints(r)) = Total(Tokens, InWindow(WindowStart(r)))
<1> DEFINE S == InWindow(WindowStart(r))
           T == 0..usageWindows[r].count - 1
           p == [k \in DOMAIN buckets |-> PointOf(r, k)]
           h == UsageTrendPoints(r)
<1>1. DOMAIN h = T
  BY DEF UsageTrendPoints
<1>2. IsFiniteSet(S) /\ S \subseteq DOMAIN buckets /\ \A k \in S : Tokens[k] \in Nat
  BY WindowFinite
<1>3. IsFiniteSet(T)
  <2>1. usageWindows[r].count \in Int
    BY DEF usageWindows
  <2> QED BY <2>1, FS_Interval
<1>4. \A k \in S : p[k] \in T
  BY PointsOnAxis DEF InWindow
<1>5. ASSUME NEW t \in T PROVE h[t] = Total(Tokens, PartOf(S, p, t))
  <2> DEFINE part == {k \in DOMAIN buckets : k[1] >= WindowStart(r) /\ k[1] < hour + 1 /\ PointOf(r, k) = t}
  <2>1. h[t] = SumFunctionOnSet(Tokens, part)
    BY DEF UsageTrendPoints, Sum
  <2>2. \A k \in DOMAIN buckets : k[1] < hour + 1
    BY DEF UsageInv, RowSound
  <2>3. part = PartOf(S, p, t)
    BY <2>2 DEF PartOf, InWindow
  <2> HIDE DEF part, h
  <2> QED BY <2>1, <2>3, SumIsTotal
<1> HIDE DEF S, T, p, h
<1>6. Total(h, T) = Total(Tokens, S)
  BY <1>2, <1>3, <1>4, <1>5, TotalParts
<1> QED BY <1>1, <1>6, SumOfAll DEF S, h

\* The models listed are a part of the window, and all of it unless the list is cut.
LEMMA ListedModels ==
  ASSUME UsageInv, NEW r, NEW top \in UsageTotalsByModelRange(r)
  PROVE  LET listed == SumFunctionOnSet(ModelTotals(r), top)
             all == Total(Tokens, InWindow(UsageWindowSince(r)))
         IN listed <= all /\ (Cardinality(ModelsIn(r)) <= TopModels => listed = all)
<1> DEFINE S == InWindow(UsageWindowSince(r))
           U == {k \in S : k[2] \in top}
           p == [k \in DOMAIN buckets |-> k[2]]
           h == ModelTotals(r)
<1>1. IsFiniteSet(S) /\ S \subseteq DOMAIN buckets /\ \A k \in S : Tokens[k] \in Nat
  BY WindowFinite
<1>2. U \subseteq S /\ IsFiniteSet(U) /\ \A k \in U : Tokens[k] \in Nat /\ p[k] \in top
  BY <1>1, FS_Subset
<1>3. ModelsIn(r) = {k[2] : k \in S} /\ ModelsIn(r) \subseteq UsageModels /\ top \subseteq ModelsIn(r)
  BY <1>1 DEF ModelsIn, InWindow, UsageInv, RowSound, UsageTotalsByModelRange
<1>4. IsFiniteSet(ModelsIn(r)) /\ IsFiniteSet(top)
  BY <1>3, FS_Subset, UsageAssumption
<1>5. ASSUME NEW m \in top PROVE h[m] = Total(Tokens, PartOf(U, p, m))
  <2> DEFINE part == {k \in DOMAIN buckets : k[2] = m /\ k[1] >= UsageWindowSince(r)}
  <2>1. h[m] = SumFunctionOnSet(Tokens, part)
    BY <1>3 DEF ModelTotals, Sum
  <2>2. part = PartOf(U, p, m)
    BY DEF PartOf, InWindow
  <2> HIDE DEF part, h
  <2> QED BY <2>1, <2>2, SumIsTotal
<1>6. Total(h, top) = Total(Tokens, U)
  <2> HIDE DEF S, U, p, h
  <2> QED BY <1>2, <1>4, <1>5, TotalParts
<1>7. Total(Tokens, U) <= Total(Tokens, S)
  <2> HIDE DEF S, U, p
  <2>1. \A k \in U : Tokens[k] \in Nat /\ Tokens[k] <= Tokens[k]
    BY <1>2
  <2> QED BY <1>1, <1>2, <2>1, TotalBelow
<1>8. ASSUME Cardinality(ModelsIn(r)) <= TopModels PROVE U = S
  <2> DEFINE c == Cardinality(ModelsIn(r))
  <2>1. c \in Nat /\ c <= TopModels /\ TopModels \in Nat
    BY <1>4, <1>8, FS_CardinalityType, UsageAssumption
  <2>2. Cardinality(top) = Min({TopModels, c})
    BY DEF UsageTotalsByModelRange
  <2> HIDE DEF c
  <2>3. Min({TopModels, c}) = c
    BY <2>1 DEF Min
  <2>4. Cardinality(top) = Cardinality(ModelsIn(r))
    BY <2>2, <2>3 DEF c
  <2>5. top = ModelsIn(r)
    BY <1>3, <1>4, <2>4, FS_Subset
  <2> QED BY <1>3, <2>5
<1> HIDE DEF S, U, h
<1> QED BY <1>6, <1>7, <1>8, SumIsTotal DEF S, h

LEMMA KPIsAreTotal ==
  ASSUME NEW r
  PROVE  /\ UsageKPIsByRange(r) = Total(Tokens, InWindow(UsageWindowSince(r)))
         /\ UsageDetailByRange(r) = Total(Requests, InWindow(UsageWindowSince(r)))
  BY SumIsTotal DEF UsageKPIsByRange, UsageDetailByRange, Sum, InWindow

\* The heat map of a week is the sum of its days.
DayOf(k) == k[1] \div 24 - (hour \div 24) + 6
WeekDays == {k \in DOMAIN buckets : DayOf(k) \in 0..6}
LEMMA HeatmapIsTotal ==
  ASSUME UsageInv
  PROVE  SumFunction(UsageHeatmapData(7)) = Total(Tokens, WeekDays)
<1> DEFINE T == 0..6
           p == [k \in DOMAIN buckets |-> DayOf(k)]
           h == UsageHeatmapData(7)
<1>1. IsFiniteSet(WeekDays) /\ WeekDays \subseteq DOMAIN buckets
  <2>1. WeekDays \subseteq DOMAIN buckets
    BY DEF WeekDays
  <2> QED BY <2>1, FS_Subset DEF UsageInv
<1>2. \A k \in WeekDays : Tokens[k] \in Nat /\ p[k] \in T
  BY <1>1, TokensAreNumbers DEF WeekDays
<1>3. DOMAIN h = T /\ IsFiniteSet(T)
  <2>1. DOMAIN h = 0..7 - 1
    BY DEF UsageHeatmapData
  <2>2. 0..7 - 1 = T
    OBVIOUS
  <2>3. IsFiniteSet(T)
    <3>1. 0 \in Int /\ 6 \in Int
      OBVIOUS
    <3> QED BY <3>1, FS_Interval
  <2> HIDE DEF h, T
  <2> QED BY <2>1, <2>2, <2>3
<1>4. ASSUME NEW t \in T PROVE h[t] = Total(Tokens, PartOf(WeekDays, p, t))
  <2> DEFINE part == {k \in DOMAIN buckets : k[1] \div 24 = (hour \div 24) - 7 + 1 + t}
  <2>1. h[t] = SumFunctionOnSet(Tokens, part)
    BY DEF UsageHeatmapData, Sum
  <2>2. \A k \in DOMAIN buckets : k[1] \div 24 = (hour \div 24) - 7 + 1 + t <=> DayOf(k) = t
    <3> SUFFICES ASSUME NEW k \in DOMAIN buckets
                 PROVE  k[1] \div 24 = (hour \div 24) - 7 + 1 + t <=> DayOf(k) = t
      OBVIOUS
    <3>1. k[1] \div 24 \in Int /\ hour \div 24 \in Int
      BY DEF UsageInv, RowSound
    <3> QED BY <3>1 DEF DayOf
  <2>3. part = PartOf(WeekDays, p, t)
    BY <2>2 DEF PartOf, WeekDays
  <2> HIDE DEF part, h
  <2> QED BY <2>1, <2>3, SumIsTotal
<1> HIDE DEF T, p, h
<1>5. Total(h, T) = Total(Tokens, WeekDays)
  BY <1>1, <1>2, <1>3, <1>4, TotalParts
<1> QED BY <1>3, <1>5, SumOfAll DEF h

LEMMA UsageInvSuffices ==
  ASSUME UsageInv, "forever" \notin UsageRanges
  PROVE  DashboardSound
<1> SUFFICES ASSUME NEW r \in UsageRanges PROVE
      /\ SumFunction(UsageTrendPoints(r)) = Sum({k \in DOMAIN buckets : k[1] >= WindowStart(r)})
      /\ \A top \in UsageTotalsByModelRange(r) :
           LET listed == SumFunctionOnSet(ModelTotals(r), top) IN
           /\ listed <= UsageKPIsByRange(r)
           /\ Cardinality(ModelsIn(r)) <= TopModels => listed = UsageKPIsByRange(r)
      /\ UsageKPIsByRange(r) >= SumFunction(UsageTrendPoints(r))
      /\ UsageKPIsByRange(r) >= UsageDetailByRange(r)
      /\ SumFunction(UsageHeatmapData(7)) >= SumFunction(UsageTrendPoints("24h"))
  BY DEF DashboardSound, TrendComplete, CardsAgree
<1>1. r \in DOMAIN usageWindows \ {"forever"}
  BY UsageAssumption
<1>2. "24h" \in DOMAIN usageWindows \ {"forever"} /\ usageWindows["24h"].span = 24
  BY DEF usageWindows
<1>3. hour \in Int /\ \A k \in DOMAIN buckets : k[1] \in Int /\ k[1] <= hour
  BY DEF UsageInv, RowSound
<1>4. /\ SumFunction(UsageTrendPoints(r)) = Total(Tokens, InWindow(WindowStart(r)))
      /\ SumFunction(UsageTrendPoints("24h")) = Total(Tokens, InWindow(WindowStart("24h")))
  BY <1>1, <1>2, TrendIsTotal
<1>5. Sum({k \in DOMAIN buckets : k[1] >= WindowStart(r)}) = Total(Tokens, InWindow(WindowStart(r)))
  BY SumIsTotal DEF Sum, InWindow
<1>6. Total(Tokens, InWindow(WindowStart(r))) <= Total(Tokens, InWindow(UsageWindowSince(r)))
  <2>1. usageWindows[r].span \in Int
    BY <1>1 DEF usageWindows
  <2>2. InWindow(WindowStart(r)) \subseteq InWindow(UsageWindowSince(r))
    BY <1>1, <1>3, <2>1 DEF InWindow, WindowStart, UsageWindowSince
  <2> QED BY <2>2, WindowFinite, TotalBelow
<1>7. Total(Requests, InWindow(UsageWindowSince(r))) <= Total(Tokens, InWindow(UsageWindowSince(r)))
  BY WindowFinite, TokensAreNumbers, TotalBelow
<1>8. Total(Tokens, InWindow(WindowStart("24h"))) <= Total(Tokens, WeekDays)
  <2>1. ASSUME NEW k \in InWindow(WindowStart("24h")) PROVE k \in WeekDays
    <3>1. k \in DOMAIN buckets /\ k[1] >= hour - 23
      BY <1>2, <1>3, <2>1 DEF InWindow, WindowStart
    <3>2. k[1] \in Int /\ k[1] <= hour
      BY <1>3, <3>1
    <3>3. DayOf(k) \in 0..6
      BY <1>3, <3>1, <3>2 DEF DayOf
    <3> QED BY <3>1, <3>3 DEF WeekDays
  <2>2. WeekDays \subseteq DOMAIN buckets
    BY DEF WeekDays
  <2>3. IsFiniteSet(WeekDays)
    BY <2>2, FS_Subset DEF UsageInv
  <2>4. \A k \in WeekDays : Tokens[k] \in Nat
    BY <2>2, TokensAreNumbers
  <2>5. \A k \in InWindow(WindowStart("24h")) : Tokens[k] \in Nat /\ Tokens[k] <= Tokens[k]
    BY <2>1, <2>4
  <2> QED BY <2>1, <2>3, <2>4, <2>5, TotalBelow
<1>9. \A top \in UsageTotalsByModelRange(r) :
        LET listed == SumFunctionOnSet(ModelTotals(r), top) IN
        /\ listed <= UsageKPIsByRange(r)
        /\ Cardinality(ModelsIn(r)) <= TopModels => listed = UsageKPIsByRange(r)
  BY ListedModels, KPIsAreTotal
<1> QED BY <1>4, <1>5, <1>6, <1>7, <1>8, <1>9, KPIsAreTotal, HeatmapIsTotal

\* What the dashboard shows (op/usage_bucket.go) fits together at every hour: a series leaves no bucket
\* of its window out, the models listed add up to the total unless the list is cut, and never to
\* more, and totals, requests and heat map agree, for any models, reports, passing of time, length
\* of the list and retention.
THEOREM DashboardHolds == ASSUME "forever" \notin UsageRanges PROVE UsageSpec => []DashboardSound
<1>1. UsageInv => DashboardSound
  BY UsageInvSuffices
<1> QED BY <1>1, UsageStarts, UsageStep, PTL DEF UsageSpec

-----------------------------------------------------------------------------
(***************************************************************************)
(* The restored stream (MaskStream), for any answers, any cut into events  *)
(* and any bound of the buffer.                                            *)
(***************************************************************************)

\* A set of numbers that is not empty has a smallest one.
LEMMA LeastNumber ==
  ASSUME NEW S \in SUBSET Nat, S # {}
  PROVE  \E k \in S : \A m \in S : k <= m
<1>1. IsWellFoundedOn(OpToRel(<, Nat), Nat)
  BY NatLessThanWellFounded
<1>2. S \subseteq Nat
  OBVIOUS
<1>3. PICK k \in S : \A m \in S : <<m, k>> \notin OpToRel(<, Nat)
  BY <1>1, <1>2, WFMin
<1>4. \A m \in S : ~(m < k)
  BY <1>2, <1>3 DEF OpToRel
<1> QED BY <1>2, <1>4

(* What FlattenSeq computes *)

Flattens(f, q, n) == f = [i \in 1..n |-> IF i = 1 THEN q[i] ELSE f[i - 1] \o q[i]]

LEMMA FlattensExists ==
  ASSUME NEW q, NEW n \in Nat
  PROVE  \E f : Flattens(f, q, n)
<1> DEFINE bad == {k \in Nat : ~\E f : Flattens(f, q, k)}
<1>1. SUFFICES ASSUME bad # {} PROVE FALSE
  OBVIOUS
<1>2. PICK k \in bad : \A m \in bad : k <= m
  <2>1. bad \in SUBSET Nat
    OBVIOUS
  <2> HIDE DEF bad
  <2> QED BY <1>1, <2>1, LeastNumber
<1>3. k \in Nat /\ ~\E f : Flattens(f, q, k)
  BY <1>2
<1>4. k # 0
  <2> DEFINE f == [i \in 1..0 |-> q[i]]
  <2>1. f = [i \in 1..0 |-> IF i = 1 THEN q[i] ELSE f[i - 1] \o q[i]]
    OBVIOUS
  <2>2. Flattens(f, q, 0)
    BY <2>1 DEF Flattens
  <2> QED BY <1>3, <2>2
<1>5. PICK h : Flattens(h, q, k - 1)
  <2>1. k - 1 \in Nat /\ k - 1 \notin bad
    BY <1>2, <1>3, <1>4
  <2> QED BY <2>1
<1> DEFINE f == [i \in 1..k |-> IF i = 1 THEN q[i] ELSE h[i - 1] \o q[i]]
<1>6. \A i \in 1..k - 1 : h[i] = f[i]
  <2>1. \A i \in 1..k - 1 : i \in 1..k
    BY <1>3
  <2> QED BY <1>5, <2>1 DEF Flattens
<1>7. \A i \in 1..k : f[i] = IF i = 1 THEN q[i] ELSE f[i - 1] \o q[i]
  <2> SUFFICES ASSUME NEW i \in 1..k, i # 1 PROVE h[i - 1] = f[i - 1]
    OBVIOUS
  <2>1. i - 1 \in 1..k - 1
    BY <1>3
  <2> HIDE DEF f
  <2> QED BY <1>6, <2>1
<1>8. f = [i \in 1..k |-> IF i = 1 THEN q[i] ELSE f[i - 1] \o q[i]]
  BY <1>7
<1>9. Flattens(f, q, k)
  BY <1>8 DEF Flattens
<1> HIDE DEF f
<1> QED BY <1>3, <1>9

LEMMA FlattensAgree ==
  ASSUME NEW f, NEW q, NEW n \in Nat, Flattens(f, q, n), NEW g, NEW p, NEW m \in Nat, Flattens(g, p, m),
         n <= m, \A i \in 1..n : q[i] = p[i]
  PROVE  \A i \in 1..n : f[i] = g[i]
<1> DEFINE bad == {i \in 1..n : f[i] # g[i]}
<1>1. SUFFICES ASSUME bad # {} PROVE FALSE
  OBVIOUS
<1>2. PICK k \in bad : \A i \in bad : k <= i
  <2>1. bad \in SUBSET Nat
    OBVIOUS
  <2> HIDE DEF bad
  <2> QED BY <1>1, <2>1, LeastNumber
<1>3. k \in 1..n /\ k \in 1..m /\ f[k] # g[k] /\ q[k] = p[k]
  BY <1>2
<1>4. /\ f[k] = IF k = 1 THEN q[k] ELSE f[k - 1] \o q[k]
      /\ g[k] = IF k = 1 THEN p[k] ELSE g[k - 1] \o p[k]
  BY <1>3 DEF Flattens
<1>5. k # 1 => f[k - 1] = g[k - 1]
  <2>1. k # 1 => k - 1 \in 1..n /\ k - 1 \notin bad
    BY <1>2, <1>3
  <2> QED BY <2>1
<1> QED BY <1>3, <1>4, <1>5

LEMMA FlattenSeqIs ==
  ASSUME NEW q, NEW n \in Nat \ {0}, Len(q) = n
  PROVE  FlattenSeq(q) = (CHOOSE f : Flattens(f, q, n))[n]
  BY DEF FlattenSeq, Flattens

\* One more part.
LEMMA FlattenSeqStep ==
  ASSUME NEW q, NEW p, NEW n \in Nat, Len(q) = n, Len(p) = n + 1, \A i \in 1..n : q[i] = p[i]
  PROVE  /\ n = 0 => FlattenSeq(q) = q /\ FlattenSeq(p) = p[1]
         /\ n # 0 => FlattenSeq(p) = FlattenSeq(q) \o p[n + 1]
<1> DEFINE f == CHOOSE x : Flattens(x, q, n)
           g == CHOOSE x : Flattens(x, p, n + 1)
<1>1. Flattens(f, q, n)
  BY FlattensExists
<1>2. Flattens(g, p, n + 1)
  <2>1. n + 1 \in Nat
    OBVIOUS
  <2> QED BY <2>1, FlattensExists
<1>3. FlattenSeq(p) = g[n + 1]
  BY FlattenSeqIs
<1>4. n # 0 => FlattenSeq(q) = f[n]
  BY FlattenSeqIs
<1> HIDE DEF f, g
<1>5. g[n + 1] = IF n + 1 = 1 THEN p[n + 1] ELSE g[n] \o p[n + 1]
  <2>1. n + 1 \in 1..n + 1 /\ (n + 1) - 1 = n
    OBVIOUS
  <2> QED BY <1>2, <2>1 DEF Flattens
<1>6. n # 0 => f[n] = g[n]
  <2>1. n + 1 \in Nat /\ n <= n + 1
    OBVIOUS
  <2>2. \A i \in 1..n : f[i] = g[i]
    BY <1>1, <1>2, <2>1, FlattensAgree
  <2> QED BY <2>2
<1>7. n = 0 => FlattenSeq(q) = q
  BY DEF FlattenSeq
<1>8. CASE n = 0
  <2>1. n + 1 = 1
    BY <1>8
  <2>2. FlattenSeq(p) = p[1]
    BY <1>3, <1>5, <2>1
  <2> QED BY <1>7, <1>8, <2>2
<1>9. CASE n # 0
  <2>1. n + 1 # 1
    BY <1>9
  <2>2. FlattenSeq(p) = g[n] \o p[n + 1]
    BY <1>3, <1>5, <2>1
  <2> QED BY <1>4, <1>6, <1>9, <2>2
<1> QED BY <1>8, <1>9

(* Masking again *)

Symbols == STRING \cup {"{", "}", "p", "P"}
Texts == Seq(Symbols)
IsPlain(s) == s \in Texts /\ \A i \in 1..Len(s) : s[i] # "P"
MaskOf(c) == IF c = "P" THEN Token("p") ELSE <<c>>
Masks(s) == [i \in 1..Len(s) |-> IF s[i] = "P" THEN Token("p") ELSE <<s[i]>>]

\* The laws of sequences, for texts.
LEMMA TextLens == \A s \in Texts : Len(s) \in Nat /\ DOMAIN s = 1..Len(s)
  BY LenProperties DEF Texts
LEMMA TextSymbols == <<>> \in Texts /\ \A c \in Symbols : <<c>> \in Texts
<1>1. <<>> \in Seq(Symbols)
  OBVIOUS
<1>2. ASSUME NEW c \in Symbols PROVE <<c>> \in Seq(Symbols)
  <2> QED OBVIOUS
<1> QED BY <1>1, <1>2 DEF Texts
LEMMA TextConcat ==
  ASSUME NEW a \in Texts, NEW b \in Texts
  PROVE  a \o b \in Texts /\ a \o <<>> = a /\ <<>> \o a = a
<1> USE DEF Texts
<1>1. a \o b \in Seq(Symbols)
  BY ConcatProperties
<1>2. a \o <<>> = a /\ <<>> \o a = a
  BY ConcatEmptySeq
<1> QED BY <1>1, <1>2
LEMMA TextAssociative ==
  ASSUME NEW a \in Texts, NEW b \in Texts, NEW c \in Texts
  PROVE  (a \o b) \o c = a \o (b \o c)
<1> USE DEF Texts
<1> QED BY ConcatAssociative
IsAssociative(a, b, c) == (a \o b) \o c = a \o (b \o c)
LEMMA TextsAssociate ==
  ASSUME NEW a \in Texts, NEW b \in Texts, NEW c \in Texts
  PROVE  IsAssociative(a, b, c)
  BY TextAssociative, Zenon DEF IsAssociative
LEMMA TextAppend ==
  ASSUME NEW a \in Texts, NEW c \in Symbols
  PROVE  /\ Append(a, c) \in Texts /\ Append(a, c) = a \o <<c>> /\ Len(Append(a, c)) = Len(a) + 1
         /\ Append(a, c)[Len(a) + 1] = c /\ \A i \in 1..Len(a) : Append(a, c)[i] = a[i]
<1> USE DEF Texts
<1>1. Append(a, c) = a \o <<c>>
  BY AppendIsConcat
<1>2. a \in Seq(Symbols)
  OBVIOUS
<1>3. Append(a, c) \in Seq(Symbols) /\ Len(Append(a, c)) = Len(a) + 1
  BY <1>2, AppendProperties
<1>4. Append(a, c)[Len(a) + 1] = c /\ \A i \in 1..Len(a) : Append(a, c)[i] = a[i]
  BY <1>2, AppendProperties
<1> QED BY <1>1, <1>3, <1>4

LEMMA MasksAre ==
  ASSUME NEW s \in Texts
  PROVE  /\ Len(Masks(s)) = Len(s) /\ Remasked(s) = FlattenSeq(Masks(s))
         /\ \A i \in 1..Len(s) : Masks(s)[i] = MaskOf(s[i])
<1>1. Len(s) \in Nat
  BY DEF Texts
<1>2. Len(Masks(s)) = Len(s)
  BY <1>1 DEF Masks
<1> QED BY <1>2 DEF Remasked, Masks, MaskOf

LEMMA MaskIsText ==
  ASSUME NEW c \in Symbols
  PROVE  MaskOf(c) \in Texts /\ (c # "P" => MaskOf(c) = <<c>>)
<1>1. Token("p") \in Seq(Symbols)
  <2>1. "{" \in Symbols /\ "p" \in Symbols /\ "}" \in Symbols
    BY DEF Symbols
  <2>2. ASSUME NEW a \in Symbols, NEW b \in Symbols, NEW e \in Symbols
        PROVE  <<a, a, b, e, e>> \in Seq(Symbols)
    OBVIOUS
  <2> QED BY <2>1, <2>2 DEF Token
<1>2. <<c>> \in Texts
  BY TextSymbols
<1> QED BY <1>1, <1>2 DEF MaskOf, Texts

LEMMA RemaskedStarts == Remasked(<<>>) = <<>>
<1>1. <<>> \in Texts /\ Len(<<>>) = 0
  BY DEF Texts
<1>2. Len(Masks(<<>>)) = 0 /\ Remasked(<<>>) = FlattenSeq(Masks(<<>>))
  BY <1>1, MasksAre
<1>3. Masks(<<>>) = <<>>
  BY <1>1 DEF Masks
<1> QED BY <1>2, <1>3 DEF FlattenSeq

\* A text of one symbol, and one symbol more.
LEMMA RemaskedAppend ==
  ASSUME NEW s \in Texts, NEW c \in Symbols, Remasked(s) \in Texts
  PROVE  Remasked(Append(s, c)) = Remasked(s) \o MaskOf(c)
<1> DEFINE t == Append(s, c)
           n == Len(s)
           q == Masks(s)
           p == Masks(t)
<1>1. /\ t \in Texts /\ n \in Nat /\ Len(t) = n + 1
      /\ t[n + 1] = c /\ \A i \in 1..n : t[i] = s[i]
  BY TextAppend, TextLens
<1> HIDE DEF t
<1>2. Len(q) = n /\ Remasked(s) = FlattenSeq(q) /\ \A i \in 1..n : q[i] = MaskOf(s[i])
  BY MasksAre
<1>3. Len(p) = n + 1 /\ Remasked(t) = FlattenSeq(p) /\ \A i \in 1..n + 1 : p[i] = MaskOf(t[i])
  BY <1>1, MasksAre
<1> HIDE DEF q, p, n
<1>4. \A i \in 1..n : q[i] = p[i]
  <2> SUFFICES ASSUME NEW i \in 1..n PROVE q[i] = p[i]
    OBVIOUS
  <2>1. i \in 1..n + 1
    BY <1>1
  <2> QED BY <1>1, <1>2, <1>3, <2>1
<1>5. p[n + 1] = MaskOf(c)
  <2>1. n + 1 \in 1..n + 1
    BY <1>1
  <2> QED BY <1>1, <1>3, <2>1
<1>6. CASE n = 0
  <2>1. s = <<>> /\ n + 1 = 1
    BY <1>6, EmptySeq DEF n, Texts
  <2>2. FlattenSeq(p) = p[1]
    BY <1>1, <1>2, <1>3, <1>4, <1>6, FlattenSeqStep
  <2>3. MaskOf(c) \in Texts
    BY MaskIsText
  <2>4. <<>> \o MaskOf(c) = MaskOf(c)
    BY <2>3, TextConcat
  <2> QED BY <1>3, <1>5, <2>1, <2>2, <2>4, RemaskedStarts DEF t
<1>7. CASE n # 0
  <2>1. FlattenSeq(p) = FlattenSeq(q) \o p[n + 1]
    BY <1>1, <1>2, <1>3, <1>4, <1>7, FlattenSeqStep, SMTT(30)
  <2> QED BY <1>2, <1>3, <1>5, <2>1 DEF t
<1> QED BY <1>6, <1>7

\* The shortest text in a set of texts.
LEMMA ShortestText ==
  ASSUME NEW T \in SUBSET Texts, T # {}
  PROVE  \E s \in T : \A t \in T : Len(s) <= Len(t)
<1> DEFINE lens == {n \in Nat : \E t \in T : Len(t) = n}
<1>1. \A t \in T : Len(t) \in lens
  BY DEF Texts
<1>2. PICK k \in lens : \A m \in lens : k <= m
  <2>1. lens \in SUBSET Nat /\ lens # {}
    BY <1>1
  <2> HIDE DEF lens
  <2> QED BY <2>1, LeastNumber
<1>3. PICK s \in T : Len(s) = k
  BY <1>2
<1> QED BY <1>1, <1>2, <1>3

LEMMA TextEnds ==
  ASSUME NEW s \in Texts, s # <<>>
  PROVE  \E t \in Texts, c \in Symbols :
           /\ s = Append(t, c) /\ Len(t) < Len(s) /\ s[Len(s)] = c
           /\ \A i \in 1..Len(t) : i \in 1..Len(s) /\ s[i] = t[i]
<1>1. PICK t \in Texts, c \in Symbols : s = Append(t, c)
  BY SequenceEmptyOrAppend DEF Texts
<1>2. Len(t) \in Nat
  BY TextLens
<1>3. Len(s) = Len(t) + 1 /\ s[Len(t) + 1] = c /\ \A i \in 1..Len(t) : s[i] = t[i]
  BY <1>1, TextAppend
<1>4. Len(t) < Len(s) /\ s[Len(s)] = c
  BY <1>2, <1>3
<1>5. \A i \in 1..Len(t) : i \in 1..Len(s) /\ s[i] = t[i]
  BY <1>2, <1>3
<1> QED BY <1>1, <1>4, <1>5

LEMMA RemaskedIsText ==
  ASSUME NEW s \in Texts
  PROVE  Remasked(s) \in Texts
<1> DEFINE bad == {t \in Texts : Remasked(t) \notin Texts}
<1>1. SUFFICES ASSUME bad # {} PROVE FALSE
  OBVIOUS
<1>2. PICK t \in bad : \A u \in bad : Len(t) <= Len(u)
  <2>1. bad \in SUBSET Texts
    OBVIOUS
  <2> HIDE DEF bad
  <2> QED BY <1>1, <2>1, ShortestText
<1>3. t \in Texts /\ Remasked(t) \notin Texts
  BY <1>2
<1>4. t # <<>>
  <2>1. <<>> \in Texts
    BY DEF Texts
  <2> QED BY <1>3, <2>1, RemaskedStarts
<1>5. PICK u \in Texts, c \in Symbols : t = Append(u, c) /\ Len(u) < Len(t)
  BY <1>3, <1>4, TextEnds
<1>6. Remasked(u) \in Texts
  <2>1. Len(u) \in Nat /\ Len(t) \in Nat
    BY <1>3 DEF Texts
  <2>2. u \notin bad
    BY <1>2, <1>5, <2>1
  <2> QED BY <2>2
<1>7. Remasked(t) = Remasked(u) \o MaskOf(c)
  BY <1>5, <1>6, RemaskedAppend
<1> QED BY <1>3, <1>6, <1>7, MaskIsText, TextConcat

\* Masking goes symbol by symbol.
LEMMA RemaskedConcat ==
  ASSUME NEW a \in Texts, NEW b \in Texts
  PROVE  Remasked(a \o b) = Remasked(a) \o Remasked(b)
<1> DEFINE bad == {t \in Texts : Remasked(a \o t) # Remasked(a) \o Remasked(t)}
<1>1. SUFFICES ASSUME bad # {} PROVE FALSE
  OBVIOUS
<1>2. PICK t \in bad : \A u \in bad : Len(t) <= Len(u)
  <2>1. bad \in SUBSET Texts
    OBVIOUS
  <2> HIDE DEF bad
  <2> QED BY <1>1, <2>1, ShortestText
<1>3. t \in Texts /\ Remasked(a \o t) # Remasked(a) \o Remasked(t)
  BY <1>2
<1>4. t # <<>>
  <2>1. a \o <<>> = a
    BY TextConcat
  <2>2. Remasked(a) \o <<>> = Remasked(a)
    BY RemaskedIsText, TextConcat
  <2> QED BY <1>3, <2>1, <2>2, RemaskedStarts
<1>5. PICK u \in Texts, c \in Symbols : t = Append(u, c) /\ Len(u) < Len(t)
  BY <1>3, <1>4, TextEnds
<1>6. Remasked(a \o u) = Remasked(a) \o Remasked(u)
  <2>1. Len(u) \in Nat /\ Len(t) \in Nat
    BY <1>3 DEF Texts
  <2>2. u \notin bad
    BY <1>2, <1>5, <2>1
  <2> QED BY <2>2
<1>7. a \o t = Append(a \o u, c) /\ a \o u \in Texts
  <2>1. a \o u \in Texts /\ <<c>> \in Texts
    BY TextConcat, TextSymbols
  <2>2. t = u \o <<c>> /\ Append(a \o u, c) = (a \o u) \o <<c>>
    BY <1>5, <2>1, TextAppend
  <2>3. (a \o u) \o <<c>> = a \o (u \o <<c>>)
    <3>1. IsAssociative(a, u, <<c>>)
      BY <2>1, TextsAssociate
    <3> QED BY <3>1 DEF IsAssociative
  <2> QED BY <2>1, <2>2, <2>3
<1>8. Remasked(a \o t) = Remasked(a \o u) \o MaskOf(c) /\ Remasked(t) = Remasked(u) \o MaskOf(c)
  BY <1>5, <1>7, RemaskedAppend, RemaskedIsText
<1>9. (Remasked(a) \o Remasked(u)) \o MaskOf(c) = Remasked(a) \o (Remasked(u) \o MaskOf(c))
  <2>1. Remasked(a) \in Texts /\ Remasked(u) \in Texts
    BY RemaskedIsText
  <2>2. MaskOf(c) \in Texts
    BY MaskIsText
  <2> HIDE DEF bad
  <2>3. IsAssociative(Remasked(a), Remasked(u), MaskOf(c))
    BY <2>1, <2>2, TextsAssociate
  <2> QED BY <2>3 DEF IsAssociative
<1> QED BY <1>3, <1>6, <1>8, <1>9

LEMMA RemaskedOne ==
  ASSUME NEW c \in Symbols
  PROVE  Remasked(<<c>>) = MaskOf(c)
<1>1. <<>> \in Texts /\ Append(<<>>, c) = <<c>>
  BY TextSymbols
<1>2. Remasked(<<c>>) = <<>> \o MaskOf(c)
  BY <1>1, RemaskedAppend, RemaskedStarts
<1> QED BY <1>2, MaskIsText, TextConcat

\* What has no original in it is masked as it is.
LEMMA RemaskedPlain ==
  ASSUME NEW s, IsPlain(s)
  PROVE  Remasked(s) = s
<1> DEFINE bad == {t \in Texts : IsPlain(t) /\ Remasked(t) # t}
<1>1. SUFFICES ASSUME bad # {} PROVE FALSE
  BY DEF IsPlain
<1>2. PICK t \in bad : \A u \in bad : Len(t) <= Len(u)
  <2>1. bad \in SUBSET Texts
    OBVIOUS
  <2> HIDE DEF bad
  <2> QED BY <1>1, <2>1, ShortestText
<1>3. t \in Texts /\ IsPlain(t) /\ Remasked(t) # t
  BY <1>2
<1>4. t # <<>>
  BY <1>3, RemaskedStarts
<1>5. PICK u \in Texts, c \in Symbols : /\ t = Append(u, c) /\ Len(u) < Len(t) /\ t[Len(t)] = c
                                       /\ \A i \in 1..Len(u) : i \in 1..Len(t) /\ t[i] = u[i]
  BY <1>3, <1>4, TextEnds
<1>6. Len(u) \in Nat /\ Len(t) \in Nat
  BY <1>3 DEF Texts
<1>7. c # "P" /\ IsPlain(u)
  <2>1. Len(t) \in 1..Len(t)
    BY <1>5, <1>6
  <2> QED BY <1>3, <1>5, <2>1 DEF IsPlain
<1>8. Remasked(u) = u
  <2>1. u \notin bad
    BY <1>2, <1>5, <1>6
  <2> QED BY <1>7, <2>1
<1>9. Remasked(t) = u \o <<c>>
  BY <1>5, <1>7, <1>8, RemaskedAppend, RemaskedIsText, MaskIsText
<1>10. t = u \o <<c>>
  BY <1>5, TextAppend
<1> QED BY <1>3, <1>9, <1>10

(* restoreComplete *)

\* A function that is defined from later places exists.
IsChain(r, N, pre, nx) == r = [i \in 1..N + 1 |-> IF i > N THEN <<>> ELSE pre[i] \o r[nx[i]]]
LEMMA ChainExists ==
  ASSUME NEW N \in Nat, NEW pre, NEW nx, \A i \in 1..N : nx[i] \in i + 1..N + 1
  PROVE  \E r : IsChain(r, N, pre, nx)
<1> DEFINE Part(f, k) == f = [i \in N + 1 - k..N + 1 |-> IF i > N THEN <<>> ELSE pre[i] \o f[nx[i]]]
           bad == {k \in Nat : k <= N /\ ~\E f : Part(f, k)}
<1>1. SUFFICES ASSUME bad # {} PROVE FALSE
  <2>1. SUFFICES ASSUME bad = {} PROVE \E r : IsChain(r, N, pre, nx)
    BY <2>1, <1>1
  <2>2. N \in Nat /\ N <= N /\ N + 1 - N = 1
    OBVIOUS
  <2>3. PICK f : Part(f, N)
    BY <2>1, <2>2
  <2>4. f = [i \in 1..N + 1 |-> IF i > N THEN <<>> ELSE pre[i] \o f[nx[i]]]
    BY <2>2, <2>3
  <2> QED BY <2>4 DEF IsChain
<1>2. PICK k \in bad : \A m \in bad : k <= m
  <2>1. bad \in SUBSET Nat
    OBVIOUS
  <2> HIDE DEF bad
  <2> QED BY <1>1, <2>1, LeastNumber
<1>3. k \in Nat /\ k <= N /\ ~\E f : Part(f, k)
  BY <1>2
<1>4. k # 0
  <2> DEFINE f == [i \in N + 1 - 0..N + 1 |-> <<>>]
  <2>1. f = [i \in N + 1 - 0..N + 1 |-> IF i > N THEN <<>> ELSE pre[i] \o f[nx[i]]]
    <3>1. \A i \in N + 1 - 0..N + 1 : i > N
      OBVIOUS
    <3> QED BY <3>1
  <2>2. Part(f, 0)
    BY <2>1
  <2> HIDE DEF f
  <2> QED BY <1>3, <2>2
<1>5. PICK h : Part(h, k - 1)
  <2>1. k - 1 \in Nat /\ k - 1 <= N /\ ~(k <= k - 1)
    BY <1>3, <1>4
  <2>2. k - 1 \notin bad
    <3> HIDE DEF bad
    <3> QED BY <1>2, <2>1
  <2> QED BY <2>1, <2>2
<1> DEFINE D == N + 1 - k..N + 1
           f == [i \in D |-> IF i > N THEN <<>> ELSE pre[i] \o h[nx[i]]]
<1>6. \A i \in N + 1 - (k - 1)..N + 1 : h[i] = f[i]
  <2>1. \A i \in N + 1 - (k - 1)..N + 1 : i \in D
    BY <1>3
  <2> HIDE DEF D
  <2> QED BY <1>5, <2>1
<1>7. \A i \in D : i <= N => nx[i] \in N + 1 - (k - 1)..N + 1
  <2> SUFFICES ASSUME NEW i \in D, i <= N PROVE nx[i] \in N + 1 - (k - 1)..N + 1
    OBVIOUS
  <2>1. i \in 1..N /\ i >= N + 1 - k /\ i \in Int
    BY <1>3
  <2>2. nx[i] \in i + 1..N + 1
    BY <2>1
  <2> QED BY <1>3, <2>1, <2>2
<1>8. \A i \in D : f[i] = IF i > N THEN <<>> ELSE pre[i] \o f[nx[i]]
  <2> SUFFICES ASSUME NEW i \in D, ~(i > N) PROVE h[nx[i]] = f[nx[i]]
    OBVIOUS
  <2>1. i <= N
    BY <1>3
  <2> HIDE DEF D, f
  <2> QED BY <1>6, <1>7, <2>1
<1>9. f = [i \in D |-> IF i > N THEN <<>> ELSE pre[i] \o f[nx[i]]]
  BY <1>8
<1>10. Part(f, k)
  BY <1>9
<1> HIDE DEF f
<1> QED BY <1>3, <1>10

Restores(r, s) ==
  r = [i \in 1..Len(s) + 1 |->
         IF i > Len(s) THEN <<>>
         ELSE IF i \in Occurs(Token("p"), s) THEN <<"P">> \o r[i + 5]
         ELSE <<s[i]>> \o r[i + 1]]

LEMMA OccursFacts ==
  ASSUME NEW s \in Texts, NEW i \in Occurs(Token("p"), s)
  PROVE  i \in 1..Len(s) /\ i + 4 <= Len(s) /\ SubSeq(s, i, i + 4) = Token("p")
<1>1. Len(Token("p")) = 5
  BY DEF Token
<1>2. Len(s) \in Nat
  BY TextLens
<1>3. i \in 1..(Len(s) - 5 + 1) /\ SubSeq(s, i, i + 5 - 1) = Token("p")
  BY <1>1 DEF Occurs
<1>4. i \in Nat /\ i + 5 - 1 = i + 4
  BY <1>3
<1> QED BY <1>2, <1>3, <1>4

LEMMA RestoreExists ==
  ASSUME NEW s \in Texts
  PROVE  \E r : Restores(r, s) /\ restoreComplete(s) = r[1]
<1> DEFINE N == Len(s)
           O == Occurs(Token("p"), s)
           pre == [i \in 1..N |-> IF i \in O THEN <<"P">> ELSE <<s[i]>>]
           nx == [i \in 1..N |-> IF i \in O THEN i + 5 ELSE i + 1]
<1>1. N \in Nat
  BY TextLens
<1>2. \A i \in O : i + 4 <= N
  BY OccursFacts
<1> HIDE DEF O, N
<1>3. \A i \in 1..N : nx[i] \in i + 1..N + 1
  BY <1>1, <1>2
<1>4. PICK r : IsChain(r, N, pre, nx)
  <2> HIDE DEF pre, nx
  <2> QED BY <1>1, <1>3, ChainExists
<1>5. \A i \in 1..N + 1 : (IF i > N THEN <<>> ELSE pre[i] \o r[nx[i]])
                            = IF i > N THEN <<>> ELSE IF i \in O THEN <<"P">> \o r[i + 5] ELSE <<s[i]>> \o r[i + 1]
  BY <1>1
<1>6. r = [i \in 1..N + 1 |->
             IF i > N THEN <<>> ELSE IF i \in O THEN <<"P">> \o r[i + 5] ELSE <<s[i]>> \o r[i + 1]]
  <2> HIDE DEF pre, nx
  <2> QED BY <1>4, <1>5 DEF IsChain
<1>7. Restores(r, s)
  BY <1>6 DEF Restores, N, O
<1>8. restoreComplete(s) = (CHOOSE x : Restores(x, s))[1]
  BY DEF restoreComplete, Restores
<1> QED BY <1>7, <1>8

\* What was restored is, masked again, what came.
LEMMA RestoreInverts ==
  ASSUME NEW s, IsPlain(s)
  PROVE  restoreComplete(s) \in Texts /\ Remasked(restoreComplete(s)) = s
<1> DEFINE N == Len(s)
<1>1. N \in Nat /\ s \in Texts /\ \A i \in 1..N : s[i] \in Symbols /\ s[i] # "P"
  BY TextLens, ElementOfSeq DEF IsPlain, Texts
<1>2. PICK r : Restores(r, s) /\ restoreComplete(s) = r[1]
  BY <1>1, RestoreExists
<1> DEFINE Good(i) == r[i] \in Texts /\ Remasked(r[i]) = SubSeq(s, i, N)
           bad == {k \in Nat : k <= N /\ ~Good(N + 1 - k)}
<1>3. SUFFICES ASSUME bad # {} PROVE FALSE
  <2>1. SUFFICES ASSUME bad = {} PROVE restoreComplete(s) \in Texts /\ Remasked(restoreComplete(s)) = s
    BY <2>1, <1>3
  <2>2. N + 1 - N = 1 /\ N <= N
    BY <1>1
  <2>3. Good(1)
    BY <1>1, <2>1, <2>2
  <2>4. SubSeq(s, 1, N) = s
    BY <1>1, SubSeqFull DEF Texts
  <2> QED BY <1>2, <2>3, <2>4
<1>4. PICK k \in bad : \A m \in bad : k <= m
  <2>1. bad \in SUBSET Nat
    OBVIOUS
  <2> HIDE DEF bad
  <2> QED BY <1>3, <2>1, LeastNumber
<1> DEFINE i == N + 1 - k
<1>5. k \in Nat /\ k <= N /\ ~Good(i) /\ i \in 1..N + 1
  BY <1>1, <1>4
<1>6. \A j \in i + 1..N + 1 : Good(j)
  <2> SUFFICES ASSUME NEW j \in i + 1..N + 1 PROVE Good(j)
    OBVIOUS
  <2> DEFINE m == N + 1 - j
  <2>1. m \in Nat /\ m < k /\ m <= N /\ N + 1 - m = j
    BY <1>1, <1>5
  <2> HIDE DEF m
  <2>2. m \notin bad
    BY <1>4, <1>5, <2>1
  <2> QED BY <2>1, <2>2
<1>7. r[i] = IF i > N THEN <<>>
             ELSE IF i \in Occurs(Token("p"), s) THEN <<"P">> \o r[i + 5] ELSE <<s[i]>> \o r[i + 1]
  BY <1>2, <1>5 DEF Restores
<1> HIDE DEF bad, i
<1>8. CASE i > N
  <2>1. r[i] = <<>> /\ SubSeq(s, i, N) = <<>>
    BY <1>1, <1>5, <1>7, <1>8, SubSeqEmpty
  <2> QED BY <1>5, <2>1, TextSymbols, RemaskedStarts
<1>9. CASE i <= N /\ i \in Occurs(Token("p"), s)
  <2>1. i + 4 <= N /\ SubSeq(s, i, i + 4) = Token("p") /\ i \in 1..N
    BY <1>1, <1>9, OccursFacts
  <2>2. r[i] = <<"P">> \o r[i + 5] /\ Good(i + 5)
    BY <1>1, <1>6, <1>7, <1>9, <2>1
  <2>3. <<"P">> \in Texts /\ "P" \in Symbols
    BY TextSymbols DEF Symbols
  <2>4. r[i] \in Texts /\ Remasked(r[i]) = Remasked(<<"P">>) \o Remasked(r[i + 5])
    <3>1. PICK x, y : x = <<"P">> /\ y = r[i + 5]
      OBVIOUS
    <3>2. x \in Texts /\ y \in Texts /\ r[i] = x \o y
      BY <2>2, <2>3, <3>1
    <3>3. r[i] \in Texts /\ Remasked(x \o y) = Remasked(x) \o Remasked(y)
      BY <3>2, TextConcat, RemaskedConcat
    <3> QED BY <3>1, <3>2, <3>3
  <2>5. Remasked(<<"P">>) = Token("p")
    BY <2>3, RemaskedOne DEF MaskOf
  <2>6. SubSeq(s, i, i + 4) \o SubSeq(s, (i + 4) + 1, N) = SubSeq(s, i, N)
    <3>1. i \in 1..N + 1 /\ i + 4 \in i - 1..N /\ N \in i + 4..N
      BY <1>1, <2>1
    <3>2. s \in Seq(Symbols)
      BY <1>1 DEF Texts
    <3> QED BY <3>1, <3>2, ConcatAdjacentSubSeq
  <2>7. (i + 4) + 1 = i + 5
    BY <2>1
  <2> QED BY <1>5, <2>1, <2>2, <2>4, <2>5, <2>6, <2>7
<1>10. CASE i <= N /\ i \notin Occurs(Token("p"), s)
  <2>1. i \in 1..N /\ s[i] \in Symbols /\ s[i] # "P"
    BY <1>1, <1>5, <1>10
  <2>2. r[i] = <<s[i]>> \o r[i + 1] /\ Good(i + 1)
    BY <1>1, <1>6, <1>7, <1>10, <2>1
  <2>3. <<s[i]>> \in Texts
    BY <2>1, TextSymbols
  <2>4. r[i] \in Texts /\ Remasked(r[i]) = Remasked(<<s[i]>>) \o Remasked(r[i + 1])
    <3>1. PICK x, y : x = <<s[i]>> /\ y = r[i + 1]
      OBVIOUS
    <3>2. x \in Texts /\ y \in Texts /\ r[i] = x \o y
      BY <2>2, <2>3, <3>1
    <3>3. r[i] \in Texts /\ Remasked(x \o y) = Remasked(x) \o Remasked(y)
      BY <3>2, TextConcat, RemaskedConcat
    <3> QED BY <3>1, <3>2, <3>3
  <2>5. Remasked(<<s[i]>>) = <<s[i]>>
    BY <2>1, RemaskedOne DEF MaskOf
  <2>6. SubSeq(s, i, N) = <<s[i]>> \o SubSeq(s, i + 1, N)
    <3>1. N \in i..N
      BY <1>1, <2>1
    <3> QED BY <1>1, <2>1, <3>1, SubSeqRecursiveFirst DEF Texts
  <2> QED BY <1>5, <2>2, <2>4, <2>5, <2>6
<1> QED BY <1>1, <1>5, <1>8, <1>9, <1>10

(* scanAndRestore and PushChannel *)

LEMMA PlainPiece ==
  ASSUME NEW s, IsPlain(s), NEW m \in 1..Len(s) + 1, NEW k \in m - 1..Len(s)
  PROVE  IsPlain(SubSeq(s, m, k))
<1> DEFINE N == Len(s)
           piece == SubSeq(s, m, k)
<1>1. N \in Nat /\ s \in Texts /\ s \in Seq(Symbols) /\ \A i \in 1..N : s[i] # "P"
  BY TextLens DEF IsPlain, Texts
<1>2. m \in Int /\ k \in Int /\ \A i \in m..k : i \in 1..N
  BY <1>1
<1>3. \A i \in m..k : s[i] \in Symbols
  BY <1>1, <1>2, ElementOfSeq
<1>4. /\ piece \in Seq(Symbols) /\ Len(piece) = k - m + 1
      /\ \A i \in 1..k - m + 1 : piece[i] = s[m + i - 1]
  <2>1. Len(piece) = IF m <= k THEN k - m + 1 ELSE 0
    BY <1>2, <1>3, SubSeqProperties
  <2>2. m <= k \/ k - m + 1 = 0
    BY <1>1, <1>2
  <2> QED BY <1>2, <1>3, <2>1, <2>2, SubSeqProperties
<1>5. \A i \in 1..k - m + 1 : m + i - 1 \in 1..N
  BY <1>1, <1>2
<1> HIDE DEF piece, N
<1>6. IsPlain(piece)
  BY <1>1, <1>4, <1>5 DEF IsPlain, Texts
<1> QED BY <1>6 DEF piece

LEMMA PlainCut ==
  ASSUME NEW s, IsPlain(s), NEW n \in 0..Len(s)
  PROVE  /\ IsPlain(SubSeq(s, 1, n)) /\ IsPlain(SubSeq(s, n + 1, Len(s)))
         /\ SubSeq(s, 1, n) \o SubSeq(s, n + 1, Len(s)) = s
<1> USE DEF Texts
<1>1. Len(s) \in Nat /\ s \in Seq(Symbols)
  BY TextLens DEF IsPlain
<1>2. 1 \in 1..Len(s) + 1 /\ n \in 1 - 1..Len(s) /\ n + 1 \in 1..Len(s) + 1 /\ Len(s) \in (n + 1) - 1..Len(s)
  BY <1>1
<1>3. Len(s) \in n..Len(s)
  BY <1>1
<1>4. SubSeq(s, 1, n) \o SubSeq(s, n + 1, Len(s)) = SubSeq(s, 1, Len(s))
  BY <1>1, <1>2, <1>3, ConcatAdjacentSubSeq
<1>5. SubSeq(s, 1, Len(s)) = s
  BY <1>1, SubSeqFull
<1>6. IsPlain(SubSeq(s, 1, n))
  BY <1>2, PlainPiece
<1>7. IsPlain(SubSeq(s, n + 1, Len(s)))
  BY <1>2, PlainPiece
<1> QED BY <1>4, <1>5, <1>6, <1>7, Zenon

LEMMA PlainConcat ==
  ASSUME NEW a, NEW b, IsPlain(a), IsPlain(b)
  PROVE  IsPlain(a \o b)
<1>1. a \in Texts /\ b \in Texts /\ a \o b \in Texts
  BY TextConcat DEF IsPlain
<1>2. /\ Len(a) \in Nat /\ Len(b) \in Nat /\ Len(a \o b) = Len(a) + Len(b)
      /\ \A i \in 1..Len(a) + Len(b) : (a \o b)[i] = IF i <= Len(a) THEN a[i] ELSE b[i - Len(a)]
  <2>1. a \in Seq(Symbols) /\ b \in Seq(Symbols)
    BY <1>1 DEF Texts
  <2> QED BY <1>1, <2>1, TextLens, ConcatProperties
<1>3. \A i \in 1..Len(a) + Len(b) : (a \o b)[i] # "P"
  <2> SUFFICES ASSUME NEW i \in 1..Len(a) + Len(b) PROVE (a \o b)[i] # "P"
    OBVIOUS
  <2>1. i <= Len(a) => i \in 1..Len(a)
    BY <1>2
  <2>2. ~(i <= Len(a)) => i - Len(a) \in 1..Len(b)
    BY <1>2
  <2> QED BY <1>2, <2>1, <2>2 DEF IsPlain
<1> QED BY <1>1, <1>2, <1>3 DEF IsPlain

LEMMA PairsInside == \A c : \A s \in Texts : \A i \in Occurs(<<c, c>>, s) : i \in 1..Len(s)
<1> SUFFICES ASSUME NEW c, NEW s \in Texts, NEW i \in Occurs(<<c, c>>, s) PROVE i \in 1..Len(s)
  OBVIOUS
<1>1. Len(s) \in Nat /\ Len(<<c, c>>) = 2
  BY TextLens
<1>2. i \in 1..(Len(s) - 2 + 1)
  BY <1>1 DEF Occurs
<1> QED BY <1>1, <1>2

\* A text is cut in two: the restored head is sent, the rest is held back as it came.
LEMMA ScanCuts ==
  ASSUME NEW s, IsPlain(s)
  PROVE  \E n \in 0..Len(s) :
           scanAndRestore(s) = [send |-> restoreComplete(SubSeq(s, 1, n)), hold |-> SubSeq(s, n + 1, Len(s))]
<1> DEFINE N == Len(s)
           opens == Occurs(<<"{", "{">>, s)
           last == CHOOSE i \in opens : \A j \in opens : j <= i
           closes == Occurs(<<"}", "}">>, SubSeq(s, last, N))
           cut(n) == [send |-> restoreComplete(SubSeq(s, 1, n)), hold |-> SubSeq(s, n + 1, N)]
<1>1. N \in Nat
  BY TextLens DEF IsPlain
<1>2. scanAndRestore(s) = IF opens = {}
                          THEN IF s # <<>> /\ s[N] = "{" THEN cut(N - 1) ELSE cut(N)
                          ELSE IF closes # {} THEN cut(N) ELSE cut(last - 1)
  BY DEF scanAndRestore
<1>3. \A i \in opens : i \in 1..N
  <2>1. opens = Occurs(<<"{", "{">>, s)
    OBVIOUS
  <2>2. s \in Texts
    BY DEF IsPlain
  <2> HIDE DEF opens, N
  <2>3. \A i \in Occurs(<<"{", "{">>, s) : i \in 1..Len(s)
    BY <2>2, PairsInside, Zenon
  <2> QED BY <2>1, <2>3, Zenon DEF N
<1>4. opens # {} => last \in opens
  <2> HIDE DEF opens, N, closes, cut
  <2> SUFFICES ASSUME opens # {} PROVE \E i \in opens : \A j \in opens : j <= i
    BY ZenonT(30)
  <2> DEFINE ends == {k \in Nat : k <= N /\ N - k \in opens}
  <2>1. PICK i \in opens : TRUE
    OBVIOUS
  <2>2. ends \in SUBSET Nat /\ N - i \in ends
    BY <1>1, <1>3, <2>1
  <2>3. PICK k \in ends : \A m \in ends : k <= m
    <3> HIDE DEF ends
    <3> QED BY <2>2, LeastNumber
  <2>4. \A j \in opens : N - j \in ends
    BY <1>1, <1>3
  <2>5. k \in Nat /\ N - k \in opens
    BY <2>3
  <2>6. \A j \in opens : j <= N - k
    <3> HIDE DEF ends
    <3> QED BY <1>1, <1>3, <2>3, <2>4, <2>5
  <2> QED BY <2>5, <2>6
<1>5. s # <<>> => N # 0
  BY EmptySeq DEF IsPlain, Texts
<1>6. \A n \in 0..N : cut(n) = [send |-> restoreComplete(SubSeq(s, 1, n)), hold |-> SubSeq(s, n + 1, Len(s))]
  OBVIOUS
<1> HIDE DEF N, opens, last, closes, cut
<1>7. N \in 0..N /\ (s # <<>> => N - 1 \in 0..N) /\ (opens # {} => last - 1 \in 0..N)
  BY <1>1, <1>3, <1>4, <1>5
<1>8. \/ scanAndRestore(s) = cut(N)
      \/ s # <<>> /\ scanAndRestore(s) = cut(N - 1)
      \/ opens # {} /\ scanAndRestore(s) = cut(last - 1)
  <2>1. CASE opens = {} /\ s # <<>> /\ s[N] = "{"
    BY <1>2, <2>1, Zenon
  <2>2. CASE opens = {} /\ ~(s # <<>> /\ s[N] = "{")
    BY <1>2, <2>2, Zenon
  <2>3. CASE opens # {}
    BY <1>2, <2>3, Zenon
  <2> QED BY <2>1, <2>2, <2>3, Zenon
<1>9. \E n \in 0..N : scanAndRestore(s) = cut(n)
  BY <1>7, <1>8
<1> QED BY <1>6, <1>9 DEF N

LEMMA PushKeeps ==
  ASSUME NEW held, NEW chunk, IsPlain(held), IsPlain(chunk)
  PROVE  LET p == PushChannel(held, chunk)
         IN  p.send \in Texts /\ IsPlain(p.hold) /\ Remasked(p.send) \o p.hold = held \o chunk
<1> DEFINE s == held \o chunk
           scan == scanAndRestore(s)
           p == PushChannel(held, chunk)
<1>1. IsPlain(s)
  BY PlainConcat
<1> HIDE DEF s
<1>2. PICK n \in 0..Len(s) : scan = [send |-> restoreComplete(SubSeq(s, 1, n)), hold |-> SubSeq(s, n + 1, Len(s))]
  BY <1>1, ScanCuts
<1>3. /\ scan.send \in Texts /\ Remasked(scan.send) = SubSeq(s, 1, n)
      /\ IsPlain(scan.hold) /\ scan.hold = SubSeq(s, n + 1, Len(s))
      /\ Remasked(scan.send) \o scan.hold = s
  <2>1. PICK x, y : x = SubSeq(s, 1, n) /\ y = SubSeq(s, n + 1, Len(s))
    OBVIOUS
  <2>2. IsPlain(x) /\ IsPlain(y) /\ x \o y = s
    BY <1>1, <2>1, PlainCut
  <2>3. restoreComplete(x) \in Texts /\ Remasked(restoreComplete(x)) = x
    BY <2>2, RestoreInverts
  <2>4. scan = [send |-> restoreComplete(x), hold |-> y]
    BY <1>2, <2>1
  <2> HIDE DEF scan
  <2>5. scan.send = restoreComplete(x) /\ scan.hold = y
    BY <2>4
  <2> QED BY <2>1, <2>2, <2>3, <2>5
<1>4. p = IF Len(scan.hold) > PendingMax THEN [send |-> scan.send \o scan.hold, hold |-> <<>>] ELSE scan
  BY DEF PushChannel, s
<1> HIDE DEF scan, p
<1>5. CASE Len(scan.hold) > PendingMax
  <2>1. PICK x, y : x = scan.send /\ y = scan.hold
    OBVIOUS
  <2>2. p.send = x \o y /\ p.hold = <<>>
    BY <1>4, <1>5, <2>1
  <2>3. x \in Texts /\ y \in Texts /\ IsPlain(y) /\ Remasked(x) \o y = s
    BY <1>3, <2>1 DEF IsPlain
  <2>4. x \o y \in Texts /\ Remasked(x \o y) = Remasked(x) \o Remasked(y) /\ Remasked(y) = y
    BY <2>3, TextConcat, RemaskedConcat, RemaskedPlain
  <2>5. s \o <<>> = s
    BY <1>1, TextConcat DEF IsPlain
  <2>6. IsPlain(<<>>)
    <3>1. Len(<<>>) = 0
      OBVIOUS
    <3> QED BY <3>1, TextSymbols DEF IsPlain
  <2> QED BY <2>2, <2>3, <2>4, <2>5, <2>6 DEF p, s
<1>6. CASE ~(Len(scan.hold) > PendingMax)
  <2>1. p = scan
    BY <1>4, <1>6
  <2> QED BY <1>3, <2>1 DEF p, s
<1> QED BY <1>5, <1>6

\* What is sent and held back, x and y, continues what was sent and held back, sh and h.
Continues(sh, x, y, h, c) ==
  sh \o x \in Texts /\ Remasked(sh \o x) \o y = (Remasked(sh) \o h) \o c

LEMMA TextContinues ==
  ASSUME NEW sh \in Texts, NEW x \in Texts, NEW y \in Texts, NEW h \in Texts, NEW c \in Texts,
         Remasked(x) \o y = h \o c
  PROVE  Continues(sh, x, y, h, c)
<1>1. PICK z, r : z = Remasked(sh) /\ r = Remasked(x)
  OBVIOUS
<1>2. z \in Texts /\ r \in Texts /\ r \o y = h \o c
  BY <1>1, RemaskedIsText
<1>3. IsAssociative(z, r, y) /\ IsAssociative(z, h, c)
  BY <1>2, TextsAssociate
<1>4. (z \o r) \o y = (z \o h) \o c
  BY <1>2, <1>3 DEF IsAssociative
<1>5. sh \o x \in Texts
  BY TextConcat
<1>6. Remasked(sh \o x) = z \o r
  BY <1>1, RemaskedConcat
<1> QED BY <1>1, <1>4, <1>5, <1>6 DEF Continues

\* One event: m more symbols of the text a, k of which have arrived.
EventIsKept(a, k, m, h, sh) ==
  LET c == SubSeq(a, k + 1, k + m)
      p == PushChannel(h, c)
  IN  /\ m = 0 => sh \o c = sh
      /\ sh \o p.send \in Texts /\ IsPlain(p.hold)
      /\ Remasked(sh \o p.send) \o p.hold = SubSeq(a, 1, k + m)

LEMMA EventKeeps ==
  ASSUME NEW a, IsPlain(a), NEW k \in 0..Len(a), NEW m \in Nat, k + m <= Len(a),
         NEW h, IsPlain(h), NEW sh \in Texts, Remasked(sh) \o h = SubSeq(a, 1, k)
  PROVE  EventIsKept(a, k, m, h, sh)
<1> DEFINE c == SubSeq(a, k + 1, k + m)
           p == PushChannel(h, c)
<1>1. a \in Seq(Symbols) /\ Len(a) \in Nat
  BY TextLens DEF IsPlain, Texts
<1>2. 1 \in 1..Len(a) + 1 /\ k \in 1 - 1..Len(a) /\ k + 1 \in 1..Len(a) + 1 /\ k + m \in k..Len(a)
      /\ k + m \in (k + 1) - 1..Len(a) /\ k \in Int /\ k + m \in Int /\ k + 1 \in Int
  BY <1>1
<1>3. IsPlain(c)
  BY <1>2, PlainPiece
<1>4. SubSeq(a, 1, k) \o c = SubSeq(a, 1, k + m)
  BY <1>1, <1>2, ConcatAdjacentSubSeq
<1>5. m = 0 => c = <<>>
  <2>1. m = 0 => k + m < k + 1
    BY <1>1
  <2> QED BY <1>2, <2>1, SubSeqEmpty
<1> HIDE DEF c
<1>6. p.send \in Texts /\ IsPlain(p.hold) /\ Remasked(p.send) \o p.hold = h \o c
  BY <1>3, PushKeeps
<1> HIDE DEF p
<1>7. PICK x, y : x = p.send /\ y = p.hold
  OBVIOUS
<1>8. x \in Texts /\ y \in Texts /\ h \in Texts /\ c \in Texts /\ Remasked(x) \o y = h \o c
  BY <1>3, <1>6, <1>7 DEF IsPlain
<1>9. Continues(sh, x, y, h, c)
  BY <1>8, TextContinues
<1>10. sh \o x \in Texts /\ Remasked(sh \o x) \o y = SubSeq(a, 1, k + m)
  BY <1>4, <1>9 DEF Continues
<1>11. m = 0 => sh \o c = sh
  BY <1>5, TextConcat
<1> QED BY <1>6, <1>7, <1>10, <1>11 DEF c, p, EventIsKept

\* An answer has no original in it, and neither has what is held back; what was sent is
\* text, and with what is held back it is what has arrived.
MaskInv ==
  /\ IsPlain(answer["text"]) /\ taken["text"] \in 0..Len(answer["text"])
  /\ IsPlain(heldBack["text"]) /\ shown["text"] \in Texts
  /\ SentOnce

LEMMA AnswersPlain == \A a \in Answers : IsPlain(a)
<1> SUFFICES ASSUME NEW a \in Answers PROVE IsPlain(a)
  OBVIOUS
<1>1. a \in Seq(STRING) /\ \A i \in 1..Len(a) : a[i] # "P"
  BY MaskAssumption
<1>2. \A i \in 1..Len(a) : a[i] \in Symbols
  <2>1. \A i \in 1..Len(a) : a[i] \in STRING
    BY <1>1, ElementOfSeq
  <2> QED BY <2>1, Zenon DEF Symbols
<1>3. a \in Seq(Symbols)
  BY <1>1, <1>2, IsASeq, LenProperties
<1> QED BY <1>1, <1>3 DEF IsPlain, Texts

LEMMA MaskStarts == MaskInit => MaskInv
<1> SUFFICES ASSUME MaskInit PROVE MaskInv
  OBVIOUS
<1>1. answer["text"] \in Answers /\ taken["text"] = 0 /\ heldBack["text"] = <<>> /\ shown["text"] = <<>>
  BY DEF MaskInit, Fields
<1>2. IsPlain(answer["text"])
  BY <1>1, AnswersPlain
<1>3. Len(answer["text"]) \in Nat /\ <<>> \in Texts /\ Len(<<>>) = 0
  BY <1>2, TextLens, TextSymbols DEF IsPlain
<1>4. IsPlain(<<>>)
  BY <1>3 DEF IsPlain
<1>5. SubSeq(answer["text"], 1, 0) = <<>>
  BY SubSeqEmpty
<1>6. Remasked(<<>>) \o <<>> = <<>>
  BY <1>3, RemaskedStarts, TextConcat
<1>7. SentOnce
  BY <1>1, <1>5, <1>6 DEF SentOnce
<1>8. 0 \in 0..Len(answer["text"])
  BY <1>3
<1> QED BY <1>1, <1>2, <1>3, <1>4, <1>7, <1>8 DEF MaskInv

LEMMA EventKeepsMask ==
  ASSUME MaskInv, NEW n \in [Fields -> 0..MaxEvent], restoreStreamEvent(n)
  PROVE  MaskInv'
<1> DEFINE a == answer["text"]
           k == taken["text"]
           m == n["text"]
           h == heldBack["text"]
           c == SubSeq(a, k + 1, k + m)
           p == PushChannel(h, c)
<1>1. /\ IsPlain(a) /\ k \in 0..Len(a) /\ IsPlain(h) /\ shown["text"] \in Texts
      /\ Remasked(shown["text"]) \o h = SubSeq(a, 1, k)
  BY DEF MaskInv, SentOnce
<1>2. m \in Nat /\ "text" \in Fields /\ "text" # "thought"
  BY MaskAssumption DEF Fields
<1>3. k + m <= Len(a) /\ taken'["text"] = k + m /\ answer' = answer
  BY <1>2 DEF restoreStreamEvent
<1>4. /\ shown'["text"] = shown["text"] \o (IF m > 0 THEN p.send ELSE c)
      /\ heldBack'["text"] = IF m > 0 THEN p.hold ELSE h
  BY <1>2 DEF restoreStreamEvent, Chunk
<1>5. /\ m = 0 => shown["text"] \o c = shown["text"]
      /\ shown["text"] \o p.send \in Texts /\ IsPlain(p.hold)
      /\ Remasked(shown["text"] \o p.send) \o p.hold = SubSeq(a, 1, k + m)
  <2>1. PICK sh : sh = shown["text"]
    OBVIOUS
  <2>2. sh \in Texts /\ Remasked(sh) \o h = SubSeq(a, 1, k)
    BY <1>1, <2>1
  <2> HIDE DEF a, k, m, h
  <2>3. EventIsKept(a, k, m, h, sh)
    BY <1>1, <1>2, <1>3, <2>2, EventKeeps
  <2>4. /\ m = 0 => sh \o c = sh
        /\ sh \o p.send \in Texts /\ IsPlain(p.hold)
        /\ Remasked(sh \o p.send) \o p.hold = SubSeq(a, 1, k + m)
    BY <2>3, Zenon DEF EventIsKept
  <2> HIDE DEF c, p
  <2> QED BY <2>1, <2>4
<1>6. k + m \in 0..Len(a)
  <2>1. Len(a) \in Nat
    BY <1>1, TextLens DEF IsPlain
  <2> HIDE DEF a, k, m
  <2> QED BY <1>1, <1>2, <1>3, <2>1
<1>7. CASE m > 0
  <2>1. shown'["text"] = shown["text"] \o p.send /\ heldBack'["text"] = p.hold
    BY <1>4, <1>7
  <2> QED BY <1>1, <1>3, <1>5, <1>6, <2>1 DEF MaskInv, SentOnce
<1>8. CASE m = 0
  <2>1. shown'["text"] = shown["text"] /\ heldBack'["text"] = h /\ taken'["text"] = k
    BY <1>1, <1>3, <1>4, <1>5, <1>8
  <2> QED BY <1>1, <1>3, <2>1 DEF MaskInv, SentOnce
<1> QED BY <1>2, <1>7, <1>8

LEMMA FlushKeepsMask ==
  ASSUME MaskInv, flushStreamRestorer
  PROVE  MaskInv'
<1> DEFINE h == heldBack["text"]
           sh == shown["text"]
<1>1. /\ IsPlain(answer["text"]) /\ taken["text"] \in 0..Len(answer["text"]) /\ IsPlain(h) /\ sh \in Texts
      /\ Remasked(sh) \o h = SubSeq(answer["text"], 1, taken["text"])
  BY DEF MaskInv, SentOnce
<1>2. shown'["text"] = sh \o h /\ heldBack'["text"] = <<>> /\ answer' = answer /\ taken' = taken
  BY DEF flushStreamRestorer, Fields
<1>3. PICK x, y : x = sh /\ y = h
  OBVIOUS
<1>4. x \in Texts /\ y \in Texts /\ Remasked(y) = y
  BY <1>1, <1>3, RemaskedPlain DEF IsPlain
<1>5. x \o y \in Texts /\ Remasked(x \o y) = Remasked(x) \o y
  <2>1. x \o y \in Texts
    BY <1>4, TextConcat
  <2>2. Remasked(x \o y) = Remasked(x) \o Remasked(y)
    BY <1>4, RemaskedConcat
  <2> QED BY <1>4, <2>1, <2>2
<1>6. Remasked(x \o y) \in Texts
  BY <1>5, RemaskedIsText
<1>7. Remasked(x \o y) \o <<>> = Remasked(x) \o y
  BY <1>5, <1>6, TextConcat
<1>8. IsPlain(<<>>)
  <2>1. Len(<<>>) = 0
    OBVIOUS
  <2> QED BY <2>1, TextSymbols DEF IsPlain
<1> HIDE DEF h, sh
<1>9. shown'["text"] = x \o y
  BY <1>2, <1>3
<1> QED BY <1>1, <1>2, <1>3, <1>5, <1>7, <1>8, <1>9 DEF MaskInv, SentOnce

LEMMA MaskKept == MaskInv /\ [MaskNext]_maskVars => MaskInv'
<1> SUFFICES ASSUME MaskInv, [MaskNext]_maskVars PROVE MaskInv'
  OBVIOUS
<1>1. ASSUME NEW n \in [Fields -> 0..MaxEvent], restoreStreamEvent(n) PROVE MaskInv'
  BY <1>1, EventKeepsMask
<1>2. CASE flushStreamRestorer
  BY <1>2, FlushKeepsMask
<1>3. CASE UNCHANGED maskVars
  BY <1>3 DEF maskVars, MaskInv, SentOnce
<1> QED BY <1>1, <1>2, <1>3 DEF MaskNext

\* However the answer is cut into events, and wherever the stream ends, the text reaches
\* the client once, whole and in order: what was sent, masked again, and what is held back
\* are what has arrived (stream_restore.go PushChannel and the flush of the restorer).
THEOREM SentOnceHolds == MaskSpec => []SentOnce
<1>1. MaskInv => SentOnce
  BY DEF MaskInv
<1> QED BY MaskStarts, MaskKept, <1>1, PTL DEF MaskSpec

=============================================================================
