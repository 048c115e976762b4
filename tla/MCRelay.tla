------------------------------ MODULE MCRelay ------------------------------
(***************************************************************************)
(* The parts of the relay that share no state, each explored from its own  *)
(* initial states: a behaviour is one of the part that `part' names, the   *)
(* other parts do nothing.  So the states of this specification are the    *)
(* sum of the parts', not their product, and a property of a part holds    *)
(* here exactly if it holds of the part.                                   *)
(*                                                                         *)
(* The concurrency limit is there twice: as it is, with deletions of the   *)
(* entry and "no limit" among the limits ("clear"), and without ("limit"). *)
(***************************************************************************)
EXTENDS BodyBudget, ChannelGate, AccountPool, WarpSlots, ProbeJob, MaskStream, MaskSession,
        RequestRegistry, RateGate, KeySelect, TLC

CONSTANTS r1, r2, r3, a1, a2, a3, c1, m1, m2, k1, k2

MCReaders == {r1, r2, r3}
MCRounds == {r1, r2, r3}
MCAddresses == {a1, a2, a3}
MCAccounts == {a1, a2}
MCConsoles == {c1}
MCCallers == {m1, m2}
MCKeyLists == {<<>>, <<k1, k2>>}
PoolSessions == (1 :> "s") @@ (2 :> "t")
WarpSessions == (1 :> "s") @@ (2 :> "t")
Pieces == {<<"a">>, <<"{">>, Token("p"), Token("q")}
\* The last one opens a placeholder and never ends it: more is held back than PendingMax.
MCAnswers == {FlattenSeq(s) : s \in UNION {[1..n -> Pieces] : n \in 1..2}}
             \cup {<<"{", "{", "a", "a", "a", "a">>}
MCThoughts == {Token("p")}
TurnKeys == <<"k", "k", "k", "l", "">>
TurnValues == <<{"s"}, {}, {"s", "v"}, {"s"}, {"s"}>>
-----------------------------------------------------------------------------
VARIABLE part
relayVars == <<budgetVars, gateVars, poolVars, warpVars, jobVars, maskVars, sessionVars,
               registryVars, rateVars, keyVars, part>>

Parts == {"budget", "limit", "clear", "pool", "warp", "probe", "stream", "session", "registry",
          "rate", "keys"}

Init ==
  /\ BudgetInit /\ GateInit /\ PoolInit /\ WarpInit /\ JobInit /\ MaskInit /\ SessionInit
  /\ RegistryInit /\ RateInit /\ KeyInit
  /\ part \in Parts
  \* The initial choices of the parts that rest are fixed.
  /\ part # "clear" => limit = 1
  /\ part # "pool" => mode = "shared"
  /\ part # "rate" => rateKind = "channel"
  /\ part # "stream" => answer.text = Token("p")

Next ==
  \/ /\ part = "budget" /\ BudgetNext
     /\ UNCHANGED <<gateVars, poolVars, warpVars, jobVars, maskVars, sessionVars, registryVars,
                    rateVars, keyVars, part>>
  \/ /\ part = "clear" /\ GateNext
     /\ UNCHANGED <<budgetVars, poolVars, warpVars, jobVars, maskVars, sessionVars, registryVars,
                    rateVars, keyVars, part>>
  \/ /\ part = "limit" /\ GateNext /\ limit' # 0 /\ (table # NoState => table' = table)
     /\ UNCHANGED <<budgetVars, poolVars, warpVars, jobVars, maskVars, sessionVars, registryVars,
                    rateVars, keyVars, part>>
  \/ /\ part = "pool" /\ PoolNext
     /\ UNCHANGED <<budgetVars, gateVars, warpVars, jobVars, maskVars, sessionVars, registryVars,
                    rateVars, keyVars, part>>
  \/ /\ part = "warp" /\ WarpNext
     /\ UNCHANGED <<budgetVars, gateVars, poolVars, jobVars, maskVars, sessionVars, registryVars,
                    rateVars, keyVars, part>>
  \/ /\ part = "probe" /\ JobNext
     /\ job'["j2"].accounts \cup job'["auto"].accounts \subseteq {a1}   \* bound
     /\ UNCHANGED <<budgetVars, gateVars, poolVars, warpVars, maskVars, sessionVars, registryVars,
                    rateVars, keyVars, part>>
  \/ /\ part = "stream" /\ MaskNext
     /\ UNCHANGED <<budgetVars, gateVars, poolVars, warpVars, jobVars, sessionVars, registryVars,
                    rateVars, keyVars, part>>
  \/ /\ part = "session" /\ SessionNext
     /\ UNCHANGED <<budgetVars, gateVars, poolVars, warpVars, jobVars, maskVars, registryVars,
                    rateVars, keyVars, part>>
  \/ /\ part = "registry" /\ RegistryNext
     /\ UNCHANGED <<budgetVars, gateVars, poolVars, warpVars, jobVars, maskVars, sessionVars,
                    rateVars, keyVars, part>>
  \/ /\ part = "rate" /\ RateNext
     /\ UNCHANGED <<budgetVars, gateVars, poolVars, warpVars, jobVars, maskVars, sessionVars,
                    registryVars, keyVars, part>>
  \/ /\ part = "keys" /\ KeyNext
     /\ UNCHANGED <<budgetVars, gateVars, poolVars, warpVars, jobVars, maskVars, sessionVars,
                    registryVars, rateVars, part>>

Spec == Init /\ [][Next]_relayVars

\* While the entry is never deleted and no limit is "no limit", a request is let through only
\* below its limit (channellimit.go, head comment).
LimitsKept == [][part = "limit" => AdmitStep]_relayVars
====
