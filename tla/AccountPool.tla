----------------------------- MODULE AccountPool -----------------------------
(***************************************************************************)
(* The pool of proxy accounts of one OpenCode channel                      *)
(* (relay/opencode_proxy_pool.go) and its ledger in the database           *)
(* (op/opencode_proxy.go).  A request picks an account per round, under    *)
(* the pool's lock, and gives all of them back when its context ends, one  *)
(* callback per pick.  Every verdict of the upstream is booked in memory   *)
(* first and saved by a goroutine of its own, so saves land in any order.  *)
(*                                                                         *)
(* Time is a day counter: cooldowns end at the next day, and the TTLs are  *)
(* numbers of days.  In a keyed pool the only account is the key's own.    *)
(***************************************************************************)
EXTENDS Integers, FiniteSets, Sequences, SequencesExt

CONSTANTS
  PoolModes,        \* subset of {"shared", "keyed"}
  Accounts,         \* account names the pool may generate
  KeyAccount,       \* the fixed account of a keyed pool
  Sessions, NoSession,
  PoolRequests,     \* requests; the session of each is SessionOf[r]
  SessionOf,
  PerAccountLimit,  \* ocProxyPerAccountLimit
  MaxAccounts,      \* ocProxyMaxAccounts
  FailureLimit,     \* ocProxyFailureWindowLimit
  RateQuorum,       \* ocProxy429Quorum
  SuccessTTL,       \* ocProxySuccessTTL in days
  MaxPicks, MaxDay, MaxVerdicts, MaxPoolRestarts   \* bounds; checks and deletions count as verdicts

ASSUME PoolAssumption ==
  /\ KeyAccount \notin Accounts /\ NoSession \notin Sessions
  /\ SessionOf \in [PoolRequests -> Sessions \cup {NoSession}]

VARIABLES
  mode,         \* which pool this is
  pool,         \* pool.accounts: account -> state
  loaded,       \* pool.loaded
  sessionBound, \* session -> [account, at]
  banned,       \* sessionBanned: <<session, account, day>>
  rateLimited,  \* votes: session -> day
  ledger,       \* the table: account -> row
  saves,        \* saves not applied yet
  leases,       \* request -> sequence of accounts picked and not given back
  todo,         \* request -> verdicts still to book
  ended,        \* requests whose context ended
  minted,       \* account names used so far
  dropped,      \* accounts removed from memory while a request used them
  today, verdicts, poolRestarts

poolVars == <<mode, pool, loaded, sessionBound, banned, rateLimited, ledger, saves,
              leases, todo, ended, minted, dropped, today, verdicts, poolRestarts>>

Names == Accounts \cup {KeyAccount}
NewState == [active |-> 0, sessions |-> [s \in Sessions |-> 0], verified |-> FALSE, last |-> 0,
             until |-> 0, fails |-> 0, start |-> 0, count |-> 0]
NewRow == [last |-> 0, until |-> 0, start |-> 0, count |-> 0]
Nothing == [x \in {} |-> 0]
With(f, x, v) == [y \in DOMAIN f \cup {x} |-> IF y = x THEN v ELSE f[y]]
Less(f, S) == [y \in DOMAIN f \ S |-> f[y]]

PoolInit ==
  /\ mode \in PoolModes
  /\ pool = Nothing /\ loaded = FALSE
  /\ sessionBound = Nothing /\ banned = {} /\ rateLimited = Nothing
  /\ ledger = Nothing /\ saves = {}
  /\ leases = [r \in PoolRequests |-> <<>>] /\ todo = [r \in PoolRequests |-> <<>>]
  /\ ended = {} /\ minted = {} /\ dropped = {} /\ today = 1 /\ verdicts = 0
  /\ poolRestarts = 0

-----------------------------------------------------------------------------
\* The pool after its first load: an account that ever succeeded is verified, and a cooling row
\* does not bring its failure window back.
Restored(row) ==
  [NewState EXCEPT !.last = row.last, !.until = row.until, !.verified = row.last > 0,
                   !.start = IF row.until > today THEN 0 ELSE row.start,
                   !.count = IF row.until > today THEN 0 ELSE row.count]
Loaded == IF loaded THEN pool ELSE [a \in DOMAIN ledger |-> Restored(ledger[a])]

ocProxyUsable(a) ==
  a.active < PerAccountLimit /\ today >= a.until /\ (a.verified => today - a.last <= SuccessTTL)
\* Fault: the sessions that use the account are not looked at.
SessionIgnored(a, s) == TRUE

ocProxySessionAvailable(a, s) ==
  \/ s = NoSession
  \/ LET live == {x \in Sessions : a.sessions[x] > 0} IN live = {} \/ live = {s}

\* Fewer consecutive failures first, then verified, then the latest success.
ocProxyCandidateBetter(a, b) ==
  IF a.fails # b.fails THEN a.fails < b.fails
  ELSE IF a.verified # b.verified THEN a.verified
  ELSE a.verified /\ a.last > b.last

\* Never successful first, then the least recently active.
Recency(a) == IF a.until > a.last THEN a.until ELSE a.last
ocProxyEvictFirst(a, b) ==
  IF a.verified # b.verified THEN ~a.verified ELSE Recency(a) < Recency(b)

\* What trimLocked may remove from p: the accounts beyond the limit, those to evict first.
Trimmed(p, keep) ==
  {gone \in SUBSET (DOMAIN p \ {keep}) :
     /\ \/ Cardinality(DOMAIN p) <= MaxAccounts /\ gone = {}
        \/ Cardinality(DOMAIN p \ gone) = MaxAccounts
     /\ \A x \in gone, y \in DOMAIN p \ ({keep} \cup gone) : ~ocProxyEvictFirst(p[y], p[x])}

\* pruneLocked: what the pool remembers of sessions lasts a day.
BoundNow == Less(sessionBound, {s \in DOMAIN sessionBound : today > sessionBound[s].at})
BannedNow == {b \in banned : today = b[3]}
VotesNow == Less(rateLimited, {s \in DOMAIN rateLimited : today > rateLimited[s]})
InUse == {a \in Names : \E r \in PoolRequests : \E i \in DOMAIN leases[r] : leases[r][i] = a}

\* A pick takes one slot of the account and registers the session; a release undoes both.
Joined(u, s) == IF s = NoSession THEN u ELSE [u EXCEPT ![s] = @ + 1]
Left(u, s) == IF s = NoSession THEN u ELSE [u EXCEPT ![s] = IF @ > 1 THEN @ - 1 ELSE 0]
Taken(p, a, s) == [p EXCEPT ![a].active = @ + 1, ![a].sessions = Joined(@, s)]
Rebound(a, s) == IF s = NoSession THEN BoundNow ELSE With(BoundNow, s, [account |-> a, at |-> today])

CanPick(r) == r \notin ended /\ todo[r] = <<>> /\ Len(leases[r]) < MaxPicks
Picked(r, p, a, s) ==
  /\ pool' = Taken(p, a, s) /\ loaded' = TRUE
  /\ leases' = [leases EXCEPT ![r] = Append(@, a)]
  /\ sessionBound' = Rebound(a, s)
  /\ banned' = BannedNow /\ rateLimited' = VotesNow
  /\ UNCHANGED <<mode, ledger, saves, todo, ended, today, verdicts, poolRestarts>>

\* pickLocked: the session's own account while it will do, else the best other one, else a new one.
PickLocked(r) ==
  LET s == SessionOf[r]
      p == Loaded
      bound == IF s \in DOMAIN BoundNow THEN BoundNow[s].account ELSE NoSession
      out == {a \in Names : \E b \in BannedNow : b[1] = s /\ b[2] = a}
      fits == {a \in DOMAIN p : ocProxyUsable(p[a]) /\ ocProxySessionAvailable(p[a], s)} \ out
      others == fits \ {bound}
      best == {a \in others : \A b \in others : ~ocProxyCandidateBetter(p[b], p[a])}
  IN /\ mode = "shared" /\ CanPick(r)
     /\ \/ /\ bound \in fits /\ Picked(r, p, bound, s) /\ UNCHANGED <<minted, dropped>>
        \/ /\ bound \notin fits
           /\ \E a \in best : Picked(r, p, a, s)
           /\ UNCHANGED <<minted, dropped>>
        \/ /\ bound \notin fits /\ best = {}
           /\ \E a \in Accounts \ minted :
                /\ minted' = minted \cup {a}
                /\ LET q == With(p, a, NewState)
                   IN \E gone \in Trimmed(q, a) :
                        /\ dropped' = dropped \cup (gone \cap InUse)
                        /\ pool' = Taken(Less(q, gone), a, s) /\ loaded' = TRUE
                        /\ leases' = [leases EXCEPT ![r] = Append(@, a)]
                        /\ sessionBound' = LET f == Rebound(a, s)
                                           IN Less(f, {x \in DOMAIN f : f[x].account \in gone})
                        /\ banned' = BannedNow /\ rateLimited' = VotesNow
                        /\ UNCHANGED <<mode, ledger, saves, todo, ended, today, verdicts, poolRestarts>>

\* pickFixedLocked: the key's account or none.
PickFixedLocked(r) ==
  LET s == SessionOf[r]
      p == IF KeyAccount \in DOMAIN Loaded THEN Loaded ELSE With(Loaded, KeyAccount, NewState)
  IN /\ mode = "keyed" /\ CanPick(r)
     /\ ocProxyUsable(p[KeyAccount]) /\ ocProxySessionAvailable(p[KeyAccount], s)
     /\ ~\E b \in BannedNow : b[1] = s /\ b[2] = KeyAccount
     /\ Picked(r, p, KeyAccount, s)
     /\ UNCHANGED <<minted, dropped>>

\* A round on an account ends; the handler books its verdict in this order.
Verdicts == {<<"success">>, <<"vote", "ban", "failure">>, <<"cool", "failure">>, <<"failure">>}
Answer(r) ==
  /\ r \notin ended /\ todo[r] = <<>> /\ leases[r] # <<>>
  /\ verdicts < MaxVerdicts /\ verdicts' = verdicts + 1
  /\ \E v \in Verdicts : todo' = [todo EXCEPT ![r] = v]
  /\ UNCHANGED <<mode, pool, loaded, sessionBound, banned, rateLimited, ledger, saves, leases,
                 ended, minted, dropped, today, poolRestarts>>

\* Every booking starts from the loaded pool and re-creates an account that is gone; only then
\* is the pool trimmed.
Known(p, a) == IF a \in DOMAIN p THEN p ELSE With(p, a, NewState)
Booked(p, a, state, save) ==
  \E gone \in (IF a \in DOMAIN p THEN {{}} ELSE Trimmed(Known(p, a), a)) :
    /\ pool' = With(Less(p, gone), a, state) /\ loaded' = TRUE
    /\ sessionBound' = Less(sessionBound, {s \in DOMAIN sessionBound : sessionBound[s].account \in gone})
    /\ dropped' = dropped \cup (gone \cap InUse)
    /\ saves' = saves \cup {save}

\* markOpencodeProxySuccess clears the cooldown and the run of failures.
markSuccess(a) ==
  LET p == Loaded
      state == [Known(p, a)[a] EXCEPT !.verified = TRUE, !.last = today, !.until = 0, !.fails = 0]
  IN Booked(p, a, state, [kind |-> "success", account |-> a, day |-> today])

\* opencodeRejectCooldown: until the next day, or what Retry-After says, which may be over
\* within the day.
RejectCooldowns == {today, today + 1}

\* markOpencodeProxyCooldown.
markCooldown(a, until) ==
  LET p == Loaded
      state == [Known(p, a)[a] EXCEPT !.until = until, !.fails = 0, !.start = 0, !.count = 0]
  IN Booked(p, a, state, [kind |-> "cooldown", account |-> a, day |-> until])
markRejected(a) == \E until \in RejectCooldowns : markCooldown(a, until)

\* The state after a failure, and whether the window is full.
Failed(state) ==
  LET fresh == state.start = 0 \/ today - state.start > 1
      n == IF fresh THEN 1 ELSE state.count + 1
  IN IF today < state.until THEN [full |-> FALSE, state |-> state]
     ELSE IF n >= FailureLimit
          THEN [full |-> TRUE, state |-> [state EXCEPT !.until = today + 1, !.fails = 0, !.start = 0, !.count = 0]]
          ELSE [full |-> FALSE, state |-> [state EXCEPT !.fails = @ + 1, !.start = IF fresh THEN today ELSE @, !.count = n]]

\* One booking of a verdict.  A vote that fills the quorum goes on to a cooldown of the account
\* ("cool"), a failure that fills the window to one until the next day ("rest").
Book(r) ==
  LET a == Last(leases[r])
      s == SessionOf[r]
      done == [todo EXCEPT ![r] = Tail(@)]
      then(booking) == [todo EXCEPT ![r] = <<booking>> \o Tail(@)]
  IN /\ todo[r] # <<>> /\ leases[r] # <<>>
     /\ CASE Head(todo[r]) = "success" ->
               markSuccess(a) /\ todo' = done /\ UNCHANGED <<banned, rateLimited>>
          [] Head(todo[r]) = "cool" ->
               markRejected(a) /\ todo' = done /\ UNCHANGED <<banned, rateLimited>>
          [] Head(todo[r]) = "rest" ->
               markCooldown(a, today + 1) /\ todo' = done /\ UNCHANGED <<banned, rateLimited>>
          [] Head(todo[r]) = "vote" ->
               LET votes == With(VotesNow, s, today)
                   quorum == Cardinality(DOMAIN votes) >= RateQuorum
               IN IF s = NoSession
                  THEN markRejected(a) /\ todo' = done /\ UNCHANGED <<banned, rateLimited>>
                  ELSE /\ rateLimited' = IF quorum THEN Nothing ELSE votes
                       /\ todo' = IF quorum THEN then("cool") ELSE done
                       /\ pool' = Loaded /\ loaded' = TRUE
                       /\ sessionBound' = BoundNow /\ banned' = BannedNow
                       /\ UNCHANGED <<saves, dropped>>
          [] Head(todo[r]) = "ban" ->
               /\ banned' = banned \cup {<<s, a, today>>}
               /\ sessionBound' = Less(sessionBound, {x \in DOMAIN sessionBound \cap {s} : sessionBound[x].account = a})
               /\ pool' = Loaded /\ loaded' = TRUE /\ todo' = done
               /\ UNCHANGED <<rateLimited, saves, dropped>>
          [] Head(todo[r]) = "failure" ->
               LET f == Failed(Known(Loaded, a)[a])
               IN /\ Booked(Loaded, a, f.state, [kind |-> "failure", account |-> a, day |-> today])
                  /\ todo' = IF f.full THEN then("rest") ELSE done
                  /\ UNCHANGED <<banned, rateLimited>>
     /\ UNCHANGED <<mode, ledger, leases, ended, minted, today, verdicts, poolRestarts>>

\* The request's context ends when nothing is left to book; each pick then has a callback.
EndRequest(r) ==
  /\ r \notin ended /\ todo[r] = <<>> /\ ended' = ended \cup {r}
  /\ UNCHANGED <<mode, pool, loaded, sessionBound, banned, rateLimited, ledger, saves, leases,
                 todo, minted, dropped, today, verdicts, poolRestarts>>

releaseOpencodeProxyAccount(r) ==
  LET a == Head(leases[r])
      s == SessionOf[r]
  IN /\ r \in ended /\ leases[r] # <<>>
     /\ leases' = [leases EXCEPT ![r] = Tail(@)]
     /\ pool' = IF a \notin DOMAIN pool THEN pool
                ELSE [pool EXCEPT ![a].active = IF @ > 0 THEN @ - 1 ELSE 0,
                                  ![a].sessions = Left(@, s)]
     /\ UNCHANGED <<mode, loaded, sessionBound, banned, rateLimited, ledger, saves, todo, ended,
                    minted, dropped, today, verdicts, poolRestarts>>

-----------------------------------------------------------------------------
\* The row each save leaves behind.
Row(a) == IF a \in DOMAIN ledger THEN ledger[a] ELSE NewRow
SaveSuccess(row, day) == [row EXCEPT !.last = day, !.until = 0]
SaveCooldown(row, until) == [row EXCEPT !.until = until, !.start = 0, !.count = 0]
SaveRealFailure(row) ==
  LET stale == row.start = 0 \/ today - row.start > 1
  IN IF row.until > today THEN row
     ELSE IF stale THEN [row EXCEPT !.start = today, !.count = 1]
     ELSE IF row.count + 1 >= FailureLimit THEN [row EXCEPT !.start = 0, !.count = 0]
     ELSE [row EXCEPT !.count = @ + 1]
SavedRow(v) ==
  CASE v.kind = "success" -> SaveSuccess(Row(v.account), v.day)
    [] v.kind = "cooldown" -> SaveCooldown(Row(v.account), v.day)
    [] v.kind = "failure" -> SaveRealFailure(Row(v.account))

\* What the pruning of the table to the limit may leave: successful rows stay longest, then the
\* latest active ones.
Outlasts(x, y) == IF (x.last > 0) # (y.last > 0) THEN x.last > 0 ELSE Recency(x) > Recency(y)
Pruned(rows) ==
  {Less(rows, gone) : gone \in {g \in SUBSET DOMAIN rows :
     /\ Cardinality(DOMAIN rows \ g) = MaxAccounts
     /\ \A x \in g, y \in DOMAIN rows \ g : ~Outlasts(rows[x], rows[y])}}

\* A save that is not of a failure prunes as well if the pool was full when the verdict was
\* booked and the last pruning is ten minutes ago; both are left open.
Save ==
  /\ \E v \in saves :
       LET rows == With(ledger, v.account, SavedRow(v)) IN
       /\ saves' = saves \ {v}
       /\ \/ ledger' = rows
          \/ v.kind # "failure" /\ Cardinality(DOMAIN rows) > MaxAccounts /\ ledger' \in Pruned(rows)
  /\ UNCHANGED <<mode, pool, loaded, sessionBound, banned, rateLimited, leases, todo, ended,
                 minted, dropped, today, verdicts, poolRestarts>>

\* An account check (ocProbeOne) pins one account without taking a slot.
ProbeAccount ==
  /\ \E a \in (IF mode = "keyed" THEN {KeyAccount} ELSE minted) : markSuccess(a) \/ markRejected(a)
  /\ verdicts < MaxVerdicts /\ verdicts' = verdicts + 1
  /\ UNCHANGED <<mode, banned, rateLimited, ledger, leases, todo, ended, minted, today, poolRestarts>>

\* DeleteOpencodeAccountsFromLedger: the row first, then the pool's entry.
DeleteAccount(a) ==
  /\ a \in DOMAIN ledger \cup DOMAIN pool 
  /\ verdicts < MaxVerdicts /\ verdicts' = verdicts + 1
  /\ ledger' = Less(ledger, {a}) /\ pool' = Less(pool, {a})
  /\ dropped' = dropped \cup ({a} \cap InUse)
  /\ UNCHANGED <<mode, loaded, sessionBound, banned, rateLimited, saves, leases, todo, ended,
                 minted, today, poolRestarts>>

NextDay == /\ today < MaxDay /\ today' = today + 1
           /\ UNCHANGED <<mode, pool, loaded, sessionBound, banned, rateLimited, ledger, saves, leases,
                          todo, ended, minted, dropped, verdicts, poolRestarts>>

\* A restart loses the pool, the requests and the saves that are under way.
PoolRestart ==
  /\ poolRestarts < MaxPoolRestarts /\ poolRestarts' = poolRestarts + 1
  /\ pool' = Nothing /\ loaded' = FALSE /\ sessionBound' = Nothing /\ banned' = {}
  /\ rateLimited' = Nothing /\ saves' = {}
  /\ leases' = [r \in PoolRequests |-> <<>>] /\ todo' = [r \in PoolRequests |-> <<>>]
  /\ ended' = ended \cup {r \in PoolRequests : leases[r] # <<>>} /\ dropped' = {}
  /\ UNCHANGED <<mode, ledger, minted, today, verdicts>>

PoolNext ==
  \/ \E r \in PoolRequests : \/ PickLocked(r) \/ PickFixedLocked(r) \/ Answer(r) \/ Book(r)
                             \/ EndRequest(r) \/ releaseOpencodeProxyAccount(r)
  \/ Save \/ ProbeAccount \/ NextDay \/ PoolRestart
  \/ \E a \in Names : DeleteAccount(a)
PoolSpec == PoolInit /\ [][PoolNext]_poolVars

-----------------------------------------------------------------------------
Holds(r, a) == \E i \in DOMAIN leases[r] : leases[r][i] = a

\* At no time do requests of two sessions use one account ("同账号同时只承载一个活跃会话",
\* relay/opencode_proxy_pool.go), whatever mix of retries, switched accounts, late releases and
\* failed rounds led there -- unless the account was removed from memory while it was in use.
OneSession ==
  \A q, r \in PoolRequests : \A a \in Names \ dropped :
    (Holds(q, a) /\ Holds(r, a) /\ SessionOf[q] # NoSession /\ SessionOf[r] # NoSession)
      => SessionOf[q] = SessionOf[r]

\* An account's slots are given back exactly once per pick: with no pick outstanding the account
\* is idle again, so no account is lost to the limit for good.
SlotsReturn ==
  \A a \in DOMAIN pool \ dropped :
    pool[a].active = 0 <=> ~\E r \in PoolRequests : Holds(r, a)

\* A session is never bound to an account that it banned the same day: a ban unbinds it whoever
\* booked it and however late, and no later pick of any of its requests binds it again
\* (banOpencodeProxyAccountForKey, pickLocked, pickFixedLocked).
BansHold ==
  \A b \in banned :
    b[3] = today => ~(b[1] \in DOMAIN sessionBound /\ sessionBound[b[1]].account = b[2])

\* What a pick may rely on (opencode_proxy_pool.go).
PoolSound == OneSession /\ SlotsReturn /\ BansHold

=============================================================================
