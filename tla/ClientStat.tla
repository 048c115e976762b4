------------------------------ MODULE ClientStat ------------------------------
(***************************************************************************)
(* The counters of client addresses (op/client_stat.go): a bounded cache   *)
(* of rows, the rows it evicted and has not stored yet, and a periodic     *)
(* flush that takes a snapshot under the lock and writes it outside.       *)
(*                                                                         *)
(* A row is a pointer: an evicted row that is adopted again is the same    *)
(* object.  "gen" numbers the objects made for one address.                *)
(***************************************************************************)
EXTENDS Naturals, FiniteSets, FiniteSetsExt

CONSTANTS
  ClientIPs,       \* addresses
  MaxClientRows,   \* getClientStatMaxCount
  MaxVisits        \* bound: requests

VARIABLES
  clientCache,     \* clientStatCache: address -> [gen, count, seen]
  orphaned,        \* clientStatOrphaned
  stored,          \* the table client_stats: address -> count, 0: no row
  flushing,        \* the snapshot a ClientStatFlush is writing
  gens,            \* objects made so far, per address
  visit            \* requests so far; the clock of LastSeen

clientVars == <<clientCache, orphaned, stored, flushing, gens, visit>>

NotFlushing == [on |-> FALSE, values |-> [ip \in {} |-> 0], orphans |-> [ip \in {} |-> 0]]
NoClients == [ip \in {} |-> [gen |-> 0, count |-> 0, seen |-> 0]]
Put(f, ip, row) == [x \in DOMAIN f \cup {ip} |-> IF x = ip THEN row ELSE f[x]]
Drop(f, S) == [x \in DOMAIN f \ S |-> f[x]]

ClientInit ==
  /\ clientCache = NoClients /\ orphaned = NoClients
  /\ stored = [ip \in ClientIPs |-> 0]
  /\ flushing = NotFlushing
  /\ gens = [ip \in ClientIPs |-> 0] /\ visit = 0

\* evictClientStatLocked: from a full cache go the rows not seen since the cutoff of 30 days,
\* and the row seen longest ago if the cache is still full.
Full(S) == MaxClientRows > 0 /\ Cardinality(S) >= MaxClientRows
Oldest(S) == {ip \in S : \A other \in S : clientCache[ip].seen <= clientCache[other].seen}
Evictions(cutoff) ==
  LET stale == {ip \in DOMAIN clientCache : clientCache[ip].seen < cutoff}
      rest == DOMAIN clientCache \ stale
  IN IF ~Full(DOMAIN clientCache) THEN {{}}
     ELSE IF ~Full(rest) THEN {stale}
     ELSE {stale \cup {ip} : ip \in Oldest(rest)}

\* The row of an address that comes back: the evicted object with its count, or a new one.
Row(ip) ==
  IF ip \in DOMAIN orphaned THEN [orphaned[ip] EXCEPT !.count = @ + 1, !.seen = visit + 1]
  ELSE [gen |-> gens[ip] + 1, count |-> 1, seen |-> visit + 1]

\* Fault: an adopted row stays among the evicted ones.
TrackKeepsOrphan(ip) ==
  /\ visit < MaxVisits /\ visit' = visit + 1
  /\ \/ /\ ip \in DOMAIN clientCache
        /\ clientCache' = [clientCache EXCEPT ![ip].count = @ + 1, ![ip].seen = visit']
        /\ UNCHANGED <<orphaned, gens>>
     \/ /\ ip \notin DOMAIN clientCache
        /\ \E cutoff \in 0..visit' : \E evicted \in Evictions(cutoff) :
             /\ clientCache' = Put(Drop(clientCache, evicted), ip, Row(ip))
             /\ orphaned' = [x \in DOMAIN orphaned \cup evicted |->
                               IF x \in evicted THEN clientCache[x] ELSE orphaned[x]]
        /\ gens' = IF ip \in DOMAIN orphaned THEN gens ELSE [gens EXCEPT ![ip] = @ + 1]
  /\ UNCHANGED <<stored, flushing>>

\* A cached row counts on, an evicted row that was not stored yet is adopted, and any other
\* address starts a row at one.
TrackClientStat(ip) ==
  /\ visit < MaxVisits /\ visit' = visit + 1
  /\ \/ /\ ip \in DOMAIN clientCache
        /\ clientCache' = [clientCache EXCEPT ![ip].count = @ + 1, ![ip].seen = visit']
        /\ UNCHANGED <<orphaned, gens>>
     \/ /\ ip \notin DOMAIN clientCache
        /\ \E cutoff \in 0..visit' : \E evicted \in Evictions(cutoff) :
             /\ clientCache' = Put(Drop(clientCache, evicted), ip, Row(ip))
             /\ orphaned' = [x \in (DOMAIN orphaned \cup evicted) \ {ip} |->
                               IF x \in evicted THEN clientCache[x] ELSE orphaned[x]]
        /\ gens' = IF ip \in DOMAIN orphaned THEN gens ELSE [gens EXCEPT ![ip] = @ + 1]
  /\ UNCHANGED <<stored, flushing>>

FlushSnapshot ==
  /\ ~flushing.on
  /\ flushing' = [on |-> TRUE,
       values |-> [ip \in DOMAIN clientCache \cup DOMAIN orphaned |->
                     IF ip \in DOMAIN orphaned THEN orphaned[ip].count ELSE clientCache[ip].count],
       orphans |-> [ip \in DOMAIN orphaned |-> orphaned[ip].gen]]
  /\ UNCHANGED <<clientCache, orphaned, stored, gens, visit>>

\* The UPSERT overwrites the rows; then the evicted rows that are still the same objects are
\* forgotten.  A failed UPSERT forgets nothing.
ClientStatFlush ==
  /\ flushing.on
  /\ \/ /\ stored' = [ip \in ClientIPs |-> IF ip \in DOMAIN flushing.values THEN flushing.values[ip] ELSE stored[ip]]
        /\ orphaned' = Drop(orphaned, {ip \in DOMAIN orphaned \cap DOMAIN flushing.orphans :
                                         orphaned[ip].gen = flushing.orphans[ip]})
     \/ UNCHANGED <<stored, orphaned>>
  /\ flushing' = NotFlushing
  /\ UNCHANGED <<clientCache, gens, visit>>

\* A reload of the caches adds the stored rows that memory does not have.
ClientStatLoad ==
  LET new == {ip \in ClientIPs : stored[ip] > 0} \ (DOMAIN clientCache \cup DOMAIN orphaned) IN
  /\ new # {}
  /\ clientCache' = [ip \in DOMAIN clientCache \cup new |->
       IF ip \in new THEN [gen |-> gens[ip] + 1, count |-> stored[ip], seen |-> 0] ELSE clientCache[ip]]
  /\ gens' = [ip \in ClientIPs |-> IF ip \in new THEN gens[ip] + 1 ELSE gens[ip]]
  /\ UNCHANGED <<orphaned, stored, flushing, visit>>

\* Retention: a row of the table not seen for 30 days.
ClientStatRetention(ip) ==
  /\ stored[ip] > 0 /\ ip \notin DOMAIN clientCache \cup DOMAIN orphaned
  /\ stored' = [stored EXCEPT ![ip] = 0]
  /\ UNCHANGED <<clientCache, orphaned, flushing, gens, visit>>

ClientNext ==
  \/ \E ip \in ClientIPs : TrackClientStat(ip) \/ ClientStatRetention(ip)
  \/ FlushSnapshot \/ ClientStatFlush \/ ClientStatLoad

ClientSpec == ClientInit /\ [][ClientNext]_clientVars

-----------------------------------------------------------------------------
(* One row per address in a batch: an address is never both cached and waiting as an evicted   *)
(* row, so no UPSERT has a key twice, through evictions, adoptions, flushes and reloads        *)
(* (TrackClientStat, ClientStatLoad).                                                          *)
OneRowPerAddress == DOMAIN clientCache \cap DOMAIN orphaned = {}

=============================================================================
