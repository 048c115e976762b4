------------------------------ MODULE UsageTrend ------------------------------
(***************************************************************************)
(* The usage buckets and the queries of the dashboard over them            *)
(* (op/usage_bucket.go): an hour of a model is one row, final requests add *)
(* to it with one atomic UPSERT, and the console reads series and sums of  *)
(* a window.  Time is counted in hours.                                    *)
(***************************************************************************)
EXTENDS Integers, FiniteSets, FiniteSetsExt, Functions

CONSTANTS
  UsageModels,     \* upstream models
  UsageRanges,     \* the ranges the console asks for, a subset of DOMAIN usageWindows
  Reports,         \* what an upstream may report as tokens, negative numbers included
  Jumps,           \* hours that may pass between two requests
  MaxHour,         \* bound: hours
  MaxBuckets,      \* bound: rows
  MaxRequests,     \* bound: requests, and errors, of one row
  TopModels,       \* models a card lists at most, 10 in the code
  UsageRetention   \* usageRetentionDays, 0: for ever

VARIABLES
  hour,            \* usageBucketNow in hours
  buckets          \* usage_buckets: <<hour, model>> -> tokens, requests, errors

usageVars == <<hour, buckets>>

\* span, step and number of points of a series
usageWindows == [x \in {"24h", "7d", "30d", "1y", "3y", "forever"} |->
  CASE x = "24h" -> [span |-> 24, step |-> 1, count |-> 24]
    [] x = "7d"  -> [span |-> 7 * 24, step |-> 6, count |-> 28]
    [] x = "30d" -> [span |-> 30 * 24, step |-> 24, count |-> 30]
    [] x = "1y"  -> [span |-> 365 * 24, step |-> 7 * 24, count |-> 53]
    [] x = "3y"  -> [span |-> 3 * 365 * 24, step |-> 30 * 24, count |-> 37]
    [] x = "forever" -> [span |-> 10 * 365 * 24, step |-> 30 * 24, count |-> 121]]

ASSUME UsageAssumption ==
  /\ IsFiniteSet(UsageModels) /\ UsageRanges \subseteq DOMAIN usageWindows
  /\ Reports \subseteq Int /\ Jumps \subseteq Nat /\ TopModels \in Nat

Empty == [tokens |-> 0, requests |-> 0, errors |-> 0]
BucketOf(k) == IF k \in DOMAIN buckets THEN buckets[k] ELSE Empty
Room(k) == Cardinality(DOMAIN buckets \cup {k}) <= MaxBuckets
Added(k, row) == [x \in DOMAIN buckets \cup {k} |-> IF x = k THEN row ELSE buckets[x]]

UsageInit == hour = 10 * 365 * 24 /\ buckets = [k \in {} |-> Empty]

\* Negative numbers count as nothing, and a request without usage writes no row.
RecordUsageBucket(m, tokens) ==
  LET k == <<hour, m>>
      row == BucketOf(k)
  IN /\ tokens > 0 /\ row.requests < MaxRequests /\ Room(k)
     /\ buckets' = Added(k, [row EXCEPT !.tokens = @ + tokens, !.requests = @ + 1])
     /\ UNCHANGED hour

RecordErrorBucket(m) ==
  LET k == <<hour, m>> IN
  /\ BucketOf(k).errors < MaxRequests /\ Room(k)
  /\ buckets' = Added(k, [BucketOf(k) EXCEPT !.errors = @ + 1])
  /\ UNCHANGED hour

\* The clock is within its hour: the row that began exactly that many days ago is past the cutoff.
usageRetentionCutoff == IF UsageRetention <= 0 THEN 0 ELSE hour - 24 * UsageRetention + 1

UsageBucketCleanExpired ==
  /\ UsageRetention > 0
  /\ \E k \in DOMAIN buckets : k[1] < usageRetentionCutoff
  /\ buckets' = [k \in {x \in DOMAIN buckets : x[1] >= usageRetentionCutoff} |-> buckets[k]]
  /\ UNCHANGED hour

HoursPass(h) == hour + h <= MaxHour /\ hour' = hour + h /\ UNCHANGED buckets

UsageNext ==
  \/ \E m \in UsageModels : RecordErrorBucket(m) \/ \E n \in Reports : RecordUsageBucket(m, n)
  \/ UsageBucketCleanExpired
  \/ \E h \in Jumps : HoursPass(h)

UsageSpec == UsageInit /\ [][UsageNext]_usageVars

-----------------------------------------------------------------------------
(* The queries. *)

Tokens == [k \in DOMAIN buckets |-> buckets[k].tokens]
Requests == [k \in DOMAIN buckets |-> buckets[k].requests]
Sum(S) == SumFunctionOnSet(Tokens, S)
WindowStart(r) == hour - usageWindows[r].span + 1

\* The point of the series a bucket falls on.
PointOf(r, k) == (k[1] - WindowStart(r)) \div usageWindows[r].step

\* Fault: the series has as many points as whole steps fit into its window.
TrendRoundedDown(r) ==
  [i \in 0..(usageWindows[r].span \div usageWindows[r].step) - 1 |->
     Sum({k \in DOMAIN buckets : k[1] >= WindowStart(r) /\ k[1] < hour + 1 /\ PointOf(r, k) = i})]

\* The buckets of the window by their point; a bucket whose point is outside is left out.
UsageTrendPoints(r) ==
  [i \in 0..usageWindows[r].count - 1 |->
     Sum({k \in DOMAIN buckets : k[1] >= WindowStart(r) /\ k[1] < hour + 1 /\ PointOf(r, k) = i})]

\* UsageKPIsByRange, UsageDetailByRange, UsageTotalsByModelRange: one lower bound, inclusive.
UsageWindowSince(r) == IF r = "forever" THEN usageRetentionCutoff ELSE hour - usageWindows[r].span
UsageKPIsByRange(r) == Sum({k \in DOMAIN buckets : k[1] >= UsageWindowSince(r)})
UsageDetailByRange(r) == SumFunctionOnSet(Requests, {k \in DOMAIN buckets : k[1] >= UsageWindowSince(r)})
ModelTotals(r) ==
  [m \in UsageModels |-> Sum({k \in DOMAIN buckets : k[2] = m /\ k[1] >= UsageWindowSince(r)})]
ModelsIn(r) == {k[2] : k \in {x \in DOMAIN buckets : x[1] >= UsageWindowSince(r)}}

\* The models it may list: the largest totals first, TopModels at most; SQL leaves ties open.
UsageTotalsByModelRange(r) ==
  {top \in SUBSET ModelsIn(r) :
     /\ Cardinality(top) = Min({TopModels, Cardinality(ModelsIn(r))})
     /\ \A m \in top, n \in ModelsIn(r) \ top : ModelTotals(r)[m] >= ModelTotals(r)[n]}

\* UsageHeatmapData: the sum of every one of the last days, the current one included.
UsageHeatmapData(days) ==
  [i \in 0..days - 1 |-> Sum({k \in DOMAIN buckets : k[1] \div 24 = (hour \div 24) - days + 1 + i})]

(* A series shows all of its window: no bucket between its first hour and the current one is   *)
(* left out, wherever the steps fall ("the current month included, so that the newest data is *)
(* not dropped", usage_bucket.go:110-112; usageWindows, UsageTrendPoints).                     *)
TrendComplete ==
  \A r \in UsageRanges :
    SumFunction(UsageTrendPoints(r)) = Sum({k \in DOMAIN buckets : k[1] >= WindowStart(r)})

(* The cards of the dashboard agree: the models listed for a range never add up to more than    *)
(* its total, and to all of it unless the list is cut; the total covers everything its series  *)
(* shows and every request it counts, and the heat map of a week shows a 24 hour series        *)
(* entirely (UsageKPIsByRange, UsageTotalsByModelRange, UsageHeatmapData).                     *)
CardsAgree ==
  \A r \in UsageRanges :
    /\ \A top \in UsageTotalsByModelRange(r) :
         LET listed == SumFunctionOnSet(ModelTotals(r), top) IN
         /\ listed <= UsageKPIsByRange(r)
         /\ Cardinality(ModelsIn(r)) <= TopModels => listed = UsageKPIsByRange(r)
    /\ UsageKPIsByRange(r) >= SumFunction(UsageTrendPoints(r))
    /\ UsageKPIsByRange(r) >= UsageDetailByRange(r)
    /\ SumFunction(UsageHeatmapData(7)) >= SumFunction(UsageTrendPoints("24h"))

(* What the dashboard shows once something was recorded, at every hour and after every         *)
(* pruning.                                                                                    *)
DashboardSound == DOMAIN buckets # {} => TrendComplete /\ CardsAgree
=============================================================================
