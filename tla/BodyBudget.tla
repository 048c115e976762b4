---------------------------- MODULE BodyBudget ----------------------------
(***************************************************************************)
(* The process-wide budget for request bodies: internal/relay/bodylimit.go *)
(* and the part of Forward (handler.go) that holds what it charged.        *)
(*                                                                         *)
(* A request charges every chunk it reads, first of the body as sent and   *)
(* then, if that is compressed, of the decompressed one, and charges the   *)
(* body once more for the string copy kept in the request state.  Bytes    *)
(* are abstracted to units; each action is one critical section of the     *)
(* budget's mutex or one read of the connection.                           *)
(***************************************************************************)
EXTENDS Naturals, Functions, FiniteSets

CONSTANTS
  Readers,         \* request goroutines
  Limit,            \* defaultRelayBodyBudgetBytes
  MaxCompressed,    \* maxRelayCompressedBodyBytes
  MaxDecompressed,  \* maxRelayDecompressedBodyBytes
  MaxChunk          \* the read buffer of readBudget

\* As in the code, a body of full size and its copy fill the budget exactly.
ASSUME BudgetAssumption ==
  /\ Limit \in Nat /\ MaxCompressed \in Nat /\ MaxDecompressed \in Nat
  /\ MaxChunk \in Nat \ {0}
  /\ MaxCompressed <= MaxDecompressed
  /\ MaxDecompressed + MaxDecompressed <= Limit
  /\ IsFiniteSet(Readers)

VARIABLES
  used,    \* relayBodyBudget.used
  reader      \* per request: its place in Forward and what it has charged

budgetVars == <<used, reader>>

\* reading, decoding: in readBudget.  failing: the decoder gave up.  dropping: the
\* compressed buffer goes.  admitting: before the charge of the copy.  serving, closing:
\* the rest of Forward and its deferred calls.
BodyPCs == {"idle", "reading", "decoding", "failing", "dropping",
           "admitting", "serving", "closing"}
BodyStates ==
  [pc     : BodyPCs,
   packed : BOOLEAN,      \* the body has a Content-Encoding
   base   : Nat,          \* compressedCharge, later held: what releaseBody gives back
   cur    : Nat,          \* charged, of the readBudget call under way
   want   : Nat,          \* a chunk read and not yet charged
   asleep : BOOLEAN,      \* blocked on the notify channel of the current generation
   copy   : Nat]          \* the charge of the string copy
FreshBody ==
  [pc |-> "idle", packed |-> FALSE, base |-> 0, cur |-> 0, want |-> 0,
   asleep |-> FALSE, copy |-> 0]

BudgetInit == used = 0 /\ reader = [r \in Readers |-> FreshBody]

---------------------------------------------------------------------------
\* Fault: a release that leaves the budget full wakes nobody.
WakeWhenEmpty(rq, n) ==
  [s \in Readers |-> [rq[s] EXCEPT !.asleep = IF n > 0 /\ used = n THEN FALSE ELSE @]]

\* releaseRelayBodyBudget(n): closing notify wakes every waiter.  Nothing at all for
\* n = 0.
WakeAll(rq, n) ==
  [s \in Readers |-> [rq[s] EXCEPT !.asleep = IF n > 0 THEN FALSE ELSE @]]
releaseRelayBodyBudget(n, rq) ==
  /\ used' = IF n < used THEN used - n ELSE 0
  /\ reader' = WakeAll(rq, n)

InReadBudget(r) == reader[r].pc \in {"reading", "decoding"}
SizeLimit(r) == IF reader[r].pc = "reading" THEN MaxCompressed ELSE MaxDecompressed

\* readBudget gives up and gives back what it charged: the size limit, a read error, the
\* client's departure.  The compressed body of a failed decoder goes in a later section.
ReadFails(r) ==
  releaseRelayBodyBudget(reader[r].cur,
    [reader EXCEPT ![r] = IF @.pc = "reading" THEN FreshBody
                       ELSE [@ EXCEPT !.pc = "failing", !.cur = 0, !.want = 0,
                                      !.asleep = FALSE]])

\* The handler starts to read a request.
Start(r, packed) ==
  /\ reader[r].pc = "idle"
  /\ reader' = [reader EXCEPT ![r].pc = "reading", ![r].packed = packed]
  /\ UNCHANGED used

\* reader.Read returns n units.
ReadChunk(r, n) ==
  /\ InReadBudget(r) /\ reader[r].want = 0
  /\ IF reader[r].cur + n > SizeLimit(r) \/ n > Limit
     THEN ReadFails(r)
     ELSE reader' = [reader EXCEPT ![r].want = n] /\ UNCHANGED used

\* Fault: the charge of the new chunk is left out of the comparison.
acquireUnchecked(r) ==
  /\ InReadBudget(r) /\ reader[r].want > 0 /\ ~reader[r].asleep
  /\ IF used > Limit
     THEN reader' = [reader EXCEPT ![r].asleep = TRUE] /\ UNCHANGED used
     ELSE /\ used' = used + reader[r].want
          /\ reader' = [reader EXCEPT ![r].cur = @ + reader[r].want, ![r].want = 0]

\* acquireRelayBodyBudget: charge the chunk, or take the current notify and block on it.
acquireRelayBodyBudget(r) ==
  /\ InReadBudget(r) /\ reader[r].want > 0 /\ ~reader[r].asleep
  /\ IF used + reader[r].want > Limit
     THEN reader' = [reader EXCEPT ![r].asleep = TRUE] /\ UNCHANGED used
     ELSE /\ used' = used + reader[r].want
          /\ reader' = [reader EXCEPT ![r].cur = @ + reader[r].want, ![r].want = 0]

\* The context ends or the connection fails, whether the request is blocked or not.
Abort(r) == InReadBudget(r) /\ ReadFails(r)

\* End of the input: decode a compressed body, keep any other.
EndOfInput(r) ==
  /\ InReadBudget(r) /\ reader[r].want = 0
  /\ LET me  == reader[r]
         on  == IF me.packed /\ me.cur > 0 THEN "decoding" ELSE "admitting"
     IN reader' = [reader EXCEPT ![r] =
                  IF me.pc = "decoding" THEN [me EXCEPT !.pc = "dropping"]
                  ELSE [me EXCEPT !.pc = on, !.base = me.cur, !.cur = 0]]
  /\ UNCHANGED used

\* Fault: the compressed charge stays until the request ends.
KeepCompressed(r) ==
  /\ reader[r].pc = "dropping"
  /\ reader' = [reader EXCEPT ![r].pc = "admitting", ![r].base = @ + reader[r].cur, ![r].cur = 0]
  /\ UNCHANGED used

\* readLimitedHTTPRequest drops the compressed buffer and keeps the decoded charge.
DropCompressed(r) ==
  /\ reader[r].pc = "dropping"
  /\ releaseRelayBodyBudget(reader[r].base,
       [reader EXCEPT ![r].pc = "admitting", ![r].base = reader[r].cur, ![r].cur = 0])

\* Fault: the error path of the decoder forgets the compressed charge.
FailDecodeLeaks(r) ==
  /\ reader[r].pc = "failing"
  /\ reader' = [reader EXCEPT ![r] = FreshBody]
  /\ UNCHANGED used

\* readLimitedHTTPRequest fails: the compressed charge goes too.
FailDecode(r) ==
  /\ reader[r].pc = "failing"
  /\ releaseRelayBodyBudget(reader[r].base, [reader EXCEPT ![r] = FreshBody])

\* tryAcquireRelayBodyBudget for the copy: it never waits, a refusal is a 413.
tryAcquireRelayBodyBudget(r) ==
  /\ reader[r].pc = "admitting"
  /\ IF used + reader[r].base > Limit
     THEN reader' = [reader EXCEPT ![r].pc = "closing"] /\ UNCHANGED used
     ELSE /\ used' = used + reader[r].base
          /\ reader' = [reader EXCEPT ![r].pc = "serving", ![r].copy = reader[r].base]

\* Forward returns: the deferred calls give back the copy, then the body.
Served(r) ==
  /\ reader[r].pc = "serving"
  /\ releaseRelayBodyBudget(reader[r].copy,
       [reader EXCEPT ![r].pc = "closing", ![r].copy = 0])
releaseBody(r) ==
  /\ reader[r].pc = "closing"
  /\ releaseRelayBodyBudget(reader[r].base, [reader EXCEPT ![r] = FreshBody])

Step(r) ==
  \/ \E packed \in BOOLEAN : Start(r, packed)
  \/ Abort(r)
  \/ \E n \in 1..MaxChunk : ReadChunk(r, n)
  \/ acquireRelayBodyBudget(r)
  \/ EndOfInput(r)
  \/ DropCompressed(r)
  \/ FailDecode(r)
  \/ tryAcquireRelayBodyBudget(r)
  \/ Served(r)
  \/ releaseBody(r)

BudgetNext == \E r \in Readers : Step(r)

BudgetSpec == BudgetInit /\ [][BudgetNext]_budgetVars

---------------------------------------------------------------------------
\* Every variable stays in its type; the process never holds more than the budget.
BudgetTypeOK == used \in 0..Limit /\ reader \in [Readers -> BodyStates]

\* The budget is what the requests under way hold, on every path through reading,
\* decoding, refusal and failure: nothing leaks, nothing is given back twice, and the sum
\* never passes the limit.
Charge(r) == reader[r].base + reader[r].cur + reader[r].copy
BudgetExact ==
  /\ used = FoldFunction(+, 0, [r \in Readers |-> Charge(r)])
  /\ used <= Limit

\* No wake-up is lost: a request blocked in acquireRelayBodyBudget really lacks room.
BudgetNoLostWakeup ==
  \A r \in Readers : reader[r].asleep => reader[r].want > 0 /\ used + reader[r].want > Limit

\* A request waits for room, or is refused it for its copy, only because of other
\* requests: the body of full size and its copy fit even at the boundary.
OthersHold(r) == \E s \in Readers \ {r} : Charge(s) > 0
LoneAdmitted ==
  \A r \in Readers :
    reader[r].asleep \/ (reader[r].pc = "admitting" /\ used + reader[r].base > Limit)
      => OthersHold(r)

\* A request short of room waits for one that will give some back (bodylimit.go, the
\* comment of acquireRelayBodyBudget): not everyone who holds a charge waits for more.
WaitersHaveReleaser ==
  (\E r \in Readers : reader[r].asleep)
    => \E s \in Readers : Charge(s) > 0 /\ ~reader[s].asleep
====
