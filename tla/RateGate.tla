------------------------------ MODULE RateGate ------------------------------
(***************************************************************************)
(* Requests per minute: the window of one channel key                      *)
(* (relay/channellimit.go), whose callers wait, and the window and slots   *)
(* of one API key (keylimit/keylimit.go, called by middleware/auth.go),    *)
(* whose callers are refused at once.                                      *)
(*                                                                         *)
(* Both read the clock before they take the lock, so a window is only      *)
(* nearly sorted.  MaxDelay bounds how long a goroutine is suspended in    *)
(* between.  The limits travel with the caller: each has read its own.     *)
(* A time is kept as its distance from the present, so the clock needs no  *)
(* bound: a stamp of the window is its age.                                *)
(***************************************************************************)
EXTENDS Integers, Sequences, FiniteSets

CONSTANTS RateKinds,    \* subset of {"channel", "key"}
          Callers,
          Rpms,         \* limits a caller may have read, 0 for none
          RateWindow,   \* channelRPMWindow, rpmWindow
          MaxDelay,     \* suspension between time.Now and the lock
          KeyLimits,    \* values of MaxConcurrent a request may have read, 0 for none
          MaxCleanups   \* bound: deletions of the entries

ASSUME RateAssumption ==
  /\ MaxDelay \in Nat /\ RateWindow \in Nat /\ 2 * MaxDelay < RateWindow
  /\ IsFiniteSet(Callers) /\ Rpms \in SUBSET Nat /\ MaxCleanups \in Nat

VARIABLES rateKind,  \* which of the two this is
          stamps,    \* the window: the ages of the permits in the order they were given
          caller,    \* per caller: where it is, its limit, its reading of the clock, its counter
          slots,     \* per counter object of the key: active
          granted,   \* history: how long ago permits were given, and under which limit
          cleanups   \* deletions so far; the number of the counter object in the table
rateVars == <<rateKind, stamps, caller, slots, granted, cleanups>>

FreshCaller == [pc |-> "new", rpm |-> 0, read |-> 0, sleep |-> 0, of |-> -1, cleared |-> FALSE]

RateInit ==
  /\ rateKind \in RateKinds
  /\ stamps = <<>> /\ granted = <<>> /\ cleanups = 0
  /\ caller = [c \in Callers |-> FreshCaller]
  /\ slots = [g \in 0..MaxCleanups |-> 0]

\* The part of s that begins at the first of some of its places.
From(s, places) ==
  LET first == IF places = {} THEN Len(s) + 1
               ELSE CHOOSE i \in places : \A j \in places : i <= j
  IN SubSeq(s, first, Len(s))

\* No reading of the clock tells ages from here on apart.
MaxAge == RateWindow + MaxDelay
-----------------------------------------------------------------------------
(* keylimit.AcquireConcurrency and its release by the middleware's defer.   *)

LookUpKey(c) ==
  /\ rateKind = "key" /\ caller[c].pc = "new"
  /\ caller' = [caller EXCEPT ![c].pc = "found", ![c].of = cleanups]
  /\ UNCHANGED <<rateKind, stamps, slots, granted, cleanups>>

\* Under its own lock: the counter object may have left the table since.
AcquireConcurrency(c, max) ==
  /\ caller[c].pc = "found" /\ max > 0
  /\ IF slots[caller[c].of] >= max
     THEN caller' = [caller EXCEPT ![c] = FreshCaller] /\ UNCHANGED slots
     ELSE /\ caller' = [caller EXCEPT ![c].pc = "slot"]
          /\ slots' = [slots EXCEPT ![caller[c].of] = @ + 1]
  /\ UNCHANGED <<rateKind, stamps, granted, cleanups>>

\* No limit: the request holds no counter.
PassUncounted(c) ==
  /\ rateKind = "key" /\ caller[c].pc = "new" /\ 0 \in KeyLimits
  /\ caller' = [caller EXCEPT ![c].pc = "slot"]
  /\ UNCHANGED <<rateKind, stamps, slots, granted, cleanups>>

\* The handler returns, or the permit was refused: releaseConcurrency and the answer.
Leave(c) ==
  /\ caller[c].pc \in {"passed", "refused"}
  /\ caller' = [caller EXCEPT ![c] = FreshCaller]
  /\ slots' = [g \in DOMAIN slots |->
                 IF g = caller[c].of /\ slots[g] > 0 THEN slots[g] - 1 ELSE slots[g]]
  /\ UNCHANGED <<rateKind, stamps, granted, cleanups>>
-----------------------------------------------------------------------------
(* waitChannelRPM, tryChannelRPMPermit, AcquireRPMPermit.                   *)

Asks(c) == caller[c].pc = IF rateKind = "key" THEN "slot" ELSE "new"

\* Callers that sleep do not learn that the window was deleted.
Forgotten == [c \in Callers |-> [caller[c] EXCEPT !.cleared = @ \/ caller[c].pc = "sleep"]]

\* No limit: the window is dropped and the caller passes.
PassUnlimitedRate(c) ==
  /\ Asks(c) /\ 0 \in Rpms
  /\ stamps' = <<>> /\ granted' = <<>>
  /\ caller' = [Forgotten EXCEPT ![c].pc = "passed"]
  /\ UNCHANGED <<rateKind, slots, cleanups>>

ReadClock(c, n) ==
  /\ n > 0
  /\ \/ Asks(c)
     \/ caller[c].pc = "sleep" /\ caller[c].rpm = n /\ caller[c].sleep = 0   \* the timer fired
  /\ caller' = [caller EXCEPT ![c].pc = "read", ![c].rpm = n, ![c].read = 0,
                              ![c].cleared = FALSE]
  /\ UNCHANGED <<rateKind, stamps, slots, granted, cleanups>>

\* The stamps at the front that left the window are dropped; one behind a later one stays.
Unexpired(read) == From(stamps, {i \in DOMAIN stamps : stamps[i] < read + RateWindow})

\* Fault: one permit too many.
FullPastLimit(window, rpm) == Len(window) > rpm
WindowFull(window, rpm) == Len(window) >= rpm

\* How long until the permit that stands in the way leaves the window, seen from the reading.
AdmitIn(window, rpm, read) ==
  LET wait == read + RateWindow - window[Len(window) - rpm + 1] IN IF wait > 0 THEN wait ELSE 0

Window(c) == Unexpired(caller[c].read)

GrantPermit(c) ==
  /\ caller[c].pc = "read" /\ ~WindowFull(Window(c), caller[c].rpm)
  /\ stamps' = Append(Window(c), caller[c].read)
  /\ granted' = Append(granted, [age |-> 0, rpm |-> caller[c].rpm])
  /\ caller' = [caller EXCEPT ![c].pc = "passed", ![c].read = 0]
  /\ UNCHANGED <<rateKind, slots, cleanups>>

WithholdPermit(c) ==
  /\ caller[c].pc = "read" /\ WindowFull(Window(c), caller[c].rpm)
  /\ stamps' = Window(c)
  /\ UNCHANGED <<rateKind, slots, granted, cleanups>>

\* Too many: the caller sleeps and asks again.
tryChannelRPMPermit(c) ==
  /\ rateKind = "channel"
  /\ \/ GrantPermit(c)
     \/ /\ WithholdPermit(c)
        /\ caller' = [caller EXCEPT ![c].pc = "sleep", ![c].read = 0,
                        ![c].sleep = AdmitIn(Window(c), caller[c].rpm, caller[c].read)]

\* Too many: the caller is refused, with the time to wait in the answer.
AcquireRPMPermit(c) ==
  /\ rateKind = "key"
  /\ \/ GrantPermit(c)
     \/ /\ WithholdPermit(c)
        /\ caller' = [caller EXCEPT ![c].pc = "refused", ![c].read = 0]

\* The client goes away or the operator stops the request while it waits.
CancelWait(c) ==
  /\ caller[c].pc = "sleep" /\ caller' = [caller EXCEPT ![c] = FreshCaller]
  /\ UNCHANGED <<rateKind, stamps, slots, granted, cleanups>>

\* keylimit.Cleanup when the key is deleted, cleanupChannelLimits when the channel is, or when
\* its cooldowns are cleared: callers under way go on with the counter object they have.
Cleanup ==
  /\ cleanups < MaxCleanups /\ cleanups' = cleanups + 1
  /\ stamps' = <<>> /\ granted' = <<>> /\ caller' = Forgotten
  /\ UNCHANGED <<rateKind, slots>>

RateTick ==
  LET kept == From(granted, {i \in DOMAIN granted : granted[i].age + 1 < RateWindow})   \* of one window
  IN /\ \A c \in Callers : caller[c].pc = "read" => caller[c].read < MaxDelay
     /\ stamps' = [i \in DOMAIN stamps |-> IF stamps[i] < MaxAge THEN stamps[i] + 1 ELSE MaxAge]
     /\ caller' = [c \in Callers |->
                     [caller[c] EXCEPT !.read = IF caller[c].pc = "read" THEN @ + 1 ELSE @,
                                       !.sleep = IF @ > 0 THEN @ - 1 ELSE 0]]
     /\ granted' = [i \in DOMAIN kept |-> [kept[i] EXCEPT !.age = @ + 1]]
     /\ UNCHANGED <<rateKind, slots, cleanups>>

RateNext ==
  \/ \E c \in Callers :
       \/ LookUpKey(c) \/ PassUncounted(c) \/ Leave(c)
       \/ PassUnlimitedRate(c) \/ tryChannelRPMPermit(c) \/ AcquireRPMPermit(c) \/ CancelWait(c)
       \/ \E max \in KeyLimits : AcquireConcurrency(c, max)
       \/ \E n \in Rpms : ReadClock(c, n)
  \/ Cleanup \/ RateTick

RateSpec == RateInit /\ [][RateNext]_rateVars
-----------------------------------------------------------------------------
(* Properties                                                               *)

\* In real time, whatever the order in which delayed readings of the clock reach the lock: when
\* a caller with limit n is let in, fewer than n others were in the last window less the delay
\* (tryChannelRPMPermit, AcquireRPMPermit).
RateKept ==
  \A i \in DOMAIN granted :
    Cardinality({j \in 1..(i - 1) : granted[j].age - granted[i].age < RateWindow - MaxDelay})
      < granted[i].rpm

\* Nobody sleeps beside a free permit for longer than two delays: until then as many permits
\* as its limit are really in the window, unless the window was deleted while it slept.
SleepNeeded ==
  \A c \in Callers :
    caller[c].pc = "sleep" /\ ~caller[c].cleared /\ caller[c].sleep > 2 * MaxDelay
      => Cardinality({i \in DOMAIN stamps : stamps[i] < RateWindow}) >= caller[c].rpm

\* The counter objects of a key count their holders through deletions and refusals.
SlotsExact ==
  \A g \in DOMAIN slots :
    slots[g] = Cardinality({c \in Callers : caller[c].of = g /\ caller[c].pc \notin {"new", "found"}})

\* What the two limits promise.
RateSound == RateKept /\ SleepNeeded /\ SlotsExact
====
