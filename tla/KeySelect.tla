----------------------------- MODULE KeySelect -----------------------------
(***************************************************************************)
(* The keys of one channel (relay/keyselect.go): requests take them in     *)
(* turn, probes take the first healthy one, and a key the upstream refused *)
(* cools down.  Every look at the table of cooldowns is a section of its   *)
(* own, so between two of them others mark, sweep and clear.               *)
(*                                                                         *)
(* A deadline is kept as the time that is left, 0 for one that has passed  *)
(* and whose entry still stands.  Each caller has its own copy of the list *)
(* of keys.                                                                *)
(***************************************************************************)
EXTENDS Integers, Sequences, FiniteSets

CONSTANTS Keys,
          KeyLists,      \* lists of keys a copy of the channel may hold, <<>> for the single key of old
          Pickers,       \* requests and probes at work
          CoolSeconds,   \* MemberCooldownSeconds of the groups the requests came through
          MaxTries       \* bound: keys a request is refused with

ASSUME KeyAssumption == KeyLists \subseteq Seq(Keys) /\ CoolSeconds \subseteq Nat

NoEntry == -1

VARIABLES cooldowns,  \* keyCooldowns: time left, or NoEntry
          picker,     \* per picker: where it is in its scan
          due         \* history: time left of the last mark that nobody cleared
keyVars == <<cooldowns, picker, due>>

FreshPicker == [pc |-> "new", probe |-> FALSE, list |-> <<>>, start |-> 0, off |-> 0,
                seen |-> NoEntry, tries |-> 0, open |-> {}, shut |-> {}, honest |-> TRUE]

KeyInit ==
  /\ cooldowns = [k \in Keys |-> NoEntry] /\ due = [k \in Keys |-> NoEntry]
  /\ picker = [p \in Pickers |-> FreshPicker]

KeysOf(list) == {list[i] : i \in DOMAIN list}

\* History: the keys found free, and found cooling, at some moment of a scan under way.
Witnessed(pk, table) ==
  [p \in Pickers |->
     IF pk[p].pc \notin {"look", "judge"} THEN pk[p]
     ELSE [pk[p] EXCEPT !.open = @ \cup {k \in KeysOf(pk[p].list) : table[k] <= 0},
                        !.shut = @ \cup {k \in KeysOf(pk[p].list) : table[k] > 0}]]

KeyAt(p) == picker[p].list[((picker[p].start + picker[p].off) % Len(picker[p].list)) + 1]
-----------------------------------------------------------------------------
(* selectChannelKey: the ticket, then the ring.                             *)

\* No list of keys: the channel's one key, without a look at the cooldowns.
PickSingle(p) ==
  /\ picker[p].pc = "new" /\ <<>> \in KeyLists
  /\ picker' = [picker EXCEPT ![p].pc = "use"]
  /\ UNCHANGED <<cooldowns, due>>

\* The ticket is the count of a cursor shared with all other requests, and a new cursor when the
\* channel was deleted: the ring may be entered anywhere.
TakeTicket(p, list) ==
  /\ picker[p].pc = "new" /\ list # <<>>
  /\ \E start \in 0..(Len(list) - 1) :
       picker' = Witnessed([picker EXCEPT ![p].pc = "look", ![p].list = list, ![p].start = start],
                           cooldowns)
  /\ UNCHANGED <<cooldowns, due>>

\* selectProbeChannelKey: from the first key on, without a ticket.
StartProbe(p, list) ==
  /\ picker[p].pc = "new" /\ picker[p].tries = 0 /\ list # <<>>
  /\ picker' = Witnessed([picker EXCEPT ![p].pc = "look", ![p].probe = TRUE, ![p].list = list],
                         cooldowns)
  /\ UNCHANGED <<cooldowns, due>>

\* The scan ends: with a key that was free at some moment of it, or with none while each key of
\* the list was cooling at some moment of it.
Ended(p, pc) ==
  [picker[p] EXCEPT !.pc = pc, !.seen = NoEntry, !.open = {}, !.shut = {},
     !.honest = IF pc = "use" THEN KeyAt(p) \in picker[p].open
                ELSE KeysOf(picker[p].list) \subseteq picker[p].shut]

\* channelKeyCooling under the read lock.
LookUpCooldown(p) ==
  /\ picker[p].pc = "look"
  /\ picker' = IF cooldowns[KeyAt(p)] = NoEntry
               THEN [picker EXCEPT ![p] = Ended(p, "use")]
               ELSE [picker EXCEPT ![p].pc = "judge", ![p].seen = cooldowns[KeyAt(p)]]
  /\ UNCHANGED <<cooldowns, due>>

\* The deadline that was read is compared with the clock: the next key of the ring, or none left.
SkipCooling(p) ==
  /\ picker[p].pc = "judge" /\ picker[p].seen > 0
  /\ picker' = IF picker[p].off + 1 < Len(picker[p].list)
               THEN [picker EXCEPT ![p].pc = "look", ![p].off = @ + 1, ![p].seen = NoEntry]
               ELSE [picker EXCEPT ![p] = Ended(p, "none")]
  /\ UNCHANGED <<cooldowns, due>>

\* Fault: the entry is deleted without a second look.
DropUnchecked(p) ==
  /\ picker[p].pc = "judge" /\ picker[p].seen = 0
  /\ cooldowns' = [cooldowns EXCEPT ![KeyAt(p)] = NoEntry]
  /\ picker' = [picker EXCEPT ![p] = Ended(p, "use")]
  /\ UNCHANGED due

\* The write lock, and a second look: a mark written since then stays.
DropExpired(p) ==
  /\ picker[p].pc = "judge" /\ picker[p].seen = 0
  /\ cooldowns' = [cooldowns EXCEPT ![KeyAt(p)] = IF @ = 0 THEN NoEntry ELSE @]
  /\ picker' = [picker EXCEPT ![p] = Ended(p, "use")]
  /\ UNCHANGED due
-----------------------------------------------------------------------------
(* The forward loop and the operators around it.                            *)

\* A request of a channel with several keys may be answered with 401, 403 or 429.
RotatesKey(p) == picker[p].pc = "use" /\ ~picker[p].probe /\ Len(picker[p].list) > 1

\* Then the key cools down and the member is tried again at once, with the next key.
markChannelKeyCooldown(p, seconds) ==
  LET k == KeyAt(p)
      table == [cooldowns EXCEPT ![k] = seconds]
      others == [q \in Pickers |-> IF picker[q].pc \in {"look", "judge"}
                                  THEN [picker[q] EXCEPT !.open = @ \cup {k}] ELSE picker[q]]
  IN /\ RotatesKey(p) /\ picker[p].tries < MaxTries
     /\ cooldowns' = table /\ due' = [due EXCEPT ![k] = seconds]
     /\ picker' = Witnessed([others EXCEPT ![p] = [FreshPicker EXCEPT !.tries = picker[p].tries + 1]], table)

\* The round ends otherwise, also with "all keys cooling".
EndPick(p) ==
  /\ picker[p].pc \in {"use", "none"}
  /\ picker' = [picker EXCEPT ![p] = FreshPicker]
  /\ UNCHANGED <<cooldowns, due>>

\* PruneExpiredKeyCooldowns, every minute.  It reads the clock before it takes the lock, which
\* only spares an entry that expires in between.
PruneExpiredKeyCooldowns ==
  /\ \E S \in SUBSET {k \in Keys : cooldowns[k] = 0} :
       S # {} /\ cooldowns' = [k \in Keys |-> IF k \in S THEN NoEntry ELSE cooldowns[k]]
  /\ UNCHANGED <<picker, due>>

ClearedTable == [k \in Keys |-> NoEntry]

\* ClearChannelKeyStateForUI, and CleanupChannelKeyState when the channel is deleted.
ClearChannelKeyStateForUI ==
  /\ cooldowns' = ClearedTable /\ due' = ClearedTable
  /\ picker' = Witnessed(picker, ClearedTable)

KeyTick ==
  LET Less(n) == IF n > 0 THEN n - 1 ELSE n
      table == [k \in Keys |-> Less(cooldowns[k])]
  IN /\ cooldowns' = table
     /\ due' = [k \in Keys |-> Less(due[k])]
     /\ picker' = Witnessed([p \in Pickers |-> [picker[p] EXCEPT !.seen = Less(@)]], table)

KeyNext ==
  \/ \E p \in Pickers :
       \/ PickSingle(p) \/ LookUpCooldown(p) \/ SkipCooling(p) \/ DropExpired(p)
       \/ EndPick(p)
       \/ \E list \in KeyLists : TakeTicket(p, list) \/ StartProbe(p, list)
       \/ \E seconds \in CoolSeconds : markChannelKeyCooldown(p, seconds)
  \/ PruneExpiredKeyCooldowns \/ ClearChannelKeyStateForUI \/ KeyTick

KeySpec == KeyInit /\ [][KeyNext]_keyVars
-----------------------------------------------------------------------------
(* Properties                                                               *)

\* A mark stands for its whole time unless an operator clears it: no sweep and no look at an
\* older deadline of the same key takes it away (channelKeyCooling, PruneExpiredKeyCooldowns).
MarkStands == \A k \in Keys : due[k] > 0 => cooldowns[k] = due[k]

\* A scan under way counts a new mark as a change of the key, not as the same cooldown.
\* A key that cooled under one mark during the whole scan is not picked, and a scan reports
\* "all keys cooling" only if each key of its list was cooling at some moment of it.
ScanHonest == \A p \in Pickers : picker[p].honest

\* What the selection of keys promises.
KeysSound == MarkStands /\ ScanHonest
====
