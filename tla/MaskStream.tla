---------------------------- MODULE MaskStream ----------------------------
(***************************************************************************)
(* Restoring placeholders in a streamed answer: relay/mask/                *)
(* stream_restore.go and the way mask_integration.go feeds it.  The answer *)
(* arrives in events that cut the text anywhere, so the restorer holds     *)
(* back what may be the head of a placeholder.                             *)
(*                                                                         *)
(* Text is a sequence over "{", "}" and letters.  A registered placeholder *)
(* is {{p}} and is restored to the letter "P"; {{q}} is one that the       *)
(* mapping does not know.  An event carries text and reasoning, each with  *)
(* a buffer of its own; tool arguments are a third channel of that kind.   *)
(***************************************************************************)
EXTENDS Naturals, Sequences, SequencesExt

CONSTANTS Answers,     \* the texts an answer may consist of
          Thoughts,    \* the reasoning that may come with it
          PendingMax,  \* pendingMax
          MaxEvent     \* bound: symbols one event carries in one field

\* An answer is a text without "P", the letter that stands for an original.
ASSUME MaskAssumption ==
  /\ PendingMax \in Nat /\ MaxEvent \in Nat \ {0}
  /\ \A a \in Answers : a \in Seq(STRING) /\ \A i \in 1..Len(a) : a[i] # "P"

VARIABLES answer,   \* per field: the whole text the model produces
          taken,    \* per field: how much of it has arrived
          heldBack, \* per field: what the restorer holds back
          shown,    \* per field: what the client has been sent
          over      \* the stream has ended and was flushed
maskVars == <<answer, taken, heldBack, shown, over>>

Fields == {"text", "thought"}

Token(x) == <<"{", "{", x, "}", "}">>

MaskInit ==
  /\ answer \in [text : Answers, thought : Thoughts]
  /\ taken = [f \in Fields |-> 0]
  /\ heldBack = [f \in Fields |-> <<>>]
  /\ shown = [f \in Fields |-> <<>>]
  /\ over = FALSE
-----------------------------------------------------------------------------
(* mask/stream_restore.go                                                   *)

\* Positions where x starts in s.
Occurs(x, s) == {i \in 1..(Len(s) - Len(x) + 1) : SubSeq(s, i, i + Len(x) - 1) = x}

\* restoreComplete: every complete registered placeholder becomes its original.  Scans s
\* from the left; r[i] is the text from position i on.
restoreComplete(s) ==
  LET r[i \in 1..(Len(s) + 1)] ==
        IF i > Len(s) THEN <<>>
        ELSE IF i \in Occurs(Token("p"), s) THEN <<"P">> \o r[i + 5]
        ELSE <<s[i]>> \o r[i + 1]
  IN r[1]

\* scanAndRestore: what can be sent, and what may be the head of a placeholder.
scanAndRestore(s) ==
  LET opens == Occurs(<<"{", "{">>, s)
      last == CHOOSE i \in opens : \A j \in opens : j <= i
      tail == SubSeq(s, last, Len(s))
      cut(n) == [send |-> restoreComplete(SubSeq(s, 1, n)), hold |-> SubSeq(s, n + 1, Len(s))]
  IN IF opens = {}
     THEN IF s # <<>> /\ s[Len(s)] = "{" THEN cut(Len(s) - 1) ELSE cut(Len(s))
     ELSE IF Occurs(<<"}", "}">>, tail) # {} THEN cut(Len(s)) ELSE cut(last - 1)

\* Fault: a buffer that is given up is sent and kept.
PushKeepsHold(held, chunk) ==
  LET scan == scanAndRestore(held \o chunk)
  IN IF Len(scan.hold) > PendingMax THEN [scan EXCEPT !.send = scan.send \o scan.hold] ELSE scan

\* PushChannel: a buffer longer than any placeholder is not one and is sent as it is.
PushChannel(held, chunk) ==
  LET scan == scanAndRestore(held \o chunk)
  IN IF Len(scan.hold) > PendingMax THEN [send |-> scan.send \o scan.hold, hold |-> <<>>]
     ELSE scan
-----------------------------------------------------------------------------
(* mask_integration.go and the stream loop of handler.go                    *)

Chunk(f, n) == SubSeq(answer[f], taken[f] + 1, taken[f] + n)

\* restoreStreamEvent: the text field first; when all of it is held back the event is
\* returned at once, and the fields after it are sent as they came.
restoreStreamEvent(n) ==
  LET push == [f \in Fields |-> PushChannel(heldBack[f], Chunk(f, n[f]))]
      early == n["text"] > 0 /\ push["text"].send = <<>>
      feeds(f) == n[f] > 0 /\ (f = "thought" => ~early)
  IN /\ ~over /\ \E f \in Fields : n[f] > 0
     /\ \A f \in Fields : taken[f] + n[f] <= Len(answer[f])
     /\ taken' = [f \in Fields |-> taken[f] + n[f]]
     /\ shown' = [f \in Fields |-> shown[f] \o (IF feeds(f) THEN push[f].send ELSE Chunk(f, n[f]))]
     /\ heldBack' = [f \in Fields |-> IF feeds(f) THEN push[f].hold ELSE heldBack[f]]
     /\ UNCHANGED <<answer, over>>

\* The stream ends, complete or cut short: what is held back goes out as it is.
flushStreamRestorer ==
  /\ ~over /\ over' = TRUE
  /\ shown' = [f \in Fields |-> shown[f] \o heldBack[f]]
  /\ heldBack' = [f \in Fields |-> <<>>]
  /\ UNCHANGED <<answer, taken>>

MaskNext ==
  \/ \E n \in [Fields -> 0..MaxEvent] : restoreStreamEvent(n)
  \/ flushStreamRestorer

MaskSpec == MaskInit /\ [][MaskNext]_maskVars
-----------------------------------------------------------------------------
(* Properties                                                               *)

\* Masking what the client was sent gives the text again.
Remasked(s) == FlattenSeq([i \in 1..Len(s) |-> IF s[i] = "P" THEN Token("p") ELSE <<s[i]>>])

\* However the answer is cut into events, its text reaches the client once, whole and in
\* order: sent and held back together are what has arrived (stream_restore.go PushChannel).
SentOnce ==
  Remasked(shown["text"]) \o heldBack["text"] = SubSeq(answer["text"], 1, taken["text"])
====
