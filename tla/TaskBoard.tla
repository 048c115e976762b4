------------------------------ MODULE TaskBoard ------------------------------
(***************************************************************************)
(* What the evaluation queue promises to its users: an evaluation task is  *)
(* submitted once, is worked on by at most one holder at a time, is taken  *)
(* from its holder only when the holder has let go of it, and once ended   *)
(* never comes back.  EvalQueue implements this specification.             *)
(***************************************************************************)
EXTENDS Naturals

CONSTANTS BoardTasks, Holders

VARIABLE board     \* where each task is

States == {"absent", "queued", "orphan", "ended"} \cup Holders

\* queued -> ended is the withdrawal of a task nobody works on.
Moves == {<<"absent", "queued">>, <<"queued", "ended">>, <<"orphan", "queued">>}
         \cup {<<"queued", h>> : h \in Holders}
         \cup ({<<h, "ended">> : h \in Holders} \cup {<<h, "orphan">> : h \in Holders})

BoardInit == board = [t \in BoardTasks |-> "absent"]

BoardNext ==
  /\ board' \in [BoardTasks -> States]
  /\ \A t \in BoardTasks : board'[t] # board[t] => <<board[t], board'[t]>> \in Moves

BoardSpec == BoardInit /\ [][BoardNext]_board
=============================================================================
