--------------------------- MODULE MCGroupRoute ---------------------------
(* Small instances of GroupRoute for TLC. *)
EXTENDS GroupRoute, TLC

CONSTANTS a, b, r1, r2

MCItems == {a, b}
OneItem == {a}
TwoRequests == {r1, r2}
MCPrio == (a :> 1 @@ b :> 2)
OnePrio == (a :> 1)
NoNative == {{}}
BothOrders == {{}, {b}}

\* Requests are interchangeable.
RequestSymmetry == Permutations(Requests)
====
