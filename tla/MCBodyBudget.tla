--------------------------- MODULE MCBodyBudget ---------------------------
(* Small instances of BodyBudget for TLC. *)
EXTENDS BodyBudget, TLC

CONSTANTS r1, r2, r3
TwoRequests == {r1, r2}
ThreeRequests == {r1, r2, r3}

\* Readers are interchangeable.
RequestSymmetry == Permutations(Readers)
====
