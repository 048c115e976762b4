-------------------------- MODULE MCChannelGate --------------------------
(* Small instances of ChannelGate for TLC. *)
EXTENDS ChannelGate, TLC

CONSTANTS r1, r2, r3, r4
ThreeRequests == {r1, r2, r3}
FourRequests == {r1, r2, r3, r4}

\* Rounds are interchangeable.
RequestSymmetry == Permutations(Rounds)
====
