--------------------------- MODULE MCForwardLoop ---------------------------
(* Instance of ForwardLoop for TLC. *)
EXTENDS ForwardLoop
CONSTANTS m1

OneMember == {m1}
=============================================================================
