--------------------------- MODULE MCModelSync ---------------------------
(* A small instance of ModelSync for TLC: one save falls into one synchronisation. *)
EXTENDS ModelSync

TwoModels == {"a", "b"}
====
