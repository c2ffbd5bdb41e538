---- MODULE MCPromises ----
(* Promises for TLC. *)
EXTENDS Promises, TLC
====
