---- MODULE MCCollector ----
(* Collector for TLC: a weak map that may hide a value, an object and an inner node. *)
EXTENDS Collector, TLC
CONSTANTS m1, o1, v1, x, y, z
====
