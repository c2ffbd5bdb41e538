--------------------------- MODULE MCDebugHandler ---------------------------
(* Values for the constants of DebugHandler. *)
EXTENDS DebugHandler

CONSTANTS c1, c2, l1, l2, v1, v2
=============================================================================
