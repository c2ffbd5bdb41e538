------------------------- MODULE MCContextDebugger -------------------------
(* Values for the constants of ContextDebugger. *)
EXTENDS ContextDebugger

CONSTANTS A, B, C, j1, j2, j3, s1, s2, s3
=============================================================================
