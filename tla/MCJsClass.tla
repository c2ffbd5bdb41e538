----------------------------- MODULE MCJsClass -----------------------------
(* Values for the constants of JsClass. *)
EXTENDS JsClass

CONSTANTS o1, o2, o3, h1, h2, h3, h4
=============================================================================
