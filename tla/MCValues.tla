------------------------------ MODULE MCValues ------------------------------
(* Values for the constants of Values. *)
EXTENDS Values, TLC

CONSTANTS v1, v2, v3, v4, x1, x2, x3, p1, p2

Symmetry == Permutations({v1, v2, v3, v4}) \cup Permutations({x1, x2, x3})
                \cup Permutations({p1, p2})
=============================================================================
