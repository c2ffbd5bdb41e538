----------------------------- MODULE MCDatabase -----------------------------
(* Database with a small file, whose index has room for one object at first. *)
EXTENDS Database

FirstFit(used) == CHOOSE p \in Places \ used : \A q \in Places \ used : p <= q
MCIndex == [k \in 0 .. 1 |-> <<k + 1>>]
MCBodies == {{}, {1}}
=============================================================================
