---- MODULE MCAsyncGenerator ----
(* AsyncGenerator for TLC. *)
EXTENDS AsyncGenerator, TLC
====
