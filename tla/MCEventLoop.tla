---- MODULE MCEventLoop ----
(* EventLoop for TLC. *)
EXTENDS EventLoop, TLC
====
