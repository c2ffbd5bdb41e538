---------------------------- MODULE MCSemaphore ----------------------------
(* Three threads: two can sleep while the third signals. *)
EXTENDS Semaphore, TLC

CONSTANTS t1, t2, t3

MCThreads == {t1, t2, t3}
=============================================================================
