------------------------- MODULE CountingSemaphore -------------------------
(***************************************************************************)
(* What the debugger expects of a semaphore: a number of permits, and a    *)
(* set of threads that asked for one.  Signal adds a permit, and a thread  *)
(* that asked takes one whenever there is one.  Nothing is said of mutexes *)
(* or of sleeping; Semaphore.tla shows that the condition-variable code    *)
(* provides this and no more.                                              *)
(***************************************************************************)
EXTENDS Naturals

CONSTANTS Threads,
          MaxCount     \* the largest number of permits (m_Count is an int)

VARIABLES permits,     \* permits that can be taken
          requesting   \* threads inside Wait()

vars == <<permits, requesting>>

Init == permits = 0 /\ requesting = {}

Request(t) ==
    /\ t \notin requesting
    /\ requesting' = requesting \cup {t}
    /\ UNCHANGED permits

Acquire(t) ==
    /\ t \in requesting
    /\ permits > 0
    /\ permits' = permits - 1
    /\ requesting' = requesting \ {t}

Release ==
    /\ permits < MaxCount
    /\ permits' = permits + 1
    /\ UNCHANGED requesting

Next ==
    \/ \E t \in Threads : Request(t) \/ Acquire(t)
    \/ Release

SafeSpec == Init /\ [][Next]_vars

\* A permit does not lie unused for ever while somebody waits for one.
Spec == SafeSpec /\ WF_vars(\E t \in Threads : Acquire(t))
=============================================================================
