----------------------------- MODULE Semaphore -----------------------------
(***************************************************************************)
(* class Semaphore (detail/debugger/semaphore.h): a counter guarded by a   *)
(* std::mutex and a std::condition_variable.  Every thread may call Wait() *)
(* and Signal(); one action is one operation on the mutex, the condition   *)
(* variable or the counter.  Definitions named Slip... are variants of the *)
(* action that follows them with a mistake in it; the specification does   *)
(* not use them.                                                           *)
(***************************************************************************)
EXTENDS Integers, FiniteSets

CONSTANTS Threads,     \* threads that call the semaphore
          NoThread,    \* "the mutex is free"
          MaxCount     \* bound on m_Count, INT_MAX in the code

ASSUME ThreadsAssumption == IsFiniteSet(Threads) /\ NoThread \notin Threads
ASSUME MaxCountAssumption == MaxCount \in Nat \ {0}

VARIABLES count,       \* m_Count
          holder,      \* the thread that holds m_Mutex
          at           \* at[t]: where thread t is

semaphoreVars == <<count, holder, at>>

Places == {"out",                                         \* in neither call
           "lockWait", "test", "asleep", "woken",         \* in Wait()
           "lockSignal", "increment", "notify"}           \* in Signal()

Waiting    == {t \in Threads : at[t] \in {"lockWait", "test", "asleep", "woken"}}
Signalling == {t \in Threads : at[t] \in {"lockSignal", "increment"}}
Asleep     == {t \in Threads : at[t] = "asleep"}
\* Threads that will look at m_Count, or make another thread look at it,
\* without any further Signal().
Alert      == {t \in Threads : at[t] \in {"lockWait", "test", "woken", "notify"}}

SemaphoreInit ==
    /\ count = 0
    /\ holder = NoThread
    /\ at = [t \in Threads |-> "out"]

Goto(t, place) == at' = [at EXCEPT ![t] = place]

-----------------------------------------------------------------------------
(* Wait() *)

CallWait(t) ==
    /\ at[t] = "out"
    /\ Goto(t, "lockWait")
    /\ UNCHANGED <<count, holder>>

SlipLockWait(t) ==     \* the test is made without the lock
    /\ at[t] \in {"lockWait", "woken"}
    /\ holder' = t
    /\ Goto(t, "test")
    /\ UNCHANGED count

\* unique_lock takes the mutex on entry, wait() takes it again when woken.
LockWait(t) ==
    /\ at[t] \in {"lockWait", "woken"}
    /\ holder = NoThread
    /\ holder' = t
    /\ Goto(t, "test")
    /\ UNCHANGED count

SlipTake(t) ==         \* wait(lock) with no predicate, then --m_Count
    /\ at[t] = "test"
    /\ count' = count - 1
    /\ holder' = NoThread
    /\ Goto(t, "out")

\* The predicate m_Count > 0 holds: take a permit and leave.
Take(t) ==
    /\ at[t] = "test"
    /\ count > 0
    /\ count' = count - 1
    /\ holder' = NoThread
    /\ Goto(t, "out")

\* The predicate is false: release the mutex and sleep, in one atomic step.
Sleep(t) ==
    /\ at[t] = "test"
    /\ ~(count > 0)
    /\ holder' = NoThread
    /\ Goto(t, "asleep")
    /\ UNCHANGED count

\* A condition variable may wake a thread that nobody notified.
SpuriousWake(t) ==
    /\ at[t] = "asleep"
    /\ Goto(t, "woken")
    /\ UNCHANGED <<count, holder>>

-----------------------------------------------------------------------------
(* Signal() *)

CallSignal(t) ==
    /\ at[t] = "out"
    /\ count + Cardinality(Signalling) < MaxCount
    /\ Goto(t, "lockSignal")
    /\ UNCHANGED <<count, holder>>

LockSignal(t) ==
    /\ at[t] = "lockSignal"
    /\ holder = NoThread
    /\ holder' = t
    /\ Goto(t, "increment")
    /\ UNCHANGED count

Increment(t) ==
    /\ at[t] = "increment"
    /\ count' = count + 1
    /\ Goto(t, "notify")
    /\ UNCHANGED holder

SlipNotify(t) ==       \* notify only when the counter was zero before
    /\ at[t] = "notify"
    /\ holder' = NoThread
    /\ \/ /\ Asleep = {} \/ count > 1
          /\ Goto(t, "out")
       \/ \E s \in Asleep : /\ count = 1
                            /\ at' = [at EXCEPT ![t] = "out", ![s] = "woken"]
    /\ UNCHANGED count

\* notify_one(), then the lock_guard releases the mutex.
Notify(t) ==
    /\ at[t] = "notify"
    /\ holder' = NoThread
    /\ \/ /\ Asleep = {}
          /\ Goto(t, "out")
       \/ \E s \in Asleep : at' = [at EXCEPT ![t] = "out", ![s] = "woken"]
    /\ UNCHANGED count

-----------------------------------------------------------------------------

Call(t)  == CallWait(t) \/ CallSignal(t)
Inner(t) == \/ LockWait(t) \/ Take(t) \/ Sleep(t)
            \/ LockSignal(t) \/ Increment(t) \/ Notify(t)

SemaphoreNext == \E t \in Threads : Call(t) \/ Inner(t) \/ SpuriousWake(t)

SemaphoreSafeSpec == SemaphoreInit /\ [][SemaphoreNext]_semaphoreVars

\* A thread inside a call keeps running; it need not call again, and a
\* sleeper need not wake by itself.
SemaphoreSpec == SemaphoreSafeSpec /\ \A t \in Threads : WF_semaphoreVars(Inner(t))

-----------------------------------------------------------------------------

\* The variables have their types: in particular m_Count, an int that Wait()
\* decrements, is never negative.
SemaphoreTypeOK ==
    /\ count \in 0 .. MaxCount
    /\ holder \in Threads \cup {NoThread}
    /\ at \in [Threads -> Places]

\* The mutex is held by exactly the thread that is inside a critical section,
\* so m_Count is never read or written by two threads at a time.
MutexHeld ==
    \A t \in Threads :
        (holder = t) <=> (at[t] \in {"test", "increment", "notify"})

\* No wakeup is lost: while somebody sleeps in Wait(), every permit has a
\* thread of its own that is on its way to take it or to wake a sleeper.
\* It is what ++m_Count before notify_one(), both under the mutex, is for.
NoLostWakeup == Asleep # {} => count <= Cardinality(Alert)

\* Wait() and Signal() implement a counting semaphore.
Abstract == INSTANCE CountingSemaphore
                WITH permits <- count, requesting <- Waiting

ImplementsSemaphore == Abstract!Spec
=============================================================================
