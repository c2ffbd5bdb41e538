----------------------- MODULE DebuggerThreadsProofs -----------------------
(***************************************************************************)
(* Proofs about the two parts of the debugger that keep its threads in     *)
(* order: the semaphore, for every finite set of threads and every bound   *)
(* on the counter, and the life of contexts, servers and their threads,    *)
(* for every set of them under the discipline Careful.                     *)
(***************************************************************************)
EXTENDS Semaphore, ContextDebugger, FiniteSetTheorems, TLAPS

-----------------------------------------------------------------------------
(* The semaphore.                                                           *)

\* Every pending Signal() still finds room below the bound.
Room == count + Cardinality(Signalling) <= MaxCount

\* The inductive invariant.
SemInv == SemaphoreTypeOK /\ Room /\ MutexHeld /\ NoLostWakeup

\* A set of threads is finite and its cardinality is a natural number.
LEMMA ThreadSets ==
    ASSUME NEW S, S \subseteq Threads
    PROVE  IsFiniteSet(S) /\ Cardinality(S) \in Nat
BY FS_Subset, FS_CardinalityType, ThreadsAssumption

\* What one thread entering, or leaving, a set does to its cardinality.
LEMMA Enter ==
    ASSUME NEW S, S \subseteq Threads, NEW t \in Threads, t \notin S
    PROVE  Cardinality(S \cup {t}) = Cardinality(S) + 1
BY ThreadSets, FS_AddElement

LEMMA Leave ==
    ASSUME NEW S, S \subseteq Threads, NEW t \in S
    PROVE  Cardinality(S \ {t}) = Cardinality(S) - 1
BY ThreadSets, FS_RemoveElement

-----------------------------------------------------------------------------

\* The semaphore starts free.
LEMMA InitSem == SemaphoreInit => SemInv
<1> SUFFICES ASSUME SemaphoreInit PROVE SemInv
    OBVIOUS
<1>1. SemaphoreTypeOK
    BY MaxCountAssumption DEF SemaphoreInit, SemaphoreTypeOK, Places
<1>2. MutexHeld
    BY ThreadsAssumption DEF SemaphoreInit, MutexHeld
<1>3. Signalling = {} /\ Asleep = {}
    BY DEF SemaphoreInit, Signalling, Asleep
<1>4. Room
    BY <1>3, FS_EmptySet, MaxCountAssumption DEF SemaphoreInit, Room
<1>5. NoLostWakeup
    BY <1>3 DEF NoLostWakeup
<1> QED
    BY <1>1, <1>2, <1>4, <1>5 DEF SemInv

\* How the three sets of threads move when one thread moves.
LEMMA SetsMove ==
    ASSUME SemaphoreTypeOK, NEW t \in Threads, NEW place \in Places, Goto(t, place)
    PROVE  /\ Signalling' = IF place \in {"lockSignal", "increment"}
                              THEN Signalling \cup {t} ELSE Signalling \ {t}
           /\ Asleep'     = IF place = "asleep"
                              THEN Asleep \cup {t} ELSE Asleep \ {t}
           /\ Alert'      = IF place \in {"lockWait", "test", "woken", "notify"}
                              THEN Alert \cup {t} ELSE Alert \ {t}
           /\ Waiting'    = IF place \in {"lockWait", "test", "asleep", "woken"}
                              THEN Waiting \cup {t} ELSE Waiting \ {t}
BY DEF SemaphoreTypeOK, Goto, Signalling, Asleep, Alert, Waiting

\* Every step keeps the invariant.
LEMMA StepSem ==
    ASSUME SemInv, [SemaphoreNext]_semaphoreVars
    PROVE  SemInv'
<1> USE DEF SemInv
<1>0. /\ Signalling \subseteq Threads /\ Asleep \subseteq Threads /\ Alert \subseteq Threads
      /\ Cardinality(Signalling) \in Nat /\ Cardinality(Alert) \in Nat
    <2>1. Signalling \subseteq Threads /\ Asleep \subseteq Threads /\ Alert \subseteq Threads
        BY DEF Signalling, Asleep, Alert
    <2> QED
        BY <2>1, ThreadSets
<1>1. ASSUME NEW t \in Threads, CallWait(t) PROVE SemInv'
    <2>1. /\ Signalling' = Signalling /\ Asleep' = Asleep /\ Alert' = Alert \cup {t}
          /\ t \notin Alert
        BY <1>1, SetsMove DEF CallWait, SemaphoreTypeOK, Places, Signalling, Asleep, Alert
    <2>2. Cardinality(Alert') = Cardinality(Alert) + 1
        BY <2>1, <1>0, Enter
    <2>3. Room' /\ NoLostWakeup'
        BY <1>1, <1>0, <2>1, <2>2 DEF CallWait, Room, NoLostWakeup, SemaphoreTypeOK
    <2>4. SemaphoreTypeOK' /\ MutexHeld'
        BY <1>1 DEF CallWait, Goto, SemaphoreTypeOK, Places, MutexHeld
    <2> QED
        BY <2>3, <2>4
<1>2. ASSUME NEW t \in Threads, LockWait(t) PROVE SemInv'
    <2>1. Signalling' = Signalling /\ Asleep' = Asleep /\ Alert' = Alert
        BY <1>2, SetsMove DEF LockWait, SemaphoreTypeOK, Places, Signalling, Asleep, Alert
    <2>2. Room' /\ NoLostWakeup'
        BY <1>2, <2>1 DEF LockWait, Room, NoLostWakeup
    <2>3. SemaphoreTypeOK' /\ MutexHeld'
        BY <1>2, ThreadsAssumption DEF LockWait, Goto, SemaphoreTypeOK, Places, MutexHeld
    <2> QED
        BY <2>2, <2>3
<1>3. ASSUME NEW t \in Threads, Take(t) PROVE SemInv'
    <2>1. /\ Signalling' = Signalling /\ Asleep' = Asleep /\ Alert' = Alert \ {t}
          /\ t \in Alert
        BY <1>3, SetsMove DEF Take, SemaphoreTypeOK, Places, Signalling, Asleep, Alert
    <2>2. Cardinality(Alert') = Cardinality(Alert) - 1
        BY <2>1, <1>0, Leave
    <2>3. Room' /\ NoLostWakeup'
        BY <1>3, <1>0, <2>1, <2>2, MaxCountAssumption DEF Take, Room, NoLostWakeup, SemaphoreTypeOK
    <2>4. SemaphoreTypeOK' /\ MutexHeld'
        BY <1>3, ThreadsAssumption, MaxCountAssumption
           DEF Take, Goto, SemaphoreTypeOK, Places, MutexHeld
    <2> QED
        BY <2>3, <2>4
<1>4. ASSUME NEW t \in Threads, Sleep(t) PROVE SemInv'
    <2>1. Signalling' = Signalling /\ count' = 0
        BY <1>4, SetsMove, MaxCountAssumption DEF Sleep, SemaphoreTypeOK, Places, Signalling
    <2>2. Alert' \subseteq Threads
        BY DEF Alert
    <2>3. Cardinality(Alert') \in Nat
        BY <2>2, ThreadSets
    <2>4. Room' /\ NoLostWakeup'
        BY <1>4, <2>1, <2>3 DEF Sleep, Room, NoLostWakeup
    <2>5. SemaphoreTypeOK' /\ MutexHeld'
        BY <1>4, ThreadsAssumption DEF Sleep, Goto, SemaphoreTypeOK, Places, MutexHeld
    <2> QED
        BY <2>4, <2>5
<1>5. ASSUME NEW t \in Threads, SpuriousWake(t) PROVE SemInv'
    <2>1. /\ Signalling' = Signalling /\ Asleep' \subseteq Asleep
          /\ Alert' = Alert \cup {t} /\ t \notin Alert
        BY <1>5, SetsMove DEF SpuriousWake, SemaphoreTypeOK, Places, Signalling, Asleep, Alert
    <2>2. Cardinality(Alert') = Cardinality(Alert) + 1
        BY <2>1, <1>0, Enter
    <2>3. Room' /\ NoLostWakeup'
        BY <1>5, <1>0, <2>1, <2>2 DEF SpuriousWake, Room, NoLostWakeup, SemaphoreTypeOK
    <2>4. SemaphoreTypeOK' /\ MutexHeld'
        BY <1>5 DEF SpuriousWake, Goto, SemaphoreTypeOK, Places, MutexHeld
    <2> QED
        BY <2>3, <2>4
<1>6. ASSUME NEW t \in Threads, CallSignal(t) PROVE SemInv'
    <2>1. /\ Signalling' = Signalling \cup {t} /\ t \notin Signalling
          /\ Asleep' = Asleep /\ Alert' = Alert
        BY <1>6, SetsMove DEF CallSignal, SemaphoreTypeOK, Places, Signalling, Asleep, Alert
    <2>2. Cardinality(Signalling') = Cardinality(Signalling) + 1
        BY <2>1, <1>0, Enter
    <2>3. Room' /\ NoLostWakeup'
        BY <1>6, <1>0, <2>1, <2>2, MaxCountAssumption
           DEF CallSignal, Room, NoLostWakeup, SemaphoreTypeOK
    <2>4. SemaphoreTypeOK' /\ MutexHeld'
        BY <1>6 DEF CallSignal, Goto, SemaphoreTypeOK, Places, MutexHeld
    <2> QED
        BY <2>3, <2>4
<1>7. ASSUME NEW t \in Threads, LockSignal(t) PROVE SemInv'
    <2>1. Signalling' = Signalling /\ Asleep' = Asleep /\ Alert' = Alert
        BY <1>7, SetsMove DEF LockSignal, SemaphoreTypeOK, Places, Signalling, Asleep, Alert
    <2>2. Room' /\ NoLostWakeup'
        BY <1>7, <2>1 DEF LockSignal, Room, NoLostWakeup
    <2>3. SemaphoreTypeOK' /\ MutexHeld'
        BY <1>7, ThreadsAssumption DEF LockSignal, Goto, SemaphoreTypeOK, Places, MutexHeld
    <2> QED
        BY <2>2, <2>3
<1>8. ASSUME NEW t \in Threads, Increment(t) PROVE SemInv'
    <2>1. /\ Signalling' = Signalling \ {t} /\ t \in Signalling
          /\ Asleep' = Asleep /\ Alert' = Alert \cup {t} /\ t \notin Alert
        BY <1>8, SetsMove DEF Increment, SemaphoreTypeOK, Places, Signalling, Asleep, Alert
    <2>2. /\ Cardinality(Signalling') = Cardinality(Signalling) - 1
          /\ Cardinality(Alert') = Cardinality(Alert) + 1
          /\ Cardinality(Signalling') \in Nat
        BY <2>1, <1>0, Enter, Leave, ThreadSets
    <2>3. Room' /\ NoLostWakeup'
        BY <1>8, <1>0, <2>1, <2>2, MaxCountAssumption
           DEF Increment, Room, NoLostWakeup, SemaphoreTypeOK
    <2>4. count' \in 0 .. MaxCount
        BY <1>8, <1>0, <2>2, MaxCountAssumption DEF Increment, Room, SemaphoreTypeOK
    <2>5. SemaphoreTypeOK' /\ MutexHeld'
        BY <1>8, <2>4 DEF Increment, Goto, SemaphoreTypeOK, Places, MutexHeld
    <2> QED
        BY <2>3, <2>5
<1>9. ASSUME NEW t \in Threads, Notify(t) PROVE SemInv'
    <2>1. CASE Asleep = {} /\ Goto(t, "out")
        <3>1. Signalling' = Signalling /\ Asleep' = {}
            BY <1>9, <2>1, SetsMove DEF Notify, SemaphoreTypeOK, Places, Signalling, Asleep
        <3>2. Room' /\ NoLostWakeup'
            BY <1>9, <3>1 DEF Notify, Room, NoLostWakeup
        <3>3. SemaphoreTypeOK' /\ MutexHeld'
            BY <1>9, <2>1, ThreadsAssumption DEF Notify, Goto, SemaphoreTypeOK, Places, MutexHeld
        <3> QED
            BY <3>2, <3>3
    <2>2. ASSUME NEW s \in Asleep, at' = [at EXCEPT ![t] = "out", ![s] = "woken"]
          PROVE  SemInv'
        <3>1. s \in Threads /\ s # t /\ at[s] = "asleep" /\ at[t] = "notify"
            BY <1>9, <2>2 DEF Notify, Asleep
        <3>2. /\ Signalling' = Signalling /\ Asleep' \subseteq Asleep
              /\ Alert' = (Alert \ {t}) \cup {s} /\ t \in Alert /\ s \notin Alert \ {t}
            BY <2>2, <3>1 DEF SemaphoreTypeOK, Signalling, Asleep, Alert
        <3>3. Cardinality(Alert \ {t}) = Cardinality(Alert) - 1
            BY <3>2, <1>0, Leave
        <3>4. Cardinality(Alert') = Cardinality(Alert \ {t}) + 1
            BY <3>1, <3>2, <1>0, Enter
        <3>5. Room' /\ NoLostWakeup'
            BY <1>9, <1>0, <3>2, <3>3, <3>4 DEF Notify, Room, NoLostWakeup, SemaphoreTypeOK
        <3>6. SemaphoreTypeOK' /\ MutexHeld'
            BY <1>9, <2>2, <3>1, ThreadsAssumption DEF Notify, SemaphoreTypeOK, Places, MutexHeld
        <3> QED
            BY <3>5, <3>6
    <2> QED
        BY <1>9, <2>1, <2>2 DEF Notify
<1>10. CASE UNCHANGED semaphoreVars
    BY <1>10 DEF semaphoreVars, SemaphoreTypeOK, Room, MutexHeld, NoLostWakeup, Signalling, Asleep, Alert
<1> QED
    BY <1>1, <1>2, <1>3, <1>4, <1>5, <1>6, <1>7, <1>8, <1>9, <1>10 DEF SemaphoreNext, Call, Inner

-----------------------------------------------------------------------------

LEMMA Invariance == SemaphoreSafeSpec => []SemInv
<1> QED
    BY InitSem, StepSem, PTL DEF SemaphoreSafeSpec

\* Semaphore.h keeps m_Count an int between 0 and its bound, whatever the
\* threads do.
THEOREM SemaphoreTypeCorrect == SemaphoreSafeSpec => []SemaphoreTypeOK
BY Invariance, PTL DEF SemInv

\* Mutual exclusion on m_Count.
THEOREM MutualExclusion == SemaphoreSafeSpec => []MutexHeld
BY Invariance, PTL DEF SemInv

\* No permit lies unused beside a sleeper that nobody is about to wake.
THEOREM WakeupsKept == SemaphoreSafeSpec => []NoLostWakeup
BY Invariance, PTL DEF SemInv

\* The abstract semaphore makes the step, or stutters, at every step of the
\* code: Wait() and Signal() are atomic to their callers.
THEOREM Refines == SemaphoreSafeSpec => Abstract!SafeSpec
<1>1. SemaphoreInit => Abstract!Init
    BY DEF SemaphoreInit, Abstract!Init, Waiting
<1>2. ASSUME SemInv, [SemaphoreNext]_semaphoreVars PROVE [Abstract!Next]_(Abstract!vars)
    <2> USE <1>2 DEF SemInv
    <2>1. ASSUME NEW t \in Threads, CallWait(t) PROVE Abstract!Request(t)
        BY <2>1, SetsMove DEF CallWait, SemaphoreTypeOK, Places, Waiting, Abstract!Request
    <2>2. ASSUME NEW t \in Threads, Take(t) PROVE Abstract!Acquire(t)
        BY <2>2, SetsMove DEF Take, SemaphoreTypeOK, Places, Waiting, Abstract!Acquire
    <2>3. ASSUME NEW t \in Threads, Increment(t) PROVE Abstract!Release
        <3>1. Waiting' = Waiting
            BY <2>3, SetsMove DEF Increment, SemaphoreTypeOK, Places, Waiting
        <3>2. Signalling \subseteq Threads /\ t \in Signalling
            BY <2>3 DEF Increment, Signalling
        <3>3. /\ Cardinality(Signalling \ {t}) = Cardinality(Signalling) - 1
              /\ Cardinality(Signalling \ {t}) \in Nat
              /\ Cardinality(Signalling) \in Nat
            BY <3>2, ThreadSets, Leave
        <3>4. count < MaxCount
            BY <3>3, MaxCountAssumption DEF Room, SemaphoreTypeOK
        <3> QED
            BY <2>3, <3>1, <3>4 DEF Increment, Abstract!Release
    <2>4. ASSUME NEW t \in Threads,
                 \/ LockWait(t) \/ Sleep(t) \/ SpuriousWake(t)
                 \/ CallSignal(t) \/ LockSignal(t) \/ Notify(t)
          PROVE  UNCHANGED Abstract!vars
        BY <2>4 DEF LockWait, Sleep, SpuriousWake, CallSignal, LockSignal, Notify,
                    Goto, SemaphoreTypeOK, Waiting, Asleep, Abstract!vars
    <2>5. CASE UNCHANGED semaphoreVars
        BY <2>5 DEF semaphoreVars, Waiting, Abstract!vars
    <2> QED
        BY <2>1, <2>2, <2>3, <2>4, <2>5 DEF SemaphoreNext, Call, Inner, Abstract!Next
<1> QED
    BY <1>1, <1>2, Invariance, PTL DEF SemaphoreSafeSpec, Abstract!SafeSpec

-----------------------------------------------------------------------------
(* Contexts and their debuggers.                                            *)

\* Who owns what.  An object has a server exactly as long as it has a thread
\* for it, and only while it has a JSContext, which is alive as the server is.
Owns(o) ==
    /\ thread[o] = handle[o]
    /\ ~alive[o] => context[o] = None
    /\ context[o] = None => handle[o] = None
    /\ context[o] \notin freed /\ handle[o] \notin freed
    /\ handle[o] # None /\ joining # o => run[handle[o]] # "stopping"
    /\ handle[o] # None => run[handle[o]] # "no"

\* Where debug_handler is led to: it is installed in the JSContext of an object
\* exactly while the object's server is in use.
Led(o) ==
    /\ context[o] \in handler <=> handle[o] # None /\ joining # o
    /\ context[o] \in handler => userdata[context[o]] = o

Alone(o) ==
    \A p \in Objects \ {o} :
        /\ context[o] # None => context[p] # context[o]
        /\ handle[o] # None => handle[p] # handle[o]

\* A JSContext with debug_handler, and a server in Run(), have an owner.
Installed == \A j \in handler : \E o \in Objects : context[o] = j
Served(s) == run[s] \in {"started", "running", "stopping"} =>
                /\ s \notin freed
                /\ \E o \in Objects : handle[o] = s

OwnInv ==
    /\ TypeOK
    /\ ~aborted
    /\ joining # None => handle[joining] # None
    /\ \A o \in Objects : Owns(o) /\ Led(o) /\ Alone(o)
    /\ Installed
    /\ \A s \in Servers : Served(s)
    /\ \A s \in Servers : run[s] = "no" => s \notin freed

LEMMA InitOwns == Init => OwnInv
BY NoneAssumption
DEF Init, OwnInv, TypeOK, Owns, Led, Alone, Installed, Served

\* Operations that take and give JSContexts between objects without servers.
LEMMA ContextOwns ==
    ASSUME Careful, OwnInv,
           \E o \in Objects :
              \/ Create(o) \/ Destroy(o)
              \/ \E from \in Objects : MoveConstruct(o, from) \/ MoveAssign(o, from)
    PROVE  OwnInv'
<1> USE NoneAssumption, KindsAssumption
        DEF OwnInv, TypeOK, Owns, Led, Alone, Installed, Served
<1>1. ASSUME NEW o \in Objects, Create(o) PROVE OwnInv'
    BY <1>1 DEF Create, NewJs
<1>2. ASSUME NEW o \in Objects, Destroy(o) PROVE OwnInv'
    BY <1>2 DEF Destroy, Ready, Off
<1>3. ASSUME NEW o \in Objects, NEW from \in Objects, MoveConstruct(o, from) PROVE OwnInv'
    BY <1>3 DEF MoveConstruct, Ready, Off
<1>4. ASSUME NEW o \in Objects, NEW from \in Objects, MoveAssign(o, from) PROVE OwnInv'
    BY <1>4 DEF MoveAssign, Ready, Off
<1> QED
    BY <1>1, <1>2, <1>3, <1>4

\* Operations of SetDebuggerMode and the end of Run().
LEMMA ServerOwns ==
    ASSUME Careful, OwnInv,
           \/ \E o \in Objects : Enable(o) \/ Disable(o) \/ Joined(o)
           \/ \E s \in Servers : RunBegins(s) \/ RunEnds(s)
    PROVE  OwnInv'
<1> USE NoneAssumption, KindsAssumption
        DEF OwnInv, TypeOK, Owns, Led, Alone, Installed, Served
<1>1. ASSUME NEW o \in Objects, Enable(o) PROVE OwnInv'
    BY <1>1 DEF Enable, Ready, Off, NewServer
<1>2. ASSUME NEW o \in Objects, Disable(o) PROVE OwnInv'
    BY <1>2 DEF Disable, Ready
<1>3. ASSUME NEW o \in Objects, Joined(o) PROVE OwnInv'
    BY <1>3 DEF Joined
<1>4. ASSUME NEW s \in Servers, RunEnds(s) PROVE OwnInv'
    BY <1>4 DEF RunEnds
<1>5. ASSUME NEW s \in Servers, RunBegins(s) PROVE OwnInv'
    BY <1>5 DEF RunBegins
<1> QED
    BY <1>1, <1>2, <1>3, <1>4, <1>5

LEMMA OwnInvHolds == Careful /\ Spec => []OwnInv
<1> SUFFICES ASSUME Careful PROVE Spec => []OwnInv
    OBVIOUS
<1>1. OwnInv /\ [Next]_vars => OwnInv'
    <2> SUFFICES ASSUME OwnInv, [Next]_vars PROVE OwnInv'
        OBVIOUS
    <2>1. CASE Next
        BY <2>1, ContextOwns, ServerOwns DEF Next
    <2>2. CASE UNCHANGED vars
        BY <2>2 DEF vars, OwnInv, TypeOK, Owns, Led, Alone, Installed, Served
    <2> QED
        BY <2>1, <2>2
<1> QED
    BY <1>1, InitOwns, PTL DEF Spec

-----------------------------------------------------------------------------
(* The properties *)

\* The variables have their types, and SetDebuggerMode(0) has a thread to join.
THEOREM TypeCorrect == Careful /\ Spec => []TypeOK
<1>1. OwnInv => TypeOK
    BY DEF OwnInv
<1> QED
    BY <1>1, OwnInvHolds, PTL

\* While a script of a context can come to a line in debugger mode, debug_handler
\* is led to that context and finds its server, which was not deleted.
THEOREM HandlerIsLed == Careful /\ Spec => []HandlerFindsServer
<1>1. OwnInv => HandlerFindsServer
    BY DEF OwnInv, HandlerFindsServer, Traces, Owns, Led
<1> QED
    BY <1>1, OwnInvHolds, PTL

\* A server is not deleted under the thread that is in its Run(), which some
\* object can join.
THEOREM ServersOutliveRuns == Careful /\ Spec => []ServerOutlivesRun
<1>1. OwnInv => ServerOutlivesRun
    BY DEF OwnInv, ServerOutlivesRun, Owns, Served
<1> QED
    BY <1>1, OwnInvHolds, PTL

\* No JSContext and no server is owned twice or used after it was freed.
THEOREM OwnersAlone == Careful /\ Spec => []OneOwner
<1>1. OwnInv => OneOwner
    BY DEF OwnInv, OneOwner, Owns, Alone
<1> QED
    BY <1>1, OwnInvHolds, PTL
=============================================================================
