---------------------------- MODULE AtomicStore ----------------------------
(***************************************************************************)
(* What the storage file promises to those who use it: objects are changed *)
(* in a working state; a commit makes the working state the one that       *)
(* survives; a crash loses the working state and nothing else.  While a    *)
(* commit is under way a crash may leave the state of before or of after   *)
(* it, and never a mixture.  One crash is not survived: one that falls     *)
(* into a collection on a store that has not been changed.                 *)
(***************************************************************************)
EXTENDS StoreStates

VARIABLES
    work,        \* the state the program reads and changes
    survivors,   \* the states a crash at this point may leave
    phase        \* "down", "up", "commit" while a commit is under way, or "lost"

vars == <<work, survivors, phase>>

Init == /\ work = Empty
        /\ survivors = {Empty}
        /\ phase = "down"

Change(s) == /\ phase = "up"
             /\ work' = s
             /\ UNCHANGED <<survivors, phase>>

Allocate == \E o \in Users :
                /\ work.objs[o] = NoObject
                /\ Change([work EXCEPT !.objs[o] = Unstored])

Store == \E o \in Users, b \in Bodies :
             /\ work.objs[o] # NoObject
             /\ Change([work EXCEPT !.objs[o] = Stored(b)])

Release == \E o \in Users : Change([work EXCEPT !.objs[o] = NoObject])

SetRoot == \E o \in Users \cup {0} : Change([work EXCEPT !.root = o])

\* Removes what cannot be reached from the root.
Collect == Change([work EXCEPT !.objs =
               [o \in Users |-> IF o \in Reachable(work) THEN @[o] ELSE NoObject]])

Rollback == \E s \in survivors : survivors = {s} /\ Change(s)

BeginCommit == /\ phase = "up"
               /\ phase' = "commit"
               /\ UNCHANGED <<work, survivors>>

\* From here on a crash may leave the new state.
Decide == /\ phase = "commit"
          /\ survivors' = survivors \cup {work}
          /\ UNCHANGED <<work, phase>>

EndCommit == /\ phase = "commit"
             /\ work \in survivors
             /\ survivors' = {work}
             /\ phase' = "up"
             /\ UNCHANGED work

Open == /\ phase = "down"
        /\ \E s \in survivors : survivors = {s} /\ work' = s
        /\ phase' = "up"
        /\ UNCHANGED survivors

\* Only what was committed is there after a close: changes are committed first.
Close == /\ phase = "up"
         /\ survivors = {work}
         /\ phase' = "down"
         /\ work' = Empty
         /\ UNCHANGED survivors

Crash == /\ phase # "lost"
         /\ \E s \in survivors : survivors' = {s}
         /\ phase' = "down"
         /\ work' = Empty

\* A crash in a collection that had something to remove, when the working
\* state is the one that survives.  Nothing is promised of what is left.
Lose == /\ phase = "up"
        /\ survivors = {work}
        /\ \E o \in Users : work.objs[o].is = "stored" /\ o \notin Reachable(work)
        /\ phase' = "lost"
        /\ work' = Empty

Next == \/ Allocate \/ Store \/ Release \/ SetRoot \/ Collect \/ Rollback
        \/ BeginCommit \/ Decide \/ EndCommit \/ Open \/ Close \/ Crash \/ Lose

Spec == Init /\ [][Next]_vars
=============================================================================
