---------------------------- MODULE StoreStates ----------------------------
(***************************************************************************)
(* The states of a store of objects: a root, and for every identifier what *)
(* is stored under it, which here is the set of identifiers it refers to.  *)
(***************************************************************************)
EXTENDS Integers, FiniteSets

CONSTANTS
    Users,     \* the object identifiers a program may be given
    Bodies     \* the contents of objects: the sets of identifiers they refer to

NoObject == [is |-> "free", refs |-> {}]       \* the identifier is not in use
Unstored == [is |-> "unstored", refs |-> {}]   \* given out, nothing stored yet
Stored(b) == [is |-> "stored", refs |-> b]

Contents == {NoObject, Unstored} \cup {Stored(b) : b \in Bodies}
States == [root : Users \cup {0}, objs : [Users -> Contents]]
Empty == [root |-> 0, objs |-> [o \in Users |-> NoObject]]

\* The identifiers that can be reached from the root: those in every set that
\* has the root and what its members refer to.
Reachable(s) ==
    {o \in Users : \A S \in SUBSET Users :
        /\ s.root # 0 => s.root \in S
        /\ \A q \in S : s.objs[q].refs \subseteq S
        => o \in S}
=============================================================================
