------------------------------ MODULE Collector ------------------------------
(***************************************************************************)
(* Reference counts and the cycle collector of quickjs.c: JS_FreeValue,     *)
(* free_zero_refcount, free_object, the weak references of WeakMap, and     *)
(* JS_RunGC with its passes over the lists of objects.                      *)
(*                                                                         *)
(* A node is a JS object or function bytecode, or one of the things that    *)
(* only these own and that go with their last owner: variable references,   *)
(* shapes, async function data (Inner).  mark_children shows the collector  *)
(* the slots of a node, except Hidden: a value that the C++ data of an      *)
(* object holds and its finalizer drops.  The lists are sets of nodes: a    *)
(* loop takes any node that is on its list.                                 *)
(***************************************************************************)
EXTENDS Integers, FiniteSets

CONSTANTS
    Nodes,     \* what may be allocated
    Inner,     \* the nodes that are variable references, shapes, ...
    Maps,      \* the nodes that are weak maps, of one record
    Hides,     \* the nodes with C++ data that holds a value
    Slots,     \* the references of a node
    Value,     \* the slot for the value of a weak map's record
    Hidden,    \* the slot that no gc_mark function shows
    Stack,     \* the script's variables and those of C++: referred to by nobody
    None

ASSUME Kinds ==
    /\ Inner \subseteq Nodes
    /\ Maps \subseteq Nodes \ Inner
    /\ Hides \subseteq Nodes \ Inner
    /\ {Value, Hidden} \subseteq Slots
    /\ Value # Hidden
    /\ Stack \notin Nodes
    /\ None \notin Nodes

ASSUME FiniteAssumption == IsFiniteSet(Nodes) /\ IsFiniteSet(Slots)

VARIABLES
    pc,        \* "run" while the script runs, otherwise the loop that does
    list,      \* the list a node is on, or "none" when its memory is free
    count,     \* ref_count
    mark,      \* the mark of a node
    dead,      \* free_mark: freed, and its memory perhaps not yet
    ref,       \* the references in the slots
    key,       \* the key of a weak map's record, which is not counted
    next,      \* the element that list_for_each_safe goes on with
    seen,      \* the nodes that the running loop has been at
    spared     \* what untold references led to when the collection began

vars == <<pc, list, count, mark, dead, ref, key, next, seen, spared>>

-----------------------------------------------------------------------------
(* References.                                                              *)

Owners == Nodes \cup {Stack}
Edges(ns) == ns \X Slots
Target(e) == ref[e[1]][e[2]]
On(l) == {n \in Nodes : list[n] = l}
Used == Nodes \ On("none")

\* How many of the references in es are to x.
To(es, x) == Cardinality({e \in es : Target(e) = x})

\* Slip: WeakMap values are not shown.
SlipShown(n) == {n} \X (Slots \ {Hidden, Value})

\* mark_children
Shown(n) == {n} \X (Slots \ {Hidden})

\* References do not lead out of S.
Closed(S) == \A e \in Edges(S) : Target(e) \in S \cup {None}

ReachableFrom(from) ==
    LET closed == {S \in SUBSET Owners : from \subseteq S /\ Closed(S)}
    IN  {x \in Owners : \A S \in closed : x \in S}

Reachable == ReachableFrom({Stack})

-----------------------------------------------------------------------------
(* Freeing references and nodes.                                            *)

\* The references in es go, after one to gain was added.  Inner nodes that
\* lose their last one are freed at once; other nodes go to
\* gc_zero_ref_count_list, unless cycles are being removed.
Release(es, gain) ==
    LET had(x) == count[x] + IF x = gain THEN 1 ELSE 0
        inner == {i \in Inner : list[i] # "none" /\ To(es, i) > 0 /\ had(i) = To(es, i)}
        all == es \cup Edges(inner)
    IN  [count |-> [x \in Nodes |-> had(x) - To(all, x)],
         list |-> [x \in Nodes |->
                     IF x \in inner THEN "none"
                     ELSE IF pc # "cycles" /\ To(all, x) > 0 /\ had(x) = To(all, x)
                     THEN "zero" ELSE list[x]],
         ref |-> [n \in Owners |->
                     [s \in Slots |-> IF <<n, s>> \in all THEN None ELSE ref[n][s]]],
         key |-> [n \in Nodes |->
                     IF n \in inner \/ <<n, Value>> \in es THEN None ELSE key[n]]]

\* Slip: the records of weak maps keep their key.
SlipWeakRecords(n) == {}

\* The records whose key is n: reset_weak_ref takes them out of their maps.
WeakRecords(n) == {<<m, Value>> : m \in {w \in Maps : key[w] = n}}

\* free_object and free_function_bytecode.  While cycles are removed, the
\* memory of a node that others refer to stays until all are freed.
FreeNode(n) ==
    LET r == Release(Edges({n}) \cup WeakRecords(n), None)
        stays == pc = "cycles" /\ r.count[n] # 0
    IN  /\ count' = r.count
        /\ list' = [r.list EXCEPT ![n] = IF stays THEN "zero" ELSE "none"]
        /\ dead' = [dead EXCEPT ![n] = stays]
        /\ ref' = r.ref
        /\ key' = r.key

-----------------------------------------------------------------------------
(* The script.                                                              *)

Blank == [s \in Slots |-> None]

Init == /\ pc = "run"
        /\ list = [n \in Nodes |-> "none"]
        /\ count = [n \in Nodes |-> 0]
        /\ mark = [n \in Nodes |-> 0]
        /\ dead = [n \in Nodes |-> FALSE]
        /\ ref = [n \in Owners |-> Blank]
        /\ key = [n \in Nodes |-> None]
        /\ next = None
        /\ seen = {}
        /\ spared = {}

\* References change; __JS_FreeValueRT runs free_zero_refcount when a node
\* lost its last one.
Assigned(r) ==
    /\ count' = r.count
    /\ list' = r.list
    /\ ref' = r.ref
    /\ key' = r.key
    /\ pc' = IF \E n \in Nodes : r.list[n] = "zero" THEN "drain" ELSE "run"
    /\ UNCHANGED <<mark, dead, next, seen, spared>>

\* A reference to t is stored in slot s of n, and the old one is freed.
Assign(n, s, t) ==
    LET r == Release({<<n, s>>}, t)
    IN  Assigned([r EXCEPT !.ref[n][s] = t])

\* What may be stored where: C++ data and weak records are particular slots,
\* and an inner node has one reference, to an object.
MayStore(n, s, t) ==
    /\ n \in Inner => s = Value /\ t \notin Inner
    /\ s = Hidden => n \in Hides
    /\ s = Value => n \notin Maps

Store(n, s, t) ==
    /\ MayStore(n, s, t)
    /\ ref[n][s] # t
    /\ Assign(n, s, t)

Clear(n, s) ==
    /\ ref[n][s] # None
    /\ n \in Maps => s # Value
    /\ Assign(n, s, None)

\* add_gc_object: a new node, held by a variable.
New(n, s) ==
    LET r == Release({<<Stack, s>>}, None)
    IN  /\ list[n] = "none"
        /\ s # Hidden
        /\ ref[Stack][s] = None
        /\ Assigned([r EXCEPT !.list[n] = "gc", !.count[n] = 1, !.ref[Stack][s] = n])

\* WeakMap.prototype.set on a map without a record, or with one of this key.
\* The key is not counted.
MapSet(m, k, v) ==
    LET r == Release({<<m, Value>>}, v)
    IN  /\ k \notin Inner /\ v \notin Inner
        /\ key[m] \in {None, k}
        /\ Assigned([r EXCEPT !.ref[m][Value] = v, !.key[m] = k])

\* WeakMap.prototype.delete
MapDelete(m) ==
    /\ key[m] # None
    /\ Assigned(Release({<<m, Value>>}, None))

\* free_zero_refcount
Drain(n) ==
    /\ pc = "drain"
    /\ list[n] = "zero"
    /\ FreeNode(n)
    /\ pc' = IF \E x \in Nodes : list'[x] = "zero" THEN "drain" ELSE "run"
    /\ UNCHANGED <<mark, next, seen, spared>>

-----------------------------------------------------------------------------
(* JS_RunGC.                                                                *)

\* The next element of a list, with ns left.
NextOf(ns) == IF ns = {} THEN {None} ELSE ns

\* The references that go with a node without its being known to the passes:
\* hidden ones, and the values of weak records whose key goes.
Untold == {<<n, Hidden>> : n \in Used}
             \cup {<<m, Value>> : m \in {w \in Maps : key[w] \notin Reachable}}

\* gc_decref begins.
StartGC ==
    /\ pc = "run"
    /\ Used # {}
    /\ pc' = "decref"
    /\ next' \in On("gc")
    /\ seen' = {}
    /\ spared' = ReachableFrom({Target(e) : e \in Untold} \ {None})
    /\ UNCHANGED <<list, count, mark, dead, ref, key>>

\* gc_decref_child on x, when the node p itself is not marked yet.
Uncounted(p, x) == count[x] - To(Shown(p), x)

\* Slip: a node that the loop has still to come to may be moved too.
SlipToTmp(p, x) == list[x] = "gc" /\ Uncounted(p, x) = 0 /\ (To(Shown(p), x) > 0 \/ x = p)

\* The nodes moved to tmp_obj_list: those marked, and p after its children.
ToTmp(p, x) ==
    /\ list[x] = "gc"
    /\ Uncounted(p, x) = 0
    /\ (mark[x] = 1 /\ To(Shown(p), x) > 0) \/ x = p

\* An element of gc_decref; the one after it was read before.
Decref ==
    LET p == next
    IN  /\ pc = "decref"
        /\ p # None
        /\ next' \in NextOf(On("gc") \ (seen \cup {p}))
        /\ count' = [x \in Nodes |-> Uncounted(p, x)]
        /\ mark' = [mark EXCEPT ![p] = 1]
        /\ list' = [x \in Nodes |-> IF ToTmp(p, x) THEN "tmp" ELSE list[x]]
        /\ seen' = seen \cup {p}
        /\ UNCHANGED <<pc, dead, ref, key, spared>>

EndDecref ==
    /\ pc = "decref"
    /\ next = None
    /\ pc' = "scan"
    /\ seen' = {}
    /\ UNCHANGED <<list, count, mark, dead, ref, key, next, spared>>

\* Slip: what gc_scan comes to is kept, and its children are not.
SlipBack(p, x) == FALSE

\* gc_scan_incref_child: a child that had no count goes back to gc_obj_list,
\* where the loop will come to it.
Back(p, x) == To(Shown(p), x) > 0 /\ count[x] = 0

\* Slip: only children lose their mark.
SlipScan(p) ==
    /\ pc = "scan"
    /\ p \in On("gc") \ seen
    /\ count' = [x \in Nodes |-> count[x] + To(Shown(p), x)]
    /\ list' = [x \in Nodes |-> IF Back(p, x) THEN "gc" ELSE list[x]]
    /\ mark' = [x \in Nodes |-> IF Back(p, x) THEN 0 ELSE mark[x]]
    /\ seen' = seen \cup {p}
    /\ UNCHANGED <<pc, dead, ref, key, next, spared>>

\* An element of gc_scan: its children are counted again.
Scan(p) ==
    /\ pc = "scan"
    /\ p \in On("gc") \ seen
    /\ count' = [x \in Nodes |-> count[x] + To(Shown(p), x)]
    /\ list' = [x \in Nodes |-> IF Back(p, x) THEN "gc" ELSE list[x]]
    /\ mark' = [x \in Nodes |-> IF x = p \/ Back(p, x) THEN 0 ELSE mark[x]]
    /\ seen' = seen \cup {p}
    /\ UNCHANGED <<pc, dead, ref, key, next, spared>>

EndScan ==
    /\ pc = "scan"
    /\ On("gc") \subseteq seen
    /\ pc' = "restore"
    /\ seen' = {}
    /\ UNCHANGED <<list, count, mark, dead, ref, key, next, spared>>

\* The second loop of gc_scan.
Restore(p) ==
    /\ pc = "restore"
    /\ p \in On("tmp") \ seen
    /\ count' = [x \in Nodes |-> count[x] + To(Shown(p), x)]
    /\ seen' = seen \cup {p}
    /\ UNCHANGED <<pc, list, mark, dead, ref, key, next, spared>>

EndRestore ==
    /\ pc = "restore"
    /\ On("tmp") \subseteq seen
    /\ pc' = "cycles"
    /\ seen' = {}
    /\ UNCHANGED <<list, count, mark, dead, ref, key, next, spared>>

\* An element of gc_free_cycles: an inner node is left to its owners.
FreeCycle(p) ==
    /\ pc = "cycles"
    /\ list[p] = "tmp"
    /\ IF p \notin Inner THEN FreeNode(p)
       ELSE /\ list' = [list EXCEPT ![p] = "zero"]
            /\ UNCHANGED <<count, dead, ref, key>>
    /\ UNCHANGED <<pc, mark, next, seen, spared>>

\* The memory of what is on gc_zero_ref_count_list is freed.
EndGC ==
    /\ pc = "cycles"
    /\ On("tmp") = {}
    /\ list' = [x \in Nodes |-> IF list[x] = "zero" THEN "none" ELSE list[x]]
    /\ dead' = [x \in Nodes |-> FALSE]
    /\ count' = [x \in Nodes |-> IF list[x] = "zero" THEN 0 ELSE count[x]]
    /\ mark' = [x \in Nodes |-> IF list[x] \in {"zero", "none"} THEN 0 ELSE mark[x]]
    /\ pc' = "run"
    /\ spared' = {}
    /\ UNCHANGED <<ref, key, next, seen>>

\* The script runs, and uses what it can reach.
Script ==
    /\ pc = "run"
    /\ LET used == Reachable \ {Stack} IN
        \/ \E n \in used \cup {Stack}, s \in Slots :
              Clear(n, s) \/ \E t \in used : Store(n, s, t)
        \/ \E n \in Nodes, s \in Slots : New(n, s)
        \/ \E m \in Maps \cap used : MapDelete(m) \/ \E k, v \in used : MapSet(m, k, v)

Collection == \/ Decref \/ EndDecref \/ EndScan \/ EndRestore \/ EndGC
              \/ \E n \in Nodes : Drain(n) \/ Scan(n) \/ Restore(n) \/ FreeCycle(n)

Next == Script \/ StartGC \/ Collection

Spec == Init /\ [][Next]_vars

-----------------------------------------------------------------------------
(* Properties.                                                              *)

\* The state has its type: no count goes below zero in any pass.
TypeOK ==
    /\ pc \in {"run", "drain", "decref", "scan", "restore", "cycles"}
    /\ list \in [Nodes -> {"none", "gc", "tmp", "zero"}]
    /\ count \in [Nodes -> Nat]
    /\ mark \in [Nodes -> 0 .. 1]
    /\ dead \in [Nodes -> BOOLEAN]
    /\ ref \in [Owners -> [Slots -> Nodes \cup {None}]]
    /\ key \in [Nodes -> Nodes \cup {None}]
    /\ next \in Nodes \cup {None}
    /\ seen \subseteq Nodes
    /\ spared \subseteq Nodes

\* A reference never leads to memory that was freed, and a weak key never to
\* an object that was: not while cycles are taken apart either.
NoDangling ==
    /\ \A e \in Edges(Owners) : Target(e) # None => list[Target(e)] # "none"
    /\ \A m \in Nodes : key[m] # None => list[key[m]] # "none" /\ ~dead[key[m]]

\* What the script can reach is not freed, nor about to be, by whatever
\* order of its passes the collector works in.
OnlyGarbage ==
    \A n \in Reachable \ {Stack} :
        ~dead[n] /\ (pc \in {"run", "drain", "restore", "cycles"} => list[n] = "gc")

\* When the script runs, after any number of collections, every count is
\* the number of references and every mark is reset: nothing of the passes
\* that subtract and add counts is left behind.
CountsExact ==
    /\ TypeOK
    /\ pc = "run" => \A n \in Used :
          /\ list[n] = "gc"
          /\ mark[n] = 0
          /\ count[n] = To(Edges(Owners), n)

\* The assertions of the passes hold: a node is not marked before gc_decref
\* comes to it, and is still on the list then; what gc_scan keeps has a
\* count; the last loop only frees objects and bytecode.
AssertsHold ==
    /\ pc = "decref" /\ next # None => mark[next] = 0 /\ list[next] = "gc"
    /\ pc = "scan" => \A n \in On("gc") : count[n] > 0
    /\ pc = "cycles" /\ On("tmp") = {} => On("zero") \cap Inner = {}

\* A collection leaves what the script can reach, and what hidden references
\* led to; all other nodes are freed.
CollectsAll ==
    [][pc = "cycles" /\ pc' = "run" =>
          {n \in Nodes : list'[n] # "none"} \subseteq Reachable \cup spared]_vars
=============================================================================
