-------------------------- MODULE CollectorProofs --------------------------
(***************************************************************************)
(* Proofs about Collector.tla, for any number of nodes with any number of  *)
(* references, and any order of the lists.                                 *)
(***************************************************************************)
EXTENDS Collector, FiniteSetTheorems, TLAPS

Is(x, y) == IF x = y THEN 1 ELSE 0

All == Edges(Owners)

\* The references that the passes see.
Open(ns) == ns \X (Slots \ {Hidden})

\* What is freed refers to nothing.
FreeIsBlank == \A n \in Nodes : list[n] = "none" => ref[n] = Blank /\ key[n] = None

\* Inner nodes do not refer to one another, and have an owner.
InnerOwned ==
    /\ \A e \in All : e[1] \in Inner => Target(e) \notin Inner
    /\ \A i \in Inner : list[i] # "none" => \E e \in All : Target(e) = i

\* Weak keys are keys of maps.
KeysOfMaps == \A n \in Nodes : key[n] # None => n \in Maps /\ key[n] \notin Inner

Wired == TypeOK /\ NoDangling /\ FreeIsBlank /\ InnerOwned /\ KeysOfMaps

\* The references of es that are to x, where R are the references.
Refs(R, es, x) == {e \in es : R[e[1]][e[2]] = x}

\* The counts c are those of the references in es.
Counts(c, R, es) == \A x \in Nodes : c[x] = Cardinality(Refs(R, es, x))

NoneDead == \A n \in Nodes : ~dead[n]

\* The nodes of the lists ls are referred to by one another only.
Isolated(ls) ==
    \A e \in All : Target(e) \in Nodes /\ list[Target(e)] \in ls =>
        e[1] \in Nodes /\ list[e[1]] \in ls

InRun ==
    /\ Counts(count, ref, All)
    /\ NoneDead
    /\ \A n \in Nodes : mark[n] = 0 /\ list[n] # "tmp"
    /\ \A n \in Nodes : list[n] = "zero" => pc = "drain" /\ count[n] = 0 /\ n \notin Inner

InDecref ==
    /\ Counts(count, ref, All \ Open(seen))
    /\ NoneDead
    /\ \A n \in Nodes : mark[n] = 1 <=> n \in seen
    /\ \A n \in Nodes : list[n] # "zero"
    /\ \A n \in Nodes : n \notin seen => list[n] # "tmp"
    /\ \A n \in seen : list[n] # "none" /\ (list[n] = "tmp" <=> count[n] = 0)
    /\ next # None => list[next] = "gc" /\ next \notin seen
    /\ next = None => \A n \in Nodes : list[n] # "none" => n \in seen

InScan ==
    /\ Counts(count, ref, All \ Open(Nodes \ seen))
    /\ NoneDead
    /\ \A n \in Nodes : list[n] # "zero" /\ (list[n] # "none" => (list[n] = "tmp" <=> count[n] = 0))
    /\ \A n \in seen : list[n] = "gc" /\ mark[n] = 0

InRestore ==
    /\ Counts(count, ref, All \ Open(On("tmp") \ seen))
    /\ NoneDead
    /\ \A n \in Nodes : list[n] # "zero" /\ (list[n] = "gc" => mark[n] = 0)
    /\ Isolated({"tmp"})

InCycles ==
    /\ Counts(count, ref, All)
    /\ \A n \in Nodes : list[n] = "gc" => mark[n] = 0
    /\ Isolated({"tmp", "zero"})
    /\ \A n \in Nodes : dead[n] <=> list[n] = "zero" /\ n \notin Inner
    /\ \A n \in Nodes : dead[n] => ref[n] = Blank /\ key[n] = None

Phases ==
    /\ pc \in {"run", "drain"} => InRun
    /\ pc = "decref" => InDecref
    /\ pc = "scan" => InScan
    /\ pc = "restore" => InRestore
    /\ pc = "cycles" => InCycles

IInv == Wired /\ Phases

-----------------------------------------------------------------------------
(* Counting references.                                                    *)

LEMMA AllFinite == IsFiniteSet(All)
<1>1. IsFiniteSet(Owners)
  BY FiniteAssumption, FS_AddElement DEF Owners
<1> QED
  BY <1>1, FiniteAssumption, FS_Product DEF All, Edges

LEMMA ToRefs ==
    ASSUME NEW es, NEW x
    PROVE  To(es, x) = Cardinality(Refs(ref, es, x))
BY DEF To, Refs, Target

\* The references of A are those of B and the others.
LEMMA SplitCount ==
    ASSUME NEW R, NEW A \in SUBSET All, NEW B \in SUBSET A, NEW x
    PROVE  /\ Cardinality(Refs(R, A, x)) \in Nat
           /\ Cardinality(Refs(R, B, x)) \in Nat
           /\ Cardinality(Refs(R, A \ B, x)) \in Nat
           /\ Cardinality(Refs(R, A, x)) = Cardinality(Refs(R, A \ B, x)) + Cardinality(Refs(R, B, x))
<1>1. /\ IsFiniteSet(Refs(R, A, x)) /\ IsFiniteSet(Refs(R, B, x)) /\ IsFiniteSet(Refs(R, A \ B, x))
  <2>1. Refs(R, A, x) \in SUBSET All /\ Refs(R, B, x) \in SUBSET All /\ Refs(R, A \ B, x) \in SUBSET All
    BY DEF Refs
  <2> QED
    BY <2>1, AllFinite, FS_Subset
<1>2. /\ Refs(R, A, x) = Refs(R, A \ B, x) \cup Refs(R, B, x)
      /\ Refs(R, A \ B, x) \cap Refs(R, B, x) = {}
  BY DEF Refs
<1>3. /\ Cardinality(Refs(R, A, x)) \in Nat /\ Cardinality(Refs(R, B, x)) \in Nat
      /\ Cardinality(Refs(R, A \ B, x)) \in Nat
  BY <1>1, FS_CardinalityType
<1>4. Cardinality(Refs(R, A, x)) =
        Cardinality(Refs(R, A \ B, x)) + Cardinality(Refs(R, B, x)) - Cardinality({})
  BY <1>1, <1>2, FS_Union
<1> QED
  BY <1>3, <1>4, FS_EmptySet

LEMMA CountZero ==
    ASSUME NEW R, NEW A \in SUBSET All, NEW x
    PROVE  /\ Cardinality(Refs(R, A, x)) \in Nat
           /\ Cardinality(Refs(R, A, x)) = 0 <=> \A e \in A : R[e[1]][e[2]] # x
<1>1. IsFiniteSet(Refs(R, A, x))
  <2>1. Refs(R, A, x) \in SUBSET All
    BY DEF Refs
  <2> QED
    BY <2>1, AllFinite, FS_Subset
<1>2. Refs(R, A, x) = {} <=> \A e \in A : R[e[1]][e[2]] # x
  BY DEF Refs
<1> QED
  BY <1>1, <1>2, FS_EmptySet, FS_CardinalityType

\* Only the reference d differs.
SameBut(Q, R, d) == \A e \in All \ {d} : Q[e[1]][e[2]] = R[e[1]][e[2]]

LEMMA CountStored ==
    ASSUME NEW R, NEW Q, NEW d \in All, NEW x,
           R[d[1]][d[2]] # x, SameBut(Q, R, d)
    PROVE  Cardinality(Refs(Q, All, x)) = Cardinality(Refs(R, All, x)) + Is(x, Q[d[1]][d[2]])
<1>1. Refs(Q, All \ {d}, x) = Refs(R, All, x)
  BY DEF Refs, SameBut
<1>2. {d} \in SUBSET All /\ All \in SUBSET All
  OBVIOUS
<1>3. /\ Cardinality(Refs(Q, All, x)) = Cardinality(Refs(Q, All \ {d}, x)) + Cardinality(Refs(Q, {d}, x))
      /\ Cardinality(Refs(Q, {d}, x)) \in Nat /\ Cardinality(Refs(Q, All \ {d}, x)) \in Nat
  BY <1>2, SplitCount
<1>4. Refs(Q, {d}, x) = IF Q[d[1]][d[2]] = x THEN {d} ELSE {}
  BY DEF Refs
<1>5. Cardinality(Refs(Q, {d}, x)) = Is(x, Q[d[1]][d[2]])
  <2>1. Cardinality({d}) = 1 /\ Cardinality({}) = 0
    BY FS_EmptySet, FS_Singleton
  <2> QED
    BY ONLY <1>4, <2>1 DEF Is
<1> QED
  BY <1>1, <1>3, <1>5

-----------------------------------------------------------------------------
(* Release.                                                                *)

\* The inner nodes that Release frees, and the references that go.
Freed(es, gain) ==
    {i \in Inner : list[i] # "none" /\ To(es, i) > 0 /\ count[i] + Is(i, gain) = To(es, i)}
Gone(es, gain) == es \cup Edges(Freed(es, gain))

LEMMA ReleaseIs ==
    ASSUME NEW es, NEW gain
    PROVE  LET r == Release(es, gain)
           IN  /\ r.count = [x \in Nodes |-> (count[x] + Is(x, gain)) - To(Gone(es, gain), x)]
               /\ r.list = [x \in Nodes |->
                              IF x \in Freed(es, gain) THEN "none"
                              ELSE IF /\ pc # "cycles"
                                      /\ To(Gone(es, gain), x) > 0
                                      /\ count[x] + Is(x, gain) = To(Gone(es, gain), x)
                              THEN "zero" ELSE list[x]]
               /\ r.ref = [n \in Owners |->
                              [s \in Slots |-> IF <<n, s>> \in Gone(es, gain) THEN None ELSE ref[n][s]]]
               /\ r.key = [n \in Nodes |->
                              IF n \in Freed(es, gain) \/ <<n, Value>> \in es THEN None ELSE key[n]]
BY DEF Release, Gone, Freed, Is

\* What becomes of a node, a reference, a key and a count.
ListKept(x, l) == l[x] = list[x]
ListFreed(x, es, c, l, R, k) ==
    /\ x \in Inner /\ l[x] = "none" /\ c[x] = 0 /\ R[x] = Blank /\ k[x] = None
    /\ \E e \in es : Target(e) = x
ListZero(x, c, l) == pc # "cycles" /\ x \notin Inner /\ list[x] # "none" /\ l[x] = "zero" /\ c[x] = 0

Released(es, gain, c, l, R, k) ==
    /\ c \in [Nodes -> Nat]
    /\ l \in [Nodes -> {"none", "gc", "tmp", "zero"}]
    /\ R \in [Owners -> [Slots -> Nodes \cup {None}]]
    /\ k \in [Nodes -> Nodes \cup {None}]
    /\ \A e \in es : R[e[1]][e[2]] = None
    /\ \A e \in All : R[e[1]][e[2]] \in {Target(e), None}
    /\ \A e \in All : \/ R[e[1]][e[2]] = Target(e)
                      \/ e \in es
                      \/ e[1] \in Inner /\ l[e[1]] = "none"
    /\ \A n \in Nodes : k[n] \in {key[n], None} /\ (<<n, Value>> \in es => k[n] = None)
    /\ \A x \in Nodes : c[x] = Cardinality(Refs(R, All, x)) + Is(x, gain)
    /\ \A x \in Nodes : ListKept(x, l) \/ ListFreed(x, es, c, l, R, k) \/ ListZero(x, c, l)
    /\ \A i \in Inner : l[i] # "none" => c[i] > 0

\* What Release makes of a heap whose counts are exact.
LEMMA ReleaseGood ==
    ASSUME Wired, Counts(count, ref, All), NEW es \in SUBSET All,
           NEW gain \in Nodes \cup {None}, gain # None => list[gain] # "none",
           NEW c, NEW l, NEW R, NEW k,
           c = Release(es, gain).count, l = Release(es, gain).list,
           R = Release(es, gain).ref, k = Release(es, gain).key
    PROVE  Released(es, gain, c, l, R, k)
<1> DEFINE F == Freed(es, gain)
           G == Gone(es, gain)
<1>1. /\ c = [x \in Nodes |-> (count[x] + Is(x, gain)) - To(G, x)]
      /\ l = [x \in Nodes |->
                IF x \in F THEN "none"
                ELSE IF pc # "cycles" /\ To(G, x) > 0 /\ count[x] + Is(x, gain) = To(G, x)
                THEN "zero" ELSE list[x]]
      /\ R = [n \in Owners |-> [s \in Slots |-> IF <<n, s>> \in G THEN None ELSE ref[n][s]]]
      /\ k = [n \in Nodes |-> IF n \in F \/ <<n, Value>> \in es THEN None ELSE key[n]]
  BY ReleaseIs
<1>2. F \subseteq Inner /\ Inner \subseteq Nodes /\ F \subseteq Owners /\ None \notin Nodes
  BY Kinds DEF Freed, Owners
<1>3. G = es \cup (F \X Slots) /\ G \in SUBSET All /\ es \in SUBSET G
  BY <1>2 DEF Gone, Edges, All
<1> HIDE DEF F, G
<1>4. \A e \in All : e = <<e[1], e[2]>> /\ e[1] \in Owners /\ e[2] \in Slots
  BY DEF All, Edges
<1>5. \A e \in All : R[e[1]][e[2]] = IF e \in G THEN None ELSE Target(e)
  BY <1>1, <1>4 DEF Target
<1>6. ASSUME NEW x \in Nodes
      PROVE  /\ To(G, x) \in Nat /\ To(es, x) \in Nat /\ Is(x, gain) \in Nat /\ count[x] \in Nat
             /\ Cardinality(Refs(R, All, x)) \in Nat
             /\ count[x] = Cardinality(Refs(R, All, x)) + To(G, x)
             /\ c[x] = Cardinality(Refs(R, All, x)) + Is(x, gain)
             /\ c[x] \in Nat
             /\ c[x] = (count[x] + Is(x, gain)) - To(G, x)
  <2>1. Refs(R, All, x) = Refs(ref, All \ G, x)
    BY <1>2, <1>5 DEF Refs, Target
  <2>2. /\ Cardinality(Refs(ref, All, x)) = Cardinality(Refs(ref, All \ G, x)) + Cardinality(Refs(ref, G, x))
        /\ Cardinality(Refs(ref, All \ G, x)) \in Nat /\ Cardinality(Refs(ref, G, x)) \in Nat
    <3>1. G \in SUBSET All /\ All \in SUBSET All
      BY <1>3
    <3> QED
      BY ONLY <3>1, SplitCount
  <2>3. Cardinality(Refs(ref, es, x)) \in Nat
    BY CountZero
  <2>4. To(G, x) = Cardinality(Refs(ref, G, x)) /\ To(es, x) = Cardinality(Refs(ref, es, x))
    BY ToRefs
  <2>5. count[x] = Cardinality(Refs(ref, All, x))
    BY DEF Counts
  <2>6. Is(x, gain) \in Nat
    BY DEF Is
  <2>7. c[x] = (count[x] + Is(x, gain)) - To(G, x)
    BY <1>1
  <2> QED
    BY ONLY <2>1, <2>2, <2>3, <2>4, <2>5, <2>6, <2>7
<1>7. \A i \in Inner : To(G, i) = To(es, i)
  <2> TAKE i \in Inner
  <2>1. \A e \in F \X Slots : e \in All /\ e[1] \in Inner
    BY <1>2, <1>3
  <2>2. \A e \in F \X Slots : Target(e) # i
    BY <2>1 DEF Wired, InnerOwned
  <2>3. {e \in G : Target(e) = i} = {e \in es : Target(e) = i}
    BY <1>3, <2>2
  <2> QED
    BY <2>3 DEF To
<1>8. \A x \in Nodes : To(G, x) > 0 => list[x] # "none"
  <2> TAKE x \in Nodes
  <2>1. To(G, x) = Cardinality(Refs(ref, G, x))
    BY ToRefs
  <2>2. To(G, x) > 0 => \E e \in G : ref[e[1]][e[2]] = x
    BY <2>1, <1>3, CountZero
  <2> QED
    BY <2>2, <1>2, <1>3 DEF Wired, NoDangling, Target, All
<1>9. ASSUME NEW x \in F
      PROVE  /\ x \in Inner /\ l[x] = "none" /\ c[x] = 0 /\ R[x] = Blank /\ k[x] = None
             /\ \E e \in es : Target(e) = x
  <2>1. x \in Inner /\ x \in Nodes /\ x \in Owners
    BY <1>2
  <2>2. l[x] = "none" /\ k[x] = None
    BY <1>1, <2>1
  <2>3. \A s \in Slots : <<x, s>> \in G
    BY <1>3
  <2>4. R[x] = Blank
    BY <1>1, <2>1, <2>3 DEF Blank
  <2>5. count[x] + Is(x, gain) = To(es, x)
    BY DEF F, Freed
  <2>6. c[x] = 0
    <3>1. c[x] = (count[x] + Is(x, gain)) - To(G, x) /\ To(G, x) \in Nat
      BY <1>6, <2>1
    <3> QED
      BY ONLY <3>1, <1>7, <2>1, <2>5
  <2>7. \E e \in es : Target(e) = x
    <3>1. To(es, x) = Cardinality(Refs(ref, es, x)) /\ To(es, x) > 0
      BY ToRefs DEF F, Freed
    <3>2. ~(Cardinality(Refs(ref, es, x)) = 0)
      BY <3>1
    <3> QED
      BY <3>2, CountZero DEF Target
  <2> QED
    BY <2>1, <2>2, <2>4, <2>6, <2>7
<1>10. ASSUME NEW i \in Inner, i \notin F, list[i] # "none"
       PROVE  c[i] > 0 /\ ~(To(G, i) > 0 /\ count[i] + Is(i, gain) = To(G, i))
  <2>1. i \in Nodes /\ To(G, i) = To(es, i)
    BY <1>2, <1>7
  <2>2. count[i] > 0
    <3>1. \E e \in All : ref[e[1]][e[2]] = i
      BY <1>10 DEF Wired, InnerOwned, Target
    <3>2. Cardinality(Refs(ref, All, i)) \in Nat /\ Cardinality(Refs(ref, All, i)) # 0
      BY <3>1, CountZero
    <3> QED
      BY <3>2, <2>1 DEF Counts
  <2>3. ~(To(es, i) > 0 /\ count[i] + Is(i, gain) = To(es, i))
    BY <1>10 DEF F, Freed
  <2>4. c[i] # 0
    BY <1>6, <2>1, <2>2, <2>3
  <2> QED
    BY <1>6, <2>1, <2>3, <2>4
<1>11. ASSUME NEW x \in Nodes
       PROVE  /\ \/ l[x] = list[x]
                 \/ /\ x \in Inner /\ l[x] = "none" /\ c[x] = 0 /\ R[x] = Blank /\ k[x] = None
                    /\ \E e \in es : Target(e) = x
                 \/ pc # "cycles" /\ x \notin Inner /\ list[x] # "none" /\ l[x] = "zero" /\ c[x] = 0
              /\ l[x] \in {"none", "gc", "tmp", "zero"}
  <2>1. list[x] \in {"none", "gc", "tmp", "zero"}
    BY DEF Wired, TypeOK
  <2>2. CASE x \in F
    BY <2>2, <1>9
  <2>3. CASE x \notin F /\ pc # "cycles" /\ To(G, x) > 0 /\ count[x] + Is(x, gain) = To(G, x)
    <3>1. l[x] = "zero"
      BY <1>1, <2>3
    <3>2. list[x] # "none"
      BY <1>8, <2>3
    <3>3. x \notin Inner
      BY <1>10, <2>3, <3>2
    <3>4. c[x] = 0
      <4>1. c[x] = (count[x] + Is(x, gain)) - To(G, x) /\ To(G, x) \in Nat
        BY <1>6
      <4> QED
        BY ONLY <4>1, <2>3
    <3> QED
      BY <3>1, <3>2, <3>3, <3>4, <2>3
  <2>4. CASE x \notin F /\ ~(pc # "cycles" /\ To(G, x) > 0 /\ count[x] + Is(x, gain) = To(G, x))
    <3>1. l[x] = list[x]
      BY <1>1, <2>4
    <3> QED
      BY <3>1, <2>1
  <2> QED
    BY <2>2, <2>3, <2>4
<1>12. ASSUME NEW i \in Inner, l[i] # "none" PROVE c[i] > 0
  <2>1. i \in Nodes /\ i \notin F
    BY <1>2, <1>9, <1>12
  <2>2. list[i] # "none"
    BY <1>1, <1>8, <1>12, <2>1
  <2> QED
    BY <2>1, <2>2, <1>10
<1>13. R \in [Owners -> [Slots -> Nodes \cup {None}]] /\ k \in [Nodes -> Nodes \cup {None}]
  BY <1>1 DEF Wired, TypeOK
<1>14. c \in [Nodes -> Nat] /\ l \in [Nodes -> {"none", "gc", "tmp", "zero"}]
  BY <1>1, <1>6, <1>11
<1>15. \A n \in Nodes : k[n] \in {key[n], None} /\ (<<n, Value>> \in es => k[n] = None)
  BY <1>1
<1>16. /\ \A e \in es : R[e[1]][e[2]] = None
       /\ \A e \in All : R[e[1]][e[2]] \in {Target(e), None}
  BY <1>5, <1>3
<1>17. \A e \in All : \/ R[e[1]][e[2]] = Target(e)
                      \/ e \in es
                      \/ e[1] \in Inner /\ l[e[1]] = "none"
  <2> TAKE e \in All
  <2>1. CASE e \notin G
    BY <2>1, <1>5
  <2>2. CASE e \in G /\ e \notin es
    <3>1. e[1] \in F
      BY <2>2, <1>3
    <3> QED
      BY <3>1, <1>9
  <2> QED
    BY <2>1, <2>2
<1>18. \A x \in Nodes : ListKept(x, l) \/ ListFreed(x, es, c, l, R, k) \/ ListZero(x, c, l)
  BY <1>11 DEF ListKept, ListFreed, ListZero
<1>19. /\ \A x \in Nodes : c[x] = Cardinality(Refs(R, All, x)) + Is(x, gain)
       /\ \A i \in Inner : l[i] # "none" => c[i] > 0
  BY <1>6, <1>12
<1> QED
  BY ONLY <1>13, <1>14, <1>15, <1>16, <1>17, <1>18, <1>19 DEF Released

-----------------------------------------------------------------------------
(* The script.                                                             *)

\* A heap as it is between collections.
Heap(c, l, R, k) ==
    /\ c \in [Nodes -> Nat]
    /\ l \in [Nodes -> {"none", "gc", "zero"}]
    /\ R \in [Owners -> [Slots -> Nodes \cup {None}]]
    /\ k \in [Nodes -> Nodes \cup {None}]
    /\ \A e \in All : R[e[1]][e[2]] # None =>
          /\ l[R[e[1]][e[2]]] # "none"
          /\ (e[1] \in Inner => R[e[1]][e[2]] \notin Inner)
    /\ \A m \in Nodes : k[m] # None => l[k[m]] # "none" /\ k[m] \notin Inner /\ m \in Maps
    /\ \A m \in Nodes : l[m] = "none" => R[m] = Blank /\ k[m] = None
    /\ \A i \in Inner : l[i] # "none" => \E e \in All : R[e[1]][e[2]] = i
    /\ Counts(c, R, All)
    /\ \A m \in Nodes : l[m] = "zero" => c[m] = 0 /\ m \notin Inner

Tidy ==
    /\ pc \in {"run", "drain"}
    /\ Heap(count, list, ref, key)
    /\ mark = [n \in Nodes |-> 0]
    /\ dead = [n \in Nodes |-> FALSE]
    /\ next \in Nodes \cup {None} /\ seen \subseteq Nodes /\ spared \subseteq Nodes
    /\ \A n \in Nodes : list[n] = "zero" => pc = "drain"

LEMMA TidyGood == Tidy => IInv
<1> SUFFICES ASSUME Tidy PROVE IInv
  OBVIOUS
<1>1. TypeOK
  BY DEF Tidy, TypeOK, Heap
<1>2. NoDangling
  <2>1. \A m \in Nodes : key[m] # None => key[m] \in Nodes /\ list[key[m]] # "none"
    BY DEF Tidy, Heap
  <2> QED
    BY <2>1 DEF Tidy, Heap, NoDangling, Target, All
<1>3. InnerOwned
  <2>1. None \notin Inner
    BY Kinds
  <2> QED
    BY <2>1 DEF Tidy, Heap, InnerOwned, Target
<1>4. FreeIsBlank /\ KeysOfMaps
  BY DEF Tidy, Heap, FreeIsBlank, KeysOfMaps
<1>5. InRun
  BY DEF Tidy, Heap, InRun, NoneDead
<1> QED
  BY <1>1, <1>2, <1>3, <1>4, <1>5 DEF Tidy, IInv, Wired, Phases

\* What may be stored.
Storable(n, s, t) ==
    /\ n \in Owners /\ s \in Slots /\ t \in Nodes \cup {None}
    /\ t # None => list[t] # "none"
    /\ n \in Nodes => list[n] # "none"
    /\ n \in Inner => t \notin Inner

\* Release made c, l, R and k, and then t is stored in R, in slot s of n; n may
\* be a map that gets a key.
Stored(n, s, t, c, l, R, k, Q, q) ==
    /\ Released({<<n, s>>}, t, c, l, R, k)
    /\ Q = [R EXCEPT ![n][s] = t]
    /\ q \in [Nodes -> Nodes \cup {None}]
    /\ \A m \in Nodes : \/ q[m] = k[m]
                        \/ m = n /\ m \in Maps /\ q[m] \in Nodes \ Inner /\ list[q[m]] # "none"

LEMMA StoreGood ==
    ASSUME Wired, InRun, pc = "run", NEW n, NEW s, NEW t, Storable(n, s, t),
           NEW c, NEW l, NEW R, NEW k, NEW Q, NEW q, Stored(n, s, t, c, l, R, k, Q, q)
    PROVE  Heap(c, l, Q, q)
<1> PICK es : es = {<<n, s>>}
  OBVIOUS
<1>a. /\ n \in Owners /\ s \in Slots /\ t \in Nodes \cup {None}
      /\ t # None => list[t] # "none"
      /\ n \in Nodes => list[n] # "none"
      /\ n \in Inner => t \notin Inner
  BY DEF Storable
<1>b. /\ Q = [R EXCEPT ![n][s] = t]
      /\ q \in [Nodes -> Nodes \cup {None}]
      /\ \A m \in Nodes : \/ q[m] = k[m]
                          \/ m = n /\ m \in Maps /\ q[m] \in Nodes \ Inner /\ list[q[m]] # "none"
  BY DEF Stored
<1>0. /\ <<n, s>> \in All /\ es \in SUBSET All /\ None \notin Nodes
      /\ Inner \subseteq Nodes /\ Maps \subseteq Nodes /\ Maps \cap Inner = {}
      /\ Nodes \subseteq Owners /\ Counts(count, ref, All) /\ pc # "cycles"
  BY <1>a, Kinds DEF All, Edges, Owners, InRun
<1>r. Released(es, t, c, l, R, k)
  BY DEF Stored
<1>1. /\ c \in [Nodes -> Nat]
      /\ l \in [Nodes -> {"none", "gc", "tmp", "zero"}]
      /\ R \in [Owners -> [Slots -> Nodes \cup {None}]]
      /\ k \in [Nodes -> Nodes \cup {None}]
  BY <1>r DEF Released
<1>e. R[n][s] = None /\ \A e \in All : R[e[1]][e[2]] \in {Target(e), None}
  BY <1>r DEF Released
<1>k. \A m \in Nodes : k[m] \in {key[m], None}
  BY <1>r DEF Released
<1>c. \A x \in Nodes : c[x] = Cardinality(Refs(R, All, x)) + Is(x, t)
  BY <1>r DEF Released
<1>i. \A i \in Inner : l[i] # "none" => c[i] > 0
  BY <1>r DEF Released
<1>2. ASSUME NEW x \in Nodes
      PROVE  \/ l[x] = list[x] /\ l[x] # "zero"
             \/ x \in Inner /\ l[x] = "none" /\ c[x] = 0 /\ R[x] = Blank /\ k[x] = None /\ x = Target(<<n, s>>)
             \/ x \notin Inner /\ list[x] # "none" /\ l[x] = "zero" /\ c[x] = 0
  BY <1>r DEF InRun, Released, ListKept, ListFreed, ListZero
<1>3. /\ Q \in [Owners -> [Slots -> Nodes \cup {None}]] /\ Q[n][s] = t
      /\ \A e \in All \ {<<n, s>>} : Q[e[1]][e[2]] = R[e[1]][e[2]]
      /\ \A m \in Nodes \ {n} : Q[m] = R[m]
  <2>1. \A e \in All : e = <<e[1], e[2]>> /\ e[1] \in Owners /\ e[2] \in Slots
    BY DEF All, Edges
  <2>2. \A e \in All \ {<<n, s>>} : Q[e[1]][e[2]] = R[e[1]][e[2]]
    BY <1>1, <1>b, <2>1
  <2>3. \A m \in Nodes \ {n} : Q[m] = R[m]
    BY <1>0, <1>1, <1>b
  <2>4. Q \in [Owners -> [Slots -> Nodes \cup {None}]] /\ Q[n][s] = t
    <3>1. R[n] \in [Slots -> Nodes \cup {None}]
      BY <1>1, <1>a
    <3> QED
      BY <1>1, <1>a, <1>b, <3>1
  <2> QED
    BY <2>2, <2>3, <2>4
<1>4. Counts(c, Q, All)
  <2>1. ASSUME NEW x \in Nodes
        PROVE  c[x] = Cardinality(Refs(Q, All, x))
    <3> PICK d : d = <<n, s>>
      OBVIOUS
    <3>1. d \in All /\ R[d[1]][d[2]] # x /\ Q[d[1]][d[2]] = t
          /\ SameBut(Q, R, d)
      BY <1>0, <1>3, <1>e DEF SameBut
    <3>2. Cardinality(Refs(Q, All, x)) = Cardinality(Refs(R, All, x)) + Is(x, Q[d[1]][d[2]])
      BY ONLY <3>1, CountStored
    <3> QED
      BY <1>c, <3>1, <3>2
  <2> QED
    BY <2>1 DEF Counts
<1>5. \A x \in Nodes : c[x] \in Nat /\ (c[x] = 0 <=> \A e \in All : Q[e[1]][e[2]] # x)
  <2> TAKE x \in Nodes
  <2>1. c[x] = Cardinality(Refs(Q, All, x)) /\ All \in SUBSET All
    BY <1>4 DEF Counts
  <2> QED
    BY ONLY <2>1, CountZero
<1>6. n \in Nodes => l[n] # "none"
  <2> SUFFICES ASSUME n \in Nodes, l[n] = "none" PROVE FALSE
    OBVIOUS
  <2>1. n \in Inner /\ Target(<<n, s>>) = n
    BY <1>2, <1>a
  <2> QED
    BY <2>1, <1>0, <1>a DEF Wired, InnerOwned
<1>7. ASSUME NEW e \in All, Q[e[1]][e[2]] # None
      PROVE  /\ l[Q[e[1]][e[2]]] # "none"
             /\ (e[1] \in Inner => Q[e[1]][e[2]] \notin Inner)
  <2> DEFINE x == Q[e[1]][e[2]]
  <2>1. x \in Nodes /\ c[x] # 0
    <3>1. e[1] \in Owners /\ e[2] \in Slots
      BY DEF All, Edges
    <3>2. Q[e[1]][e[2]] \in Nodes \cup {None}
      <4>1. Q \in [Owners -> [Slots -> Nodes \cup {None}]]
        BY <1>3
      <4>2. Q[e[1]] \in [Slots -> Nodes \cup {None}]
        BY ONLY <4>1, <3>1
      <4> QED
        BY ONLY <4>2, <3>1
    <3>3. x \in Nodes
      BY <1>7, <3>2
    <3> QED
      BY <1>5, <3>3
  <2>2. (x = t /\ e[1] = n) \/ x = Target(e)
    <3>1. CASE e = <<n, s>>
      BY <3>1, <1>3
    <3>2. CASE e # <<n, s>>
      BY <3>2, <1>e, <1>3, <1>7
    <3> QED
      BY <3>1, <3>2
  <2> HIDE DEF x
  <2>3. list[x] # "none"
    BY <2>1, <2>2, <1>0, <1>a DEF Wired, NoDangling, All
  <2>4. l[x] # "none"
    BY <1>2, <2>1, <2>3
  <2>5. e[1] \in Inner => x \notin Inner
    BY <2>2, <1>a DEF Wired, InnerOwned
  <2> QED
    BY <2>4, <2>5 DEF x
<1>8. ASSUME NEW m \in Nodes, q[m] # None
      PROVE  q[m] \in Nodes /\ q[m] \notin Inner /\ l[q[m]] # "none" /\ m \in Maps /\ l[m] # "none"
  <2>1. q[m] \in Nodes /\ q[m] \notin Inner /\ list[q[m]] # "none" /\ m \in Maps /\ list[m] # "none"
    <3>1. CASE q[m] = k[m]
      <4>1. k[m] = key[m] /\ q[m] \in Nodes
        BY <3>1, <1>b, <1>k, <1>8
      <4> QED
        BY <3>1, <4>1, <1>8 DEF Wired, NoDangling, KeysOfMaps, FreeIsBlank
    <3>2. CASE q[m] # k[m]
      BY <3>2, <1>a, <1>b
    <3> QED
      BY <3>1, <3>2
  <2>2. m \notin Inner
    BY <2>1, <1>0
  <2> QED
    BY <2>1, <2>2, <1>2
<1>9. \A m \in Nodes : l[m] = "none" => Q[m] = Blank
  <2> SUFFICES ASSUME NEW m \in Nodes, l[m] = "none" PROVE Q[m] = Blank
    OBVIOUS
  <2>1. m # n /\ Q[m] = R[m]
    BY <1>3, <1>6
  <2>2. CASE list[m] = "none"
    <3>1. ref[m] = Blank /\ m \in Owners
      BY <2>2, <1>0 DEF Wired, FreeIsBlank
    <3>2. \A z \in Slots : R[m][z] = None
      <4> TAKE z \in Slots
      <4>1. <<m, z>> \in All /\ Target(<<m, z>>) = None
        BY <3>1 DEF All, Edges, Target, Blank
      <4> QED
        BY <4>1, <1>e
    <3>3. R[m] \in [Slots -> Nodes \cup {None}]
      BY <3>1, <1>1
    <3> QED
      BY <2>1, <3>2, <3>3 DEF Blank
  <2>3. CASE list[m] # "none"
    BY <2>1, <2>3, <1>2
  <2> QED
    BY <2>2, <2>3
<1>10. \A x \in Nodes : l[x] \in {"none", "gc", "zero"} /\ (l[x] = "zero" => c[x] = 0 /\ x \notin Inner)
  <2> TAKE x \in Nodes
  <2>1. list[x] # "tmp" /\ l[x] \in {"none", "gc", "tmp", "zero"}
    BY <1>1 DEF InRun
  <2> QED
    BY <2>1, <1>2
<1>11. \A i \in Inner : l[i] # "none" => \E e \in All : Q[e[1]][e[2]] = i
  <2> TAKE i \in Inner
  <2>1. i \in Nodes
    BY <1>0
  <2>2. l[i] # "none" => c[i] # 0
    BY ONLY <1>i
  <2> QED
    BY <2>1, <2>2, <1>5
<1>12. l \in [Nodes -> {"none", "gc", "zero"}]
  BY <1>1, <1>10
<1> QED
  BY <1>1, <1>b, <1>3, <1>4, <1>7, <1>8, <1>9, <1>10, <1>11, <1>12 DEF Heap

\* What is reachable is in every closed set that the stack is in.
LEMMA ReachableIn ==
    ASSUME NEW S \in SUBSET Owners, Stack \in S, Closed(S)
    PROVE  Reachable \subseteq S
BY DEF Reachable, ReachableFrom

LEMMA ReachableListed ==
    ASSUME Wired, InRun
    PROVE  Reachable \subseteq {Stack} \cup On("gc")
<1> DEFINE S == {Stack} \cup On("gc")
<1>1. S \in SUBSET Owners /\ Stack \in S
  BY DEF On, Owners
<1>2. ASSUME NEW e \in Edges(S), Target(e) # None
      PROVE  Target(e) \in On("gc")
  <2>1. e \in All /\ e[1] \in Owners /\ e[2] \in Slots
    BY <1>1, <1>2 DEF All, Edges
  <2> DEFINE x == Target(e)
  <2>2. x \in Nodes
    <3>1. ref[e[1]] \in [Slots -> Nodes \cup {None}]
      BY <2>1 DEF Wired, TypeOK
    <3> QED
      BY <3>1, <2>1, <1>2 DEF Target
  <2>3. list[x] # "none"
    BY <2>1, <1>2 DEF Wired, NoDangling, All
  <2>4. count[x] # 0
    <3>1. ref[e[1]][e[2]] = x /\ All \in SUBSET All
      BY DEF Target
    <3>2. Cardinality(Refs(ref, All, x)) # 0
      BY <3>1, <2>1, CountZero
    <3> QED
      BY <3>2, <2>2 DEF InRun, Counts
  <2> HIDE DEF x
  <2>5. list[x] \in {"none", "gc", "tmp", "zero"}
    BY <2>2 DEF Wired, TypeOK
  <2>6. list[x] = "gc"
    BY <2>2, <2>3, <2>4, <2>5 DEF InRun
  <2> QED
    BY <2>2, <2>6 DEF On, x
<1>3. Closed(S)
  BY <1>2 DEF Closed
<1> HIDE DEF S
<1>4. Reachable \subseteq S
  BY <1>1, <1>3, ReachableIn
<1> QED
  BY <1>4 DEF S

LEMMA ReleaseRecord ==
    ASSUME NEW es, NEW gain, NEW r, r = Release(es, gain)
    PROVE  r = [count |-> r.count, list |-> r.list, ref |-> r.ref, key |-> r.key]
BY DEF Release

LEMMA RecordStored ==
    ASSUME NEW c, NEW l, NEW R, NEW k, NEW r,
           r = [count |-> c, list |-> l, ref |-> R, key |-> k],
           NEW n, NEW s, NEW t, NEW u, u = [r EXCEPT !.ref[n][s] = t]
    PROVE  u.count = c /\ u.list = l /\ u.ref = [R EXCEPT ![n][s] = t] /\ u.key = k
OBVIOUS

\* A step of the script that leaves a heap in order.
LEMMA AssignedGood ==
    ASSUME Wired, InRun, pc = "run", NEW r, Assigned(r), Heap(r.count, r.list, r.ref, r.key)
    PROVE  IInv'
<1>1. Tidy'
  BY DEF Assigned, Tidy, Wired, TypeOK, InRun, NoneDead
<1> QED
  BY <1>1, TidyGood, PTL

LEMMA AssignGood ==
    ASSUME Wired, InRun, pc = "run", NEW n \in Owners, NEW s \in Slots,
           NEW t \in Nodes \cup {None}, t # None => list[t] # "none",
           n \in Nodes => list[n] # "none", n \in Inner => t \notin Inner,
           Assign(n, s, t)
    PROVE  IInv'
<1> PICK es, r, u : /\ es = {<<n, s>>} /\ r = Release(es, t)
                    /\ u = [r EXCEPT !.ref[n][s] = t] /\ Assigned(u)
  BY DEF Assign
<1> PICK c, l, R, k, Q : c = r.count /\ l = r.list /\ R = r.ref /\ k = r.key /\ Q = [R EXCEPT ![n][s] = t]
  OBVIOUS
<1>1. u.count = c /\ u.list = l /\ u.ref = Q /\ u.key = k
  <2>1. r = [count |-> c, list |-> l, ref |-> R, key |-> k]
    BY ReleaseRecord
  <2>2. u = [r EXCEPT !.ref[n][s] = t] /\ Q = [R EXCEPT ![n][s] = t]
    OBVIOUS
  <2> QED
    BY ONLY <2>1, <2>2, RecordStored
<1>2. Heap(c, l, Q, k)
  <2>1. es \in SUBSET All /\ Counts(count, ref, All)
    BY DEF InRun, All, Edges
  <2>2. Released(es, t, c, l, R, k)
    BY <2>1, ReleaseGood
  <2>3. k \in [Nodes -> Nodes \cup {None}]
    BY <2>2 DEF Released
  <2>4. Storable(n, s, t) /\ Stored(n, s, t, c, l, R, k, Q, k)
    BY <2>2, <2>3 DEF Storable, Stored
  <2> QED
    BY <2>4, StoreGood
<1> QED
  BY <1>1, <1>2, AssignedGood

LEMMA StoreStep ==
    ASSUME IInv, pc = "run", NEW n \in Reachable, NEW s \in Slots, NEW t \in Reachable \ {Stack},
           Store(n, s, t)
    PROVE  IInv'
<1>0. Wired /\ InRun
  BY DEF IInv, Phases
<1>1. n \in {Stack} \cup On("gc") /\ t \in On("gc")
  BY <1>0, ReachableListed
<1>2. n \in Owners /\ t \in Nodes /\ list[t] = "gc" /\ (n \in Nodes => list[n] = "gc")
  BY <1>1, Kinds DEF On, Owners
<1>3. (n \in Inner => t \notin Inner) /\ Assign(n, s, t)
  BY DEF Store, MayStore
<1> QED
  BY <1>0, <1>2, <1>3, AssignGood

LEMMA ClearStep ==
    ASSUME IInv, pc = "run", NEW n \in Reachable, NEW s \in Slots, Clear(n, s)
    PROVE  IInv'
<1>0. Wired /\ InRun
  BY DEF IInv, Phases
<1>1. n \in {Stack} \cup On("gc")
  BY <1>0, ReachableListed
<1>2. n \in Owners /\ (n \in Nodes => list[n] = "gc") /\ None \notin Inner
  BY <1>1, Kinds DEF On, Owners
<1>3. Assign(n, s, None)
  BY DEF Clear
<1> QED
  BY <1>0, <1>2, <1>3, AssignGood

\* MapDelete stores undefined in the record's place.
LEMMA MapDeleteStep ==
    ASSUME IInv, pc = "run", NEW m \in Maps \cap Reachable, MapDelete(m)
    PROVE  IInv'
<1>0. Wired /\ InRun
  BY DEF IInv, Phases
<1>1. m \in {Stack} \cup On("gc")
  BY <1>0, ReachableListed
<1>2. /\ m \in Owners /\ m \in Nodes /\ list[m] = "gc" /\ None \notin Inner /\ m \notin Inner
      /\ Value \in Slots
  BY <1>1, Kinds DEF On, Owners
<1> PICK es, r : es = {<<m, Value>>} /\ r = Release(es, None) /\ Assigned(r)
  BY DEF MapDelete
<1> PICK c, l, R, k, Q : c = r.count /\ l = r.list /\ R = r.ref /\ k = r.key
                         /\ Q = [R EXCEPT ![m][Value] = None]
  OBVIOUS
<1>3. Released(es, None, c, l, R, k)
  <2>1. es \in SUBSET All /\ Counts(count, ref, All)
    BY <1>0, <1>2 DEF InRun, All, Edges
  <2> QED
    BY <1>0, <2>1, ReleaseGood
<1>4. Q = R
  <2>1. R \in [Owners -> [Slots -> Nodes \cup {None}]] /\ R[m][Value] = None
    BY <1>3 DEF Released
  <2>2. R[m] \in [Slots -> Nodes \cup {None}]
    BY <1>2, <2>1
  <2>3. [R[m] EXCEPT ![Value] = None] = R[m]
    BY <2>1, <2>2
  <2> QED
    BY <2>1, <2>3
<1>5. k \in [Nodes -> Nodes \cup {None}]
  BY <1>3 DEF Released
<1>6. Heap(c, l, Q, k)
  <2>1. Storable(m, Value, None)
    BY <1>2 DEF Storable
  <2>2. Stored(m, Value, None, c, l, R, k, Q, k)
    BY <1>3, <1>5 DEF Stored
  <2> QED
    BY <1>0, <2>1, <2>2, StoreGood
<1> QED
  BY <1>0, <1>4, <1>6, AssignedGood

LEMMA MapSetStep ==
    ASSUME IInv, pc = "run", NEW m \in Maps \cap Reachable,
           NEW x \in Reachable \ {Stack}, NEW v \in Reachable \ {Stack}, MapSet(m, x, v)
    PROVE  IInv'
<1>0. Wired /\ InRun
  BY DEF IInv, Phases
<1>1. m \in {Stack} \cup On("gc") /\ x \in On("gc") /\ v \in On("gc")
  BY <1>0, ReachableListed
<1>2. /\ m \in Owners /\ m \in Nodes /\ list[m] = "gc" /\ m \notin Inner /\ m \in Maps /\ Value \in Slots
      /\ x \in Nodes /\ list[x] = "gc" /\ v \in Nodes /\ list[v] = "gc"
  BY <1>1, Kinds DEF On, Owners
<1>3. x \notin Inner /\ v \notin Inner
  BY DEF MapSet
<1> PICK es, r, u : /\ es = {<<m, Value>>} /\ r = Release(es, v)
                    /\ u = [r EXCEPT !.ref[m][Value] = v, !.key[m] = x] /\ Assigned(u)
  BY DEF MapSet
<1> PICK c, l, R, k, Q, q : /\ c = r.count /\ l = r.list /\ R = r.ref /\ k = r.key
                            /\ Q = [R EXCEPT ![m][Value] = v] /\ q = [k EXCEPT ![m] = x]
  OBVIOUS
<1>4. Released(es, v, c, l, R, k)
  <2>1. es \in SUBSET All /\ Counts(count, ref, All)
    BY <1>0, <1>2 DEF InRun, All, Edges
  <2>2. v # None => list[v] # "none"
    BY <1>2
  <2> QED
    BY <1>0, <1>2, <2>1, <2>2, ReleaseGood
<1>5. u.count = c /\ u.list = l /\ u.ref = Q /\ u.key = q
  <2>1. r = [count |-> c, list |-> l, ref |-> R, key |-> k]
    BY ReleaseRecord
  <2> PICK w : w = [r EXCEPT !.ref[m][Value] = v]
    OBVIOUS
  <2>2. w = [count |-> c, list |-> l, ref |-> Q, key |-> k]
    BY ONLY <2>1, w = [r EXCEPT !.ref[m][Value] = v], Q = [R EXCEPT ![m][Value] = v]
  <2>3. u = [w EXCEPT !.key[m] = x]
    OBVIOUS
  <2> QED
    BY ONLY <2>2, <2>3, q = [k EXCEPT ![m] = x]
<1>6. k \in [Nodes -> Nodes \cup {None}] /\ q \in [Nodes -> Nodes \cup {None}]
  BY <1>2, <1>4 DEF Released
<1>7. \A n \in Nodes : \/ q[n] = k[n]
                       \/ n = m /\ n \in Maps /\ q[n] \in Nodes \ Inner /\ list[q[n]] # "none"
  BY <1>2, <1>3, <1>6
<1>8. Heap(c, l, Q, q)
  <2>1. Storable(m, Value, v)
    BY <1>2 DEF Storable
  <2>2. Stored(m, Value, v, c, l, R, k, Q, q)
    BY <1>4, <1>6, <1>7 DEF Stored
  <2> QED
    BY <1>0, <2>1, <2>2, StoreGood
<1> QED
  BY <1>0, <1>5, <1>8, AssignedGood

\* Release finds nothing in an empty variable.
LEMMA NothingReleased ==
    ASSUME Wired, NEW s \in Slots, ref[Stack][s] = None, NEW r, r = Release({<<Stack, s>>}, None),
           pc = "run"
    PROVE  r.count = count /\ r.list = list /\ r.ref = ref /\ r.key = key
<1> PICK es : es = {<<Stack, s>>}
  OBVIOUS
<1>0. Stack \in Owners /\ Stack \notin Nodes /\ None \notin Nodes /\ Inner \subseteq Nodes
  BY Kinds DEF Owners
<1>1. \A x \in Nodes : To(es, x) = 0
  <2> TAKE x \in Nodes
  <2>1. \A e \in es : ref[e[1]][e[2]] # x
    BY <1>0
  <2>2. es \in SUBSET All
    BY <1>0 DEF All, Edges
  <2>3. Cardinality(Refs(ref, es, x)) = 0
    BY <2>1, <2>2, CountZero
  <2> QED
    BY <2>3, ToRefs
<1>2. Freed(es, None) = {}
  BY <1>0, <1>1 DEF Freed
<1>3. Gone(es, None) = es
  BY <1>2 DEF Gone, Edges
<1>4. \A x \in Nodes : Is(x, None) = 0
  BY <1>0 DEF Is
<1> PICK F, G : F = Freed(es, None) /\ G = Gone(es, None)
  OBVIOUS
<1>5. /\ r.count = [x \in Nodes |-> (count[x] + Is(x, None)) - To(G, x)]
      /\ r.list = [x \in Nodes |->
                     IF x \in F THEN "none"
                     ELSE IF pc # "cycles" /\ To(G, x) > 0 /\ count[x] + Is(x, None) = To(G, x)
                     THEN "zero" ELSE list[x]]
      /\ r.ref = [n \in Owners |-> [z \in Slots |-> IF <<n, z>> \in G THEN None ELSE ref[n][z]]]
      /\ r.key = [n \in Nodes |-> IF n \in F \/ <<n, Value>> \in es THEN None ELSE key[n]]
  <2>1. r = Release(es, None) /\ F = Freed(es, None) /\ G = Gone(es, None)
    OBVIOUS
  <2> QED
    BY ONLY <2>1, ReleaseIs
<1>6. F = {} /\ G = es /\ \A x \in Nodes : To(G, x) = 0
  BY <1>1, <1>2, <1>3
<1>t. /\ count \in [Nodes -> Nat] /\ list \in [Nodes -> {"none", "gc", "tmp", "zero"}]
      /\ ref \in [Owners -> [Slots -> Nodes \cup {None}]] /\ key \in [Nodes -> Nodes \cup {None}]
  BY DEF Wired, TypeOK
<1>9. r.count = count
  <2>1. \A x \in Nodes : (count[x] + Is(x, None)) - To(G, x) = count[x]
    <3> TAKE x \in Nodes
    <3>1. Is(x, None) = 0 /\ To(G, x) = 0 /\ count[x] \in Nat
      BY <1>4, <1>6, <1>t
    <3> QED
      BY ONLY <3>1
  <2>2. \A x \in Nodes : r.count[x] = count[x]
    <3>1. r.count = [x \in Nodes |-> (count[x] + Is(x, None)) - To(G, x)]
      BY <1>5
    <3>2. \A x \in Nodes : r.count[x] = (count[x] + Is(x, None)) - To(G, x)
      BY ONLY <3>1
    <3> QED
      BY ONLY <2>1, <3>2
  <2>3. r.count = [x \in Nodes |-> r.count[x]]
    BY <1>5
  <2>4. count = [x \in Nodes |-> count[x]]
    BY <1>t
  <2> QED
    BY ONLY <2>2, <2>3, <2>4
<1>10. r.list = list
  <2>1. \A x \in Nodes : ~(x \in F) /\ ~(To(G, x) > 0)
    BY <1>6
  <2> QED
    BY <1>5, <1>t, <2>1
<1>11. r.key = key
  <2>1. \A n \in Nodes : n \notin F /\ <<n, Value>> \notin es
    BY <1>0, <1>6
  <2> QED
    BY <1>5, <1>t, <2>1
<1>12. r.ref = ref
  <2>1. \A n \in Owners, z \in Slots : (IF <<n, z>> \in G THEN None ELSE ref[n][z]) = ref[n][z]
    BY <1>6
  <2>2. ASSUME NEW n \in Owners
        PROVE  r.ref[n] = ref[n]
    <3>1. r.ref[n] = [z \in Slots |-> IF <<n, z>> \in G THEN None ELSE ref[n][z]]
      BY <1>5
    <3>2. ref[n] = [z \in Slots |-> ref[n][z]]
      BY <1>t
    <3>3. r.ref[n] = [z \in Slots |-> ref[n][z]]
      BY <2>1, <3>1
    <3> QED
      BY <3>2, <3>3
  <2>3. ref = [n \in Owners |-> ref[n]] /\ r.ref = [n \in Owners |-> r.ref[n]]
    BY <1>5, <1>t
  <2> QED
    BY <2>2, <2>3
<1> QED
  BY <1>9, <1>10, <1>11, <1>12

LEMMA NewStep ==
    ASSUME IInv, pc = "run", NEW n \in Nodes, NEW s \in Slots, New(n, s)
    PROVE  IInv'
<1>0. Wired /\ InRun
  BY DEF IInv, Phases
<1> PICK r, u : /\ r = Release({<<Stack, s>>}, None)
                /\ u = [r EXCEPT !.list[n] = "gc", !.count[n] = 1, !.ref[Stack][s] = n]
                /\ Assigned(u)
  BY DEF New
<1>1. list[n] = "none" /\ ref[Stack][s] = None
  BY DEF New
<1>2. /\ Stack \in Owners /\ Stack \notin Nodes /\ None \notin Nodes /\ Inner \subseteq Nodes
      /\ Nodes \subseteq Owners /\ <<Stack, s>> \in All
  BY Kinds DEF Owners, All, Edges
<1>3. r = [count |-> count, list |-> list, ref |-> ref, key |-> key]
  BY <1>0, <1>1, NothingReleased, ReleaseRecord
<1> PICK c, l, Q : c = [count EXCEPT ![n] = 1] /\ l = [list EXCEPT ![n] = "gc"]
                   /\ Q = [ref EXCEPT ![Stack][s] = n]
  OBVIOUS
<1>4. u.count = c /\ u.list = l /\ u.ref = Q /\ u.key = key
  <2> PICK v, w : v = [r EXCEPT !.list[n] = "gc"] /\ w = [v EXCEPT !.count[n] = 1]
    OBVIOUS
  <2>1. v = [count |-> count, list |-> l, ref |-> ref, key |-> key]
    BY ONLY <1>3, v = [r EXCEPT !.list[n] = "gc"], l = [list EXCEPT ![n] = "gc"]
  <2>2. w = [count |-> c, list |-> l, ref |-> ref, key |-> key]
    BY ONLY <2>1, w = [v EXCEPT !.count[n] = 1], c = [count EXCEPT ![n] = 1]
  <2>3. u = [w EXCEPT !.ref[Stack][s] = n]
    OBVIOUS
  <2> QED
    BY ONLY <2>2, <2>3, Q = [ref EXCEPT ![Stack][s] = n]
<1>t. /\ count \in [Nodes -> Nat] /\ list \in [Nodes -> {"none", "gc", "tmp", "zero"}]
      /\ ref \in [Owners -> [Slots -> Nodes \cup {None}]] /\ key \in [Nodes -> Nodes \cup {None}]
  BY <1>0 DEF Wired, TypeOK
<1>5. c \in [Nodes -> Nat] /\ l \in [Nodes -> {"none", "gc", "zero"}]
  BY <1>0, <1>t DEF InRun
<1>6. /\ Q \in [Owners -> [Slots -> Nodes \cup {None}]] /\ Q[Stack][s] = n
      /\ SameBut(Q, ref, <<Stack, s>>)
      /\ \A m \in Nodes : Q[m] = ref[m]
  <2>1. ref[Stack] \in [Slots -> Nodes \cup {None}]
    BY <1>t, <1>2
  <2>2. Q \in [Owners -> [Slots -> Nodes \cup {None}]] /\ Q[Stack][s] = n
    BY <1>t, <1>2, <2>1
  <2>3. \A m \in Nodes : Q[m] = ref[m]
    BY <1>t, <1>2
  <2>4. \A e \in All : e = <<e[1], e[2]>> /\ e[1] \in Owners /\ e[2] \in Slots
    BY DEF All, Edges
  <2>5. \A e \in All \ {<<Stack, s>>} : Q[e[1]][e[2]] = ref[e[1]][e[2]]
    BY <1>t, <1>2, <2>4
  <2> QED
    BY <2>2, <2>3, <2>5 DEF SameBut
<1>7. \A e \in All : ref[e[1]][e[2]] # n
  BY <1>0, <1>1, <1>2 DEF Wired, NoDangling, Target, All
<1>8. Counts(c, Q, All)
  <2>1. ASSUME NEW x \in Nodes
        PROVE  c[x] = Cardinality(Refs(Q, All, x))
    <3> PICK d : d = <<Stack, s>>
      OBVIOUS
    <3>1. d \in All /\ ref[d[1]][d[2]] # x /\ Q[d[1]][d[2]] = n /\ SameBut(Q, ref, d)
      BY <1>1, <1>2, <1>6
    <3>2. Cardinality(Refs(Q, All, x)) = Cardinality(Refs(ref, All, x)) + Is(x, Q[d[1]][d[2]])
      BY ONLY <3>1, CountStored
    <3>3. Cardinality(Refs(Q, All, x)) = Cardinality(Refs(ref, All, x)) + Is(x, n)
      BY <3>1, <3>2
    <3>4. CASE x = n
      <4>1. Cardinality(Refs(ref, All, x)) = 0
        BY <1>7, <3>4, CountZero
      <4> QED
        BY <3>3, <3>4, <4>1, <1>t DEF Is
    <3>5. CASE x # n
      <4>1. c[x] = count[x] /\ count[x] = Cardinality(Refs(ref, All, x)) /\ count[x] \in Nat
        BY <3>5, <1>0, <1>t DEF InRun, Counts
      <4> QED
        BY <3>3, <3>5, <4>1 DEF Is
    <3> QED
      BY <3>4, <3>5
  <2> QED
    BY <2>1 DEF Counts
<1>9. ASSUME NEW e \in All, Q[e[1]][e[2]] # None
      PROVE  l[Q[e[1]][e[2]]] # "none" /\ (e[1] \in Inner => Q[e[1]][e[2]] \notin Inner)
  <2>1. CASE e = <<Stack, s>>
    BY <2>1, <1>2, <1>6, <1>t
  <2>2. CASE e # <<Stack, s>>
    <3> PICK x : x = Q[e[1]][e[2]]
      OBVIOUS
    <3>1. x = Target(e)
      BY <2>2, <1>6 DEF SameBut, Target
    <3>2. list[x] # "none" /\ (e[1] \in Inner => x \notin Inner)
      BY <3>1, <1>0, <1>9 DEF Wired, NoDangling, InnerOwned, All
    <3>3. l[x] # "none"
      BY <3>2, <1>t
    <3> QED
      BY <3>2, <3>3
  <2> QED
    BY <2>1, <2>2
<1>10. \A m \in Nodes : key[m] # None => l[key[m]] # "none" /\ key[m] \notin Inner /\ m \in Maps
  <2>1. \A m \in Nodes : key[m] # None => list[key[m]] # "none" /\ key[m] \notin Inner /\ m \in Maps
    BY <1>0 DEF Wired, NoDangling, KeysOfMaps
  <2> QED
    BY <2>1, <1>t
<1>11. \A m \in Nodes : l[m] = "none" => Q[m] = Blank /\ key[m] = None
  BY <1>0, <1>t, <1>6 DEF Wired, FreeIsBlank
<1>12. \A i \in Inner : l[i] # "none" => \E e \in All : Q[e[1]][e[2]] = i
  <2> SUFFICES ASSUME NEW i \in Inner, l[i] # "none" PROVE \E e \in All : Q[e[1]][e[2]] = i
    OBVIOUS
  <2>1. CASE i = n
    BY <2>1, <1>2, <1>6
  <2>2. CASE i # n
    <3>1. list[i] # "none"
      BY <2>2, <1>2, <1>t
    <3> PICK e \in All : Target(e) = i
      BY <3>1, <1>0 DEF Wired, InnerOwned
    <3>2. e # <<Stack, s>>
      BY <1>1, <1>2 DEF Target
    <3> QED
      BY <3>2, <1>6 DEF SameBut, Target
  <2> QED
    BY <2>1, <2>2
<1>13. \A m \in Nodes : l[m] # "zero"
  BY <1>0, <1>t DEF InRun
<1>14. Heap(c, l, Q, key)
  BY <1>t, <1>5, <1>6, <1>8, <1>9, <1>10, <1>11, <1>12, <1>13 DEF Heap
<1> QED
  BY <1>0, <1>4, <1>14, AssignedGood

LEMMA ScriptStep ==
    ASSUME IInv, Script
    PROVE  IInv'
<1>1. pc = "run"
  BY DEF Script
<1>2. ASSUME NEW n \in Reachable, NEW s \in Slots, Clear(n, s) PROVE IInv'
  BY <1>1, <1>2, ClearStep
<1>3. ASSUME NEW n \in Reachable, NEW s \in Slots, NEW t \in Reachable \ {Stack}, Store(n, s, t)
      PROVE  IInv'
  BY <1>1, <1>3, StoreStep
<1>4. ASSUME NEW n \in Nodes, NEW s \in Slots, New(n, s) PROVE IInv'
  BY <1>1, <1>4, NewStep
<1>5. ASSUME NEW m \in Maps \cap Reachable, MapDelete(m) PROVE IInv'
  BY <1>1, <1>5, MapDeleteStep
<1>6. ASSUME NEW m \in Maps \cap Reachable, NEW k \in Reachable \ {Stack},
             NEW v \in Reachable \ {Stack}, MapSet(m, k, v)
      PROVE  IInv'
  BY <1>1, <1>6, MapSetStep
<1>7. Stack \in Reachable
  BY DEF Reachable, ReachableFrom, Owners
<1> QED
  BY <1>2, <1>3, <1>4, <1>5, <1>6, <1>7 DEF Script

-----------------------------------------------------------------------------
(* Freeing a node.                                                         *)

\* free_object, on a node that nothing refers to or in the removal of cycles.
LEMMA FreeGood ==
    ASSUME Wired, Counts(count, ref, All), NEW n \in Nodes, n \notin Inner, list[n] # "none",
           pc # "cycles" => count[n] = 0, \A x \in Nodes : dead[x] => x \notin Inner,
           FreeNode(n), UNCHANGED <<mark, next, seen, spared>>,
           pc' \in {"run", "drain", "cycles"}
    PROVE  /\ Wired'
           /\ Counts(count, ref, All)'
           /\ \A e \in All : Target(e)' \in {Target(e), None}
           /\ \A e \in All : \/ Target(e)' = Target(e)
                             \/ e \in WeakRecords(n)
                             \/ e[1] \in Nodes /\ list'[e[1]] # "gc"
           /\ \A x \in Nodes \ {n} :
                 \/ list'[x] = list[x]
                 \/ x \in Inner /\ list'[x] = "none"
                 \/ pc # "cycles" /\ x \notin Inner /\ list'[x] = "zero" /\ count'[x] = 0
           /\ ref'[n] = Blank /\ key'[n] = None
           /\ \A m \in Nodes : key'[m] \in {key[m], None}
           /\ dead' = [dead EXCEPT ![n] = pc = "cycles" /\ count'[n] # 0]
           /\ list'[n] = IF pc = "cycles" /\ count'[n] # 0 THEN "zero" ELSE "none"
           /\ \A x \in Nodes : list'[x] = "none" => count'[x] = 0 \/ list[x] = "none"
<1> PICK es, r : es = Edges({n}) \cup WeakRecords(n) /\ r = Release(es, None)
  OBVIOUS
<1> PICK c, l, R, k, L, stays : /\ c = r.count /\ l = r.list /\ R = r.ref /\ k = r.key
                                /\ stays = (pc = "cycles" /\ c[n] # 0)
                                /\ L = [l EXCEPT ![n] = IF stays THEN "zero" ELSE "none"]
  OBVIOUS
<1>0. /\ Inner \subseteq Nodes /\ Maps \subseteq Nodes /\ Nodes \subseteq Owners /\ None \notin Nodes
      /\ Value \in Slots
  BY Kinds DEF Owners
<1>1. count' = c /\ list' = L /\ ref' = R /\ key' = k /\ dead' = [dead EXCEPT ![n] = stays]
  BY DEF FreeNode
<1>2. /\ es \in SUBSET All
      /\ \A s \in Slots : <<n, s>> \in es
      /\ \A m \in Maps : key[m] = n => <<m, Value>> \in es
  BY <1>0 DEF Edges, WeakRecords, All
<1>r. Released(es, None, c, l, R, k)
  <2>1. /\ Wired /\ Counts(count, ref, All) /\ es \in SUBSET All /\ None \in Nodes \cup {None}
        /\ None # None => list[None] # "none"
        /\ c = Release(es, None).count /\ l = Release(es, None).list
        /\ R = Release(es, None).ref /\ k = Release(es, None).key
    BY <1>2
  <2> QED
    BY ONLY <2>1, ReleaseGood
<1>3. /\ c \in [Nodes -> Nat]
      /\ l \in [Nodes -> {"none", "gc", "tmp", "zero"}]
      /\ R \in [Owners -> [Slots -> Nodes \cup {None}]]
      /\ k \in [Nodes -> Nodes \cup {None}]
  BY <1>r DEF Released
<1>4. /\ \A e \in es : R[e[1]][e[2]] = None
      /\ \A e \in All : R[e[1]][e[2]] \in {Target(e), None}
  BY <1>r DEF Released
<1>5. \A m \in Nodes : k[m] \in {key[m], None} /\ (<<m, Value>> \in es => k[m] = None)
  BY <1>r DEF Released
<1>6. Counts(c, R, All)
  <2>1. ASSUME NEW x \in Nodes
        PROVE  c[x] = Cardinality(Refs(R, All, x))
    <3>1. c[x] = Cardinality(Refs(R, All, x)) + Is(x, None)
      BY <1>r DEF Released
    <3>2. Is(x, None) = 0 /\ Cardinality(Refs(R, All, x)) \in Nat
      BY <1>0, CountZero DEF Is
    <3> QED
      BY <3>1, <3>2
  <2> QED
    BY <2>1 DEF Counts
<1>7. \A x \in Nodes : c[x] \in Nat /\ (c[x] = 0 <=> \A e \in All : R[e[1]][e[2]] # x)
  <2> TAKE x \in Nodes
  <2>1. c[x] = Cardinality(Refs(R, All, x)) /\ All \in SUBSET All
    BY <1>6 DEF Counts
  <2> QED
    BY ONLY <2>1, CountZero
<1>8. ASSUME NEW x \in Nodes
      PROVE  \/ l[x] = list[x]
             \/ x \in Inner /\ l[x] = "none" /\ c[x] = 0 /\ R[x] = Blank /\ k[x] = None
             \/ pc # "cycles" /\ x \notin Inner /\ list[x] # "none" /\ l[x] = "zero" /\ c[x] = 0
  BY <1>r DEF Released, ListKept, ListFreed, ListZero
<1>9. L[n] = (IF stays THEN "zero" ELSE "none") /\ \A x \in Nodes \ {n} : L[x] = l[x]
  BY <1>3
<1>10. R[n] = Blank /\ k[n] = None
  <2>1. R[n] \in [Slots -> Nodes \cup {None}]
    BY <1>0, <1>3
  <2>2. \A s \in Slots : R[n][s] = None
    BY <1>2, <1>4
  <2> QED
    BY <1>0, <1>2, <1>5, <2>1, <2>2 DEF Blank
\* What is not kept has lost its last reference.
<1>11. c[n] # 0 => stays
  <2>1. pc # "cycles" => c[n] = 0
    <3> SUFFICES ASSUME pc # "cycles", c[n] # 0 PROVE FALSE
      OBVIOUS
    <3>1. Cardinality(Refs(ref, All, n)) = 0 /\ All \in SUBSET All
      BY DEF Counts
    <3>2. \A e \in All : ref[e[1]][e[2]] # n
      BY ONLY <3>1, CountZero
    <3>3. \A e \in All : R[e[1]][e[2]] # n
      BY <1>0, <1>4, <3>2 DEF Target
    <3> QED
      BY <1>7, <3>3
  <2> QED
    BY <2>1
<1>12. \A x \in Nodes : L[x] = "none" => c[x] = 0 \/ list[x] = "none"
  <2> SUFFICES ASSUME NEW x \in Nodes, L[x] = "none" PROVE c[x] = 0 \/ list[x] = "none"
    OBVIOUS
  <2>1. CASE x = n
    BY <2>1, <1>9, <1>11
  <2>2. CASE x # n
    <3>1. l[x] = "none"
      BY <2>2, <1>9
    <3> QED
      BY <3>1, <1>8
  <2> QED
    BY <2>1, <2>2
<1>13. ASSUME NEW e \in All, R[e[1]][e[2]] # None
       PROVE  R[e[1]][e[2]] = Target(e) /\ Target(e) \in Nodes /\ L[Target(e)] # "none"
  <2>1. R[e[1]][e[2]] = Target(e)
    BY <1>4, <1>13
  <2>2. e[1] \in Owners /\ e[2] \in Slots
    BY DEF All, Edges
  <2>3. Target(e) \in Nodes
    <3>1. R[e[1]] \in [Slots -> Nodes \cup {None}]
      BY <1>3, <2>2
    <3>2. R[e[1]][e[2]] \in Nodes \cup {None}
      BY ONLY <2>2, <3>1
    <3> QED
      BY <2>1, <3>2, <1>13
  <2>4. list[Target(e)] # "none"
    BY <2>1, <1>13 DEF Wired, NoDangling, All
  <2>5. c[Target(e)] # 0
    BY <1>7, <2>1, <2>3
  <2> QED
    BY <1>12, <2>1, <2>3, <2>4, <2>5
<1>14. ASSUME NEW m \in Nodes, k[m] # None
       PROVE  /\ k[m] = key[m] /\ k[m] # n /\ k[m] \in Nodes /\ k[m] \notin Inner /\ m \in Maps
              /\ L[k[m]] # "none" /\ m # n /\ L[m] # "none"
  <2>1. k[m] = key[m] /\ m # n
    BY <1>5, <1>10, <1>14
  <2>2. m \in Maps /\ key[m] \notin Inner /\ list[key[m]] # "none" /\ key[m] \in Nodes
    BY <2>1, <1>3, <1>14 DEF Wired, KeysOfMaps, NoDangling
  <2>3. key[m] # n
    BY <1>2, <1>5, <1>14, <2>2
  <2>4. L[key[m]] # "none"
    BY <1>8, <1>9, <2>2, <2>3
  <2>5. L[m] # "none"
    <3>1. list[m] # "none"
      BY <2>1, <1>14 DEF Wired, FreeIsBlank
    <3> QED
      BY <1>8, <1>9, <1>14, <2>1, <3>1
  <2> QED
    BY <2>1, <2>2, <2>3, <2>4, <2>5
<1>15. \A x \in Nodes : L[x] = "none" => R[x] = Blank /\ k[x] = None
  <2> SUFFICES ASSUME NEW x \in Nodes, L[x] = "none" PROVE R[x] = Blank /\ k[x] = None
    OBVIOUS
  <2>1. CASE x = n
    BY <2>1, <1>10
  <2>2. CASE x # n /\ list[x] = "none"
    <3>1. ref[x] = Blank /\ key[x] = None
      BY <2>2 DEF Wired, FreeIsBlank
    <3>2. R[x] \in [Slots -> Nodes \cup {None}]
      BY <1>0, <1>3
    <3>3. \A s \in Slots : R[x][s] = None
      <4> TAKE s \in Slots
      <4>1. <<x, s>> \in All /\ Target(<<x, s>>) = None
        BY <3>1, <1>0 DEF All, Edges, Target, Blank
      <4> QED
        BY <4>1, <1>4
    <3> QED
      BY <3>1, <3>2, <3>3, <1>5 DEF Blank
  <2>3. CASE x # n /\ list[x] # "none"
    BY <2>3, <1>8, <1>9
  <2> QED
    BY <2>1, <2>2, <2>3
<1>16. TypeOK'
  <2>1. L \in [Nodes -> {"none", "gc", "tmp", "zero"}]
    BY <1>3
  <2>2. dead' \in [Nodes -> BOOLEAN]
    BY <1>1 DEF Wired, TypeOK
  <2>3. /\ mark' \in [Nodes -> 0 .. 1] /\ next' \in Nodes \cup {None}
        /\ seen' \subseteq Nodes /\ spared' \subseteq Nodes
        /\ pc' \in {"run", "drain", "decref", "scan", "restore", "cycles"}
    BY DEF Wired, TypeOK
  <2> QED
    BY <1>1, <1>3, <2>1, <2>2, <2>3 DEF TypeOK
<1>17. NoDangling'
  <2>1. \A e \in All : Target(e)' # None => list'[Target(e)'] # "none"
    BY <1>1, <1>13 DEF Target
  <2>2. \A m \in Nodes : key'[m] # None => list'[key'[m]] # "none" /\ ~dead'[key'[m]]
    <3> SUFFICES ASSUME NEW m \in Nodes, k[m] # None PROVE L[k[m]] # "none" /\ ~dead'[k[m]]
      BY <1>1
    <3>1. ~dead[key[m]] /\ k[m] = key[m] /\ k[m] # n /\ k[m] \in Nodes
      BY <1>14 DEF Wired, NoDangling
    <3>2. dead'[k[m]] = dead[k[m]]
      BY <1>1, <3>1 DEF Wired, TypeOK
    <3> QED
      BY <1>14, <3>1, <3>2
  <2> QED
    BY <2>1, <2>2 DEF NoDangling, All, Target
<1>18. FreeIsBlank'
  BY <1>1, <1>15 DEF FreeIsBlank
<1>19. InnerOwned'
  <2>1. \A e \in All : e[1] \in Inner => Target(e)' \notin Inner
    <3> TAKE e \in All
    <3>1. Target(e)' \in {Target(e), None}
      BY <1>1, <1>4 DEF Target
    <3> QED
      BY <3>1, <1>0 DEF Wired, InnerOwned
  <2>2. \A i \in Inner : L[i] # "none" => \E e \in All : R[e[1]][e[2]] = i
    <3> SUFFICES ASSUME NEW i \in Inner, L[i] # "none" PROVE \E e \in All : R[e[1]][e[2]] = i
      OBVIOUS
    <3>1. i \in Nodes /\ l[i] # "none"
      BY <1>0, <1>9
    <3>2. c[i] > 0
      BY <1>r, <3>1 DEF Released
    <3>3. c[i] # 0
      BY ONLY <3>2
    <3> QED
      BY <1>7, <3>1, <3>3
  <2> QED
    BY <2>1, <2>2, <1>1 DEF InnerOwned, All, Target
<1>20. KeysOfMaps'
  BY <1>1, <1>14 DEF KeysOfMaps
<1>21. Counts(count, ref, All)'
  BY <1>1, <1>6 DEF Counts, All, Refs
<1>22. \A e \in All : Target(e)' \in {Target(e), None}
  BY <1>1, <1>4 DEF Target
<1>23. \A x \in Nodes \ {n} :
                 \/ list'[x] = list[x]
                 \/ x \in Inner /\ list'[x] = "none"
                 \/ pc # "cycles" /\ x \notin Inner /\ list'[x] = "zero" /\ count'[x] = 0
  BY <1>1, <1>8, <1>9
<1>24. \A m \in Nodes : key'[m] \in {key[m], None}
  BY <1>1, <1>5
<1>25. \A e \in All : \/ Target(e)' = Target(e)
                      \/ e \in WeakRecords(n)
                      \/ e[1] \in Nodes /\ list'[e[1]] # "gc"
  <2> TAKE e \in All
  <2>1. CASE R[e[1]][e[2]] = Target(e)
    <3>1. Target(e)' = R[e[1]][e[2]]
      BY <1>1 DEF Target
    <3> QED
      BY <2>1, <3>1
  <2>2. CASE e[1] = n
    <3>1. list'[n] # "gc"
      BY <1>1, <1>9
    <3> QED
      BY <2>2, <3>1
  <2>3. CASE e[1] # n /\ e \in es
    BY <2>3 DEF Edges
  <2>4. CASE e[1] # n /\ e[1] \in Inner /\ l[e[1]] = "none"
    BY <2>4, <1>0, <1>1, <1>9
  <2> QED
    BY <2>1, <2>2, <2>3, <2>4, <1>r DEF Released
<1>26. Wired'
  BY <1>16, <1>17, <1>18, <1>19, <1>20 DEF Wired
<1>27. ref'[n] = Blank /\ key'[n] = None /\ dead' = [dead EXCEPT ![n] = pc = "cycles" /\ count'[n] # 0]
  BY <1>1, <1>10
<1>28. list'[n] = (IF pc = "cycles" /\ count'[n] # 0 THEN "zero" ELSE "none")
  BY <1>1, <1>9
<1>29. \A x \in Nodes : list'[x] = "none" => count'[x] = 0 \/ list[x] = "none"
  BY <1>1, <1>12
<1> QED
  BY ONLY <1>21, <1>22, <1>23, <1>24, <1>25, <1>26, <1>27, <1>28, <1>29

\* What refers to nothing still does when references go.
LEMMA StaysBlank ==
    ASSUME Wired, Wired', \A e \in All : Target(e)' \in {Target(e), None},
           NEW n \in Nodes, ref[n] = Blank
    PROVE  ref'[n] = Blank
<1>1. n \in Owners
  BY DEF Owners
<1>2. ref'[n] \in [Slots -> Nodes \cup {None}]
  BY <1>1 DEF Wired, TypeOK
<1>3. \A s \in Slots : ref'[n][s] = None
  <2> TAKE s \in Slots
  <2>1. <<n, s>> \in All /\ ref[n][s] = None
    BY <1>1 DEF All, Edges, Blank
  <2>2. ref'[n][s] \in {ref[n][s], None}
    BY <2>1 DEF Target
  <2> QED
    BY <2>1, <2>2
<1> QED
  BY <1>2, <1>3 DEF Blank

LEMMA DrainStep ==
    ASSUME IInv, NEW n \in Nodes, Drain(n)
    PROVE  IInv'
<1>0. Wired /\ InRun /\ pc = "drain"
  BY DEF Drain, IInv, Phases
<1>1. list[n] = "zero" /\ count[n] = 0 /\ n \notin Inner /\ FreeNode(n)
  BY <1>0 DEF Drain, InRun
<1>2. pc' = IF \E x \in Nodes : list'[x] = "zero" THEN "drain" ELSE "run"
  BY DEF Drain
<1>3. UNCHANGED <<mark, next, seen, spared>>
  BY DEF Drain
<1>4. \A x \in Nodes : ~dead[x]
  BY <1>0 DEF InRun, NoneDead
<1>5. Counts(count, ref, All)
  BY <1>0 DEF InRun
<1>6. /\ Wired'
      /\ Counts(count, ref, All)'
      /\ \A e \in All : Target(e)' \in {Target(e), None}
      /\ \A x \in Nodes \ {n} :
            \/ list'[x] = list[x]
            \/ x \in Inner /\ list'[x] = "none"
            \/ pc # "cycles" /\ x \notin Inner /\ list'[x] = "zero" /\ count'[x] = 0
      /\ dead' = [dead EXCEPT ![n] = pc = "cycles" /\ count'[n] # 0]
      /\ list'[n] = IF pc = "cycles" /\ count'[n] # 0 THEN "zero" ELSE "none"
  <2>1. pc' \in {"run", "drain", "cycles"} /\ list[n] # "none" /\ (pc # "cycles" => count[n] = 0)
        /\ \A x \in Nodes : dead[x] => x \notin Inner
    BY <1>1, <1>2, <1>4
  <2> QED
    BY <2>1, <1>0, <1>1, <1>3, <1>5, FreeGood
<1>7. list'[n] = "none" /\ \A x \in Nodes : ~dead'[x]
  <2>1. dead' = [dead EXCEPT ![n] = FALSE]
    BY <1>6, <1>0
  <2>2. dead \in [Nodes -> BOOLEAN]
    BY <1>0 DEF Wired, TypeOK
  <2>3. \A x \in Nodes : ~dead'[x]
    BY <2>1, <2>2, <1>4
  <2> QED
    BY <1>6, <1>0, <2>3
<1>8. \A x \in Nodes : mark'[x] = 0 /\ list'[x] # "tmp"
  BY <1>0, <1>3, <1>6, <1>7 DEF InRun
<1>9. ASSUME NEW x \in Nodes, list'[x] = "zero"
      PROVE  pc' = "drain" /\ count'[x] = 0 /\ x \notin Inner
  <2>1. pc' = "drain"
    BY <1>2, <1>9
  <2>2. CASE list[x] = "zero"
    <3>1. count[x] = 0 /\ x \notin Inner /\ count[x] = Cardinality(Refs(ref, All, x))
      BY <1>0, <1>5, <2>2 DEF InRun, Counts
    <3>2. Cardinality(Refs(ref, All, x)) = 0 /\ All \in SUBSET All
      BY <3>1
    <3>3. \A e \in All : ref[e[1]][e[2]] # x
      BY ONLY <3>2, CountZero
    <3>4. \A e \in All : ref'[e[1]][e[2]] # x
      BY <3>3, <1>6, Kinds DEF Target
    <3>5. Cardinality(Refs(ref', All, x)) = 0
      BY <3>4, CountZero
    <3>6. count'[x] = Cardinality(Refs(ref', All, x))
      BY <1>6 DEF Counts, All, Refs
    <3> QED
      BY <2>1, <3>1, <3>5, <3>6
  <2>3. CASE list[x] # "zero"
    BY <2>1, <2>3, <1>6, <1>7, <1>9
  <2> QED
    BY <2>2, <2>3
<1>10. InRun'
  BY <1>6, <1>7, <1>8, <1>9 DEF InRun, NoneDead
<1> QED
  BY <1>2, <1>6, <1>10 DEF IInv, Phases

-----------------------------------------------------------------------------
(* The passes.                                                             *)

\* The passes move nodes between lists, and leave the references as they are.
LEMMA WiredKept ==
    ASSUME Wired, TypeOK', UNCHANGED <<dead, ref, key>>,
           \A x \in Nodes : list'[x] = "none" <=> list[x] = "none"
    PROVE  Wired'
<1>1. NoDangling'
  <2>1. \A e \in All : Target(e) # None => Target(e) \in Nodes
    BY DEF Wired, TypeOK, All, Edges, Target
  <2>2. \A m \in Nodes : key[m] # None => key[m] \in Nodes
    BY DEF Wired, TypeOK
  <2> QED
    BY <2>1, <2>2 DEF Wired, NoDangling, Target, All
<1>2. FreeIsBlank'
  BY DEF Wired, FreeIsBlank
<1>3. InnerOwned'
  <2>1. Inner \subseteq Nodes
    BY Kinds
  <2> QED
    BY <2>1 DEF Wired, InnerOwned, Target, All
<1>4. KeysOfMaps'
  BY DEF Wired, KeysOfMaps
<1> QED
  BY <1>1, <1>2, <1>3, <1>4 DEF Wired

LEMMA StartGCStep ==
    ASSUME IInv, StartGC
    PROVE  IInv'
<1>0. Wired /\ InRun /\ TypeOK /\ pc = "run"
  BY DEF StartGC, IInv, Phases, Wired
<1>1. pc' = "decref" /\ next' \in On("gc") /\ seen' = {}
      /\ UNCHANGED <<list, count, mark, dead, ref, key>>
  BY DEF StartGC
<1>2. spared' \subseteq Nodes
  <2> PICK from : from = {Target(e) : e \in Untold} \ {None}
    OBVIOUS
  <2>1. \A e \in Edges(Nodes) : Target(e) \in Nodes \cup {None}
    BY <1>0 DEF TypeOK, Edges, Target, Owners
  <2>2. Untold \subseteq Edges(Nodes)
    BY Kinds DEF Untold, Edges, Used
  <2>3. from \subseteq Nodes /\ Closed(Nodes) /\ Nodes \in SUBSET Owners
    BY <2>1, <2>2 DEF Closed, Owners
  <2>4. spared' = ReachableFrom(from)
    BY DEF StartGC
  <2> QED
    BY <2>3, <2>4 DEF ReachableFrom
<1>3. TypeOK'
  BY <1>0, <1>1, <1>2 DEF TypeOK, On
<1>4. Wired'
  BY <1>0, <1>1, <1>3, WiredKept
<1>5. next' \in Nodes /\ None \notin Nodes /\ list'[next'] = "gc"
  BY <1>1, Kinds DEF On
<1>6. Counts(count', ref', All \ Open({}))
  <2>1. All \ Open({}) = All
    BY DEF Open
  <2> QED
    BY <2>1, <1>0, <1>1 DEF InRun
<1>7. InDecref'
  <2>1. Counts(count, ref, All \ Open(seen))'
    BY <1>1, <1>6 DEF Counts, Refs, Open, All
  <2>2. \A n \in Nodes : list[n] # "zero" /\ list[n] # "tmp" /\ mark[n] = 0 /\ ~dead[n]
    BY <1>0 DEF InRun, NoneDead
  <2> QED
    BY <2>1, <2>2, <1>1, <1>5 DEF InDecref, NoneDead
<1> QED
  BY <1>1, <1>4, <1>7 DEF IInv, Phases

\* A pass that takes or gives back the references of one more node.
LEMMA OneMore ==
    ASSUME Wired, NEW p \in Nodes, NEW few \in SUBSET Nodes, p \notin few, NEW x
    PROVE  /\ To(Shown(p), x) \in Nat
           /\ Cardinality(Refs(ref, All \ Open(few \cup {p}), x)) \in Nat
           /\ Cardinality(Refs(ref, All \ Open(few), x)) \in Nat
           /\ Cardinality(Refs(ref, All \ Open(few), x)) =
                 Cardinality(Refs(ref, All \ Open(few \cup {p}), x)) + To(Shown(p), x)
           /\ x \in Nodes /\ To(Shown(p), x) > 0 => list[x] # "none"
<1> PICK A, B : A = All \ Open(few) /\ B = Open({p})
  OBVIOUS
<1>1. Shown(p) = B /\ Shown(p) \subseteq All
  BY DEF Shown, Open, All, Edges, Owners
<1>2. A \in SUBSET All /\ B \in SUBSET A
  BY <1>1 DEF Open
<1>3. A \ B = All \ Open(few \cup {p})
  BY DEF Open
<1>4. To(Shown(p), x) = Cardinality(Refs(ref, B, x))
  BY <1>1, ToRefs
<1>5. /\ Cardinality(Refs(ref, A, x)) \in Nat
      /\ Cardinality(Refs(ref, B, x)) \in Nat
      /\ Cardinality(Refs(ref, A \ B, x)) \in Nat
      /\ Cardinality(Refs(ref, A, x)) = Cardinality(Refs(ref, A \ B, x)) + Cardinality(Refs(ref, B, x))
  BY ONLY <1>2, SplitCount
<1>6. x \in Nodes /\ To(Shown(p), x) > 0 => list[x] # "none"
  <2> SUFFICES ASSUME x \in Nodes, To(Shown(p), x) > 0 PROVE list[x] # "none"
    OBVIOUS
  <2>1. ~(Cardinality(Refs(ref, B, x)) = 0) /\ B \in SUBSET All
    BY <1>1, <1>4
  <2>2. \E e \in B : ref[e[1]][e[2]] = x
    BY ONLY <2>1, CountZero
  <2>3. x # None
    BY Kinds
  <2> QED
    BY <2>1, <2>2, <2>3 DEF Wired, NoDangling, Target, All
<1> QED
  BY <1>3, <1>4, <1>5, <1>6

\* It makes no difference whether the references of what is blank count.
LEMMA BlankApart ==
    ASSUME NEW ns \in SUBSET Nodes, NEW ms \in SUBSET Nodes, NEW c,
           \A n \in Nodes : (n \in ns) # (n \in ms) => ref[n] = Blank,
           Counts(c, ref, All \ Open(ns))
    PROVE  Counts(c, ref, All \ Open(ms))
<1>1. ASSUME NEW x \in Nodes
      PROVE  Refs(ref, All \ Open(ms), x) = Refs(ref, All \ Open(ns), x)
  <2>1. ASSUME NEW e \in All, ref[e[1]][e[2]] = x
        PROVE  e \in Open(ns) <=> e \in Open(ms)
    <3>1. e[1] \in Nodes => ref[e[1]] # Blank
      BY <2>1, Kinds DEF Blank, All, Edges
    <3>2. e = <<e[1], e[2]>>
      BY DEF All, Edges
    <3>3. e[1] \in ns <=> e[1] \in ms
      BY <3>1
    <3> QED
      BY <3>2, <3>3 DEF Open
  <2> QED
    BY <2>1 DEF Refs
<1> QED
  BY <1>1 DEF Counts

LEMMA DecrefStep ==
    ASSUME IInv, Decref
    PROVE  IInv'
<1> PICK p : p = next
  OBVIOUS
<1>0. Wired /\ InDecref /\ TypeOK /\ pc = "decref" /\ p # None
  BY DEF Decref, IInv, Phases, Wired
<1>1. p \in Nodes /\ list[p] = "gc" /\ p \notin seen /\ seen \subseteq Nodes /\ None \notin Nodes
  BY <1>0, Kinds DEF TypeOK, InDecref
<1>2. /\ next' \in NextOf(On("gc") \ (seen \cup {p}))
      /\ count' = [x \in Nodes |-> Uncounted(p, x)]
      /\ mark' = [mark EXCEPT ![p] = 1]
      /\ list' = [x \in Nodes |-> IF ToTmp(p, x) THEN "tmp" ELSE list[x]]
      /\ seen' = seen \cup {p}
      /\ UNCHANGED <<pc, dead, ref, key, spared>>
  BY DEF Decref
<1>t. /\ count \in [Nodes -> Nat] /\ list \in [Nodes -> {"none", "gc", "tmp", "zero"}]
      /\ mark \in [Nodes -> 0 .. 1] /\ dead \in [Nodes -> BOOLEAN]
  BY <1>0 DEF TypeOK
<1>3. ASSUME NEW x \in Nodes
      PROVE  /\ count'[x] = Cardinality(Refs(ref, All \ Open(seen \cup {p}), x))
             /\ count'[x] \in Nat
             /\ To(Shown(p), x) \in Nat
             /\ count[x] = count'[x] + To(Shown(p), x)
             /\ Uncounted(p, x) = count'[x]
  <2>1. /\ To(Shown(p), x) \in Nat
        /\ Cardinality(Refs(ref, All \ Open(seen \cup {p}), x)) \in Nat
        /\ Cardinality(Refs(ref, All \ Open(seen), x)) =
              Cardinality(Refs(ref, All \ Open(seen \cup {p}), x)) + To(Shown(p), x)
    <3>1. Wired /\ p \in Nodes /\ seen \in SUBSET Nodes /\ p \notin seen
      BY <1>0, <1>1
    <3> QED
      BY ONLY <3>1, OneMore
  <2>2. count[x] = Cardinality(Refs(ref, All \ Open(seen), x))
    BY <1>0 DEF InDecref, Counts
  <2>3. count'[x] = count[x] - To(Shown(p), x) /\ count'[x] = Uncounted(p, x)
    BY <1>2 DEF Uncounted
  <2> QED
    BY <2>1, <2>2, <2>3
<1>4. \A x \in Nodes : list'[x] = IF ToTmp(p, x) THEN "tmp" ELSE list[x]
  BY <1>2
<1>5. \A x \in Nodes : ToTmp(p, x) <=>
         list[x] = "gc" /\ count'[x] = 0 /\ ((x \in seen /\ To(Shown(p), x) > 0) \/ x = p)
  BY <1>0, <1>3 DEF ToTmp, InDecref
<1> PICK N, l, c : N = next' /\ l = list' /\ c = count'
  OBVIOUS
<1>6. \A x \in Nodes : l[x] = "none" <=> list[x] = "none"
  BY <1>4, <1>5
<1>7. \A x \in seen : list[x] # "none" /\ list[x] # "zero" /\ (list[x] = "tmp" <=> count[x] = 0)
  BY <1>0, <1>1 DEF InDecref
<1>8. ASSUME NEW x \in seen \cup {p}
      PROVE  l[x] # "none" /\ (l[x] = "tmp" <=> c[x] = 0)
  <2>1. x \in Nodes
    BY <1>1
  <2>2. CASE x = p
    BY <2>2, <1>1, <1>4, <1>5
  <2>3. CASE x \in seen /\ x # p /\ list[x] = "tmp"
    <3>1. c[x] = 0
      BY <2>1, <2>3, <1>3, <1>7
    <3> QED
      BY <2>1, <2>3, <3>1, <1>4
  <2>4. CASE x \in seen /\ x # p /\ list[x] # "tmp"
    <3>1. list[x] = "gc" /\ count[x] # 0
      BY <2>1, <2>4, <1>7, <1>t
    <3>2. c[x] = 0 => To(Shown(p), x) > 0
      BY <2>1, <3>1, <1>3
    <3> QED
      BY <2>1, <2>4, <3>1, <3>2, <1>4, <1>5
  <2> QED
    BY <2>2, <2>3, <2>4
<1>9. N \in Nodes \cup {None} /\ (N # None => list[N] = "gc" /\ N \notin seen \cup {p})
      /\ (N = None => On("gc") \subseteq seen \cup {p})
  BY <1>1, <1>2 DEF NextOf, On
<1>10. N # None => l[N] = "gc"
  BY <1>4, <1>5, <1>9
<1>11. N = None => \A x \in Nodes : l[x] # "none" => x \in seen \cup {p}
  <2>1. \A x \in Nodes : list[x] # "zero" /\ (list[x] = "tmp" => x \in seen)
    BY <1>0 DEF InDecref
  <2> QED
    BY <2>1, <1>6, <1>9, <1>t DEF On
<1>12. TypeOK'
  <2>1. count' \in [Nodes -> Nat]
    BY <1>2, <1>3
  <2>2. list' \in [Nodes -> {"none", "gc", "tmp", "zero"}]
    BY <1>2, <1>t
  <2>3. mark' \in [Nodes -> 0 .. 1] /\ seen' \subseteq Nodes /\ next' \in Nodes \cup {None}
    BY <1>1, <1>2, <1>9, <1>t
  <2> QED
    BY <2>1, <2>2, <2>3, <1>0, <1>2 DEF TypeOK
<1>13. Wired'
  BY <1>0, <1>2, <1>6, <1>12, WiredKept
<1>14. InDecref'
  <2>1. Counts(count, ref, All \ Open(seen))'
    BY <1>2, <1>3 DEF Counts, Refs, All, Open
  <2>2. \A n \in Nodes : mark'[n] = 1 <=> n \in seen'
    BY <1>0, <1>1, <1>2, <1>t DEF InDecref
  <2>3. \A n \in Nodes : list'[n] # "zero" /\ (n \notin seen' => list'[n] # "tmp")
    BY <1>0, <1>2, <1>4, <1>5 DEF InDecref
  <2>4. NoneDead'
    BY <1>0, <1>2 DEF InDecref, NoneDead
  <2> QED
    BY <2>1, <2>2, <2>3, <2>4, <1>2, <1>8, <1>9, <1>10, <1>11 DEF InDecref
<1> QED
  BY <1>0, <1>2, <1>13, <1>14 DEF IInv, Phases

LEMMA EndDecrefStep ==
    ASSUME IInv, EndDecref
    PROVE  IInv'
<1>0. Wired /\ InDecref /\ TypeOK /\ pc = "decref" /\ next = None
  BY DEF EndDecref, IInv, Phases, Wired
<1>1. pc' = "scan" /\ seen' = {} /\ UNCHANGED <<list, count, mark, dead, ref, key, next, spared>>
  BY DEF EndDecref
<1>2. \A n \in Nodes : list[n] # "none" => n \in seen
  BY <1>0 DEF InDecref
<1>3. Counts(count, ref, All \ Open(Nodes))
  <2>1. seen \in SUBSET Nodes /\ Nodes \in SUBSET Nodes /\ Counts(count, ref, All \ Open(seen))
    BY <1>0 DEF TypeOK, InDecref
  <2>2. \A n \in Nodes : (n \in seen) # (n \in Nodes) => ref[n] = Blank
    BY <1>0, <1>2 DEF Wired, FreeIsBlank
  <2> QED
    BY ONLY <2>1, <2>2, BlankApart
<1>4. TypeOK'
  BY <1>0, <1>1 DEF TypeOK
<1>5. Wired'
  BY <1>0, <1>1, <1>4, WiredKept
<1>6. InScan'
  <2>1. Nodes \ {} = Nodes
    OBVIOUS
  <2>2. Counts(count, ref, All \ Open(Nodes \ seen))'
    BY <1>1, <1>3, <2>1 DEF Counts, Refs, Open, All
  <2> QED
    BY <2>2, <1>0, <1>1, <1>2 DEF InDecref, InScan, NoneDead
<1> QED
  BY <1>1, <1>5, <1>6 DEF IInv, Phases

\* The counts when the references of p are given back.
LEMMA GivenBack ==
    ASSUME Wired, NEW p \in Nodes, NEW ns \in SUBSET Nodes, p \in ns, NEW c,
           Counts(count, ref, All \ Open(ns)),
           c = [x \in Nodes |-> count[x] + To(Shown(p), x)]
    PROVE  /\ c \in [Nodes -> Nat]
           /\ Counts(c, ref, All \ Open(ns \ {p}))
           /\ \A x \in Nodes : To(Shown(p), x) \in Nat /\ (To(Shown(p), x) > 0 => list[x] # "none")
<1> PICK few : few = ns \ {p}
  OBVIOUS
<1>1. few \cup {p} = ns
  OBVIOUS
<1>2. ASSUME NEW x \in Nodes
      PROVE  /\ c[x] = Cardinality(Refs(ref, All \ Open(few), x)) /\ c[x] \in Nat
             /\ To(Shown(p), x) \in Nat /\ (To(Shown(p), x) > 0 => list[x] # "none")
  <2>1. /\ To(Shown(p), x) \in Nat
        /\ Cardinality(Refs(ref, All \ Open(few \cup {p}), x)) \in Nat
        /\ Cardinality(Refs(ref, All \ Open(few), x)) \in Nat
        /\ Cardinality(Refs(ref, All \ Open(few), x)) =
              Cardinality(Refs(ref, All \ Open(few \cup {p}), x)) + To(Shown(p), x)
        /\ x \in Nodes /\ To(Shown(p), x) > 0 => list[x] # "none"
    <3>1. Wired /\ p \in Nodes /\ few \in SUBSET Nodes /\ p \notin few
      OBVIOUS
    <3> QED
      BY ONLY <3>1, OneMore
  <2>2. count[x] = Cardinality(Refs(ref, All \ Open(few \cup {p}), x))
    BY <1>1 DEF Counts
  <2>3. c[x] = count[x] + To(Shown(p), x)
    OBVIOUS
  <2> QED
    BY <2>1, <2>2, <2>3
<1> QED
  BY <1>2 DEF Counts

LEMMA ScanStep ==
    ASSUME IInv, NEW p \in Nodes, Scan(p)
    PROVE  IInv'
<1>0. Wired /\ InScan /\ TypeOK /\ pc = "scan"
  BY DEF Scan, IInv, Phases, Wired
<1>1. list[p] = "gc" /\ p \notin seen /\ seen \subseteq Nodes
  BY <1>0 DEF TypeOK, Scan, On
<1>2. /\ count' = [x \in Nodes |-> count[x] + To(Shown(p), x)]
      /\ list' = [x \in Nodes |-> IF Back(p, x) THEN "gc" ELSE list[x]]
      /\ mark' = [x \in Nodes |-> IF x = p \/ Back(p, x) THEN 0 ELSE mark[x]]
      /\ seen' = seen \cup {p}
      /\ UNCHANGED <<pc, dead, ref, key, next, spared>>
  BY DEF Scan
<1>t. /\ count \in [Nodes -> Nat] /\ list \in [Nodes -> {"none", "gc", "tmp", "zero"}]
      /\ mark \in [Nodes -> 0 .. 1]
  BY <1>0 DEF TypeOK
<1>3. /\ count' \in [Nodes -> Nat]
      /\ Counts(count', ref, All \ Open((Nodes \ seen) \ {p}))
      /\ \A x \in Nodes : To(Shown(p), x) \in Nat /\ (To(Shown(p), x) > 0 => list[x] # "none")
  <2>1. Wired /\ p \in Nodes /\ (Nodes \ seen) \in SUBSET Nodes /\ p \in Nodes \ seen
        /\ Counts(count, ref, All \ Open(Nodes \ seen))
    BY <1>0, <1>1 DEF InScan
  <2>2. count' = [x \in Nodes |-> count[x] + To(Shown(p), x)]
    BY <1>2
  <2> QED
    BY ONLY <2>1, <2>2, GivenBack
<1>4. \A x \in Nodes : Back(p, x) <=> To(Shown(p), x) > 0 /\ count[x] = 0
  BY DEF Back
<1>5. \A x \in Nodes : list'[x] = (IF Back(p, x) THEN "gc" ELSE list[x])
                       /\ mark'[x] = (IF x = p \/ Back(p, x) THEN 0 ELSE mark[x])
                       /\ count'[x] = count[x] + To(Shown(p), x)
  BY <1>2
<1> PICK l, m, c : l = list' /\ m = mark' /\ c = count'
  OBVIOUS
<1>6. ASSUME NEW x \in Nodes
      PROVE  /\ l[x] = "none" <=> list[x] = "none"
             /\ l[x] # "zero"
             /\ l[x] # "none" => (l[x] = "tmp" <=> c[x] = 0)
  <2>1. list[x] # "zero" /\ (list[x] # "none" => (list[x] = "tmp" <=> count[x] = 0))
    BY <1>0 DEF InScan
  <2>2. /\ l[x] = (IF Back(p, x) THEN "gc" ELSE list[x]) /\ c[x] = count[x] + To(Shown(p), x)
        /\ Back(p, x) <=> To(Shown(p), x) > 0 /\ count[x] = 0
        /\ To(Shown(p), x) \in Nat /\ (To(Shown(p), x) > 0 => list[x] # "none")
        /\ count[x] \in Nat
    BY <1>3, <1>4, <1>5, <1>t
  <2>3. CASE Back(p, x)
    BY ONLY <2>2, <2>3
  <2>4. CASE ~Back(p, x)
    BY ONLY <2>1, <2>2, <2>4
  <2> QED
    BY <2>3, <2>4
<1>7. \A x \in seen \cup {p} : l[x] = "gc" /\ m[x] = 0
  <2>1. \A x \in seen : list[x] = "gc" /\ mark[x] = 0 /\ x \in Nodes
    BY <1>0, <1>1 DEF InScan
  <2> QED
    BY <2>1, <1>1, <1>5
<1>8. TypeOK'
  <2>1. list' \in [Nodes -> {"none", "gc", "tmp", "zero"}] /\ mark' \in [Nodes -> 0 .. 1]
    BY <1>2, <1>t
  <2>2. seen' \subseteq Nodes
    BY <1>1, <1>2
  <2> QED
    BY <2>1, <2>2, <1>0, <1>2, <1>3 DEF TypeOK
<1>9. Wired'
  BY <1>0, <1>2, <1>6, <1>8, WiredKept
<1>10. InScan'
  <2>1. (Nodes \ seen) \ {p} = Nodes \ (seen \cup {p})
    OBVIOUS
  <2>2. Counts(count', ref', All \ Open(Nodes \ seen'))
    BY <2>1, <1>2, <1>3
  <2>3. Counts(count, ref, All \ Open(Nodes \ seen))'
    BY <2>2 DEF Counts, Refs, Open, All
  <2>4. NoneDead'
    BY <1>0, <1>2 DEF InScan, NoneDead
  <2> QED
    BY <2>3, <2>4, <1>2, <1>6, <1>7 DEF InScan
<1> QED
  BY <1>0, <1>2, <1>9, <1>10 DEF IInv, Phases

LEMMA EndScanStep ==
    ASSUME IInv, EndScan
    PROVE  IInv'
<1>0. Wired /\ InScan /\ TypeOK /\ pc = "scan"
  BY DEF EndScan, IInv, Phases, Wired
<1>1. /\ \A x \in Nodes : list[x] = "gc" => x \in seen
      /\ pc' = "restore" /\ seen' = {}
      /\ UNCHANGED <<list, count, mark, dead, ref, key, next, spared>>
  BY DEF EndScan, On
<1>2. \A x \in Nodes : list[x] # "zero" /\ (list[x] = "gc" <=> x \in seen)
                       /\ (list[x] = "gc" => mark[x] = 0)
                       /\ list[x] \in {"none", "gc", "tmp", "zero"}
                       /\ (list[x] = "none" => ref[x] = Blank)
                       /\ (list[x] = "tmp" => count[x] = 0)
  BY <1>0, <1>1 DEF InScan, TypeOK, Wired, FreeIsBlank
<1>3. Counts(count, ref, All \ Open(On("tmp")))
  <2>1. (Nodes \ seen) \in SUBSET Nodes /\ On("tmp") \in SUBSET Nodes
        /\ Counts(count, ref, All \ Open(Nodes \ seen))
    BY <1>0 DEF InScan, On
  <2>2. \A n \in Nodes : (n \in Nodes \ seen) # (n \in On("tmp")) => ref[n] = Blank
    BY <1>2 DEF On
  <2> QED
    BY ONLY <2>1, <2>2, BlankApart
<1>4. Isolated({"tmp"})
  <2> SUFFICES ASSUME NEW e \in All, Target(e) \in Nodes, list[Target(e)] = "tmp"
               PROVE  e[1] \in Nodes /\ list[e[1]] = "tmp"
    BY DEF Isolated
  <2> PICK x, A : x = Target(e) /\ A = All \ Open(On("tmp"))
    OBVIOUS
  <2>1. Cardinality(Refs(ref, A, x)) = 0 /\ A \in SUBSET All
    BY <1>2, <1>3 DEF Counts
  <2>2. \A d \in A : ref[d[1]][d[2]] # x
    BY ONLY <2>1, CountZero
  <2>3. e \in Open(On("tmp"))
    BY <2>2 DEF Target
  <2> QED
    BY <2>3 DEF Open, On
<1>5. TypeOK'
  BY <1>0, <1>1 DEF TypeOK
<1>6. Wired'
  BY <1>0, <1>1, <1>5, WiredKept
<1>7. InRestore'
  <2>1. On("tmp") \ {} = On("tmp")
    OBVIOUS
  <2>2. Counts(count, ref, All \ Open(On("tmp") \ seen))'
    BY <1>1, <1>3, <2>1 DEF Counts, Refs, Open, All, On
  <2>3. Isolated({"tmp"})'
    BY <1>1, <1>4 DEF Isolated, Target, All
  <2> QED
    BY <2>2, <2>3, <1>0, <1>1, <1>2 DEF InScan, InRestore, NoneDead
<1> QED
  BY <1>1, <1>6, <1>7 DEF IInv, Phases

LEMMA RestoreStep ==
    ASSUME IInv, NEW p \in Nodes, Restore(p)
    PROVE  IInv'
<1>0. Wired /\ InRestore /\ TypeOK /\ pc = "restore"
  BY DEF Restore, IInv, Phases, Wired
<1>1. p \in On("tmp") \ seen /\ seen \subseteq Nodes
  BY <1>0 DEF TypeOK, Restore
<1>2. /\ count' = [x \in Nodes |-> count[x] + To(Shown(p), x)]
      /\ seen' = seen \cup {p}
      /\ UNCHANGED <<pc, list, mark, dead, ref, key, next, spared>>
  BY DEF Restore
<1>3. count' \in [Nodes -> Nat] /\ Counts(count', ref, All \ Open((On("tmp") \ seen) \ {p}))
  <2>1. Wired /\ p \in Nodes /\ (On("tmp") \ seen) \in SUBSET Nodes /\ p \in On("tmp") \ seen
        /\ Counts(count, ref, All \ Open(On("tmp") \ seen))
    BY <1>0, <1>1 DEF InRestore, On
  <2>2. count' = [x \in Nodes |-> count[x] + To(Shown(p), x)]
    BY <1>2
  <2> QED
    BY ONLY <2>1, <2>2, GivenBack
<1>4. TypeOK'
  BY <1>0, <1>1, <1>2, <1>3 DEF TypeOK
<1>5. Wired'
  BY <1>0, <1>2, <1>4, WiredKept
<1>6. InRestore'
  <2>1. (On("tmp") \ seen) \ {p} = On("tmp") \ (seen \cup {p})
    OBVIOUS
  <2>2. Counts(count', ref', All \ Open(On("tmp") \ seen'))
    BY <2>1, <1>2, <1>3
  <2>3. Counts(count, ref, All \ Open(On("tmp") \ seen))'
    BY <2>2, <1>2 DEF Counts, Refs, Open, All, On
  <2>4. Isolated({"tmp"})'
    BY <1>0, <1>2 DEF InRestore, Isolated, Target, All
  <2> QED
    BY <2>3, <2>4, <1>0, <1>2 DEF InRestore, NoneDead
<1> QED
  BY <1>0, <1>2, <1>5, <1>6 DEF IInv, Phases

LEMMA EndRestoreStep ==
    ASSUME IInv, EndRestore
    PROVE  IInv'
<1>0. Wired /\ InRestore /\ TypeOK /\ pc = "restore"
  BY DEF EndRestore, IInv, Phases, Wired
<1>1. /\ On("tmp") \ seen = {} /\ pc' = "cycles" /\ seen' = {}
      /\ UNCHANGED <<list, count, mark, dead, ref, key, next, spared>>
  BY DEF EndRestore
<1>2. TypeOK'
  BY <1>0, <1>1 DEF TypeOK
<1>3. Wired'
  BY <1>0, <1>1, <1>2, WiredKept
<1>4. Counts(count, ref, All)'
  <2>1. All \ Open({}) = All
    BY DEF Open
  <2>2. Counts(count, ref, All)
    BY <2>1, <1>0, <1>1 DEF InRestore
  <2> QED
    BY <2>2, <1>1 DEF Counts, Refs, All
<1>5. Isolated({"tmp", "zero"})'
  <2>1. \A x \in Nodes : list[x] # "zero"
    BY <1>0 DEF InRestore
  <2> QED
    BY <2>1, <1>0, <1>1 DEF InRestore, Isolated, Target, All
<1>6. InCycles'
  BY <1>0, <1>1, <1>4, <1>5 DEF InRestore, InCycles, NoneDead
<1> QED
  BY <1>1, <1>3, <1>6 DEF IInv, Phases

LEMMA FreeCycleStep ==
    ASSUME IInv, NEW p \in Nodes, FreeCycle(p)
    PROVE  IInv'
<1>0. Wired /\ InCycles /\ TypeOK /\ pc = "cycles"
  BY DEF FreeCycle, IInv, Phases, Wired
<1>1. list[p] = "tmp" /\ pc' = "cycles" /\ UNCHANGED <<mark, next, seen, spared>>
  BY <1>0 DEF FreeCycle
<1>2. \A x \in Nodes : /\ list[x] = "gc" => mark[x] = 0
                       /\ dead[x] <=> list[x] = "zero" /\ x \notin Inner
                       /\ dead[x] => ref[x] = Blank /\ key[x] = None
  BY <1>0 DEF InCycles
<1>t. list \in [Nodes -> {"none", "gc", "tmp", "zero"}] /\ dead \in [Nodes -> BOOLEAN]
  BY <1>0 DEF TypeOK
<1>3. CASE p \in Inner
  <2>1. list' = [list EXCEPT ![p] = "zero"] /\ UNCHANGED <<count, dead, ref, key>>
    BY <1>3 DEF FreeCycle
  <2>2. list'[p] = "zero" /\ \A x \in Nodes \ {p} : list'[x] = list[x]
    BY <2>1, <1>t
  <2>3. TypeOK'
    BY <2>1, <1>0, <1>1, <1>t DEF TypeOK
  <2>4. Wired'
    BY <2>1, <2>2, <2>3, <1>0, <1>1, WiredKept
  <2>5. Counts(count, ref, All)'
    BY <2>1, <1>0 DEF InCycles, Counts, Refs, All
  <2>6. \A x \in Nodes : list'[x] \in {"tmp", "zero"} <=> list[x] \in {"tmp", "zero"}
    BY <2>2, <1>1
  <2>7. Isolated({"tmp", "zero"})'
    <3>1. \A e \in All : Target(e)' = Target(e)
      BY <2>1 DEF Target
    <3>2. Isolated({"tmp", "zero"})
      BY <1>0 DEF InCycles
    <3> QED
      BY <3>1, <3>2, <2>6 DEF Isolated, All
  <2>8. InCycles'
    BY <2>1, <2>2, <2>5, <2>7, <1>1, <1>2, <1>3 DEF InCycles
  <2> QED
    BY <1>1, <2>4, <2>8 DEF IInv, Phases
<1>4. CASE p \notin Inner
  <2>0. FreeNode(p)
    BY <1>4 DEF FreeCycle
  <2>1. /\ Wired'
        /\ Counts(count, ref, All)'
        /\ \A e \in All : Target(e)' \in {Target(e), None}
        /\ \A x \in Nodes \ {p} :
              \/ list'[x] = list[x]
              \/ x \in Inner /\ list'[x] = "none"
              \/ pc # "cycles" /\ x \notin Inner /\ list'[x] = "zero" /\ count'[x] = 0
        /\ ref'[p] = Blank /\ key'[p] = None
        /\ \A m \in Nodes : key'[m] \in {key[m], None}
        /\ dead' = [dead EXCEPT ![p] = pc = "cycles" /\ count'[p] # 0]
        /\ list'[p] = IF pc = "cycles" /\ count'[p] # 0 THEN "zero" ELSE "none"
    <3>1. Wired /\ Counts(count, ref, All) /\ list[p] # "none" /\ (pc # "cycles" => count[p] = 0)
          /\ (\A x \in Nodes : dead[x] => x \notin Inner) /\ pc' \in {"run", "drain", "cycles"}
      BY <1>0, <1>1, <1>2 DEF InCycles
    <3> QED
      BY <3>1, <2>0, <1>1, <1>4, FreeGood
  <2>2. \A x \in Nodes \ {p} : dead'[x] = dead[x]
                               /\ (list'[x] = list[x] \/ (x \in Inner /\ list'[x] = "none"))
    BY <2>1, <1>0, <1>t
  <2>3. dead'[p] <=> list'[p] = "zero"
    BY <2>1, <1>0, <1>t
  <2>4. \A x \in Nodes : dead'[x] <=> list'[x] = "zero" /\ x \notin Inner
    BY <2>2, <2>3, <1>2, <1>4
  <2>5. ASSUME NEW x \in Nodes, dead'[x]
        PROVE  ref'[x] = Blank /\ key'[x] = None
    <3>1. CASE x = p
      BY <3>1, <2>1
    <3>2. CASE x # p
      <4>1. ref[x] = Blank /\ key[x] = None
        BY <3>2, <2>2, <2>5, <1>2
      <4> QED
        BY <4>1, <2>1, <1>0, StaysBlank
    <3> QED
      BY <3>1, <3>2
  <2>6. \A x \in Nodes : list'[x] = "gc" => mark'[x] = 0
    <3>1. list'[p] # "gc"
      BY <2>1
    <3> QED
      BY <3>1, <2>2, <1>1, <1>2
  <2>7. Isolated({"tmp", "zero"})'
    <3> SUFFICES ASSUME NEW e \in All, Target(e)' \in Nodes, list'[Target(e)'] \in {"tmp", "zero"}
                 PROVE  e[1] \in Nodes /\ list'[e[1]] \in {"tmp", "zero"}
      BY DEF Isolated, All
    <3>1. Target(e)' = Target(e)
      BY <2>1, Kinds
    <3>2. list[Target(e)] \in {"tmp", "zero"}
      BY <3>1, <2>2, <1>1
    <3>3. e[1] \in Nodes /\ list[e[1]] \in {"tmp", "zero"}
      BY <3>1, <3>2, <1>0 DEF InCycles, Isolated
    <3>4. ref'[e[1]] # Blank
      <4>1. e[2] \in Slots /\ Target(e)' = ref'[e[1]][e[2]] /\ None \notin Nodes
        BY Kinds DEF All, Edges, Target
      <4> QED
        BY <4>1 DEF Blank
    <3>5. list'[e[1]] # "none"
      BY <2>1, <3>3, <3>4 DEF Wired, FreeIsBlank
    <3>6. e[1] # p
      BY <2>1, <3>4
    <3> QED
      BY <3>3, <3>5, <3>6, <2>2
  <2>8. InCycles'
    BY <2>1, <2>4, <2>5, <2>6, <2>7 DEF InCycles
  <2> QED
    BY <2>1, <2>8, <1>1 DEF IInv, Phases
<1> QED
  BY <1>3, <1>4

\* When no node is left to take apart, nothing refers to those on the list.
LEMMA ZeroAlone ==
    ASSUME IInv, pc = "cycles", On("tmp") = {}
    PROVE  /\ \A e \in All : Target(e) \in Nodes => list[Target(e)] # "zero"
           /\ \A n \in Nodes : list[n] = "zero" =>
                 n \notin Inner /\ dead[n] /\ count[n] = 0 /\ ref[n] = Blank /\ key[n] = None
<1>0. Wired /\ InCycles /\ TypeOK
  BY DEF IInv, Phases, Wired
<1>1. \A x \in Nodes : list[x] # "tmp"
  BY DEF On
<1>2. ASSUME NEW e \in All, Target(e) \in Nodes, list[Target(e)] = "zero"
      PROVE  e[1] \in Inner /\ list[e[1]] = "zero"
  <2>1. e[1] \in Nodes /\ list[e[1]] = "zero"
    BY <1>0, <1>1, <1>2 DEF InCycles, Isolated
  <2>2. ref[e[1]] # Blank
    <3>1. e[2] \in Slots /\ None \notin Nodes /\ ref[e[1]][e[2]] \in Nodes
      BY <1>2, Kinds DEF All, Edges, Target
    <3> QED
      BY <3>1 DEF Blank
  <2> QED
    BY <2>1, <2>2, <1>0 DEF InCycles
<1>3. ASSUME NEW e \in All, Target(e) \in Nodes, list[Target(e)] = "zero"
      PROVE  FALSE
  <2>1. e[1] \in Inner /\ list[e[1]] = "zero"
    BY <1>2, <1>3
  <2> PICK d \in All : Target(d) = e[1]
    BY <2>1, <1>0 DEF Wired, InnerOwned
  <2>2. d[1] \in Inner
    BY <2>1, <1>2, Kinds
  <2> QED
    BY <2>1, <2>2, <1>0 DEF Wired, InnerOwned
<1>4. ASSUME NEW n \in Nodes, list[n] = "zero"
      PROVE  n \notin Inner /\ dead[n] /\ count[n] = 0 /\ ref[n] = Blank /\ key[n] = None
  <2>1. \A e \in All : ref[e[1]][e[2]] # n
    BY <1>3, <1>4 DEF Target
  <2>2. n \notin Inner
    BY <2>1, <1>0, <1>4 DEF Wired, InnerOwned, Target
  <2>3. dead[n] /\ ref[n] = Blank /\ key[n] = None
    BY <2>2, <1>0, <1>4 DEF InCycles
  <2>4. Cardinality(Refs(ref, All, n)) = 0
    BY <2>1, CountZero
  <2> QED
    BY <2>2, <2>3, <2>4, <1>0 DEF InCycles, Counts
<1> QED
  BY <1>3, <1>4

LEMMA EndGCStep ==
    ASSUME IInv, EndGC
    PROVE  IInv'
<1>0. Wired /\ InCycles /\ TypeOK /\ pc = "cycles" /\ On("tmp") = {}
  BY DEF EndGC, IInv, Phases, Wired
<1>1. /\ list' = [x \in Nodes |-> IF list[x] = "zero" THEN "none" ELSE list[x]]
      /\ dead' = [x \in Nodes |-> FALSE]
      /\ count' = [x \in Nodes |-> IF list[x] = "zero" THEN 0 ELSE count[x]]
      /\ mark' = [x \in Nodes |-> IF list[x] \in {"zero", "none"} THEN 0 ELSE mark[x]]
      /\ pc' = "run" /\ spared' = {}
      /\ UNCHANGED <<ref, key, next, seen>>
  BY DEF EndGC
<1>2. /\ \A e \in All : Target(e) \in Nodes => list[Target(e)] # "zero"
      /\ \A n \in Nodes : list[n] = "zero" =>
            n \notin Inner /\ dead[n] /\ count[n] = 0 /\ ref[n] = Blank /\ key[n] = None
  BY <1>0, ZeroAlone
<1>t. /\ count \in [Nodes -> Nat] /\ list \in [Nodes -> {"none", "gc", "tmp", "zero"}]
      /\ mark \in [Nodes -> 0 .. 1] /\ ref \in [Owners -> [Slots -> Nodes \cup {None}]]
      /\ key \in [Nodes -> Nodes \cup {None}] /\ next \in Nodes \cup {None} /\ seen \subseteq Nodes
  BY <1>0 DEF TypeOK
<1>3. list' \in [Nodes -> {"none", "gc", "zero"}] /\ \A x \in Nodes : list'[x] # "zero"
  <2>1. \A x \in Nodes : list[x] # "tmp"
    BY <1>0 DEF On
  <2> QED
    BY <2>1, <1>1, <1>t
<1>4. count' = count
  <2>1. \A x \in Nodes : (IF list[x] = "zero" THEN 0 ELSE count[x]) = count[x]
    BY <1>2
  <2>2. count = [x \in Nodes |-> count[x]]
    BY <1>t
  <2>3. \A x \in Nodes : count'[x] = count[x]
    BY <2>1, <1>1
  <2>4. count' = [x \in Nodes |-> count'[x]]
    BY <1>1
  <2> QED
    BY ONLY <2>2, <2>3, <2>4
<1>5. mark' = [x \in Nodes |-> 0]
  <2>1. \A x \in Nodes : mark'[x] = 0
    <3>1. \A x \in Nodes : list[x] \notin {"zero", "none"} => mark[x] = 0
      BY <1>0, <1>t DEF InCycles, On
    <3> QED
      BY <3>1, <1>1
  <2>2. mark' = [x \in Nodes |-> mark'[x]]
    BY <1>1
  <2> QED
    BY <2>1, <2>2
<1> PICK l : l = list'
  OBVIOUS
<1>6. ASSUME NEW e \in All, ref[e[1]][e[2]] # None
      PROVE  l[ref[e[1]][e[2]]] # "none" /\ (e[1] \in Inner => ref[e[1]][e[2]] \notin Inner)
  <2> PICK x : x = Target(e)
    OBVIOUS
  <2>1. x = ref[e[1]][e[2]] /\ x \in Nodes
    <3>1. e[1] \in Owners /\ e[2] \in Slots
      BY DEF All, Edges
    <3> QED
      BY <3>1, <1>6, <1>t DEF Target
  <2>2. list[x] # "none" /\ list[x] # "zero" /\ (e[1] \in Inner => x \notin Inner)
    <3>1. list[x] # "none"
      BY <2>1, <1>0, <1>6 DEF Wired, NoDangling, All
    <3>2. list[x] # "zero"
      BY <2>1, <1>2
    <3>3. e[1] \in Inner => x \notin Inner
      BY <1>0 DEF Wired, InnerOwned
    <3> QED
      BY <3>1, <3>2, <3>3
  <2> QED
    BY <2>1, <2>2, <1>1
<1>7. ASSUME NEW m \in Nodes, key[m] # None
      PROVE  l[key[m]] # "none" /\ key[m] \notin Inner /\ m \in Maps
  <2>1. key[m] \in Nodes /\ list[key[m]] # "none" /\ ~dead[key[m]] /\ key[m] \notin Inner /\ m \in Maps
    BY <1>0, <1>7, <1>t DEF Wired, NoDangling, KeysOfMaps
  <2>2. list[key[m]] # "zero"
    BY <2>1, <1>2
  <2> QED
    BY <2>1, <2>2, <1>1
<1>8. \A m \in Nodes : l[m] = "none" => ref[m] = Blank /\ key[m] = None
  BY <1>0, <1>1, <1>2 DEF Wired, FreeIsBlank
<1>9. \A i \in Inner : l[i] # "none" => \E e \in All : ref[e[1]][e[2]] = i
  <2>1. Inner \subseteq Nodes
    BY Kinds
  <2>2. \A i \in Inner : l[i] # "none" => list[i] # "none"
    BY <2>1, <1>1
  <2> QED
    BY <2>2, <1>0 DEF Wired, InnerOwned, Target
<1>10. Counts(count, ref, All)
  BY <1>0 DEF InCycles
<1>11. Heap(count, l, ref, key)
  BY <1>t, <1>3, <1>6, <1>7, <1>8, <1>9, <1>10 DEF Heap
<1>12. Heap(count, list, ref, key)'
  <2>1. Heap(count', list', ref', key')
    BY <1>1, <1>4, <1>11
  <2> QED
    BY <2>1 DEF Heap, Counts, Refs, All
<1>13. Tidy'
  BY <1>1, <1>3, <1>5, <1>12, <1>t DEF Tidy
<1> QED
  BY <1>13, TidyGood, PTL

-----------------------------------------------------------------------------
(* The invariant.                                                          *)

LEMMA InitGood == Init => IInv
<1> SUFFICES ASSUME Init PROVE Tidy
  BY TidyGood
<1>1. Counts(count, ref, All)
  <2>1. ASSUME NEW x \in Nodes
        PROVE  Cardinality(Refs(ref, All, x)) = 0
    <3>1. \A e \in All : ref[e[1]][e[2]] # x
      BY Kinds DEF Init, Blank, All, Edges
    <3> QED
      BY <3>1, CountZero
  <2> QED
    BY <2>1 DEF Counts, Init
<1>2. \A e \in All : ref[e[1]][e[2]] = None
  BY DEF Init, Blank, All, Edges
<1>3. \A n \in Nodes : n \in Owners
  BY DEF Owners
<1>4. Heap(count, list, ref, key)
  <2>1. Inner \subseteq Nodes
    BY Kinds
  <2>2. ref \in [Owners -> [Slots -> Nodes \cup {None}]]
    BY DEF Init, Blank
  <2> QED
    BY <1>1, <1>2, <1>3, <2>1, <2>2 DEF Heap, Init
<1> QED
  BY <1>4 DEF Tidy, Init

LEMMA Unmoved == IInv /\ UNCHANGED vars => IInv'
<1> SUFFICES ASSUME IInv, UNCHANGED vars PROVE IInv'
  OBVIOUS
<1>1. Wired'
  <2>1. TypeOK'
    BY DEF vars, IInv, Wired, TypeOK
  <2> QED
    BY <2>1, WiredKept DEF vars, IInv
<1>2. InRun => InRun'
  BY DEF vars, InRun, Counts, Refs, NoneDead, All
<1>3. InDecref => InDecref'
  BY DEF vars, InDecref, Counts, Refs, NoneDead, Open, All
<1>4. InScan => InScan'
  BY DEF vars, InScan, Counts, Refs, NoneDead, Open, All
<1>5. InRestore => InRestore'
  <2>1. Isolated({"tmp"}) => Isolated({"tmp"})'
    BY DEF vars, Isolated, Target, All
  <2>2. On("tmp")' = On("tmp")
    BY DEF vars, On
  <2>3. Counts(count, ref, All \ Open(On("tmp") \ seen)) =>
           Counts(count, ref, All \ Open(On("tmp") \ seen))'
    BY <2>2 DEF vars, Counts, Refs, Open, All
  <2> QED
    BY <2>1, <2>3 DEF vars, InRestore, NoneDead
<1>6. InCycles => InCycles'
  <2>1. Isolated({"tmp", "zero"}) => Isolated({"tmp", "zero"})'
    BY DEF vars, Isolated, Target, All
  <2>2. Counts(count, ref, All) => Counts(count, ref, All)'
    BY DEF vars, Counts, Refs, All
  <2> QED
    BY <2>1, <2>2 DEF vars, InCycles
<1> QED
  BY <1>1, <1>2, <1>3, <1>4, <1>5, <1>6 DEF vars, IInv, Phases

LEMMA Inductive == IInv /\ [Next]_vars => IInv'
<1> SUFFICES ASSUME IInv, [Next]_vars PROVE IInv'
  OBVIOUS
<1>1. CASE Script
  BY <1>1, ScriptStep
<1>2. CASE StartGC
  BY <1>2, StartGCStep
<1>3. CASE Decref
  BY <1>3, DecrefStep
<1>4. CASE EndDecref
  BY <1>4, EndDecrefStep
<1>5. CASE EndScan
  BY <1>5, EndScanStep
<1>6. CASE EndRestore
  BY <1>6, EndRestoreStep
<1>7. CASE EndGC
  BY <1>7, EndGCStep
<1>8. CASE \E n \in Nodes : Drain(n) \/ Scan(n) \/ Restore(n) \/ FreeCycle(n)
  BY <1>8, DrainStep, ScanStep, RestoreStep, FreeCycleStep
<1>9. CASE UNCHANGED vars
  BY <1>9, Unmoved
<1> QED
  BY <1>1, <1>2, <1>3, <1>4, <1>5, <1>6, <1>7, <1>8, <1>9 DEF Next, Collection

LEMMA Invariant == Spec => []IInv
  BY InitGood, Inductive, PTL DEF Spec

LEMMA GarbageFollows == IInv => OnlyGarbage
<1> SUFFICES ASSUME IInv, NEW n \in Reachable \ {Stack}
             PROVE  /\ ~dead[n]
                    /\ pc \in {"run", "drain", "restore", "cycles"} => list[n] = "gc"
  BY DEF OnlyGarbage
<1>0. Wired /\ TypeOK
  BY DEF IInv, Wired
<1>1. n \in Nodes
  BY DEF Reachable, ReachableFrom, Owners
<1>2. ASSUME pc \in {"run", "drain", "restore", "cycles"}
      PROVE  list[n] = "gc"
  <2> PICK S : S = {Stack} \cup On("gc")
    OBVIOUS
  \* What is on another list is not referred to from outside of it.
  <2>1. ASSUME NEW e \in All, Target(e) \in Nodes, list[Target(e)] \in {"tmp", "zero"}
        PROVE  e[1] \in Nodes /\ list[e[1]] \in {"tmp", "zero"}
    <3>1. CASE pc \in {"run", "drain"}
      <4> PICK x : x = Target(e)
        OBVIOUS
      <4>1. InRun
        BY <3>1 DEF IInv, Phases
      <4>2. count[x] = 0 /\ count[x] = Cardinality(Refs(ref, All, x))
        BY <4>1, <2>1 DEF InRun, Counts
      <4>3. Cardinality(Refs(ref, All, x)) = 0 /\ All \in SUBSET All
        BY <4>2
      <4>4. \A d \in All : ref[d[1]][d[2]] # x
        BY ONLY <4>3, CountZero
      <4> QED
        BY <4>4 DEF Target
    <3>2. CASE pc = "restore"
      BY <3>2, <2>1 DEF IInv, Phases, InRestore, Isolated
    <3>3. CASE pc = "cycles"
      BY <3>3, <2>1 DEF IInv, Phases, InCycles, Isolated
    <3> QED
      BY <1>2, <3>1, <3>2, <3>3
  <2>2. ASSUME NEW e \in Edges(S)
        PROVE  Target(e) \in S \cup {None}
    <3>1. e \in All /\ e[1] \in S /\ e[1] \in Owners /\ e[2] \in Slots
      BY DEF Edges, All, Owners, On
    <3>2. ~(e[1] \in Nodes /\ list[e[1]] \in {"tmp", "zero"})
      BY <3>1, Kinds DEF On
    <3>3. Target(e) \in Nodes \cup {None}
      BY <3>1, <1>0 DEF TypeOK, Target
    <3>4. Target(e) \in Nodes => list[Target(e)] = "gc"
      <4>1. Target(e) \in Nodes => list[Target(e)] # "none" /\ list[Target(e)] \notin {"tmp", "zero"}
        BY <3>1, <3>2, <2>1, <1>0, Kinds DEF Wired, NoDangling, All
      <4> QED
        BY <4>1, <1>0 DEF TypeOK
    <3> QED
      BY <3>3, <3>4 DEF On
  <2>3. S \in SUBSET Owners /\ {Stack} \subseteq S /\ Closed(S)
    BY <2>2 DEF Closed, Owners, On
  <2>4. n \in S
    BY <2>3 DEF Reachable, ReachableFrom
  <2> QED
    BY <2>4 DEF On
<1>3. ~dead[n]
  <2>1. CASE pc = "cycles"
    BY <2>1, <1>1, <1>2 DEF IInv, Phases, InCycles
  <2>2. CASE pc # "cycles"
    BY <2>2, <1>0, <1>1 DEF IInv, Phases, TypeOK, InRun, InDecref, InScan, InRestore, NoneDead
  <2> QED
    BY <2>1, <2>2
<1> QED
  BY <1>2, <1>3

-----------------------------------------------------------------------------
(* What a collection leaves.                                               *)

Reached == Reachable \cup spared

\* Untold references lead to what is spared, and nothing leads out of that.
UntoldSpared ==
    /\ Closed(spared)
    /\ \A e \in Untold : Target(e) \in spared \cup {None}

\* What the passes put back on gc_obj_list is reached, and the records of the
\* keys that go have values that are spared.
Kept ==
    /\ pc \in {"decref", "scan", "restore"} => UntoldSpared
    /\ pc \in {"scan", "restore", "cycles"} => On("gc") \subseteq Reached
    /\ pc = "cycles" =>
          /\ Closed(spared)
          /\ \A m \in Maps : key[m] # None /\ list[key[m]] # "gc" =>
                Target(<<m, Value>>) \in spared \cup {None}

LEMMA ReachableClosed ==
    ASSUME TypeOK, NEW from \in SUBSET Owners
    PROVE  from \subseteq ReachableFrom(from) /\ Closed(ReachableFrom(from))
<1> DEFINE X == ReachableFrom(from)
<1>1. from \subseteq X
  BY DEF ReachableFrom
<1>2. ASSUME NEW e \in Edges(X), Target(e) # None
      PROVE  Target(e) \in X
  <2>1. e[1] \in X /\ e[1] \in Owners /\ e[2] \in Slots /\ e = <<e[1], e[2]>>
    BY DEF Edges, ReachableFrom
  <2>2. Target(e) \in Owners
    BY <1>2, <2>1 DEF TypeOK, Target, Owners
  <2>3. ASSUME NEW S \in SUBSET Owners, from \subseteq S, Closed(S)
        PROVE  Target(e) \in S
    <3>1. e[1] \in S
      BY <2>1, <2>3 DEF ReachableFrom
    <3>2. e \in Edges(S)
      BY <2>1, <3>1 DEF Edges
    <3> QED
      BY <1>2, <2>3, <3>2 DEF Closed
  <2> QED
    BY <2>2, <2>3 DEF ReachableFrom
<1>3. Closed(X)
  BY <1>2 DEF Closed
<1> QED
  BY <1>1, <1>3

LEMMA StackReaches == TypeOK => Stack \in Reachable /\ Closed(Reachable)
  BY ReachableClosed DEF Reachable, Owners

LEMMA ReachedClosed ==
    ASSUME TypeOK, Closed(spared), NEW e \in All, e[1] \in Reached
    PROVE  Target(e) \in Reached \cup {None}
<1>1. e = <<e[1], e[2]>> /\ e[2] \in Slots
  BY DEF All, Edges
<1>2. CASE e[1] \in Reachable
  BY <1>1, <1>2, StackReaches DEF Closed, Edges, Reached
<1>3. CASE e[1] \in spared
  BY <1>1, <1>3 DEF Closed, Edges, Reached
<1> QED
  BY <1>2, <1>3 DEF Reached

\* The passes that leave the references alone.
LEMMA ReachedKept ==
    ASSUME UNCHANGED <<ref, key, spared>>,
           \A x \in Nodes : list'[x] = "none" <=> list[x] = "none"
    PROVE  /\ Reachable' = Reachable
           /\ Reached' = Reached
           /\ Closed(spared) => Closed(spared)'
           /\ UntoldSpared => UntoldSpared'
<1>1. \A e : Target(e)' = Target(e)
  BY DEF Target
<1>2. \A S : Closed(S)' <=> Closed(S)
  BY <1>1 DEF Closed, Edges
<1>3. Reachable' = Reachable
  BY <1>2 DEF Reachable, ReachableFrom, Owners
<1>4. Closed(spared) => Closed(spared)'
  BY <1>1 DEF Closed, Edges
<1>5. Untold' = Untold
  <2>1. Used' = Used
    BY DEF Used, On
  <2> QED
    BY <1>3, <2>1 DEF Untold
<1> QED
  BY <1>1, <1>3, <1>4, <1>5 DEF UntoldSpared, Reached

LEMMA StartGCKept ==
    ASSUME IInv, StartGC
    PROVE  Kept'
<1>0. TypeOK
  BY DEF IInv, Wired
<1> PICK from : from = {Target(e) : e \in Untold} \ {None}
  OBVIOUS
<1>1. from \in SUBSET Owners
  <2>1. Untold \subseteq Edges(Nodes)
    BY Kinds DEF Untold, Edges, Used
  <2>2. \A e \in Edges(Nodes) : Target(e) \in Nodes \cup {None}
    BY <1>0 DEF TypeOK, Edges, Target, Owners
  <2> QED
    BY <2>1, <2>2 DEF Owners
<1>2. spared' = ReachableFrom(from) /\ pc' = "decref" /\ UNCHANGED <<list, ref, key>>
  BY DEF StartGC
<1> PICK S : S = spared'
  OBVIOUS
<1>3. Closed(S) /\ \A e \in Untold : Target(e) \in S \cup {None}
  <2>1. from \subseteq S /\ Closed(S)
    BY <1>0, <1>1, <1>2, ReachableClosed
  <2> QED
    BY <2>1
<1>4. \A e : Target(e)' = Target(e)
  BY <1>2 DEF Target
<1>5. \A T : Closed(T)' <=> Closed(T)
  BY <1>4 DEF Closed, Edges
<1>6. Reachable' = Reachable
  BY <1>5 DEF Reachable, ReachableFrom, Owners
<1>7. Untold' = Untold
  <2>1. Used' = Used
    BY <1>2 DEF Used, On
  <2> QED
    BY <1>2, <1>6, <2>1 DEF Untold
<1>8. UntoldSpared'
  <2>1. Closed(spared)'
    BY <1>3, <1>4 DEF Closed, Edges
  <2> QED
    BY <1>3, <1>4, <1>7, <2>1 DEF UntoldSpared
<1> QED
  BY <1>2, <1>8 DEF Kept

LEMMA DecrefKept ==
    ASSUME IInv, IInv', Kept, Decref
    PROVE  Kept'
<1>1. pc = "decref" /\ pc' = "decref" /\ UNCHANGED <<ref, key, spared>>
      /\ list' = [x \in Nodes |-> IF ToTmp(next, x) THEN "tmp" ELSE list[x]]
  BY DEF Decref
<1>2. \A x \in Nodes : list'[x] = "none" <=> list[x] = "none"
  BY <1>1 DEF ToTmp
<1> QED
  BY <1>1, <1>2, ReachedKept DEF Kept

LEMMA EndDecrefKept ==
    ASSUME IInv, Kept, EndDecref
    PROVE  Kept'
<1>0. Wired /\ TypeOK /\ InDecref /\ UntoldSpared /\ next = None
  BY DEF EndDecref, IInv, Phases, Wired, Kept
<1>1. pc' = "scan" /\ UNCHANGED <<list, ref, key, spared>>
  BY DEF EndDecref
<1>2. ASSUME NEW n \in Nodes, list[n] = "gc"
      PROVE  n \in Reached
  <2>1. n \in seen /\ count[n] # 0
    BY <1>0, <1>2 DEF InDecref
  <2> PICK A : A = All \ Open(seen)
    OBVIOUS
  <2>2. count[n] = Cardinality(Refs(ref, A, n)) /\ A \in SUBSET All
    BY <1>0 DEF InDecref, Counts
  <2>3. Cardinality(Refs(ref, A, n)) # 0
    BY <2>1, <2>2
  <2>4. \E e \in A : ref[e[1]][e[2]] = n
    BY ONLY <2>2, <2>3, CountZero
  <2> PICK e \in A : Target(e) = n
    BY <2>4 DEF Target
  <2>5. e = <<e[1], e[2]>> /\ e[1] \in Owners /\ e[2] \in Slots /\ e \in All /\ e \notin Open(seen)
    BY DEF All, Edges
  <2>6. n # None
    BY Kinds
  <2>7. CASE e[1] = Stack
    <3>1. e[1] \in Reached
      BY <2>7, <1>0, StackReaches DEF Reached
    <3> QED
      BY <3>1, <2>5, <2>6, <1>0, ReachedClosed DEF UntoldSpared
  <2>8. CASE e[1] \in Nodes
    <3>1. ref[e[1]] # Blank
      BY <2>5, <2>6 DEF Blank, Target
    <3>2. list[e[1]] # "none"
      BY <2>8, <3>1, <1>0 DEF Wired, FreeIsBlank
    <3>3. e[1] \in seen
      BY <2>8, <3>2, <1>0 DEF InDecref
    <3>4. e[2] = Hidden
      BY <2>5, <3>3 DEF Open
    <3>5. e \in Untold
      BY <2>5, <2>8, <3>2, <3>4 DEF Untold, Used, On
    <3> QED
      BY <2>6, <3>5, <1>0 DEF UntoldSpared, Reached
  <2> QED
    BY <2>5, <2>7, <2>8 DEF Owners
<1>3. On("gc")' = On("gc") /\ Reached' = Reached /\ UntoldSpared'
  BY <1>0, <1>1, ReachedKept DEF On
<1> QED
  BY <1>1, <1>2, <1>3 DEF Kept, On

LEMMA ScanKept ==
    ASSUME IInv, Kept, NEW p \in Nodes, Scan(p)
    PROVE  Kept'
<1>0. Wired /\ TypeOK /\ UntoldSpared /\ On("gc") \subseteq Reached /\ pc = "scan"
  BY DEF Scan, IInv, Wired, Kept
<1>1. /\ p \in On("gc") /\ UNCHANGED <<pc, ref, key, spared>>
      /\ \A x \in Nodes : list'[x] = IF Back(p, x) THEN "gc" ELSE list[x]
  BY DEF Scan
<1>2. ASSUME NEW x \in Nodes, Back(p, x)
      PROVE  x \in Reached /\ list[x] # "none"
  <2> PICK es : es = Shown(p)
    OBVIOUS
  <2>1. es \in SUBSET All /\ \A e \in es : e[1] = p
    BY DEF Shown, All, Edges, Owners
  <2>2. Cardinality(Refs(ref, es, x)) > 0
    BY <1>2, ToRefs DEF Back
  <2>3. Cardinality(Refs(ref, es, x)) # 0
    BY <2>2
  <2>4. \E e \in es : ref[e[1]][e[2]] = x
    BY ONLY <2>1, <2>3, CountZero
  <2> PICK e \in es : Target(e) = x
    BY <2>4 DEF Target
  <2>5. e[1] \in Reached /\ e \in All /\ x # None
    BY <2>1, <1>0, <1>1, Kinds
  <2>6. x \in Reached
    BY <2>5, <1>0, ReachedClosed DEF UntoldSpared
  <2>7. list[x] # "none"
    BY <2>5, <1>0 DEF Wired, NoDangling, All
  <2> QED
    BY <2>6, <2>7
<1>3. \A x \in Nodes : list'[x] = "none" <=> list[x] = "none"
  BY <1>1, <1>2
<1>4. Reached' = Reached /\ UntoldSpared'
  BY <1>0, <1>1, <1>3, ReachedKept
<1>5. On("gc")' \subseteq Reached
  BY <1>0, <1>1, <1>2 DEF On
<1> QED
  BY <1>0, <1>1, <1>4, <1>5 DEF Kept

LEMMA ListsKept ==
    ASSUME Kept, EndScan \/ \E p \in Nodes : Restore(p)
    PROVE  Kept'
<1>1. /\ pc \in {"scan", "restore"} /\ pc' = "restore"
      /\ UNCHANGED <<list, ref, key, spared>>
  BY DEF EndScan, Restore
<1>2. Reached' = Reached /\ (UntoldSpared => UntoldSpared') /\ On("gc")' = On("gc")
  BY <1>1, ReachedKept DEF On
<1> QED
  BY <1>1, <1>2 DEF Kept

LEMMA EndRestoreKept ==
    ASSUME IInv, Kept, EndRestore
    PROVE  Kept'
<1>0. UntoldSpared /\ On("gc") \subseteq Reached /\ pc = "restore" /\ OnlyGarbage /\ TypeOK
  BY GarbageFollows DEF EndRestore, Kept, IInv, Wired
<1>1. pc' = "cycles" /\ UNCHANGED <<list, ref, key, spared>>
  BY DEF EndRestore
<1>2. ASSUME NEW m \in Maps, key[m] # None, list[key[m]] # "gc"
      PROVE  Target(<<m, Value>>) \in spared \cup {None}
  <2>1. key[m] \in Nodes
    BY <1>0, <1>2, Kinds DEF TypeOK
  <2>2. key[m] \notin Reachable
    BY <1>0, <1>2, <2>1, Kinds DEF OnlyGarbage
  <2>3. <<m, Value>> \in Untold
    BY <2>2 DEF Untold
  <2> QED
    BY <2>3, <1>0 DEF UntoldSpared
<1>3. Reached' = Reached /\ On("gc")' = On("gc") /\ Closed(spared)'
  BY <1>0, <1>1, ReachedKept DEF On, UntoldSpared
<1> QED
  BY <1>0, <1>1, <1>2, <1>3 DEF Kept, Target

\* What was reached through a reference that went is spared.
LEMMA FreeCycleKept ==
    ASSUME IInv, IInv', Kept, NEW p \in Nodes, FreeCycle(p)
    PROVE  Kept'
<1>0. /\ Wired /\ TypeOK /\ InCycles /\ pc = "cycles" /\ On("gc") \subseteq Reached /\ Closed(spared)
      /\ \A m \in Maps : key[m] # None /\ list[key[m]] # "gc" =>
            Target(<<m, Value>>) \in spared \cup {None}
  BY DEF FreeCycle, IInv, Phases, Wired, Kept
<1>1. list[p] = "tmp" /\ pc' = "cycles" /\ UNCHANGED <<mark, next, seen, spared>>
  BY <1>0 DEF FreeCycle
<1>t. list \in [Nodes -> {"none", "gc", "tmp", "zero"}] /\ TypeOK' /\ OnlyGarbage'
  <2>1. OnlyGarbage'
    BY GarbageFollows, PTL
  <2> QED
    BY <1>0, <2>1 DEF TypeOK, IInv, Wired
<1>2. CASE p \in Inner
  <2>1. list' = [list EXCEPT ![p] = "zero"] /\ UNCHANGED <<ref, key>>
    BY <1>2 DEF FreeCycle
  <2>2. \A x \in Nodes : list'[x] = IF x = p THEN "zero" ELSE list[x]
    BY <2>1, <1>t
  <2>3. On("gc")' = On("gc") /\ \A x \in Nodes : list'[x] = "none" <=> list[x] = "none"
    BY <2>2, <1>1 DEF On
  <2>4. Reached' = Reached /\ Closed(spared)'
    BY <2>1, <2>3, <1>0, <1>1, ReachedKept
  <2>5. ASSUME NEW m \in Maps, key[m] # None, list'[key[m]] # "gc"
        PROVE  Target(<<m, Value>>) \in spared \cup {None}
    <3>1. key[m] \in Nodes /\ list[key[m]] # "gc"
      BY <2>2, <2>5, <1>0, <1>1, Kinds DEF TypeOK
    <3> QED
      BY <3>1, <2>5, <1>0
  <2> QED
    BY <2>1, <2>3, <2>4, <2>5, <1>0, <1>1 DEF Kept, Target
<1>3. CASE p \notin Inner
  <2>0. FreeNode(p)
    BY <1>3 DEF FreeCycle
  <2>1. /\ \A e \in All : Target(e)' \in {Target(e), None}
        /\ \A e \in All : \/ Target(e)' = Target(e)
                          \/ e \in WeakRecords(p)
                          \/ e[1] \in Nodes /\ list'[e[1]] # "gc"
        /\ \A x \in Nodes \ {p} :
              \/ list'[x] = list[x]
              \/ x \in Inner /\ list'[x] = "none"
              \/ pc # "cycles" /\ x \notin Inner /\ list'[x] = "zero" /\ count'[x] = 0
        /\ \A m \in Nodes : key'[m] \in {key[m], None}
        /\ list'[p] = IF pc = "cycles" /\ count'[p] # 0 THEN "zero" ELSE "none"
    <3>1. Wired /\ Counts(count, ref, All) /\ list[p] # "none" /\ (pc # "cycles" => count[p] = 0)
          /\ (\A x \in Nodes : dead[x] => x \notin Inner) /\ pc' \in {"run", "drain", "cycles"}
      BY <1>0, <1>1 DEF InCycles
    <3> QED
      BY <3>1, <2>0, <1>1, <1>3, FreeGood
  <2>2. /\ \A x \in Nodes : list'[x] = "gc" => list[x] = "gc"
        /\ \A x \in Nodes : x \notin Inner /\ list'[x] # "gc" => list[x] # "gc"
    BY <2>1, <1>0, <1>1
  <2> PICK X : X = Reached'
    OBVIOUS
  <2>3. ASSUME NEW e \in Edges(X)
        PROVE  Target(e) \in X \cup {None}
    <3>1. e[1] \in X /\ e[2] \in Slots /\ e = <<e[1], e[2]>>
      BY DEF Edges
    <3>2. X = Reachable' \cup spared /\ Reachable' \subseteq Owners /\ spared \subseteq Nodes
      BY <1>0, <1>1 DEF Reached, Reachable, ReachableFrom, Owners, TypeOK
    <3>3. e \in All
      BY <3>1, <3>2 DEF All, Edges, Owners
    <3>4. CASE e[1] \in spared
      BY <3>1, <3>2, <3>4, <1>0 DEF Closed, Edges
    <3>5. CASE e[1] \in Reachable' /\ Target(e)' = Target(e)
      <4>1. Closed(Reachable)'
        BY <1>t, StackReaches, PTL
      <4>2. Target(e)' \in Reachable' \cup {None}
        BY <4>1, <3>1, <3>5 DEF Closed, Edges
      <4> QED
        BY <4>2, <3>2, <3>5
    <3>6. CASE e \in WeakRecords(p)
      <4> PICK m \in Maps : key[m] = p /\ e = <<m, Value>>
        BY <3>6 DEF WeakRecords
      <4>1. Target(e) \in spared \cup {None}
        BY <1>0, <1>1, Kinds
      <4> QED
        BY <4>1, <3>2
    <3>7. ~(e[1] \in Reachable' /\ e[1] \in Nodes /\ list'[e[1]] # "gc")
      BY <1>1, <1>t, Kinds DEF OnlyGarbage
    <3> QED
      BY <3>1, <3>2, <3>3, <3>4, <3>5, <3>6, <3>7, <2>1
  <2>4. Reachable \subseteq X
    <3>1. Stack \in X
      <4>1. (Stack \in Reachable)'
        BY <1>t, StackReaches, PTL
      <4> QED
        BY <4>1 DEF Reached
    <3>2. X \in SUBSET Owners
      BY <1>0, <1>1 DEF Reached, Reachable, ReachableFrom, Owners, TypeOK
    <3>3. Closed(X)
      BY <2>3 DEF Closed
    <3> QED
      BY <3>1, <3>2, <3>3, ReachableIn
  <2>5. On("gc")' \subseteq X
    BY <2>2, <2>4, <1>0, <1>1 DEF On, Reached
  <2>6. Closed(spared)'
    <3>1. ASSUME NEW e \in Edges(spared)
          PROVE  Target(e)' \in spared \cup {None}
      <4>1. e \in All
        BY <1>0 DEF TypeOK, All, Edges, Owners
      <4> QED
        BY <4>1, <2>1, <1>0 DEF Closed
    <3> QED
      BY <3>1, <1>1 DEF Closed, Edges
  <2>7. ASSUME NEW m \in Maps, key'[m] # None, list'[key'[m]] # "gc"
        PROVE  Target(<<m, Value>>)' \in spared \cup {None}
    <3>1. m \in Nodes /\ <<m, Value>> \in All
      BY Kinds DEF All, Edges, Owners
    <3>2. key'[m] = key[m]
      BY <3>1, <2>1, <2>7
    <3>3. key[m] \in Nodes /\ key[m] \notin Inner
      BY <3>1, <3>2, <2>7, <1>0 DEF TypeOK, Wired, KeysOfMaps
    <3>4. list[key[m]] # "gc"
      BY <3>2, <3>3, <2>2, <2>7
    <3>5. Target(<<m, Value>>) \in spared \cup {None}
      BY <3>2, <3>4, <2>7, <1>0
    <3> QED
      BY <3>1, <3>5, <2>1
  <2> QED
    BY <2>5, <2>6, <2>7, <1>1 DEF Kept
<1> QED
  BY <1>2, <1>3

LEMMA KeptInductive == IInv /\ IInv' /\ Kept /\ [Next]_vars => Kept'
<1> SUFFICES ASSUME IInv, IInv', Kept, [Next]_vars PROVE Kept'
  OBVIOUS
<1>1. CASE Script
  <2>1. \A r : Assigned(r) => pc' \in {"run", "drain"}
    BY DEF Assigned
  <2>2. \A n, s, t : Assign(n, s, t) => pc' \in {"run", "drain"}
    BY <2>1 DEF Assign
  <2>3. \A n, s, t : Store(n, s, t) \/ Clear(n, s) => pc' \in {"run", "drain"}
    BY <2>2 DEF Store, Clear
  <2>4. \A n, s : New(n, s) => pc' \in {"run", "drain"}
    BY <2>1 DEF New
  <2>5. \A m, k, v : MapSet(m, k, v) \/ MapDelete(m) => pc' \in {"run", "drain"}
    BY <2>1 DEF MapSet, MapDelete
  <2>6. pc' \in {"run", "drain"}
    BY <1>1, <2>3, <2>4, <2>5 DEF Script
  <2> QED
    BY <2>6 DEF Kept
<1>2. CASE StartGC
  BY <1>2, StartGCKept
<1>3. CASE Decref
  BY <1>3, DecrefKept
<1>4. CASE EndDecref
  BY <1>4, EndDecrefKept
<1>5. CASE EndScan
  BY <1>5, ListsKept
<1>6. CASE EndRestore
  BY <1>6, EndRestoreKept
<1>7. CASE EndGC
  BY <1>7 DEF EndGC, Kept
<1>8. ASSUME NEW n \in Nodes, Drain(n) PROVE Kept'
  BY <1>8 DEF Drain, Kept
<1>9. ASSUME NEW n \in Nodes, Scan(n) \/ Restore(n) \/ FreeCycle(n) PROVE Kept'
  BY <1>9, ScanKept, ListsKept, FreeCycleKept
<1>10. CASE UNCHANGED vars
  <2>1. UNCHANGED <<pc, list, ref, key, spared>>
    BY <1>10 DEF vars
  <2>2. Reached' = Reached /\ (UntoldSpared => UntoldSpared') /\ (Closed(spared) => Closed(spared)')
    BY <2>1, ReachedKept
  <2> QED
    BY <2>1, <2>2 DEF Kept, On, Target
<1> QED
  BY <1>1, <1>2, <1>3, <1>4, <1>5, <1>6, <1>7, <1>8, <1>9, <1>10 DEF Next, Collection

-----------------------------------------------------------------------------
(* The theorems.                                                           *)

\* A reference or a weak key never leads to memory that free_object,
\* free_zero_refcount or gc_free_cycles has freed, with any number of nodes
\* and whatever the order of their lists.
THEOREM NothingDangles == Spec => []NoDangling
<1>1. IInv => NoDangling
  BY DEF IInv, Wired
<1> QED
  BY <1>1, Invariant, PTL

\* JS_RunGC and JS_FreeValue free nothing that the script can reach.
THEOREM LiveKept == Spec => []OnlyGarbage
  BY GarbageFollows, Invariant, PTL

\* After gc_decref has taken the counts apart and gc_scan has put them
\* together again, every count is exact and every mark is reset; no count goes
\* below zero in between.
THEOREM CountsRestored == Spec => []CountsExact
<1>1. IInv => CountsExact
  <2> SUFFICES ASSUME IInv PROVE CountsExact
    OBVIOUS
  <2>1. TypeOK
    BY DEF IInv, Wired
  <2>2. ASSUME pc = "run", NEW n \in Used
        PROVE  list[n] = "gc" /\ mark[n] = 0 /\ count[n] = To(Edges(Owners), n)
    <3>1. InRun /\ n \in Nodes /\ list[n] # "none"
      BY <2>2 DEF IInv, Phases, Used, On
    <3>2. list[n] = "gc" /\ mark[n] = 0
      BY <2>1, <2>2, <3>1 DEF InRun, TypeOK
    <3>3. count[n] = Cardinality(Refs(ref, All, n))
      BY <3>1 DEF InRun, Counts
    <3> QED
      BY <3>2, <3>3, ToRefs DEF All
  <2> QED
    BY <2>1, <2>2 DEF CountsExact
<1> QED
  BY <1>1, Invariant, PTL

\* The assertions of gc_decref, gc_scan and gc_free_cycles hold.
THEOREM AssertionsHold == Spec => []AssertsHold
<1>1. IInv => AssertsHold
  <2> SUFFICES ASSUME IInv PROVE AssertsHold
    OBVIOUS
  <2>0. TypeOK
    BY DEF IInv, Wired
  <2>1. ASSUME pc = "decref", next # None
        PROVE  mark[next] = 0 /\ list[next] = "gc"
    <3>1. InDecref
      BY <2>1 DEF IInv, Phases
    <3>2. next \in Nodes /\ mark[next] \in 0 .. 1
      BY <2>0, <2>1 DEF TypeOK
    <3>3. next \notin seen /\ list[next] = "gc" /\ (mark[next] = 1 <=> next \in seen)
      BY <2>1, <3>1, <3>2 DEF InDecref
    <3> QED
      BY <3>2, <3>3
  <2>2. ASSUME pc = "scan", NEW n \in On("gc")
        PROVE  count[n] > 0
    <3>1. n \in Nodes /\ list[n] = "gc" /\ count[n] \in Nat
      BY <2>0 DEF On, TypeOK
    <3>2. count[n] # 0
      BY <2>2, <3>1 DEF IInv, Phases, InScan
    <3> QED
      BY <3>1, <3>2
  <2>3. pc = "cycles" /\ On("tmp") = {} => On("zero") \cap Inner = {}
    BY ZeroAlone DEF On
  <2> QED
    BY <2>1, <2>2, <2>3 DEF AssertsHold
<1> QED
  BY <1>1, Invariant, PTL

\* A collection frees every node but those that the script can reach and those
\* that hidden references, or the values of weak records whose key went, led to
\* when it began.
THEOREM GarbageCollected == Spec => CollectsAll
<1>1. Init => Kept
  BY DEF Init, Kept
<1>2. ASSUME IInv, Kept, [Next]_vars, pc = "cycles", pc' = "run"
      PROVE  {n \in Nodes : list'[n] # "none"} \subseteq Reachable \cup spared
  <2>1. EndGC
    BY <1>2 DEF Next, Script, StartGC, Collection, Decref, EndDecref, EndScan, EndRestore,
                Drain, Scan, Restore, FreeCycle, vars
  <2>2. TypeOK /\ On("gc") \subseteq Reached
    BY <1>2 DEF IInv, Wired, Kept
  <2>3. ASSUME NEW n \in Nodes, list'[n] # "none"
        PROVE  list[n] = "gc"
    <3>1. list[n] # "tmp" /\ list[n] # "zero" /\ list[n] # "none"
      BY <2>1, <2>3 DEF EndGC, On
    <3> QED
      BY <3>1, <2>2 DEF TypeOK
  <2> QED
    BY <2>2, <2>3 DEF On, Reached
<1>3. IInv /\ Kept /\ [Next]_vars =>
         [pc = "cycles" /\ pc' = "run" =>
             {n \in Nodes : list'[n] # "none"} \subseteq Reachable \cup spared]_vars
  BY <1>2
<1> QED
  BY <1>1, <1>3, KeptInductive, Invariant, PTL DEF Spec, CollectsAll
=============================================================================
