--------------------------- MODULE OwnershipProofs ---------------------------
(***************************************************************************)
(* Proofs about who frees what between C++ and scripts: Values.tla, the     *)
(* script values that C++ holds, for any number of Value objects,          *)
(* properties and script values, and calls nested to any depth; and        *)
(* JsClass.tla, the C++ objects that script objects hold, for every set of *)
(* script objects and handles.                                             *)
(***************************************************************************)
EXTENDS Values, JsClass, FiniteSetTheorems, SequenceTheorems, TLAPS

-----------------------------------------------------------------------------
(* Values                                                                  *)

\* Numbers for what is the case or not.
Is(v, x) == IF v = x THEN 1 ELSE 0
Has(S, x) == IF x \in S THEN 1 ELSE 0
Kept(e, v) == IF e.retained /\ e.val = v THEN 1 ELSE 0

\* The places that hold v, and the running calls that do.
In(S, f, v) == {y \in S : f[y] = v}
Keep(c, v) == {i \in 1 .. Len(c) : c[i].retained /\ c[i].val = v}

\* What is held is a function, counted as often as it is held.  Arguments are
\* counted and never held: those are the ones that leak.
Exact(v) ==
    /\ kind[v] \in Functions => refs[v] = Holders(v) /\ refs[v] > 0
    /\ kind[v] \in {"unused", "freed"} => refs[v] = 0
    /\ kind[v] \notin Functions => Holders(v) = 0

Counted == TypeOK /\ \A v \in Vals : Exact(v)

-----------------------------------------------------------------------------
(* Counting.                                                               *)

\* Two sets that agree but for x.
LEMMA CountPlace ==
    ASSUME NEW S, NEW T, IsFiniteSet(S), IsFiniteSet(T), NEW x,
           S \ {x} = T \ {x}
    PROVE  /\ Cardinality(S) \in Nat /\ Cardinality(T) \in Nat
           /\ Cardinality(S) + Has(T, x) = Cardinality(T) + Has(S, x)
<1>1. Cardinality(S) \in Nat /\ Cardinality(T) \in Nat
  BY FS_CardinalityType
<1>2. Cardinality(S \ {x}) = IF x \in S THEN Cardinality(S) - 1 ELSE Cardinality(S)
  BY FS_RemoveElement
<1>3. Cardinality(T \ {x}) = IF x \in T THEN Cardinality(T) - 1 ELSE Cardinality(T)
  BY FS_RemoveElement
<1> QED
  BY <1>1, <1>2, <1>3 DEF Has

\* What a place holds changes from f[s] to g[s].
LEMMA PlaceChange ==
    ASSUME NEW S, IsFiniteSet(S), NEW f, NEW g, NEW s \in S, NEW v,
           \A y \in S \ {s} : g[y] = f[y]
    PROVE  /\ Cardinality(In(S, f, v)) \in Nat /\ Cardinality(In(S, g, v)) \in Nat
           /\ Cardinality(In(S, g, v)) + Is(v, f[s]) = Cardinality(In(S, f, v)) + Is(v, g[s])
<1>1. IsFiniteSet(In(S, f, v)) /\ IsFiniteSet(In(S, g, v))
  BY FS_Subset DEF In
<1>2. In(S, g, v) \ {s} = In(S, f, v) \ {s}
  BY DEF In
<1>3. /\ Cardinality(In(S, g, v)) \in Nat /\ Cardinality(In(S, f, v)) \in Nat
      /\ Cardinality(In(S, g, v)) + Has(In(S, f, v), s) = Cardinality(In(S, f, v)) + Has(In(S, g, v), s)
  BY <1>1, <1>2, CountPlace
<1>4. Has(In(S, f, v), s) = Is(v, f[s]) /\ Has(In(S, g, v), s) = Is(v, g[s])
  BY DEF In, Has, Is
<1> QED
  BY <1>3, <1>4

\* The calls that keep v are finitely many.
LEMMA KeepFinite ==
    ASSUME NEW c \in Seq(Call), NEW v
    PROVE  IsFiniteSet(Keep(c, v)) /\ Cardinality(Keep(c, v)) \in Nat
<1>1. Len(c) \in Nat
  OBVIOUS
<1>2. IsFiniteSet(1 .. Len(c))
  BY <1>1, FS_Interval
<1>3. IsFiniteSet(Keep(c, v))
  BY <1>2, FS_Subset DEF Keep
<1> QED
  BY <1>3, FS_CardinalityType

\* A call begins.
LEMMA KeepMore ==
    ASSUME NEW c \in Seq(Call), NEW e \in Call, NEW v
    PROVE  Cardinality(Keep(Append(c, e), v)) = Cardinality(Keep(c, v)) + Kept(e, v)
<1> DEFINE d == Append(c, e)
           n == Len(c) + 1
<1>1. /\ d \in Seq(Call) /\ Len(c) \in Nat /\ Len(d) = n
      /\ \A i \in 1 .. Len(c) : d[i] = c[i]
      /\ d[n] = e
  BY AppendProperties, LenProperties
<1> HIDE DEF d
<1>2. Keep(d, v) = Keep(c, v) \cup (IF e.retained /\ e.val = v THEN {n} ELSE {})
  BY <1>1 DEF Keep
<1>3. n \notin Keep(c, v)
  BY <1>1 DEF Keep
<1>4. IsFiniteSet(Keep(c, v)) /\ Cardinality(Keep(c, v)) \in Nat
  BY KeepFinite
<1>5. CASE e.retained /\ e.val = v
  <2>1. Keep(d, v) = Keep(c, v) \cup {n}
    BY <1>2, <1>5
  <2>2. Cardinality(Keep(d, v)) = Cardinality(Keep(c, v)) + 1
    BY <2>1, <1>3, <1>4, FS_AddElement
  <2> QED
    BY <2>2, <1>5 DEF Kept, d
<1>6. CASE ~(e.retained /\ e.val = v)
  <2>1. Keep(d, v) = Keep(c, v)
    BY <1>2, <1>6
  <2> QED
    BY <2>1, <1>4, <1>6 DEF Kept, d
<1> QED
  BY <1>5, <1>6

\* The innermost call ends.
LEMMA KeepLess ==
    ASSUME NEW c \in Seq(Call), c # <<>>, NEW v
    PROVE  LET d == SubSeq(c, 1, Len(c) - 1)
               e == c[Len(c)]
           IN  /\ d \in Seq(Call) /\ e \in Call
               /\ Cardinality(Keep(c, v)) = Cardinality(Keep(d, v)) + Kept(e, v)
<1> DEFINE d == SubSeq(c, 1, Len(c) - 1)
           e == c[Len(c)]
<1>1. Len(c) \in Nat /\ Len(c) # 0
  BY EmptySeq, LenProperties
<1>2. e \in Call /\ d \in Seq(Call)
  BY <1>1, ElementOfSeq
<1>3. Len(d) = Len(c) - 1 /\ \A i \in 1 .. Len(d) : d[i] = c[i]
  <2>1. Len(c) - 1 \in Int /\ \A i \in 1 .. Len(c) - 1 : c[i] \in Call
    BY <1>1, ElementOfSeq
  <2>2. /\ Len(d) = IF 1 <= Len(c) - 1 THEN (Len(c) - 1) - 1 + 1 ELSE 0
        /\ \A i \in 1 .. (Len(c) - 1) - 1 + 1 : d[i] = c[1 + i - 1]
    BY <2>1, SubSeqProperties
  <2> DEFINE n == Len(c) - 1
  <2>n. n \in Nat
    BY <1>1
  <2>3. Len(d) = n
    <3> HIDE DEF d, n
    <3>1. Len(d) = IF 1 <= n THEN n - 1 + 1 ELSE 0
      BY <2>2 DEF n
    <3> QED
      BY <3>1, <2>n
  <2>4. \A i \in 1 .. Len(d) : i \in 1 .. (Len(c) - 1) - 1 + 1 /\ 1 + i - 1 = i
    BY <2>3, <1>1
  <2> HIDE DEF d
  <2> QED
    BY <2>2, <2>3, <2>4
<1>4. c = Append(d, e)
  BY <1>1, <1>2, <1>3, AppendProperties, SeqEqual
<1> HIDE DEF d, e
<1>5. Cardinality(Keep(c, v)) = Cardinality(Keep(d, v)) + Kept(e, v)
  BY <1>2, <1>4, KeepMore
<1> QED
  BY <1>2, <1>5 DEF d, e

\* What Holders adds up.
LEMMA HoldersFinite ==
    ASSUME TypeOK, NEW v
    PROVE  /\ Holders(v) = Cardinality(In(Slots, slot, v)) + Cardinality(In(Names, prop, v))
                             + Cardinality(Keep(calls, v))
           /\ Cardinality(In(Slots, slot, v)) \in Nat /\ Cardinality(In(Names, prop, v)) \in Nat
           /\ Cardinality(Keep(calls, v)) \in Nat /\ Holders(v) \in Nat
           /\ Holders(v) = 0 => In(Slots, slot, v) = {} /\ In(Names, prop, v) = {} /\ Keep(calls, v) = {}
<1>1. IsFiniteSet(In(Slots, slot, v)) /\ IsFiniteSet(In(Names, prop, v))
  BY FiniteAssumption, FS_Subset DEF In
<1>2. IsFiniteSet(Keep(calls, v))
  BY KeepFinite DEF TypeOK
<1>3. Holders(v) = Cardinality(In(Slots, slot, v)) + Cardinality(In(Names, prop, v))
                     + Cardinality(Keep(calls, v))
  BY DEF Holders, In, Keep
<1>4. /\ Cardinality(In(Slots, slot, v)) \in Nat /\ Cardinality(In(Names, prop, v)) \in Nat
      /\ Cardinality(Keep(calls, v)) \in Nat
  BY <1>1, <1>2, FS_CardinalityType
<1>5. /\ Cardinality(In(Slots, slot, v)) = 0 <=> In(Slots, slot, v) = {}
      /\ Cardinality(In(Names, prop, v)) = 0 <=> In(Names, prop, v) = {}
      /\ Cardinality(Keep(calls, v)) = 0 <=> Keep(calls, v) = {}
  BY <1>1, <1>2, FS_EmptySet
<1>6. \A x, y, z \in Nat : x + y + z \in Nat /\ (x + y + z = 0 => x = 0 /\ y = 0 /\ z = 0)
  OBVIOUS
<1>7. /\ Holders(v) \in Nat
      /\ Holders(v) = 0 => /\ Cardinality(In(Slots, slot, v)) = 0
                           /\ Cardinality(In(Names, prop, v)) = 0
                           /\ Cardinality(Keep(calls, v)) = 0
  BY <1>3, <1>4, <1>6
<1> QED
  BY <1>3, <1>4, <1>5, <1>7

\* A value in a slot or a property, or of a running method, is a function.
LEMMA HeldIsFunction ==
    ASSUME Counted
    PROVE  /\ \A s \in Slots : slot[s] # None => slot[s] \in Vals /\ kind[slot[s]] \in Functions
           /\ \A n \in Names : prop[n] # None => prop[n] \in Vals /\ kind[prop[n]] \in Functions
           /\ \A i \in 1 .. Len(calls) : calls[i].retained =>
                  calls[i].val \in Vals /\ kind[calls[i].val] \in Functions
<1>0. TypeOK
  BY DEF Counted
<1>1. ASSUME NEW v \in Vals, kind[v] \notin Functions
      PROVE  In(Slots, slot, v) = {} /\ In(Names, prop, v) = {} /\ Keep(calls, v) = {}
  BY <1>0, <1>1, HoldersFinite DEF Counted, Exact
<1>2. \A s \in Slots : slot[s] # None => slot[s] \in Vals /\ s \in In(Slots, slot, slot[s])
  BY <1>0 DEF TypeOK, In
<1>3. \A n \in Names : prop[n] # None => prop[n] \in Vals /\ n \in In(Names, prop, prop[n])
  BY <1>0 DEF TypeOK, In
<1>4. \A i \in 1 .. Len(calls) : calls[i] \in Call
  BY <1>0, ElementOfSeq DEF TypeOK
<1>5. \A i \in 1 .. Len(calls) : calls[i].retained => calls[i].val \in Vals /\ i \in Keep(calls, calls[i].val)
  BY <1>4 DEF Call, Keep
<1> QED
  BY <1>1, <1>2, <1>3, <1>5

-----------------------------------------------------------------------------
(* Steps.                                                                  *)

\* The holders after a step.
LEMMA HoldersNext ==
    ASSUME NEW f, NEW g, NEW h, slot' = f, prop' = g, calls' = h, NEW v
    PROVE  Holders(v)' = Cardinality(In(Slots, f, v)) + Cardinality(In(Names, g, v))
                           + Cardinality(Keep(h, v))
BY DEF Holders, In, Keep

\* Count() after a reference to `up` was made and one to `down` went.
LEMMA CountGood ==
    ASSUME Counted, NEW up \in Vals \cup {None}, NEW down \in Vals \cup {None}, Count(up, down),
           up # None => kind[up] \in Functions, down # None => kind[down] \in Functions,
           slot' \in [Slots -> Vals \cup {None}], prop' \in [Names -> Vals \cup {None}],
           calls' \in Seq(Call),
           \A v \in Vals : Holders(v)' \in Nat /\ Holders(v)' = Holders(v) + Is(v, up) - Is(v, down)
    PROVE  Counted'
<1>0. TypeOK /\ \A v \in Vals : Exact(v)
  BY DEF Counted
<1>1. \A v \in Vals : /\ refs[v] \in Nat /\ refs'[v] = refs[v] + Is(v, up) - Is(v, down)
                      /\ kind'[v] = IF v = down /\ refs'[v] <= 0 THEN "freed" ELSE kind[v]
  BY <1>0 DEF Count, TypeOK, Is
<1>2. ASSUME NEW v \in Vals
      PROVE  Exact(v)' /\ refs'[v] \in Nat /\ kind'[v] \in Kinds
  <2>0. Holders(v)' \in Nat /\ Holders(v)' = Holders(v) + Is(v, up) - Is(v, down) /\ Holders(v) \in Nat
    BY <1>0, HoldersFinite
  <2>1. kind[v] \in Kinds /\ Functions \cap {"unused", "argument", "freed"} = {}
        /\ Kinds = Functions \cup {"unused", "argument", "freed"}
    BY <1>0 DEF TypeOK, Kinds, Functions
  <2>2. CASE kind[v] \in Functions
    <3>1. refs[v] = Holders(v) /\ refs'[v] = Holders(v)'
      BY <1>0, <1>1, <2>0, <2>2 DEF Exact
    <3>2. refs'[v] > 0 => kind'[v] \in Functions
      BY <1>1, <2>2, <3>1, <2>0
    <3>3. refs'[v] = 0 => kind'[v] = "freed"
      <4>1. refs[v] > 0
        BY <1>0, <2>2 DEF Exact
      <4>2. refs'[v] = 0 => v = down
        BY <4>1, <1>1 DEF Is
      <4> QED
        BY <4>2, <1>1, <3>1, <2>0
    <3> QED
      BY <2>0, <2>1, <3>1, <3>2, <3>3 DEF Exact
  <2>3. CASE kind[v] \notin Functions
    <3>1. v # up /\ v # down
      BY <2>3, NoneAssumption
    <3>2. Is(v, up) = 0 /\ Is(v, down) = 0
      BY <3>1 DEF Is
    <3>3. refs'[v] = refs[v] /\ kind'[v] = kind[v] /\ Holders(v)' = Holders(v)
      BY <3>1, <3>2, <1>1, <2>0
    <3> QED
      BY <3>3, <2>1, <2>3, <1>0, <1>1 DEF Exact
  <2> QED
    BY <2>2, <2>3
<1>3. refs' \in [Vals -> Nat] /\ kind' \in [Vals -> Kinds]
  BY <1>2 DEF Count
<1> QED
  BY <1>2, <1>3 DEF Counted, TypeOK

\* A Value object gets x for its value; properties and calls stay.
LEMMA SlotStep ==
    ASSUME TypeOK, NEW s \in Slots, NEW x \in Vals \cup {None},
           slot' = [slot EXCEPT ![s] = x], UNCHANGED <<prop, calls>>, NEW v \in Vals
    PROVE  /\ slot' \in [Slots -> Vals \cup {None}]
           /\ Holders(v)' \in Nat
           /\ Holders(v)' = Holders(v) + Is(v, x) - Is(v, slot[s])
<1> PICK f, g, h, i : f = slot /\ g = [slot EXCEPT ![s] = x] /\ h = prop /\ i = calls
  OBVIOUS
<1>1. f \in [Slots -> Vals \cup {None}] /\ g \in [Slots -> Vals \cup {None}] /\ g[s] = x
  BY DEF TypeOK
<1>2. s \in Slots /\ IsFiniteSet(Slots) /\ \A y \in Slots \ {s} : g[y] = f[y]
  BY FiniteAssumption DEF TypeOK
<1>3. /\ Cardinality(In(Slots, f, v)) \in Nat /\ Cardinality(In(Slots, g, v)) \in Nat
      /\ Cardinality(In(Slots, g, v)) + Is(v, f[s]) = Cardinality(In(Slots, f, v)) + Is(v, x)
  BY ONLY <1>1, <1>2, PlaceChange
<1>4. Is(v, x) \in Nat /\ Is(v, f[s]) \in Nat
  BY DEF Is
<1>5. /\ Holders(v) = Cardinality(In(Slots, f, v)) + Cardinality(In(Names, h, v)) + Cardinality(Keep(i, v))
      /\ Cardinality(In(Names, h, v)) \in Nat /\ Cardinality(Keep(i, v)) \in Nat
  BY HoldersFinite
<1>6. Holders(v)' = Cardinality(In(Slots, g, v)) + Cardinality(In(Names, h, v)) + Cardinality(Keep(i, v))
  <2>1. slot' = g /\ prop' = h /\ calls' = i
    OBVIOUS
  <2> QED
    BY ONLY <2>1, HoldersNext
<1>7. Holders(v)' \in Nat /\ Holders(v)' = Holders(v) + Is(v, x) - Is(v, f[s])
  BY ONLY <1>3, <1>4, <1>5, <1>6
<1> QED
  BY <1>1, <1>7

\* A property gets x for its value; Value objects and calls stay.
LEMMA NameStep ==
    ASSUME TypeOK, NEW n \in Names, NEW x \in Vals \cup {None},
           prop' = [prop EXCEPT ![n] = x], UNCHANGED <<slot, calls>>, NEW v \in Vals
    PROVE  /\ prop' \in [Names -> Vals \cup {None}]
           /\ Holders(v)' \in Nat
           /\ Holders(v)' = Holders(v) + Is(v, x) - Is(v, prop[n])
<1> PICK f, g, h, i : f = prop /\ g = [prop EXCEPT ![n] = x] /\ h = slot /\ i = calls
  OBVIOUS
<1>1. f \in [Names -> Vals \cup {None}] /\ g \in [Names -> Vals \cup {None}] /\ g[n] = x
  BY DEF TypeOK
<1>2. n \in Names /\ IsFiniteSet(Names) /\ \A y \in Names \ {n} : g[y] = f[y]
  BY FiniteAssumption DEF TypeOK
<1>3. /\ Cardinality(In(Names, f, v)) \in Nat /\ Cardinality(In(Names, g, v)) \in Nat
      /\ Cardinality(In(Names, g, v)) + Is(v, f[n]) = Cardinality(In(Names, f, v)) + Is(v, x)
  BY ONLY <1>1, <1>2, PlaceChange
<1>4. Is(v, x) \in Nat /\ Is(v, f[n]) \in Nat
  BY DEF Is
<1>5. /\ Holders(v) = Cardinality(In(Slots, h, v)) + Cardinality(In(Names, f, v)) + Cardinality(Keep(i, v))
      /\ Cardinality(In(Slots, h, v)) \in Nat /\ Cardinality(Keep(i, v)) \in Nat
  BY HoldersFinite
<1>6. Holders(v)' = Cardinality(In(Slots, h, v)) + Cardinality(In(Names, g, v)) + Cardinality(Keep(i, v))
  <2>1. slot' = h /\ prop' = g /\ calls' = i
    OBVIOUS
  <2> QED
    BY ONLY <2>1, HoldersNext
<1>7. Holders(v)' \in Nat /\ Holders(v)' = Holders(v) + Is(v, x) - Is(v, f[n])
  BY ONLY <1>3, <1>4, <1>5, <1>6
<1> QED
  BY <1>1, <1>7

\* CreateClosure and Eval: a new function with one holder.
LEMMA AllocateGood ==
    ASSUME Counted, NEW s \in Slots, slot[s] = None, NEW v \in Fresh, NEW k \in Functions,
           Allocate(v, k), slot' = [slot EXCEPT ![s] = v], UNCHANGED <<prop, calls>>
    PROVE  Counted'
<1>0. TypeOK /\ v \in Vals /\ kind[v] = "unused" /\ k \in Kinds /\ v # None
  BY NoneAssumption DEF Counted, Fresh, Kinds
<1>1. ASSUME NEW w \in Vals
      PROVE  Exact(w)'
  <2>1. Holders(w)' = Holders(w) + Is(w, v) - Is(w, None) /\ Holders(w) \in Nat
    BY <1>0, SlotStep, HoldersFinite
  <2>2. CASE w = v
    <3>1. Holders(w) = 0
      BY <1>0, <2>2 DEF Counted, Exact, Functions
    <3>2. Holders(w)' = 1
      BY <3>1, <2>1, <2>2, <1>0 DEF Is
    <3>3. refs'[w] = 1 /\ kind'[w] = k
      BY <1>0, <2>2 DEF Allocate, TypeOK
    <3> QED
      BY <3>2, <3>3 DEF Exact, Functions
  <2>3. CASE w # v
    <3>1. Holders(w)' = Holders(w)
      BY <2>1, <2>3, NoneAssumption DEF Is
    <3>2. refs'[w] = refs[w] /\ kind'[w] = kind[w]
      BY <1>0, <2>3 DEF Allocate, TypeOK
    <3> QED
      BY <3>1, <3>2 DEF Exact, Counted
  <2> QED
    BY <2>2, <2>3
<1>2. TypeOK'
  BY <1>0 DEF TypeOK, Allocate
<1> QED
  BY <1>1, <1>2 DEF Counted

\* One Value object is moved into another.
LEMMA MoveStep ==
    ASSUME TypeOK, NEW s \in Slots, NEW from \in Slots, s # from,
           slot' = [slot EXCEPT ![s] = slot[from], ![from] = None],
           UNCHANGED <<prop, calls>>, NEW v \in Vals
    PROVE  /\ slot' \in [Slots -> Vals \cup {None}]
           /\ Holders(v)' \in Nat
           /\ Holders(v)' = Holders(v) - Is(v, slot[s])
<1> PICK f, m, g, h, i : /\ f = slot /\ m = [slot EXCEPT ![from] = None]
                         /\ g = [slot EXCEPT ![s] = slot[from], ![from] = None]
                         /\ h = prop /\ i = calls
  OBVIOUS
<1>1. /\ f \in [Slots -> Vals \cup {None}] /\ g \in [Slots -> Vals \cup {None}]
      /\ g[s] = f[from] /\ m[s] = f[s] /\ m[from] = None
  BY DEF TypeOK
<1>2. /\ s \in Slots /\ from \in Slots /\ IsFiniteSet(Slots)
      /\ \A y \in Slots \ {from} : m[y] = f[y]
      /\ \A y \in Slots \ {s} : g[y] = m[y]
  BY FiniteAssumption DEF TypeOK
<1>3. /\ Cardinality(In(Slots, f, v)) \in Nat /\ Cardinality(In(Slots, m, v)) \in Nat
      /\ Cardinality(In(Slots, m, v)) + Is(v, f[from]) = Cardinality(In(Slots, f, v)) + Is(v, None)
  BY ONLY <1>1, <1>2, PlaceChange
<1>4. /\ Cardinality(In(Slots, g, v)) \in Nat
      /\ Cardinality(In(Slots, g, v)) + Is(v, f[s]) = Cardinality(In(Slots, m, v)) + Is(v, f[from])
  BY ONLY <1>1, <1>2, PlaceChange
<1>5. Is(v, f[s]) \in Nat /\ Is(v, f[from]) \in Nat /\ Is(v, None) = 0
  BY NoneAssumption DEF Is
<1>6. /\ Holders(v) = Cardinality(In(Slots, f, v)) + Cardinality(In(Names, h, v)) + Cardinality(Keep(i, v))
      /\ Cardinality(In(Names, h, v)) \in Nat /\ Cardinality(Keep(i, v)) \in Nat
  BY HoldersFinite
<1>7. Holders(v)' = Cardinality(In(Slots, g, v)) + Cardinality(In(Names, h, v)) + Cardinality(Keep(i, v))
  <2>1. slot' = g /\ prop' = h /\ calls' = i
    OBVIOUS
  <2> QED
    BY ONLY <2>1, HoldersNext
<1>8. Holders(v)' \in Nat /\ Holders(v)' = Holders(v) - Is(v, f[s])
  BY ONLY <1>3, <1>4, <1>5, <1>6, <1>7
<1> QED
  BY <1>1, <1>8

\* A Value object gives its value to a property.
LEMMA GiveStep ==
    ASSUME TypeOK, NEW s \in Slots, NEW n \in Names,
           slot' = [slot EXCEPT ![s] = None], prop' = [prop EXCEPT ![n] = slot[s]],
           UNCHANGED calls, NEW v \in Vals
    PROVE  /\ slot' \in [Slots -> Vals \cup {None}] /\ prop' \in [Names -> Vals \cup {None}]
           /\ Holders(v)' \in Nat
           /\ Holders(v)' = Holders(v) - Is(v, prop[n])
<1> PICK f, g, h, j, i : /\ f = slot /\ g = [slot EXCEPT ![s] = None]
                         /\ h = prop /\ j = [prop EXCEPT ![n] = slot[s]]
                         /\ i = calls
  OBVIOUS
<1>1. /\ f \in [Slots -> Vals \cup {None}] /\ g \in [Slots -> Vals \cup {None}] /\ g[s] = None
      /\ h \in [Names -> Vals \cup {None}] /\ j \in [Names -> Vals \cup {None}] /\ j[n] = f[s]
  BY DEF TypeOK
<1>2. /\ s \in Slots /\ IsFiniteSet(Slots) /\ \A y \in Slots \ {s} : g[y] = f[y]
      /\ n \in Names /\ IsFiniteSet(Names) /\ \A y \in Names \ {n} : j[y] = h[y]
  BY FiniteAssumption DEF TypeOK
<1>3. /\ Cardinality(In(Slots, f, v)) \in Nat /\ Cardinality(In(Slots, g, v)) \in Nat
      /\ Cardinality(In(Slots, g, v)) + Is(v, f[s]) = Cardinality(In(Slots, f, v)) + Is(v, None)
  BY ONLY <1>1, <1>2, PlaceChange
<1>4. /\ Cardinality(In(Names, h, v)) \in Nat /\ Cardinality(In(Names, j, v)) \in Nat
      /\ Cardinality(In(Names, j, v)) + Is(v, h[n]) = Cardinality(In(Names, h, v)) + Is(v, f[s])
  BY ONLY <1>1, <1>2, PlaceChange
<1>5. Is(v, f[s]) \in Nat /\ Is(v, h[n]) \in Nat /\ Is(v, None) = 0
  BY NoneAssumption DEF Is
<1>6. /\ Holders(v) = Cardinality(In(Slots, f, v)) + Cardinality(In(Names, h, v)) + Cardinality(Keep(i, v))
      /\ Cardinality(Keep(i, v)) \in Nat
  BY HoldersFinite
<1>7. Holders(v)' = Cardinality(In(Slots, g, v)) + Cardinality(In(Names, j, v)) + Cardinality(Keep(i, v))
  <2>1. slot' = g /\ prop' = j /\ calls' = i
    OBVIOUS
  <2> QED
    BY ONLY <2>1, HoldersNext
<1>8. Holders(v)' \in Nat /\ Holders(v)' = Holders(v) - Is(v, h[n])
  BY ONLY <1>3, <1>4, <1>5, <1>6, <1>7
<1> QED
  BY <1>1, <1>8

\* A call begins: whatever it keeps gets one more holder.
LEMMA BeginStep ==
    ASSUME TypeOK, NEW e \in Call, calls' = Append(calls, e), UNCHANGED <<slot, prop>>, NEW v \in Vals
    PROVE  calls' \in Seq(Call) /\ Holders(v)' = Holders(v) + Kept(e, v)
<1> PICK f, h, i, j : f = slot /\ h = prop /\ i = calls /\ j = Append(calls, e)
  OBVIOUS
<1>1. i \in Seq(Call) /\ j \in Seq(Call) /\ e \in Call
  BY AppendProperties DEF TypeOK
<1>2. Cardinality(Keep(j, v)) = Cardinality(Keep(i, v)) + Kept(e, v)
  BY <1>1, KeepMore
<1>3. /\ Holders(v) = Cardinality(In(Slots, f, v)) + Cardinality(In(Names, h, v)) + Cardinality(Keep(i, v))
      /\ Cardinality(In(Slots, f, v)) \in Nat /\ Cardinality(In(Names, h, v)) \in Nat
      /\ Cardinality(Keep(i, v)) \in Nat
  BY HoldersFinite
<1>4. Holders(v)' = Cardinality(In(Slots, f, v)) + Cardinality(In(Names, h, v)) + Cardinality(Keep(j, v))
  <2>1. slot' = f /\ prop' = h /\ calls' = j
    OBVIOUS
  <2> QED
    BY ONLY <2>1, HoldersNext
<1>5. Kept(e, v) \in Nat
  BY DEF Kept
<1>6. Holders(v)' = Holders(v) + Kept(e, v)
  BY ONLY <1>2, <1>3, <1>4, <1>5
<1> QED
  BY <1>1, <1>6

\* The innermost call ends and its result becomes the value of a Value object.
LEMMA EndStep ==
    ASSUME TypeOK, NEW s \in Slots, NEW x \in Vals \cup {None}, slot[s] = None,
           slot' = [slot EXCEPT ![s] = x], UNCHANGED prop,
           calls # <<>>, calls' = SubSeq(calls, 1, Len(calls) - 1), NEW v \in Vals
    PROVE  /\ slot' \in [Slots -> Vals \cup {None}] /\ calls' \in Seq(Call)
           /\ calls[Len(calls)] \in Call
           /\ Holders(v)' \in Nat
           /\ Holders(v)' = Holders(v) + Is(v, x) - Kept(calls[Len(calls)], v)
<1> PICK f, g, h, i, j, e : /\ f = slot /\ g = [slot EXCEPT ![s] = x] /\ h = prop /\ i = calls
                            /\ j = SubSeq(calls, 1, Len(calls) - 1) /\ e = calls[Len(calls)]
  OBVIOUS
<1>1. f \in [Slots -> Vals \cup {None}] /\ g \in [Slots -> Vals \cup {None}] /\ g[s] = x /\ f[s] = None
  BY DEF TypeOK
<1>2. s \in Slots /\ IsFiniteSet(Slots) /\ \A y \in Slots \ {s} : g[y] = f[y]
  BY FiniteAssumption DEF TypeOK
<1>3. /\ Cardinality(In(Slots, f, v)) \in Nat /\ Cardinality(In(Slots, g, v)) \in Nat
      /\ Cardinality(In(Slots, g, v)) + Is(v, None) = Cardinality(In(Slots, f, v)) + Is(v, x)
  BY ONLY <1>1, <1>2, PlaceChange
<1>4. j \in Seq(Call) /\ e \in Call /\ Cardinality(Keep(i, v)) = Cardinality(Keep(j, v)) + Kept(e, v)
  BY KeepLess DEF TypeOK
<1>5. Is(v, x) \in Nat /\ Is(v, None) = 0 /\ Kept(e, v) \in Nat
  BY NoneAssumption DEF Is, Kept
<1>6. /\ Holders(v) = Cardinality(In(Slots, f, v)) + Cardinality(In(Names, h, v)) + Cardinality(Keep(i, v))
      /\ Cardinality(In(Names, h, v)) \in Nat /\ Cardinality(Keep(i, v)) \in Nat
  BY HoldersFinite
<1>7. Holders(v)' = Cardinality(In(Slots, g, v)) + Cardinality(In(Names, h, v)) + Cardinality(Keep(j, v))
  <2>1. slot' = g /\ prop' = h /\ calls' = j
    OBVIOUS
  <2> QED
    BY ONLY <2>1, HoldersNext
<1>8. Cardinality(Keep(j, v)) \in Nat
  BY <1>4, KeepFinite
<1>9. Holders(v)' \in Nat /\ Holders(v)' = Holders(v) + Is(v, x) - Kept(e, v)
  <2>1. Cardinality(Keep(i, v)) = Cardinality(Keep(j, v)) + Kept(e, v)
    BY <1>4
  <2>2. Cardinality(In(Slots, g, v)) = Cardinality(In(Slots, f, v)) + Is(v, x)
    BY ONLY <1>3, <1>5
  <2> QED
    BY ONLY <2>1, <2>2, <1>3, <1>5, <1>6, <1>7, <1>8
<1> QED
  BY <1>1, <1>4, <1>9

\* Arguments are new values that nobody holds; r and k are the counts and
\* kinds without them.
LEMMA ArgumentGood ==
    ASSUME TypeOK, NEW r \in [Vals -> Nat], NEW k \in [Vals -> Kinds], NewArgument(r, k),
           slot' \in [Slots -> Vals \cup {None}], prop' \in [Names -> Vals \cup {None}],
           calls' \in Seq(Call),
           \A v \in Vals :
              /\ k[v] \in Functions => r[v] = Holders(v)' /\ r[v] > 0
              /\ k[v] \in {"unused", "freed"} => r[v] = 0
              /\ k[v] \notin Functions => Holders(v)' = 0
    PROVE  Counted'
<1>1. CASE refs' = r /\ kind' = k
  BY <1>1 DEF Counted, TypeOK, Exact
<1>2. CASE \E a \in {v \in Fresh : k[v] = "unused"} :
             refs' = [r EXCEPT ![a] = 1] /\ kind' = [k EXCEPT ![a] = "argument"]
  <2> PICK a \in {v \in Fresh : k[v] = "unused"} :
             refs' = [r EXCEPT ![a] = 1] /\ kind' = [k EXCEPT ![a] = "argument"]
    BY <1>2
  <2>0. a \in Vals /\ k[a] = "unused" /\ "argument" \in Kinds /\ "argument" \notin Functions
        /\ "unused" \notin Functions /\ "argument" \notin {"unused", "freed"}
    BY DEF Fresh, Kinds, Functions
  <2>1. \A v \in Vals : Exact(v)'
    BY <2>0 DEF Exact
  <2>2. refs' \in [Vals -> Nat] /\ kind' \in [Vals -> Kinds]
    BY <2>0
  <2> QED
    BY <2>1, <2>2 DEF Counted, TypeOK
<1> QED
  BY <1>1, <1>2 DEF NewArgument

LEMMA NoneCounted ==
    ASSUME NEW v \in Vals
    PROVE  Is(v, None) = 0
BY NoneAssumption DEF Is

LEMMA GetPropertyGood ==
    ASSUME Counted, NEW s \in Slots, NEW n \in Names, GetProperty(s, n)
    PROVE  Counted'
<1>0. TypeOK /\ prop[n] \in Vals \cup {None} /\ (prop[n] # None => kind[prop[n]] \in Functions)
  BY HeldIsFunction DEF Counted, TypeOK
<1>1. /\ slot[s] = None /\ slot' = [slot EXCEPT ![s] = prop[n]] /\ Count(prop[n], None)
      /\ UNCHANGED <<prop, calls>>
  BY DEF GetProperty
<1>2. \A v \in Vals : Holders(v)' \in Nat /\ Holders(v)' = Holders(v) + Is(v, prop[n]) - Is(v, None)
  BY <1>0, <1>1, SlotStep
<1>3. /\ slot' \in [Slots -> Vals \cup {None}] /\ prop' \in [Names -> Vals \cup {None}]
      /\ calls' \in Seq(Call)
  BY <1>0, <1>1 DEF TypeOK
<1> QED
  BY <1>0, <1>1, <1>2, <1>3, CountGood

LEMMA MoveAssignGood ==
    ASSUME Counted, NEW s \in Slots, NEW from \in Slots, MoveAssign(s, from)
    PROVE  Counted'
<1>0. TypeOK /\ slot[s] \in Vals \cup {None} /\ (slot[s] # None => kind[slot[s]] \in Functions)
  BY HeldIsFunction DEF Counted, TypeOK
<1>1. /\ s # from /\ slot' = [slot EXCEPT ![s] = slot[from], ![from] = None]
      /\ Count(None, slot[s]) /\ UNCHANGED <<prop, calls>>
  BY DEF MoveAssign
<1>2. \A v \in Vals : Holders(v)' \in Nat /\ Holders(v)' = Holders(v) + Is(v, None) - Is(v, slot[s])
  <2> TAKE v \in Vals
  <2>1. Holders(v)' \in Nat /\ Holders(v)' = Holders(v) - Is(v, slot[s])
    BY <1>0, <1>1, MoveStep
  <2>2. Holders(v) \in Nat
    BY <1>0, HoldersFinite
  <2>3. Is(v, None) = 0 /\ Is(v, slot[s]) \in Nat
    BY NoneCounted DEF Is
  <2> QED
    BY ONLY <2>1, <2>2, <2>3
<1>3. /\ slot' \in [Slots -> Vals \cup {None}] /\ prop' \in [Names -> Vals \cup {None}]
      /\ calls' \in Seq(Call)
  BY <1>0, <1>1 DEF TypeOK
<1> QED
  BY <1>0, <1>1, <1>2, <1>3, CountGood

\* An empty Value takes the value over: nothing is counted.
LEMMA MoveConstructGood ==
    ASSUME Counted, NEW s \in Slots, NEW from \in Slots, MoveConstruct(s, from)
    PROVE  Counted'
<1>0. TypeOK
  BY DEF Counted
<1>1. Count(None, slot[s])
  BY <1>0, NoneAssumption DEF MoveConstruct, Count, TypeOK
<1>2. MoveAssign(s, from)
  BY <1>1 DEF MoveConstruct, MoveAssign
<1> QED
  BY <1>2, MoveAssignGood

LEMMA DestroyGood ==
    ASSUME Counted, NEW s \in Slots, Destroy(s)
    PROVE  Counted'
<1>0. TypeOK /\ slot[s] \in Vals \cup {None} /\ (slot[s] # None => kind[slot[s]] \in Functions)
  BY HeldIsFunction DEF Counted, TypeOK
<1>1. slot' = [slot EXCEPT ![s] = None] /\ Count(None, slot[s]) /\ UNCHANGED <<prop, calls>>
  BY DEF Destroy
<1>2. \A v \in Vals : Holders(v)' \in Nat /\ Holders(v)' = Holders(v) + Is(v, None) - Is(v, slot[s])
  BY <1>0, <1>1, SlotStep
<1>3. /\ slot' \in [Slots -> Vals \cup {None}] /\ prop' \in [Names -> Vals \cup {None}]
      /\ calls' \in Seq(Call)
  BY <1>0, <1>1 DEF TypeOK
<1> QED
  BY <1>0, <1>1, <1>2, <1>3, CountGood

LEMMA SetPropertyStrGood ==
    ASSUME Counted, NEW s \in Slots, NEW n \in Names, SetPropertyStr(n, s)
    PROVE  Counted'
<1>0. /\ TypeOK /\ prop[n] \in Vals \cup {None} /\ (prop[n] # None => kind[prop[n]] \in Functions)
  BY HeldIsFunction DEF Counted, TypeOK
<1>1. slot' = [slot EXCEPT ![s] = None] /\ UNCHANGED calls
  BY DEF SetPropertyStr
<1>2. CASE prop' = [prop EXCEPT ![n] = slot[s]] /\ Count(None, prop[n])
  <2>1. \A v \in Vals : Holders(v)' \in Nat /\ Holders(v)' = Holders(v) + Is(v, None) - Is(v, prop[n])
    <3> TAKE v \in Vals
    <3>1. Holders(v)' \in Nat /\ Holders(v)' = Holders(v) - Is(v, prop[n])
      BY <1>0, <1>1, <1>2, GiveStep
    <3>2. Holders(v) \in Nat
      BY <1>0, HoldersFinite
    <3>3. Is(v, None) = 0 /\ Is(v, prop[n]) \in Nat
      BY NoneCounted DEF Is
    <3> QED
      BY ONLY <3>1, <3>2, <3>3
  <2>2. /\ slot' \in [Slots -> Vals \cup {None}] /\ prop' \in [Names -> Vals \cup {None}]
        /\ calls' \in Seq(Call)
    BY <1>0, <1>1, <1>2 DEF TypeOK
  <2> QED
    BY <1>0, <1>2, <2>1, <2>2, CountGood
<1>3. CASE UNCHANGED prop /\ Count(None, slot[s])
  <2>1. Destroy(s)
    BY <1>1, <1>3 DEF Destroy
  <2> QED
    BY <2>1, DestroyGood
<1> QED
  BY <1>2, <1>3 DEF SetPropertyStr

LEMMA ScriptAssignsGood ==
    ASSUME Counted, NEW n \in Names, ScriptAssigns(n)
    PROVE  Counted'
<1> PICK x \in {prop[m] : m \in Names} \cup {None} :
           prop' = [prop EXCEPT ![n] = x] /\ Count(x, prop[n])
  BY DEF ScriptAssigns
<1>0. /\ TypeOK
      /\ prop[n] \in Vals \cup {None} /\ (prop[n] # None => kind[prop[n]] \in Functions)
      /\ x \in Vals \cup {None} /\ (x # None => kind[x] \in Functions)
  BY HeldIsFunction DEF Counted, TypeOK
<1>1. UNCHANGED <<slot, calls>>
  BY DEF ScriptAssigns
<1>2. \A v \in Vals : Holders(v)' \in Nat /\ Holders(v)' = Holders(v) + Is(v, x) - Is(v, prop[n])
  BY <1>0, <1>1, NameStep
<1>3. /\ slot' \in [Slots -> Vals \cup {None}] /\ prop' \in [Names -> Vals \cup {None}]
      /\ calls' \in Seq(Call)
  BY <1>0, <1>1 DEF TypeOK
<1> QED
  BY <1>0, <1>2, <1>3, CountGood

\* Call counts nothing.
LEMMA BeginCallGood ==
    ASSUME Counted, NEW s \in Slots, BeginCall(s)
    PROVE  Counted'
<1> DEFINE e == [val |-> slot[s], retained |-> FALSE]
<1>0. TypeOK /\ slot[s] \in Vals
  BY HeldIsFunction DEF Counted, BeginCall
<1>1. e \in Call /\ ~e.retained
  BY <1>0 DEF Call
<1>2. calls' = Append(calls, e) /\ UNCHANGED <<slot, prop>> /\ NewArgument(refs, kind)
  BY DEF BeginCall
<1> HIDE DEF e
<1>3. ASSUME NEW v \in Vals
      PROVE  Holders(v)' = Holders(v) /\ calls' \in Seq(Call)
  <2>1. Holders(v)' = Holders(v) + Kept(e, v) /\ calls' \in Seq(Call)
    BY <1>0, <1>1, <1>2, BeginStep
  <2>2. Kept(e, v) = 0 /\ Holders(v) \in Nat
    BY <1>0, <1>1, HoldersFinite DEF Kept
  <2> QED
    BY <2>1, <2>2
<1>4. calls' \in Seq(Call)
  BY <1>0, <1>3
<1>5. /\ refs \in [Vals -> Nat] /\ kind \in [Vals -> Kinds]
      /\ slot' \in [Slots -> Vals \cup {None}] /\ prop' \in [Names -> Vals \cup {None}]
  BY <1>0, <1>2 DEF TypeOK
<1>6. \A v \in Vals :
              /\ kind[v] \in Functions => refs[v] = Holders(v)' /\ refs[v] > 0
              /\ kind[v] \in {"unused", "freed"} => refs[v] = 0
              /\ kind[v] \notin Functions => Holders(v)' = 0
  BY <1>3 DEF Counted, Exact
<1> QED
  BY <1>0, <1>2, <1>4, <1>5, <1>6, ArgumentGood

\* CallMethod counts the method it keeps.
LEMMA BeginCallMethodGood ==
    ASSUME Counted, NEW n \in Names, BeginCallMethod(n)
    PROVE  Counted'
<1> DEFINE e == [val |-> prop[n], retained |-> TRUE]
           r == [refs EXCEPT ![prop[n]] = @ + 1]
<1>0. TypeOK /\ prop[n] \in Vals /\ kind[prop[n]] \in Functions
  BY HeldIsFunction DEF Counted, BeginCallMethod
<1>1. e \in Call /\ e.retained /\ e.val = prop[n]
  BY <1>0 DEF Call
<1>2. calls' = Append(calls, e) /\ UNCHANGED <<slot, prop>> /\ NewArgument(r, kind)
  BY DEF BeginCallMethod
<1>3. r \in [Vals -> Nat] /\ \A v \in Vals : r[v] = refs[v] + Is(v, prop[n]) /\ refs[v] \in Nat
  BY <1>0 DEF TypeOK, Is
<1> HIDE DEF e, r
<1>4. ASSUME NEW v \in Vals
      PROVE  Holders(v)' = Holders(v) + Is(v, prop[n]) /\ calls' \in Seq(Call)
  <2>1. Holders(v)' = Holders(v) + Kept(e, v) /\ calls' \in Seq(Call)
    BY <1>0, <1>1, <1>2, BeginStep
  <2>2. Kept(e, v) = Is(v, prop[n])
    BY <1>1 DEF Kept, Is
  <2> QED
    BY <2>1, <2>2
<1>5. calls' \in Seq(Call)
  BY <1>0, <1>4
<1>6. /\ refs \in [Vals -> Nat] /\ kind \in [Vals -> Kinds]
      /\ slot' \in [Slots -> Vals \cup {None}] /\ prop' \in [Names -> Vals \cup {None}]
  BY <1>0, <1>2 DEF TypeOK
<1>7. ASSUME NEW v \in Vals
      PROVE   /\ kind[v] \in Functions => r[v] = Holders(v)' /\ r[v] > 0
              /\ kind[v] \in {"unused", "freed"} => r[v] = 0
              /\ kind[v] \notin Functions => Holders(v)' = 0
  <2>1. r[v] = refs[v] + Is(v, prop[n]) /\ Holders(v)' = Holders(v) + Is(v, prop[n])
        /\ refs[v] \in Nat /\ Holders(v) \in Nat
    BY <1>0, <1>3, <1>4, HoldersFinite
  <2>2. Exact(v) /\ Is(v, prop[n]) \in Nat /\ "unused" \notin Functions /\ "freed" \notin Functions
    BY DEF Counted, Is, Functions
  <2>3. kind[v] \notin Functions => Is(v, prop[n]) = 0
    BY <1>0 DEF Is
  <2> QED
    BY <2>1, <2>2, <2>3 DEF Exact
<1> QED
  BY <1>0, <1>2, <1>3, <1>5, <1>6, <1>7, ArgumentGood

LEMMA EndCallGood ==
    ASSUME Counted, NEW s \in Slots, EndCall(s)
    PROVE  Counted'
<1> DEFINE e == calls[Len(calls)]
           down == IF e.retained THEN e.val ELSE None
<1> PICK x \in {prop[n] : n \in Names} \cup {None} :
           slot' = [slot EXCEPT ![s] = x] /\ Count(x, down)
  BY DEF EndCall
<1>0. TypeOK /\ x \in Vals \cup {None} /\ (x # None => kind[x] \in Functions)
  BY HeldIsFunction DEF Counted, TypeOK
<1>1. /\ calls # <<>> /\ slot[s] = None /\ UNCHANGED prop
      /\ calls' = SubSeq(calls, 1, Len(calls) - 1)
  BY DEF EndCall
<1>2. ASSUME NEW v \in Vals
      PROVE  /\ Holders(v)' \in Nat /\ Holders(v)' = Holders(v) + Is(v, x) - Kept(e, v)
             /\ slot' \in [Slots -> Vals \cup {None}] /\ calls' \in Seq(Call)
  BY <1>0, <1>1, EndStep
<1>3. Len(calls) \in 1 .. Len(calls) /\ e \in Call
  BY <1>0, <1>1, EmptySeq, LenProperties, ElementOfSeq DEF TypeOK
<1>4. down \in Vals \cup {None} /\ (down # None => kind[down] \in Functions)
  BY <1>3, HeldIsFunction DEF Call
<1>5. \A v \in Vals : Kept(e, v) = Is(v, down)
  BY <1>3, NoneAssumption DEF Kept, Is, Call
<1> HIDE DEF e, down
<1>6. \A v \in Vals : Holders(v)' \in Nat /\ Holders(v)' = Holders(v) + Is(v, x) - Is(v, down)
  BY <1>2, <1>5
<1>7. slot' \in [Slots -> Vals \cup {None}] /\ prop' \in [Names -> Vals \cup {None}]
  BY <1>0, <1>1 DEF TypeOK
<1>8. calls' \in Seq(Call)
  BY <1>0, <1>1, <1>3, <1>2 DEF Call, e
<1> QED
  BY <1>0, <1>4, <1>6, <1>7, <1>8, CountGood

-----------------------------------------------------------------------------

LEMMA CountedInit == Init => Counted
<1> SUFFICES ASSUME Init PROVE Counted
  OBVIOUS
<1>1. TypeOK
  BY DEF Init, TypeOK, Kinds
<1>2. ASSUME NEW v \in Vals PROVE Holders(v) = 0
  <2>1. In(Slots, slot, v) = {} /\ In(Names, prop, v) = {}
    BY NoneAssumption DEF Init, In
  <2>2. Keep(calls, v) = {}
    BY DEF Init, Keep
  <2>3. Holders(v) = Cardinality({}) + Cardinality({}) + Cardinality({})
    BY <1>1, <2>1, <2>2, HoldersFinite
  <2>4. Cardinality({}) = 0
    BY FS_EmptySet
  <2> QED
    BY <2>3, <2>4
<1>3. \A v \in Vals : Exact(v)
  BY <1>2 DEF Init, Exact, Functions
<1> QED
  BY <1>1, <1>3 DEF Counted

LEMMA CountedNext == Counted /\ [Next]_vars => Counted'
<1> SUFFICES ASSUME Counted, [Next]_vars PROVE Counted'
  OBVIOUS
<1>1. ASSUME NEW s \in Slots, CreateClosure(s) PROVE Counted'
  BY <1>1, AllocateGood DEF CreateClosure, Functions
<1>2. ASSUME NEW s \in Slots, Eval(s) PROVE Counted'
  BY <1>2, AllocateGood DEF Eval, Functions
<1>3. ASSUME NEW s \in Slots, Destroy(s) PROVE Counted'
  BY <1>3, DestroyGood
<1>4. ASSUME NEW s \in Slots, BeginCall(s) PROVE Counted'
  BY <1>4, BeginCallGood
<1>5. ASSUME NEW s \in Slots, EndCall(s) PROVE Counted'
  BY <1>5, EndCallGood
<1>6. ASSUME NEW s \in Slots, NEW from \in Slots, MoveConstruct(s, from) \/ MoveAssign(s, from)
      PROVE  Counted'
  BY <1>6, MoveConstructGood, MoveAssignGood
<1>7. ASSUME NEW s \in Slots, NEW n \in Names, GetProperty(s, n) \/ SetPropertyStr(n, s)
      PROVE  Counted'
  BY <1>7, GetPropertyGood, SetPropertyStrGood
<1>8. ASSUME NEW n \in Names, ScriptAssigns(n) \/ BeginCallMethod(n) PROVE Counted'
  BY <1>8, ScriptAssignsGood, BeginCallMethodGood
<1>9. CASE UNCHANGED vars
  BY <1>9 DEF vars, Counted, TypeOK, Exact, Holders
<1> QED
  BY <1>1, <1>2, <1>3, <1>4, <1>5, <1>6, <1>7, <1>8, <1>9 DEF Next

\* However many Value objects there are and however calls nest, QuickJS's count
\* of a function is the number of places that will free it, and a function is
\* freed exactly when there is none: Value, SetPropertyStr and CallMethod
\* neither leak a function nor free one that is held.
THEOREM RefsExact == Spec => []RefsCounted
<1>1. Counted => RefsCounted
  BY DEF Counted, RefsCounted, Exact, Functions
<1> QED
  BY <1>1, CountedInit, CountedNext, PTL DEF Spec

\* The reference that CallMethod takes keeps the method it runs, whatever that
\* method does to the property it was found in.
THEOREM MethodsKept == Spec => []MethodsLive
<1>1. Counted => MethodsLive
  BY HeldIsFunction DEF MethodsLive
<1> QED
  BY <1>1, CountedInit, CountedNext, PTL DEF Spec

-----------------------------------------------------------------------------
(* JsClass: types                                                          *)

\* A step in which every variable of the module stands still.
LEMMA ClassStutter ==
    ASSUME ClassTypeOK, UNCHANGED classVars
    PROVE  ClassTypeOK'
BY DEF ClassTypeOK, classVars

\* Every operation keeps the types, whoever uses it.
LEMMA ClassStepTypes ==
    ASSUME ClassTypeOK, ClassNext
    PROVE  ClassTypeOK'
<1> USE DEF ClassTypeOK
<1>1. ASSUME NEW o \in Objs, Construct(o) PROVE ClassTypeOK'
    BY <1>1 DEF Construct
<1>2. ASSUME NEW o \in Objs, SetOpaque(o) PROVE ClassTypeOK'
    BY <1>2, host \subseteq Handles, \A p \in Objs : handle[p] \in Handles \cup {Null}
    DEF SetOpaque, Live
<1>3. ASSUME NEW o \in Objs, SetOwned(o) PROVE ClassTypeOK'
    BY <1>3 DEF SetOwned
<1>4. ASSUME NEW o \in Objs, Finalize(o) PROVE ClassTypeOK'
    BY <1>4 DEF Finalize, Destructor
<1>5. ASSUME NEW h \in Handles, HostCreate(h) PROVE ClassTypeOK'
    BY <1>5 DEF HostCreate
<1>6. ASSUME NEW h \in Handles, HostDestroy(h) PROVE ClassTypeOK'
    BY <1>6 DEF HostDestroy, Destructor
<1> QED
    BY <1>1, <1>2, <1>3, <1>4, <1>5, <1>6 DEF ClassNext

\* The variables of JsClass have their types, with or without the discipline.
THEOREM ClassTypesCorrect == ClassSpec => []ClassTypeOK
<1>1. ClassInit => ClassTypeOK
    BY DEF ClassInit, ClassTypeOK
<1>2. ClassTypeOK /\ [ClassNext]_classVars => ClassTypeOK'
    BY ClassStepTypes, ClassStutter
<1> QED
    BY <1>1, <1>2, PTL DEF ClassSpec

-----------------------------------------------------------------------------
(* Ownership *)

\* What the host will destroy is alive.
HostOwns == \A h \in host : heap[h] = "alive"

\* A script object that owns its C++ object shares it with nobody.
ScriptOwns ==
    \A o \in Live : owned[o] /\ handle[o] # Null =>
        /\ handle[o] \notin host
        /\ \A p \in Live \ {o} : handle[p] # handle[o]

OwnInv == ClassTypeOK /\ HostOwns /\ ScriptOwns /\ HandlesLive /\ DestroyedOnce

\* The C++ object that a finalizer destroys was alive, and nobody else has it.
LEMMA FinalizeOwns ==
    ASSUME OwnInv, NEW o \in Objs, Finalize(o)
    PROVE  OwnInv'
<1>1. ClassTypeOK'
    BY ClassStepTypes DEF OwnInv, ClassNext
<1>2. Live' = Live \ {o}
    BY DEF Finalize, Live, OwnInv, ClassTypeOK
<1>3. CASE handle[o] # Null /\ owned[o]
    <2>1. /\ handle[o] \in Handles /\ handle[o] \notin host
          /\ heap[handle[o]] = "alive"
          /\ \A p \in Live' : handle[p] # handle[o]
        BY <1>2, <1>3 DEF Finalize, OwnInv, ClassTypeOK, ScriptOwns, HandlesLive
    <2>2. heap' = [heap EXCEPT ![handle[o]] = "destroyed"]
        BY <1>3, <2>1 DEF Finalize, Destructor
    <2>3. UNCHANGED <<handle, owned, host>>
        BY DEF Finalize
    <2>4. HostOwns' /\ DestroyedOnce'
        BY <2>1, <2>2, <2>3 DEF OwnInv, HostOwns, DestroyedOnce, ClassTypeOK
    <2>5. ScriptOwns'
        BY <1>2, <2>3 DEF OwnInv, ScriptOwns
    <2>6. HandlesLive'
        BY <1>2, <2>1, <2>2, <2>3 DEF OwnInv, HandlesLive, ClassTypeOK, Live
    <2> QED
        BY <1>1, <2>4, <2>5, <2>6 DEF OwnInv
<1>4. CASE ~(handle[o] # Null /\ owned[o])
    BY <1>1, <1>2, <1>4 DEF Finalize, OwnInv, HostOwns, ScriptOwns, HandlesLive, DestroyedOnce
<1> QED
    BY <1>3, <1>4

\* The other operations, used as the discipline says.
LEMMA OthersOwn ==
    ASSUME Careful, OwnInv,
           \/ \E o \in Objs : Construct(o) \/ SetOpaque(o) \/ SetOwned(o)
           \/ \E h \in Handles : HostCreate(h) \/ HostDestroy(h)
    PROVE  OwnInv'
<1>0. ClassTypeOK'
    BY ClassStepTypes DEF OwnInv, ClassNext
<1>a. Null \notin Handles
    BY NullAssumption
<1>1. ASSUME NEW o \in Objs, Construct(o) PROVE OwnInv'
    <2>1. PICK h \in Handles : /\ heap[h] = "unborn"
                               /\ heap' = [heap EXCEPT ![h] = "alive"]
                               /\ handle' = [handle EXCEPT ![o] = h]
        BY <1>1 DEF Construct
    <2>2. Live' = Live \cup {o} /\ o \notin Live /\ host' = host
        BY <1>1 DEF Construct, Live, OwnInv, ClassTypeOK
    <2>3. h \notin host /\ \A p \in Live : handle[p] # h
        BY <1>a, <2>1 DEF OwnInv, HostOwns, HandlesLive
    <2>4. \A p \in Live : handle'[p] = handle[p] /\ owned'[p] = owned[p]
        BY <1>1, <2>1, <2>2 DEF Construct, OwnInv, ClassTypeOK, Live
    <2>5. handle'[o] = h
        BY <2>1 DEF OwnInv, ClassTypeOK
    <2>6. HostOwns' /\ DestroyedOnce'
        BY <2>1, <2>2, <2>3 DEF OwnInv, HostOwns, DestroyedOnce, ClassTypeOK
    <2>7. ScriptOwns'
        BY <2>2, <2>3, <2>4, <2>5 DEF OwnInv, ScriptOwns
    <2>8. HandlesLive'
        <3> SUFFICES ASSUME NEW p \in Live', handle'[p] # Null
                     PROVE  heap'[handle'[p]] = "alive"
            BY DEF HandlesLive
        <3>1. CASE p = o
            BY <2>1, <2>5, <3>1 DEF OwnInv, ClassTypeOK
        <3>2. CASE p \in Live
            <4>1. handle[p] \in Handles /\ heap[handle[p]] = "alive"
                BY <2>4, <3>2 DEF OwnInv, HandlesLive, ClassTypeOK, Live
            <4> QED
                BY <2>1, <2>4, <3>2, <4>1 DEF OwnInv, ClassTypeOK
        <3> QED
            BY <2>2, <3>1, <3>2
    <2> QED
        BY <1>0, <2>6, <2>7, <2>8 DEF OwnInv
<1>2. ASSUME NEW o \in Objs, SetOpaque(o) PROVE OwnInv'
    <2>1. PICK h \in host : ~owned[o] /\ handle' = [handle EXCEPT ![o] = h]
        BY <1>2 DEF SetOpaque
    <2>2. Live' = Live /\ o \in Live /\ UNCHANGED <<owned, heap, host>>
        BY <1>2 DEF SetOpaque, Live
    <2>3. HostOwns' /\ DestroyedOnce'
        BY <2>2 DEF OwnInv, HostOwns, DestroyedOnce
    <2>4. ScriptOwns' /\ HandlesLive'
        BY <2>1, <2>2 DEF OwnInv, HostOwns, ScriptOwns, HandlesLive, ClassTypeOK, Live
    <2> QED
        BY <1>0, <2>3, <2>4 DEF OwnInv
<1>3. ASSUME NEW o \in Objs, SetOwned(o) PROVE OwnInv'
    BY <1>0, <1>3 DEF SetOwned, OwnInv, HostOwns, ScriptOwns, HandlesLive, DestroyedOnce,
                      ClassTypeOK, Live
<1>4. ASSUME NEW h \in Handles, HostCreate(h) PROVE OwnInv'
    BY <1>0, <1>4 DEF HostCreate, OwnInv, HostOwns, ScriptOwns, HandlesLive, DestroyedOnce,
                      ClassTypeOK, Live
<1>5. ASSUME NEW h \in Handles, HostDestroy(h) PROVE OwnInv'
    BY <1>0, <1>5 DEF HostDestroy, Destructor, OwnInv, HostOwns, ScriptOwns, HandlesLive,
                      DestroyedOnce, ClassTypeOK, Live
<1> QED
    BY <1>1, <1>2, <1>3, <1>4, <1>5

LEMMA OwnInvHolds == Careful /\ ClassSpec => []OwnInv
<1> SUFFICES ASSUME Careful PROVE ClassSpec => []OwnInv
    OBVIOUS
<1>1. ClassInit => OwnInv
    BY DEF ClassInit, OwnInv, ClassTypeOK, HostOwns, ScriptOwns, HandlesLive, DestroyedOnce, Live
<1>2. OwnInv /\ [ClassNext]_classVars => OwnInv'
    <2> SUFFICES ASSUME OwnInv, [ClassNext]_classVars PROVE OwnInv'
        OBVIOUS
    <2>1. CASE ClassNext
        BY <2>1, FinalizeOwns, OthersOwn DEF ClassNext
    <2>2. CASE UNCHANGED classVars
        BY <2>2, ClassStutter
        DEF classVars, OwnInv, HostOwns, ScriptOwns, HandlesLive, DestroyedOnce, Live
    <2> QED
        BY <2>1, <2>2
<1> QED
    BY <1>1, <1>2, PTL DEF ClassSpec

\* When scripts write only handles of the host, only to objects that own none,
\* and never claim ownership, and the host outlives what it lent, no C++ object
\* is destroyed twice.
THEOREM NoDoubleDestroy == Careful /\ ClassSpec => []DestroyedOnce
<1>1. OwnInv => DestroyedOnce
    BY DEF OwnInv
<1> QED
    BY <1>1, OwnInvHolds, PTL

\* Under the same discipline a method always finds its C++ object alive.
THEOREM NoUseAfterDestroy == Careful /\ ClassSpec => []HandlesLive
<1>1. OwnInv => HandlesLive
    BY DEF OwnInv
<1> QED
    BY <1>1, OwnInvHolds, PTL
=============================================================================
