--------------------------- MODULE DatabaseProofs ---------------------------
(***************************************************************************)
(* The theorems about Database, on the lemmas of DatabaseOperations:       *)
(*                                                                         *)
(*   Typed                 TypeOK                                          *)
(*   CommittedIsUntouched  what the committed state is read from is not    *)
(*                         written                                         *)
(*   BitmapIsExact         a place is marked exactly if a state needs it   *)
(*   FileIsAtomicStore     AtomicStore is implemented                      *)
(*                                                                         *)
(* Inv says for each value of pc which headers a crash may leave and what  *)
(* is to be found in the file then.  One lemma for each action says that   *)
(* it keeps Inv and is a step of AtomicStore or none (StoreStep).          *)
(***************************************************************************)
EXTENDS DatabaseOperations

-----------------------------------------------------------------------------
(* What an action leaves of memory: the pages that the roots use.           *)

\* The places that the state of a root is read from.
Reads(pages, c) == ToSet(c.index) \cup Spots(Ent(pages, c.index), c.used)

PooledIn(n) == [p \in Places |-> IF p \in InUse(n) THEN n.pool[p] ELSE Lost]
After(n) == [n EXCEPT !.pool = PooledIn(n), !.touched = {}]

\* It has the same header and marks.
LEMMA AfterFields ==
    ASSUME NEW n, MemFields(n), NEW a, a = After(n)
    PROVE  /\ MemFields(a)
           /\ a.pool = PooledIn(n) /\ a.header = n.header /\ a.map = n.map
           /\ a.modified = n.modified /\ a.touched = {}
           /\ Current(a) = Current(n) /\ Working(a) = Working(n)
  <1>1. n = [header |-> n.header, pool |-> n.pool, map |-> n.map,
             modified |-> n.modified, touched |-> n.touched]
        /\ HeaderFields(n.header) /\ n.header.curr \in 0 .. 1
    BY DEF MemFields
  <1>2. a = [header |-> n.header, pool |-> PooledIn(n), map |-> n.map,
             modified |-> n.modified, touched |-> {}]
    BY ONLY <1>1, a = After(n) DEF After
  <1>3. a.pool = [p \in Places |-> a.pool[p]]
    BY <1>2 DEF PooledIn
  <1> QED
    BY <1>1, <1>2, <1>3 DEF MemFields, Current, Working

\* Its pages are of their type.
LEMMA PooledTyped ==
    ASSUME NEW n, \A p \in Places : PageType(n.pool[p])
    PROVE  \A p \in Places : PageType(PooledIn(n)[p])
  <1>1. PageType(Lost)
    BY ObjectPageTyped DEF Lost
  <1> QED
    BY <1>1 DEF PooledIn

\* The places of a root are in use, and so is its shadow.
LEMMA WholeUses ==
    ASSUME NEW n, NEW c, c = Current(n) \/ c = Working(n), Whole(n.pool, c)
    PROVE  /\ Reads(n.pool, c) \subseteq InUse(n) /\ ToSet(c.shadow) \subseteq InUse(n)
           /\ Reads(n.pool, c) \in SUBSET Places /\ ToSet(c.shadow) \in SUBSET Places
           /\ Ent(n.pool, c.index)[0].pos \in Reads(n.pool, c)
           /\ \A p \in Reads(n.pool, c) \cup ToSet(c.shadow) : PooledIn(n)[p] = n.pool[p]
  <1> DEFINE e == Ent(n.pool, c.index)
  <1>1. /\ Roomy(c) /\ Fixed(e, c.used)
        /\ n.pool[e[0].pos].used = ToSet(c.index) \cup ToSet(c.shadow) \cup Spots(e, c.used)
    BY WholeFacts
  <1>2. n.pool[Lookup(n.pool, c.index, BitmapId).pos].used \subseteq InUse(n)
    BY DEF InUse
  <1>3. Lookup(n.pool, c.index, BitmapId) = e[0]
    BY ZeroIsId DEF Ent
  <1>4. /\ c.used \in Nat /\ FirstUserId <= c.used
        /\ ToSet(c.index) \in SUBSET Places /\ ToSet(c.shadow) \in SUBSET Places
    BY <1>1, RoomyFacts
  <1>5. Spots(e, c.used) \in SUBSET Places /\ e[0].pos \in Spots(e, c.used)
    BY <1>1, <1>4, EntryPlaces DEF Fixed
  <1> HIDE DEF e
  <1>6. Reads(n.pool, c) = ToSet(c.index) \cup Spots(e, c.used)
    BY DEF Reads, e
  <1>7. /\ Reads(n.pool, c) \subseteq InUse(n) /\ ToSet(c.shadow) \subseteq InUse(n)
        /\ Reads(n.pool, c) \in SUBSET Places
    BY <1>1, <1>2, <1>3, <1>4, <1>5, <1>6
  <1>8. \A p \in Reads(n.pool, c) \cup ToSet(c.shadow) : PooledIn(n)[p] = n.pool[p]
    BY <1>4, <1>7 DEF PooledIn
  <1> QED
    BY <1>4, <1>5, <1>6, <1>7, <1>8 DEF e

\* So is what the working state has of its own.
LEMMA GoodUses ==
    ASSUME NEW n, Good(n)
    PROVE  /\ Bitmap(n) \subseteq InUse(n)
           /\ \A p \in Bitmap(n) : PooledIn(n)[p] = n.pool[p]
           /\ Reads(n.pool, Current(n)) \subseteq Bitmap(n)
           /\ Reads(n.pool, Working(n)) \subseteq Bitmap(n)
           /\ Reads(n.pool, Current(n)) = CI(n) \cup Spots(CE(n), Current(n).used)
  <1>1. Bitmap(n) \in SUBSET Places
        /\ Bitmap(n) = CI(n) \cup WI(n) \cup Spots(CE(n), Current(n).used)
                             \cup Spots(WE(n), Working(n).used)
    BY GoodPlaces
  <1>2. n.pool[Lookup(n.pool, Working(n).index, BitmapId).pos].used \subseteq InUse(n)
    BY DEF InUse
  <1>3. Bitmap(n) = n.pool[Lookup(n.pool, Working(n).index, BitmapId).pos].used
    BY DEF Bitmap, GetPos
  <1>4. \A p \in Bitmap(n) : PooledIn(n)[p] = n.pool[p]
    BY <1>1, <1>2, <1>3 DEF PooledIn
  <1>5. /\ Reads(n.pool, Current(n)) = CI(n) \cup Spots(CE(n), Current(n).used)
        /\ Reads(n.pool, Working(n)) = WI(n) \cup Spots(WE(n), Working(n).used)
    BY DEF Reads, CI, CE, WI, WE
  <1> QED
    BY <1>1, <1>2, <1>3, <1>4, <1>5

\* A state is there when the places it is read from hold what they held.
LEMMA WholeAgain ==
    ASSUME NEW pages, NEW pages2, NEW c, Whole(pages, c),
           \A p \in Reads(pages, c) : pages2[p] = pages[p]
    PROVE  /\ Whole(pages2, c) /\ Ent(pages2, c.index) = Ent(pages, c.index)
           /\ Reads(pages2, c) = Reads(pages, c)
  <1>1. /\ Roomy(c) /\ Fixed(Ent(pages, c.index), c.used)
    BY WholeFacts
  <1>2. c.used \in Nat /\ FirstUserId <= c.used /\ c.index \in Seq(Places)
    BY <1>1, RoomyFacts
  <1>3. Ent(pages, c.index)[0].pos \in Spots(Ent(pages, c.index), c.used)
    BY <1>1, <1>2, EntryPlaces DEF Fixed
  <1>4. /\ \A p \in ToSet(c.index) : pages2[p] = pages[p]
        /\ pages2[Ent(pages, c.index)[0].pos] = pages[Ent(pages, c.index)[0].pos]
    BY <1>3 DEF Reads
  <1>5. Ent(pages2, c.index) = Ent(pages, c.index)
    BY <1>2, <1>4, EntSame
  <1>6. Whole(pages2, c)
    BY <1>4, WholeKept
  <1> QED
    BY <1>5, <1>6 DEF Reads

\* Memory stays one to go on from.
IsAfter(n, a) ==
    /\ Good(a) /\ MemFields(a)
    /\ a.header = n.header /\ a.map = n.map /\ a.modified = n.modified /\ a.touched = {}
    /\ Current(a) = Current(n) /\ Working(a) = Working(n)
    /\ CE(a) = CE(n) /\ WE(a) = WE(n) /\ Bitmap(a) = Bitmap(n)
    /\ \A p \in Bitmap(n) : a.pool[p] = n.pool[p]
    /\ Reads(a.pool, Current(a)) = Reads(n.pool, Current(n))

\* What an operation leaves is good when the action is over.
LEMMA AfterGood ==
    ASSUME NEW n, Good(n), NEW a, a = After(n)
    PROVE  IsAfter(n, a)
  <1>1. /\ MemFields(a)
        /\ a.pool = PooledIn(n) /\ a.header = n.header /\ a.map = n.map
        /\ a.modified = n.modified /\ a.touched = {}
        /\ Current(a) = Current(n) /\ Working(a) = Working(n)
    BY AfterFields DEF Good
  <1>2. \A p \in Places : PageType(a.pool[p])
    BY <1>1, PooledTyped DEF Good
  <1>3. \A p \in Bitmap(n) : a.pool[p] = n.pool[p]
    BY <1>1, GoodUses
  <1>4. /\ CI(n) \subseteq Bitmap(n) /\ WI(n) \subseteq Bitmap(n)
        /\ CE(n)[0].pos \in Bitmap(n) /\ WE(n)[0].pos \in Bitmap(n)
    BY GoodPlaces
  <1>5. Laid(n) /\ Current(n).index \in Seq(Places) /\ Working(n).index \in Seq(Places)
    BY GoodFacts DEF Laid
  <1>6. CE(a) = CE(n) /\ WE(a) = WE(n)
    <2>1. /\ \A p \in ToSet(Current(n).index) : a.pool[p] = n.pool[p]
          /\ \A p \in ToSet(Working(n).index) : a.pool[p] = n.pool[p]
      BY <1>3, <1>4 DEF CI, WI
    <2> QED
      BY <1>1, <1>5, <2>1, EntSame DEF CE, WE
  <1>7. Bitmap(a) = Bitmap(n)
    <2>1. /\ Bitmap(a) = a.pool[WE(a)[0].pos].used /\ Bitmap(n) = n.pool[WE(n)[0].pos].used
      BY BitmapLooked
    <2> QED
      BY <1>3, <1>4, <1>6, <2>1
  <1>8. Laid(a)
    BY <1>1, <1>2, <1>5 DEF Laid
  <1>9. CI(a) = CI(n) /\ WI(a) = WI(n)
    BY <1>1 DEF CI, WI
  <1>10. Good(a)
    <2>1. Whole(n.pool, Current(n)) /\ Under(n.pool, Current(n), Working(n), n.map)
          /\ n.map \subseteq 0 .. PageOf(MaxOid)
      BY DEF Good
    <2>2. Whole(a.pool, Current(n))
      BY <1>3, <1>4, <2>1, WholeKept DEF CI, CE
    <2>3. Under(a.pool, Current(n), Working(n), n.map)
      <3>1. a.pool[Ent(a.pool, Working(n).index)[0].pos].used
              = n.pool[Ent(n.pool, Working(n).index)[0].pos].used
        BY <1>3, <1>4, <1>1, <1>6 DEF WE
      <3>2. /\ Ent(a.pool, Working(n).index) = Ent(n.pool, Working(n).index)
            /\ Ent(a.pool, Current(n).index) = Ent(n.pool, Current(n).index)
        BY <1>1, <1>6 DEF WE, CE
      <3> QED
        BY <2>1, <3>1, <3>2 DEF Under
    <2> QED
      BY <1>1, <1>2, <2>1, <2>2, <2>3 DEF Good
  <1>11. Reads(a.pool, Current(a)) = Reads(n.pool, Current(n))
    BY <1>6, <1>1 DEF Reads, CE
  <1> QED
    BY <1>1, <1>3, <1>6, <1>7, <1>10, <1>11 DEF IsAfter

-----------------------------------------------------------------------------
(* The states of the store that the roots stand for.                        *)

StateOf(pages, r) == [root |-> r.rootObject, objs |-> Objects(pages, r)]
WState(m) == StateOf(m.pool, Working(m))
CState(m) == StateOf(m.pool, Current(m))

\* What is stored for o, given the entries e of the index.
ContentAt(pages, e, n, o) == IF o < n THEN Content(pages, e[o]) ELSE NoObject

\* The objects of a root, by the function that its index stands for.
LEMMA ObjectsAt ==
    ASSUME NEW pages, NEW r
    PROVE  /\ Objects(pages, r) = [o \in Users |-> ContentAt(pages, Ent(pages, r.index), r.used, o)]
           /\ \A o \in Users :
                 Objects(pages, r)[o] = ContentAt(pages, Ent(pages, r.index), r.used, o)
  <1>1. \A o \in Users : Ent(pages, r.index)[o] = Lookup(pages, r.index, o)
    <2>1. \A o \in Users : o \in Ids
      BY Sizes DEF Users, Ids
    <2> QED
      BY <2>1 DEF Ent
  <1>2. \A o \in Users : (IF o < r.used THEN Content(pages, Lookup(pages, r.index, o)) ELSE NoObject)
                            = ContentAt(pages, Ent(pages, r.index), r.used, o)
    BY <1>1 DEF ContentAt
  <1> QED
    BY <1>2 DEF Objects

\* The same entries that lead to the same pages stand for the same objects.
LEMMA ContentSame ==
    ASSUME NEW pages, NEW pages2, NEW e, NEW e2,
           e2.pos = e.pos, e2.free = e.free,
           e.pos # NoPlace => pages2[e.pos].refs = pages[e.pos].refs
    PROVE  Content(pages2, e2) = Content(pages, e)
  BY DEF Content

\* Roots stand for the same state when their entries lead to the same contents.
LEMMA ObjectsSame ==
    ASSUME NEW pages, NEW pages2, NEW r, NEW r2, r2.used = r.used, r2.rootObject = r.rootObject,
           \A q \in Users : q < r.used =>
               /\ Ent(pages2, r2.index)[q].pos = Ent(pages, r.index)[q].pos
               /\ Ent(pages2, r2.index)[q].free = Ent(pages, r.index)[q].free
               /\ Ent(pages, r.index)[q].pos # NoPlace =>
                     pages2[Ent(pages, r.index)[q].pos].refs = pages[Ent(pages, r.index)[q].pos].refs
    PROVE  StateOf(pages2, r2) = StateOf(pages, r)
  <1> DEFINE e == Ent(pages, r.index)
             e2 == Ent(pages2, r2.index)
  <1>1. \A q \in Users : ContentAt(pages2, e2, r2.used, q) = ContentAt(pages, e, r.used, q)
    <2> TAKE q \in Users
    <2>1. q < r.used => Content(pages2, e2[q]) = Content(pages, e[q])
      BY ContentSame
    <2> HIDE DEF e, e2
    <2> QED
      BY <2>1 DEF ContentAt
  <1>2. Objects(pages, r) = [o \in Users |-> ContentAt(pages, e, r.used, o)]
        /\ Objects(pages2, r2) = [o \in Users |-> ContentAt(pages2, e2, r2.used, o)]
    BY ObjectsAt
  <1> HIDE DEF e, e2
  <1>3. Objects(pages2, r2) = Objects(pages, r)
    BY <1>1, <1>2
  <1> QED
    BY <1>3 DEF StateOf

\* A state is the same when its places hold what they held.
LEMMA StateAgain ==
    ASSUME NEW pages, NEW pages2, NEW c, Whole(pages, c),
           \A p \in Reads(pages, c) : pages2[p] = pages[p]
    PROVE  StateOf(pages2, c) = StateOf(pages, c)
  <1>1. /\ Ent(pages2, c.index) = Ent(pages, c.index)
        /\ Fixed(Ent(pages, c.index), c.used) /\ c.used \in Nat /\ FirstUserId <= c.used
    <2>1. Roomy(c) /\ Fixed(Ent(pages, c.index), c.used)
      BY WholeFacts
    <2>2. Ent(pages2, c.index) = Ent(pages, c.index)
      BY WholeAgain
    <2> QED
      BY <2>1, <2>2, RoomyFacts
  <1>2. \A q \in Users : q < c.used /\ Ent(pages, c.index)[q].pos # NoPlace =>
            Ent(pages, c.index)[q].pos \in Reads(pages, c)
    <2>1. \A q \in Users : q < c.used => q \in 0 .. c.used - 1
      BY <1>1, Sizes DEF Users
    <2> QED
      BY <1>1, <2>1, EntryPlaces DEF Fixed, Reads
  <1>3. \A q \in Users : q < c.used =>
               /\ Ent(pages2, c.index)[q].pos = Ent(pages, c.index)[q].pos
               /\ Ent(pages2, c.index)[q].free = Ent(pages, c.index)[q].free
               /\ Ent(pages, c.index)[q].pos # NoPlace =>
                     pages2[Ent(pages, c.index)[q].pos].refs = pages[Ent(pages, c.index)[q].pos].refs
    BY <1>1, <1>2
  <1> QED
    BY <1>3, ObjectsSame

\* A root whose index is a copy stands for the same state.
LEMMA TwinState ==
    ASSUME NEW pages, NEW c, Whole(pages, c), NEW r, r.index = c.shadow, r.used = c.used,
           r.rootObject = c.rootObject, Alike(pages, c)
    PROVE  StateOf(pages, r) = StateOf(pages, c)
  <1>1. \A q \in Users : q < c.used => q \in 0 .. c.used - 1
    BY WholeFacts, RoomyFacts, Sizes DEF Users
  <1>2. \A q \in Users : q < c.used => Ent(pages, r.index)[q] = Ent(pages, c.index)[q]
    BY <1>1 DEF Alike
  <1> QED
    BY <1>2, ObjectsSame

\* Where the entries of users are among those of the working state.
LEMMA UserInRange ==
    ASSUME NEW n \in Nat, NEW q \in Users, q < n
    PROVE  q \in 1 .. n - 1 /\ q \in 0 .. n - 1 /\ q \in Ids
  BY Sizes DEF Users, Ids

\* Objects that an operation does not name are as they were.
LEMMA ObjectKept ==
    ASSUME NEW m, Good(m), NEW n, NEW G, Kept(m, n, G), NEW q \in Users, q \notin G,
           q < Working(m).used, q < Working(n).used
    PROVE  WState(n).objs[q] = WState(m).objs[q]
  <1>1. Working(m).used \in Nat
    BY GoodFacts
  <1>2. q \in 1 .. Working(m).used - 1
    BY <1>1, UserInRange
  <1>3. /\ WE(n)[q] = WE(m)[q]
        /\ WE(m)[q].pos # NoPlace => n.pool[WE(m)[q].pos] = m.pool[WE(m)[q].pos]
    BY <1>2 DEF Kept
  <1>4. Content(n.pool, WE(n)[q]) = Content(m.pool, WE(m)[q])
    BY <1>3, ContentSame
  <1>5. /\ Objects(n.pool, Working(n))[q] = ContentAt(n.pool, WE(n), Working(n).used, q)
        /\ Objects(m.pool, Working(m))[q] = ContentAt(m.pool, WE(m), Working(m).used, q)
    BY ObjectsAt DEF WE
  <1> QED
    BY <1>4, <1>5 DEF ContentAt, WState, StateOf

\* The same after the action.
LEMMA WStateAfter ==
    ASSUME NEW n, Good(n), NEW a, IsAfter(n, a)
    PROVE  WState(a) = WState(n) /\ CState(a) = CState(n)
  <1>1. /\ Working(a) = Working(n) /\ Current(a) = Current(n)
        /\ WE(a) = WE(n) /\ CE(a) = CE(n) /\ \A p \in Bitmap(n) : a.pool[p] = n.pool[p]
    BY DEF IsAfter
  <1>2. Working(n).used \in Nat /\ Current(n).used \in Nat
    BY GoodFacts
  <1>3. \A q \in Users : q < Working(n).used /\ WE(n)[q].pos # NoPlace =>
            a.pool[WE(n)[q].pos] = n.pool[WE(n)[q].pos]
    BY <1>1, <1>2, GoodPlaces, UserInRange
  <1>4. \A q \in Users : q < Current(n).used /\ CE(n)[q].pos # NoPlace =>
            a.pool[CE(n)[q].pos] = n.pool[CE(n)[q].pos]
    BY <1>1, <1>2, GoodPlaces, UserInRange
  <1>5. StateOf(a.pool, Working(n)) = StateOf(n.pool, Working(n))
    BY <1>1, <1>3, ObjectsSame DEF WE
  <1>6. StateOf(a.pool, Current(n)) = StateOf(n.pool, Current(n))
    BY <1>1, <1>4, ObjectsSame DEF CE
  <1> QED
    BY <1>1, <1>5, <1>6 DEF WState, CState

\* What the operations on memory do to the state of the store.
LEMMA WObjects ==
    ASSUME NEW m
    PROVE  /\ WState(m) = [root |-> Working(m).rootObject, objs |-> WState(m).objs]
           /\ WState(m).root = Working(m).rootObject
           /\ WState(m).objs = [q \in Users |-> WState(m).objs[q]]
           /\ \A q \in Users : WState(m).objs[q]
                 = IF q < Working(m).used THEN Content(m.pool, WE(m)[q]) ELSE NoObject
  <1>1. WState(m) = [root |-> Working(m).rootObject, objs |-> Objects(m.pool, Working(m))]
    BY DEF WState, StateOf
  <1>2. /\ Objects(m.pool, Working(m))
             = [o \in Users |-> ContentAt(m.pool, WE(m), Working(m).used, o)]
        /\ \A o \in Users : Objects(m.pool, Working(m))[o]
             = ContentAt(m.pool, WE(m), Working(m).used, o)
    BY ObjectsAt DEF WE
  <1>3. WState(m).objs = Objects(m.pool, Working(m)) /\ WState(m).root = Working(m).rootObject
    BY <1>1
  <1>4. WState(m).objs = [q \in Users |-> WState(m).objs[q]]
    BY <1>2, <1>3
  <1> QED
    BY <1>1, <1>2, <1>3, <1>4 DEF ContentAt

\* In the store an identifier is given out,
LEMMA AllocatedState ==
    ASSUME NEW m, Good(m), NEW n, NEW o, IsAllocated(m, n, o)
    PROVE  WState(m).objs[o] = NoObject /\ WState(n) = [WState(m) EXCEPT !.objs[o] = Unstored]
  <1> DEFINE s == WState(m)
             t == WState(n)
             wm == Working(m).used
             wn == Working(n).used
  <1>1. /\ Kept(m, n, {o}) /\ Working(n).rootObject = Working(m).rootObject
        /\ WE(n)[o] = At(NoPlace, FALSE) /\ o \in Users /\ o < wn
        /\ \/ o < wm /\ WE(m)[o].free /\ wn = wm
           \/ o = wm /\ wn = o + 1
    BY DEF IsAllocated
  <1>2. wm \in Nat /\ o \in Nat
    BY <1>1, GoodFacts, Sizes DEF Users
  <1>3. s.objs[o] = NoObject
    <2>1. s.objs[o] = IF o < wm THEN Content(m.pool, WE(m)[o]) ELSE NoObject
      BY <1>1, WObjects
    <2>2. WE(m)[o].free => Content(m.pool, WE(m)[o]) = NoObject
      BY DEF Content
    <2>3. o = wm => ~(o < wm)
      BY <1>2
    <2> HIDE DEF s, wm
    <2> QED
      BY <1>1, <2>1, <2>2, <2>3
  <1>4. t.objs[o] = Unstored
    BY <1>1, WObjects, NowhereFields DEF Content
  <1>5. \A q \in Users : q # o => t.objs[q] = s.objs[q]
    <2> TAKE q \in Users
    <2>1. HAVE q # o
    <2>2. q \in Nat
      BY Sizes DEF Users
    <2>3. CASE q < wm
      <3>1. q < wn /\ q \notin {o}
        BY ONLY <1>1, <1>2, <2>1, <2>2, <2>3
      <3> QED
        BY <1>1, <2>3, <3>1, ObjectKept
    <2>4. CASE ~(q < wm)
      <3>1. ~(q < wn)
        BY ONLY <1>1, <1>2, <2>1, <2>2, <2>4
      <3> QED
        BY <2>4, <3>1, WObjects
    <2> QED
      BY <2>3, <2>4
  <1>6. /\ s = [root |-> s.root, objs |-> s.objs] /\ t = [root |-> t.root, objs |-> t.objs]
        /\ s.root = t.root
        /\ s.objs = [q \in Users |-> s.objs[q]] /\ t.objs = [q \in Users |-> t.objs[q]]
    BY <1>1, WObjects
  <1> HIDE DEF s, t
  <1>7. t.objs = [s.objs EXCEPT ![o] = Unstored]
    BY ONLY <1>1, <1>4, <1>5, <1>6
  <1>8. t = [s EXCEPT !.objs[o] = Unstored]
    BY ONLY <1>6, <1>7
  <1> QED
    BY <1>3, <1>8 DEF s, t

\* an object is stored,
LEMMA StoredState ==
    ASSUME NEW m, Good(m), NEW n, NEW o \in Users, o < Working(m).used, NEW b,
           IsStored(m, n, o, b)
    PROVE  WState(n) = [WState(m) EXCEPT !.objs[o] = Stored(b)]
  <1> DEFINE s == WState(m)
             t == WState(n)
  <1>1. /\ Kept(m, n, {o}) /\ Working(n) = Working(m)
        /\ WE(n)[o].pos \in Places /\ ~WE(n)[o].free
        /\ n.pool[WE(n)[o].pos].refs = b
    BY DEF IsStored
  <1>2. t.objs[o] = Stored(b)
    BY <1>1, WObjects, NoPlaceIsNone DEF Content
  <1>3. \A q \in Users : q # o => t.objs[q] = s.objs[q]
    <2> TAKE q \in Users
    <2>1. HAVE q # o
    <2>2. CASE q < Working(m).used
      BY <1>1, <2>1, <2>2, ObjectKept
    <2>3. CASE ~(q < Working(m).used)
      BY <1>1, <2>3, WObjects
    <2> QED
      BY <2>2, <2>3
  <1>4. /\ s = [root |-> s.root, objs |-> s.objs] /\ t = [root |-> t.root, objs |-> t.objs]
        /\ s.root = t.root
        /\ s.objs = [q \in Users |-> s.objs[q]] /\ t.objs = [q \in Users |-> t.objs[q]]
    BY <1>1, WObjects
  <1> HIDE DEF s, t
  <1>5. t.objs = [s.objs EXCEPT ![o] = Stored(b)]
    BY ONLY <1>2, <1>3, <1>4
  <1>6. t = [s EXCEPT !.objs[o] = Stored(b)]
    BY ONLY <1>4, <1>5
  <1> QED
    BY <1>6 DEF s, t

\* identifiers are freed,
LEMMA FreedState ==
    ASSUME NEW m, Good(m), NEW n, NEW G \in SUBSET Users, IsFreed(m, n, G)
    PROVE  /\ WState(n).root = WState(m).root
           /\ WState(n).objs = [q \in Users |-> IF q \in G THEN NoObject ELSE WState(m).objs[q]]
  <1> DEFINE s == WState(m)
             t == WState(n)
  <1>1. /\ Kept(m, n, G) /\ Working(n).used = Working(m).used
        /\ Working(n).rootObject = Working(m).rootObject
        /\ \A q \in G : WE(n)[q].free
    BY DEF IsFreed
  <1>2. \A q \in Users : t.objs[q] = IF q \in G THEN NoObject ELSE s.objs[q]
    <2> TAKE q \in Users
    <2>1. CASE q \in G
      BY <1>1, <2>1, WObjects DEF Content
    <2>2. CASE q \notin G
      <3>1. CASE q < Working(m).used
        BY <1>1, <2>2, <3>1, ObjectKept
      <3>2. CASE ~(q < Working(m).used)
        BY <1>1, <2>2, <3>2, WObjects
      <3> QED
        BY <2>2, <3>1, <3>2
    <2> QED
      BY <2>1, <2>2
  <1>3. t.root = s.root /\ t.objs = [q \in Users |-> t.objs[q]]
    BY <1>1, WObjects
  <1> HIDE DEF s, t
  <1>4. t.objs = [q \in Users |-> IF q \in G THEN NoObject ELSE s.objs[q]]
    BY ONLY <1>2, <1>3
  <1> QED
    BY <1>3, <1>4 DEF s, t

\* or the root is another.
LEMMA RootState ==
    ASSUME NEW m, Good(m), NEW n, Kept(m, n, {}), Working(n).used = Working(m).used
    PROVE  WState(n) = [WState(m) EXCEPT !.root = Working(n).rootObject]
  <1> DEFINE s == WState(m)
             t == WState(n)
  <1>1. \A q \in Users : t.objs[q] = s.objs[q]
    <2> TAKE q \in Users
    <2>1. CASE q < Working(m).used
      BY <2>1, ObjectKept
    <2>2. CASE ~(q < Working(m).used)
      BY <2>2, WObjects
    <2> QED
      BY <2>1, <2>2
  <1>2. /\ s = [root |-> s.root, objs |-> s.objs]
        /\ t = [root |-> Working(n).rootObject, objs |-> t.objs]
        /\ s.objs = [q \in Users |-> s.objs[q]] /\ t.objs = [q \in Users |-> t.objs[q]]
    BY WObjects
  <1> HIDE DEF s, t
  <1>3. t.objs = s.objs
    BY ONLY <1>1, <1>2
  <1> QED
    BY ONLY <1>2, <1>3 DEF s, t

\* The committed state is left alone.
LEMMA CStateKept ==
    ASSUME NEW m, Whole(m.pool, Current(m)), NEW n, Current(n) = Current(m),
           Frame(m, n, Places \ (CI(m) \cup Spots(CE(m), Current(m).used)))
    PROVE  CState(n) = CState(m) /\ Reads(n.pool, Current(n)) = Reads(m.pool, Current(m))
  <1>1. Reads(m.pool, Current(m)) = CI(m) \cup Spots(CE(m), Current(m).used)
    BY DEF Reads, CI, CE
  <1>2. Reads(m.pool, Current(m)) \in SUBSET Places
    BY WholeUses
  <1>3. \A p \in Reads(m.pool, Current(m)) : n.pool[p] = m.pool[p]
    BY <1>1, <1>2 DEF Frame
  <1>4. StateOf(n.pool, Current(m)) = StateOf(m.pool, Current(m))
    BY <1>3, StateAgain
  <1>5. Reads(n.pool, Current(m)) = Reads(m.pool, Current(m))
    BY <1>3, WholeAgain
  <1> QED
    BY <1>4, <1>5 DEF CState

\* A rollback, and the end of a commit, leave the committed state twice.
LEMMA RolledState ==
    ASSUME NEW m, Whole(m.pool, Current(m)), NEW n, IsRolled(m, n)
    PROVE  /\ WState(n) = CState(n) /\ CState(n) = CState(m)
           /\ Reads(n.pool, Current(n)) = Reads(m.pool, Current(m))
           /\ ToSet(Current(m).shadow) \cap Reads(m.pool, Current(m)) = {}
  <1>1. /\ Good(n) /\ Current(n) = Current(m)
        /\ Working(n) = Swapped(Current(m)) /\ Alike(n.pool, Current(m))
        /\ Frame(m, n, ToSet(Current(m).shadow))
    BY DEF IsRolled
  <1>2. ToSet(Current(m).shadow) \cap Reads(m.pool, Current(m)) = {}
    <2>1. /\ ToSet(Current(m).index) \cap ToSet(Current(m).shadow) = {}
          /\ \A q \in 0 .. Current(m).used - 1 :
                 CE(m)[q].pos \notin ToSet(Current(m).shadow)
      BY WholeFacts DEF CE
    <2>2. ToSet(Current(m).shadow) \cap Spots(CE(m), Current(m).used) = {}
      BY <2>1 DEF Spots
    <2> QED
      BY <2>1, <2>2 DEF Reads, CE
  <1>3. Reads(m.pool, Current(m)) \in SUBSET Places /\ ToSet(Current(m).shadow) \in SUBSET Places
    BY WholeUses
  <1>4. Frame(m, n, Places \ (CI(m) \cup Spots(CE(m), Current(m).used)))
    <2>1. Reads(m.pool, Current(m)) = CI(m) \cup Spots(CE(m), Current(m).used)
      BY DEF Reads, CI, CE
    <2>2. ToSet(Current(m).shadow) \subseteq Places \ (CI(m) \cup Spots(CE(m), Current(m).used))
      BY <1>2, <1>3, <2>1
    <2> QED
      BY <1>1, <2>2, FrameMore
  <1>5. CState(n) = CState(m) /\ Reads(n.pool, Current(n)) = Reads(m.pool, Current(m))
    BY <1>1, <1>4, CStateKept
  <1>6. WState(n) = CState(n)
    <2>1. Whole(n.pool, Current(m))
      BY <1>1 DEF Good
    <2>2. /\ Working(n).index = Current(m).shadow /\ Working(n).used = Current(m).used
          /\ Working(n).rootObject = Current(m).rootObject
      <3>1. /\ RootFields(Current(m)) /\ Roomy(Current(m)) /\ IsInjective(Current(m).shadow)
            /\ Len(Current(m).shadow) = Len(Current(m).index)
        BY <1>1, WholeFacts, WorkingFields DEF Good
      <3> QED
        BY <1>1, <3>1, SwappedFields
    <2> QED
      BY <1>1, <2>1, <2>2, TwinState DEF WState, CState
  <1> QED
    BY <1>2, <1>5, <1>6

-----------------------------------------------------------------------------
(* The invariant.                                                           *)

\* A header leads to the root c.
LeadTo(h, k, c) == h.init /\ h.curr = k /\ h.root[k] = c

\* Nothing was changed but the root object.
Quiet(m) ==
    /\ m.map = {}
    /\ Working(m) = [Swapped(Current(m)) EXCEPT !.rootObject = Working(m).rootObject]

\* While transactions run, for memory m, the size cn of the committed index,
\* the places lost that a crash loses, and the headers hs it may leave, of
\* which the file has fh.
OpenIn(m, cn, lost, hs, fh) ==
    /\ Good(m) /\ m.header.init
    /\ cn = Current(m).used
    /\ ~m.modified => Quiet(m) /\ Working(m).rootObject = Current(m).rootObject
    /\ ~m.header.dirty => Quiet(m) /\ lost = {}
    /\ Reads(m.pool, Current(m)) \cap lost = {}
    /\ fh.dirty = m.header.dirty
    /\ \A h \in hs : /\ LeadTo(h, m.header.curr, Current(m))
                     /\ ~h.dirty => ~m.header.dirty /\ h.root[1 - h.curr] = Swapped(Current(m))

\* Between the two headers that a close writes.
CloseIn(m, lost, hs) ==
    /\ Good(m) /\ m.header.init /\ m.header.dirty /\ m.header \in hs /\ ~m.modified
    /\ Quiet(m) /\ Working(m).rootObject = Current(m).rootObject
    /\ Reads(m.pool, Current(m)) \cap lost = {}
    /\ \A h \in hs : LeadTo(h, m.header.curr, Current(m)) /\ h.dirty

\* A file that is closed, or was left by a crash.
ClosedIn(m, lost, hs, fh) ==
    /\ lost = {} /\ m.map = {} /\ ~m.modified
    /\ fh.dirty => \A h \in hs : h.dirty
    /\ \/ \A h \in hs : ~h.init
       \/ /\ Whole(m.pool, fh.root[fh.curr])
          /\ \A h \in hs : /\ LeadTo(h, fh.curr, fh.root[fh.curr])
                           /\ ~h.dirty => /\ h.root[1 - h.curr] = Swapped(fh.root[fh.curr])
                                          /\ Alike(m.pool, fh.root[fh.curr])

\* The pages of a new file.
FirstPage(p) ==
    IF p = InitBitmap THEN BitmapPage(InitPlaces)
    ELSE IndexPage([s \in 1 .. HandlesPerPage |->
             IF s = Slot(BitmapId) /\ \E k \in 0 .. 1 : InitIndex[k][1] = p
             THEN At(InitBitmap, FALSE)
             ELSE At(NoPlace, FALSE)])

CreateIn(m, hs) ==
    /\ m.header = FirstHeader
    /\ m.map = {} /\ ~m.modified
    /\ \A h \in hs : ~h.init
    /\ \A p \in InitPlaces : m.pool[p] = FirstPage(p)

\* While a commit runs the roots c, of before it, and w are both there.
BothIn(m, cn, c, w, hs) ==
    /\ m.header.init /\ m.header.dirty /\ m.modified
    /\ m.header \in hs
    /\ Whole(m.pool, c) /\ Whole(m.pool, w)
    /\ cn = c.used /\ c.used <= w.used
    /\ Cut(m.pool, c, w, m.map)

FlushIn(m, cn, lost, hs) ==
    /\ BothIn(m, cn, Current(m), Working(m), hs)
    /\ Reads(m.pool, Current(m)) \cap lost = {}
    /\ \A h \in hs : LeadTo(h, m.header.curr, Current(m)) /\ h.dirty
FlipIn(m, cn, lost, hs) ==
    /\ BothIn(m, cn, Current(m), Working(m), hs)
    /\ lost = {} /\ hs = {m.header}
SyncIn(m, cn, lost, hs) ==
    /\ BothIn(m, cn, Working(m), Current(m), hs)
    /\ lost = {} /\ hs = {m.header, [m.header EXCEPT !.curr = 1 - m.header.curr]}

PhaseInv ==
    /\ pc = "open" => OpenIn(Memory, committed, unflushed, headers, fileHeader)
    /\ pc = "close" => CloseIn(Memory, unflushed, headers)
    /\ pc = "closed" => ClosedIn(Memory, unflushed, headers, fileHeader)
    /\ pc = "create" => CreateIn(Memory, headers)
    /\ pc = "flush" => FlushIn(Memory, committed, unflushed, headers)
    /\ pc = "flip" => FlipIn(Memory, committed, unflushed, headers)
    /\ pc = "sync" => SyncIn(Memory, committed, unflushed, headers)

\* The headers are records of their type, and so is memory.
Base ==
    /\ \A h \in headers \cup {header, fileHeader} : HeaderFields(h) /\ Header(h)
    /\ fileHeader \in headers
    /\ pool = [p \in Places |-> pool[p]] /\ \A p \in Places : PageType(pool[p])
    /\ map \subseteq 0 .. PageOf(MaxOid)
    /\ modified \in BOOLEAN
    /\ committed \in 0 .. MaxOid + 1
    /\ pc \in {"closed", "create", "open", "flush", "flip", "sync", "close", "torn"}
    /\ unflushed \subseteq Places
    /\ calls \in 0 .. MaxCalls

Inv == Base /\ PhaseInv

\* It has all that the type invariant asks for.
LEMMA BaseTypes == Base => TypeOK
  BY DEF Base, TypeOK, PageType

\* Memory is a record of its type.
LEMMA MemoryTypes ==
    ASSUME Base
    PROVE  /\ MemFields(Memory)
           /\ Memory.header = header /\ Memory.pool = pool /\ Memory.map = map
           /\ Memory.modified = modified /\ Memory.touched = {}
           /\ \A p \in Places : PageType(Memory.pool[p])
           /\ Memory.map \subseteq 0 .. PageOf(MaxOid)
           /\ header.dirty \in BOOLEAN /\ header.init \in BOOLEAN /\ header.curr \in 0 .. 1
           /\ HeaderFields(header)
  <1>1. /\ Memory.header = header /\ Memory.pool = pool /\ Memory.map = map
        /\ Memory.modified = modified /\ Memory.touched = {}
    BY DEF Memory
  <1>2. Memory = [header |-> Memory.header, pool |-> Memory.pool, map |-> Memory.map,
                  modified |-> Memory.modified, touched |-> Memory.touched]
    BY DEF Memory
  <1>3. HeaderFields(header) /\ Header(header)
    BY DEF Base
  <1>4. header.curr \in 0 .. 1 /\ header.dirty \in BOOLEAN /\ header.init \in BOOLEAN
    BY <1>3 DEF Header
  <1> QED
    BY <1>1, <1>2, <1>3, <1>4 DEF Base, MemFields

\* A header that memory may have is one of its type.
LEMMA HeaderTyped ==
    ASSUME NEW n, MemFields(n), Root(Current(n)), Root(Working(n)),
           n.header.dirty \in BOOLEAN, n.header.init \in BOOLEAN
    PROVE  HeaderFields(n.header) /\ Header(n.header)
  <1>1. HeaderFields(n.header) /\ n.header.curr \in 0 .. 1
    BY DEF MemFields
  <1>2. \A k \in 0 .. 1 : k = n.header.curr \/ k = 1 - n.header.curr
    BY ONLY <1>1
  <1> QED
    BY <1>1, <1>2 DEF Header, Current, Working

\* What a crash leaves.
Spared(pages, lost) == [p \in Places |-> IF p \in lost THEN Lost ELSE pages[p]]
SurvivorsOf(pages, lost, hs) ==
    {IF ~h.init THEN Empty ELSE StateOf(Spared(pages, lost), Recovered(h)) : h \in hs}

\* The survivors of the model are these.
LEMMA SurvivorsAre == Survivors = SurvivorsOf(pool, unflushed, headers)
  BY DEF Survivors, SurvivorsOf, Spared, Surviving, StateOf

\* A state that can be read from what a crash leaves.
LEMMA SparedState ==
    ASSUME NEW pages, NEW lost, NEW c, Whole(pages, c), Reads(pages, c) \cap lost = {}
    PROVE  /\ Whole(Spared(pages, lost), c)
           /\ StateOf(Spared(pages, lost), c) = StateOf(pages, c)
  <1>1. Reads(pages, c) \in SUBSET Places
    <2>1. /\ Roomy(c) /\ Fixed(Ent(pages, c.index), c.used)
      BY WholeFacts
    <2>2. c.used \in Nat /\ FirstUserId <= c.used /\ ToSet(c.index) \in SUBSET Places
      BY <2>1, RoomyFacts
    <2>3. Spots(Ent(pages, c.index), c.used) \in SUBSET Places
      BY <2>1, <2>2, EntryPlaces DEF Fixed
    <2> QED
      BY <2>2, <2>3 DEF Reads
  <1>2. \A p \in Reads(pages, c) : Spared(pages, lost)[p] = pages[p]
    BY <1>1 DEF Spared
  <1> QED
    BY <1>2, WholeAgain, StateAgain

\* Indexes that are alike are so when no page was lost.
LEMMA SparedAlike ==
    ASSUME NEW pages, NEW c, Whole(pages, c), Alike(pages, c), NEW pages2,
           \A p \in Places : pages2[p] = pages[p]
    PROVE  Alike(pages2, c)
  <1>1. c.index \in Seq(Places) /\ c.shadow \in Seq(Places)
    BY WholeFacts, RoomyFacts
  <1>2. ToSet(c.index) \subseteq Places /\ ToSet(c.shadow) \subseteq Places
    BY <1>1, ToSetPlaces
  <1>3. /\ Ent(pages2, c.index) = Ent(pages, c.index)
        /\ Ent(pages2, c.shadow) = Ent(pages, c.shadow)
    BY <1>1, <1>2, EntSame
  <1> QED
    BY <1>3 DEF Alike

\* The state that survives when all headers lead to the root c.
AllLeadTo(pages, lost, hs, k, c) ==
    \A h \in hs : /\ LeadTo(h, k, c)
                  /\ ~h.dirty => /\ h.root[1 - h.curr] = Swapped(c)
                                 /\ Alike(pages, c) /\ lost = {}

\* It is the only one.
LEMMA SurvivesOne ==
    ASSUME NEW pages, NEW lost, NEW c, Whole(pages, c), RootFields(c),
           Reads(pages, c) \cap lost = {},
           NEW hs, hs # {}, NEW k, AllLeadTo(pages, lost, hs, k, c)
    PROVE  SurvivorsOf(pages, lost, hs) = {StateOf(pages, c)}
  <1> DEFINE sp == Spared(pages, lost)
  <1>1. Whole(sp, c) /\ StateOf(sp, c) = StateOf(pages, c)
    BY SparedState
  <1>2. ASSUME NEW h \in hs
        PROVE  h.init /\ StateOf(sp, Recovered(h)) = StateOf(pages, c)
    <2>1. h.init /\ h.root[h.curr] = c
      BY DEF AllLeadTo, LeadTo
    <2>2. CASE h.dirty
      BY <1>1, <2>1, <2>2 DEF Recovered
    <2>3. CASE ~h.dirty
      <3>1. Recovered(h) = Swapped(c) /\ Alike(pages, c) /\ lost = {}
        BY <2>3 DEF Recovered, AllLeadTo
      <3>2. \A p \in Places : sp[p] = pages[p]
        BY <3>1 DEF Spared
      <3>3. Alike(sp, c)
        BY <3>1, <3>2, SparedAlike
      <3>4. /\ Swapped(c).index = c.shadow /\ Swapped(c).used = c.used
            /\ Swapped(c).rootObject = c.rootObject
        BY WholeFacts, SwappedFields
      <3> HIDE DEF sp
      <3>5. StateOf(sp, Swapped(c)) = StateOf(sp, c)
        BY <1>1, <3>3, <3>4, TwinState
      <3> QED
        BY <1>1, <2>1, <3>1, <3>5
    <2> QED
      BY <2>2, <2>3
  <1> HIDE DEF sp
  <1>3. \A h \in hs : (IF ~h.init THEN Empty ELSE StateOf(sp, Recovered(h))) = StateOf(pages, c)
    BY <1>2
  <1> QED
    BY <1>3 DEF SurvivorsOf, sp

-----------------------------------------------------------------------------
(* Changes of the working state, as steps.                                  *)

\* What the program and a crash see, given where the program is.
WorkOf(at, m) == IF at \in {"closed", "create", "close", "torn"} THEN Empty
                 ELSE IF at = "sync" THEN CState(m) ELSE WState(m)
PhaseOf(at) == CASE at \in {"closed", "create", "close"} -> "down"
                 [] at = "open" -> "up"
                 [] at = "torn" -> "lost"
                 [] OTHER -> "commit"

\* They are what the refinement shows of the state,
LEMMA SeenNow ==
    /\ WorkState = WorkOf(pc, Memory)
    /\ StorePhase = PhaseOf(pc)
    /\ Survivors = SurvivorsOf(pool, unflushed, headers)
  <1>1. Memory.pool = pool
    BY DEF Memory
  <1>2. WorkState = WorkOf(pc, Memory)
    BY <1>1 DEF WorkState, WorkRoot, WorkOf, CState, WState, StateOf
  <1> QED
    BY <1>2, SurvivorsAre DEF StorePhase, PhaseOf

\* and of the next one.
LEMMA SeenNext ==
    /\ WorkState' = WorkOf(pc', Memory')
    /\ StorePhase' = PhaseOf(pc')
    /\ Survivors' = SurvivorsOf(pool', unflushed', headers')
  <1>1. Memory'.pool = pool'
    BY DEF Memory
  <1>2. WorkState' = WorkOf(pc', Memory')
    BY <1>1 DEF WorkState, WorkRoot, WorkOf, CState, WState, StateOf
  <1>3. Survivors' = SurvivorsOf(pool', unflushed', headers')
    BY DEF Survivors, SurvivorsOf, Spared, Surviving, StateOf
  <1> QED
    BY <1>2, <1>3 DEF StorePhase, PhaseOf

\* Memory that was not changed has the same state in both roots.
LEMMA QuietAlike ==
    ASSUME NEW m, Good(m), Quiet(m)
    PROVE  /\ Alike(m.pool, Current(m))
           /\ Working(m).index = Current(m).shadow /\ Working(m).shadow = Current(m).index
           /\ Working(m).used = Current(m).used
           /\ Working(m).freeList = Current(m).freeList
  <1> DEFINE c == Current(m)
             w == Working(m)
             s == Swapped(c)
  <1>1. RootFields(c) /\ Roomy(c) /\ IsInjective(c.shadow) /\ Len(c.shadow) = Len(c.index)
    BY WorkingFields, WholeFacts DEF Good
  <1>2. /\ RootFields(s) /\ s.index = c.shadow /\ s.shadow = c.index /\ s.used = c.used
        /\ s.freeList = c.freeList
    BY <1>1, SwappedFields
  <1>3. w = [s EXCEPT !.rootObject = w.rootObject]
    BY DEF Quiet
  <1> HIDE DEF s, w
  <1>4. /\ w.index = s.index /\ w.shadow = s.shadow /\ w.used = s.used /\ w.freeList = s.freeList
    BY ONLY <1>2, <1>3 DEF RootFields
  <1>5. Marked(CE(m), WE(m), c.used, w.used, m.map) /\ m.map = {}
    BY GoodFacts DEF Beside, Quiet, w
  <1>6. \A q \in 0 .. c.used - 1 : WE(m)[q] = CE(m)[q]
    BY <1>5 DEF Marked
  <1>7. Alike(m.pool, c)
    BY <1>2, <1>4, <1>6 DEF Alike, WE, CE, w
  <1> QED
    BY <1>2, <1>4, <1>7 DEF w

\* While transactions run the committed state survives.
LEMMA OpenSurvives ==
    ASSUME NEW m, NEW cn, NEW lost, NEW hs, NEW fh, OpenIn(m, cn, lost, hs, fh), fh \in hs
    PROVE  SurvivorsOf(m.pool, lost, hs) = {CState(m)}
  <1> DEFINE c == Current(m)
  <1>1. /\ Good(m) /\ Reads(m.pool, c) \cap lost = {} /\ hs # {}
        /\ ~m.header.dirty => Quiet(m) /\ lost = {}
        /\ \A h \in hs : /\ LeadTo(h, m.header.curr, c)
                         /\ ~h.dirty => ~m.header.dirty /\ h.root[1 - h.curr] = Swapped(c)
    BY DEF OpenIn
  <1>2. Whole(m.pool, c) /\ RootFields(c)
    BY <1>1, WorkingFields DEF Good
  <1>3. AllLeadTo(m.pool, lost, hs, m.header.curr, c)
    BY <1>1, QuietAlike DEF AllLeadTo
  <1>5. hs # {} /\ Reads(m.pool, c) \cap lost = {}
    BY <1>1
  <1> HIDE DEF c
  <1>4. SurvivorsOf(m.pool, lost, hs) = {StateOf(m.pool, c)}
    BY ONLY <1>2, <1>3, <1>5, SurvivesOne
  <1> QED
    BY <1>4 DEF CState, c

\* What the changes of memory have in common.
IsChange(m, n) ==
    /\ Good(n) /\ Current(n) = Current(m)
    /\ n.header.curr = m.header.curr /\ n.header.init = m.header.init
    /\ n.header.dirty \in BOOLEAN /\ n.modified \in BOOLEAN
    /\ m.header.dirty => n.header.dirty
    /\ Frame(m, n, Places \ (CI(m) \cup Spots(CE(m), Current(m).used)))
    /\ ~n.modified => Quiet(n) /\ Working(n).rootObject = Current(n).rootObject
    /\ ~n.header.dirty => Quiet(n) /\ n.touched = {}

\* What a change leaves behind it.
Changed(n) ==
    /\ Base'
    /\ OpenIn(Memory', committed', unflushed', headers', fileHeader')
    /\ pc' = "open"
    /\ WorkState' = WState(n) /\ Survivors' = Survivors

\* Memory after the step.
LEMMA MemoryNext ==
    ASSUME NEW n, MemFields(n), header' = n.header, map' = n.map, modified' = n.modified,
           NEW flushed, PoolBecomes(n, flushed)
    PROVE  /\ Memory' = After(n) /\ pool' = PooledIn(n)
           /\ unflushed' = InUse(n) \cap (n.touched \cup IF flushed THEN {} ELSE unflushed)
  <1>1. /\ pool' = PooledIn(n)
        /\ unflushed' = InUse(n) \cap (n.touched \cup IF flushed THEN {} ELSE unflushed)
    BY DEF PoolBecomes, PooledIn
  <1>2. Memory' = [header |-> n.header, pool |-> PooledIn(n), map |-> n.map,
                   modified |-> n.modified, touched |-> {}]
    BY <1>1 DEF Memory
  <1>4. After(n) = [header |-> n.header, pool |-> PooledIn(n), map |-> n.map,
                    modified |-> n.modified, touched |-> {}]
    <2> DEFINE a == After(n)
    <2>1. /\ MemFields(a)
          /\ a.pool = PooledIn(n) /\ a.header = n.header /\ a.map = n.map
          /\ a.modified = n.modified /\ a.touched = {}
      BY AfterFields
    <2> HIDE DEF a
    <2> QED
      BY <2>1 DEF MemFields, a
  <1> QED
    BY <1>1, <1>2, <1>4

\* The header with its flag set.
LEMMA HeaderFlag ==
    ASSUME NEW h, HeaderFields(h), NEW flag, NEW d, d = [h EXCEPT !.dirty = flag]
    PROVE  /\ HeaderFields(d)
           /\ d.curr = h.curr /\ d.dirty = flag /\ d.init = h.init /\ d.root = h.root
  <1>1. h = [curr |-> h.curr, dirty |-> h.dirty, init |-> h.init, root |-> h.root]
    BY DEF HeaderFields
  <1>2. d = [curr |-> h.curr, dirty |-> flag, init |-> h.init, root |-> h.root]
    BY ONLY <1>1, d = [h EXCEPT !.dirty = flag]
  <1>3. d.curr = h.curr /\ d.dirty = flag /\ d.init = h.init /\ d.root = h.root
    BY ONLY <1>2
  <1> QED
    BY <1>2, <1>3 DEF HeaderFields

\* A change of memory leaves an open file, and all that survives as it was.
LEMMA Changing ==
    ASSUME Base, pc = "open",
           OpenIn(Memory, committed, unflushed, headers, fileHeader),
           NEW n, IsChange(Memory, n), Change(n)
    PROVE  Changed(n)
  <1> DEFINE m == Memory
             a == After(n)
             c == Current(m)
  <1>1. /\ MemFields(m) /\ m.header = header /\ m.touched = {}
        /\ header.dirty \in BOOLEAN /\ header.init \in BOOLEAN /\ header.curr \in 0 .. 1
        /\ HeaderFields(header) /\ m.pool = pool
    BY MemoryTypes
  <1>2. /\ Good(n) /\ Current(n) = c
        /\ n.header.curr = header.curr /\ n.header.init = header.init
        /\ n.header.dirty \in BOOLEAN /\ n.modified \in BOOLEAN
        /\ header.dirty => n.header.dirty
        /\ Frame(m, n, Places \ (CI(m) \cup Spots(CE(m), c.used)))
        /\ ~n.modified => Quiet(n) /\ Working(n).rootObject = Current(n).rootObject
        /\ ~n.header.dirty => Quiet(n) /\ n.touched = {}
    BY <1>1 DEF IsChange
  <1>3. /\ Good(m) /\ header.init /\ committed = c.used
        /\ ~header.dirty => Quiet(m) /\ unflushed = {}
        /\ Reads(m.pool, c) \cap unflushed = {}
        /\ fileHeader.dirty = header.dirty
        /\ \A h \in headers : /\ LeadTo(h, header.curr, c)
                              /\ ~h.dirty => ~header.dirty /\ h.root[1 - h.curr] = Swapped(c)
    BY <1>1 DEF OpenIn
  <1>4. /\ header' = n.header /\ map' = n.map /\ modified' = n.modified
        /\ PoolBecomes(n, header.dirty # n.header.dirty)
        /\ IF header.dirty = n.header.dirty THEN UNCHANGED <<fileHeader, headers>>
           ELSE Flush([header EXCEPT !.dirty = TRUE])
        /\ calls < MaxCalls /\ calls' = calls + 1
        /\ committed' = committed /\ pc' = "open"
    BY DEF Change, Becomes, Count
  <1> DEFINE fl == header.dirty # n.header.dirty
  <1>5. /\ Memory' = a /\ pool' = PooledIn(n)
        /\ unflushed' = InUse(n) \cap (n.touched \cup IF fl THEN {} ELSE unflushed)
    <2>1. MemFields(n) /\ PoolBecomes(n, fl)
      BY <1>2, <1>4 DEF Good
    <2> HIDE DEF fl
    <2> QED
      BY <1>4, <2>1, MemoryNext
  <1>6. IsAfter(n, a)
    BY <1>2, AfterGood
  <1> HIDE DEF a, fl
  <1>7. /\ Good(a) /\ MemFields(a) /\ a.header = n.header /\ a.map = n.map
        /\ a.modified = n.modified
        /\ Current(a) = c /\ Working(a) = Working(n)
        /\ Reads(a.pool, Current(a)) = Reads(n.pool, Current(n))
    BY <1>2, <1>6 DEF IsAfter
  <1>8. /\ CState(n) = CState(m)
        /\ Reads(n.pool, Current(n)) = Reads(m.pool, c)
    BY <1>2, <1>3, CStateKept DEF Good
  <1>9. WState(a) = WState(n) /\ CState(a) = CState(n)
    BY <1>2, <1>6, WStateAfter
  <1>10. Quiet(n) => Quiet(a)
    BY <1>2, <1>7 DEF Quiet
  <1>11. a.pool = pool'
    BY <1>5 DEF Memory
  <1>12. unflushed' \subseteq Places
    <2>1. n.touched \subseteq Places
      BY <1>1, <1>2 DEF Frame
    <2> QED
      BY <1>5, <2>1 DEF Base
  <1>13. Reads(a.pool, c) \cap unflushed' = {}
    <2>1. n.touched \cap Reads(m.pool, c) = {}
      <3>1. Reads(m.pool, c) = CI(m) \cup Spots(CE(m), c.used)
        BY <1>3, GoodUses
      <3>2. n.touched \subseteq Places \ Reads(m.pool, c)
        BY <1>1, <1>2, <3>1 DEF Frame
      <3> QED
        BY <3>2
    <2>2. Reads(a.pool, c) = Reads(m.pool, c)
      BY <1>7, <1>8
    <2> QED
      BY <1>3, <1>5, <2>1, <2>2
  <1>14. ~n.header.dirty => unflushed' = {}
    <2> SUFFICES ASSUME ~n.header.dirty PROVE unflushed' = {}
      OBVIOUS
    <2>1. ~header.dirty /\ n.touched = {}
      BY <1>2
    <2>2. unflushed = {}
      BY <1>3, <2>1
    <2> QED
      BY <1>5, <2>1, <2>2
  <1> DEFINE hd == [header EXCEPT !.dirty = TRUE]
  <1>15. hd.curr = header.curr /\ hd.init = header.init /\ hd.root = header.root
         /\ hd.dirty = TRUE /\ HeaderFields(hd)
    <2> DEFINE yes == TRUE
    <2>1. hd = [header EXCEPT !.dirty = yes]
      OBVIOUS
    <2> HIDE DEF yes, hd
    <2>2. /\ HeaderFields(hd)
          /\ hd.curr = header.curr /\ hd.dirty = yes /\ hd.init = header.init
          /\ hd.root = header.root
      BY ONLY <1>1, <2>1, HeaderFlag
    <2> QED
      BY <2>2 DEF yes
  <1> HIDE DEF hd
  <1>16. Header(hd)
    <2>1. Header(header)
      BY DEF Base
    <2> QED
      BY <1>15, <2>1 DEF Header
  <1>17. /\ fileHeader'.dirty = n.header.dirty
         /\ \A h \in headers' :
                /\ LeadTo(h, n.header.curr, c)
                /\ ~h.dirty => ~n.header.dirty /\ h.root[1 - h.curr] = Swapped(c)
         /\ \A h \in headers' \cup {fileHeader'} : HeaderFields(h) /\ Header(h)
         /\ fileHeader' \in headers'
    <2>1. CASE header.dirty = n.header.dirty
      <3>1. fileHeader' = fileHeader /\ headers' = headers
        BY <1>4, <2>1
      <3>2. fileHeader'.dirty = n.header.dirty
        BY <1>3, <2>1, <3>1
      <3>3. \A h \in headers' :
                /\ LeadTo(h, n.header.curr, c)
                /\ ~h.dirty => ~n.header.dirty /\ h.root[1 - h.curr] = Swapped(c)
        BY <1>2, <1>3, <2>1, <3>1
      <3>4. /\ \A h \in headers' \cup {fileHeader'} : HeaderFields(h) /\ Header(h)
            /\ fileHeader' \in headers'
        BY <3>1 DEF Base
      <3> QED
        BY <3>2, <3>3, <3>4
    <2>2. CASE header.dirty # n.header.dirty
      <3>1. fileHeader' = hd /\ headers' = {hd}
        BY <1>4, <2>2 DEF Flush, hd
      <3>2. n.header.dirty = TRUE
        BY <1>1, <1>2, <2>2
      <3>3. LeadTo(hd, n.header.curr, c)
        <4>1. header.root[header.curr] = c
          BY <1>1 DEF Current
        <4> HIDE DEF c
        <4> QED
          BY <1>2, <1>3, <1>15, <4>1 DEF LeadTo
      <3>4. fileHeader'.dirty = n.header.dirty
        BY <1>15, <3>1, <3>2
      <3>5. \A h \in headers' :
                /\ LeadTo(h, n.header.curr, c)
                /\ ~h.dirty => ~n.header.dirty /\ h.root[1 - h.curr] = Swapped(c)
        BY <1>15, <3>1, <3>3
      <3>6. /\ \A h \in headers' \cup {fileHeader'} : HeaderFields(h) /\ Header(h)
            /\ fileHeader' \in headers'
        BY <1>15, <1>16, <3>1
      <3> QED
        BY <3>4, <3>5, <3>6
    <2> QED
      BY <2>1, <2>2
  <1>18. OpenIn(Memory', committed', unflushed', headers', fileHeader')
    <2>1. OpenIn(a, committed', unflushed', headers', fileHeader')
      BY <1>2, <1>3, <1>4, <1>7, <1>10, <1>13, <1>14, <1>17 DEF OpenIn
    <2> QED
      BY <1>5, <2>1
  <1>19. Base'
    <2>1. HeaderFields(header') /\ Header(header')
      <3>1. MemFields(n) /\ Root(Current(n)) /\ Root(Working(n))
        BY <1>2, GoodFacts DEF Good, Roomy
      <3> QED
        BY <1>1, <1>2, <1>4, <3>1, HeaderTyped
    <2>2. \A h \in headers' \cup {header', fileHeader'} : HeaderFields(h) /\ Header(h)
      BY <1>17, <2>1
    <2>3. pool' = [p \in Places |-> pool'[p]] /\ \A p \in Places : PageType(pool'[p])
      BY <1>7, <1>11 DEF MemFields, Good
    <2>4. map' \subseteq 0 .. PageOf(MaxOid) /\ modified' \in BOOLEAN
      BY <1>2, <1>4 DEF Good
    <2>5. calls' \in 0 .. MaxCalls
      <3>1. calls \in 0 .. MaxCalls /\ MaxCalls \in Nat
        BY Layout DEF Base
      <3> QED
        BY ONLY <1>4, <3>1
    <2>6. committed' \in 0 .. MaxOid + 1
      BY <1>4 DEF Base
    <2> QED
      BY <1>4, <1>12, <1>17, <2>2, <2>3, <2>4, <2>5, <2>6 DEF Base
  <1>20. WorkState' = WState(n) /\ Survivors' = Survivors
    <2>1. WorkState' = WState(a)
      BY <1>4, <1>5, SeenNext DEF WorkOf
    <2>2. Survivors' = {CState(a)}
      BY <1>5, <1>11, <1>17, <1>18, OpenSurvives, SeenNext
    <2>3. Survivors = {CState(m)}
      <3>1. fileHeader \in headers
        BY DEF Base
      <3>2. SurvivorsOf(m.pool, unflushed, headers) = {CState(m)}
        BY <3>1, OpenSurvives
      <3> QED
        BY <1>1, <3>2, SeenNow
    <2> QED
      BY <1>8, <1>9, <2>1, <2>2, <2>3
  <1> QED
    BY <1>4, <1>18, <1>19, <1>20 DEF Changed

-----------------------------------------------------------------------------
(* The actions of a running program.                                        *)

\* The program has the file open.
OpenNow == /\ Base /\ pc = "open"
           /\ OpenIn(Memory, committed, unflushed, headers, fileHeader)

\* What a step of the file is for those who use the store.
StoreStep == Store!Next \/ UNCHANGED <<WorkState, Survivors, StorePhase>>

\* The states of the store are those of the abstract specification.
LEMMA SameStates ==
    /\ Store!NoObject = NoObject /\ Store!Unstored = Unstored /\ Store!Empty = Empty
    /\ \A b : Store!Stored(b) = Stored(b)
    /\ \A s : Store!Reachable(s) = Reachable(s)
  BY DEF Store!NoObject, NoObject, Store!Unstored, Unstored, Store!Stored, Stored,
         Store!Empty, Empty, Store!Reachable, Reachable

\* As long as nothing was changed no entry is the working state's own.
LEMMA OpenBusy ==
    ASSUME NEW m, NEW cn, NEW lost, NEW hs, NEW fh, OpenIn(m, cn, lost, hs, fh),
           m.header.dirty \in BOOLEAN, m.modified \in BOOLEAN
    PROVE  Busy(m)
  <1> SUFFICES ASSUME NEW q \in 0 .. Working(m).used - 1, WE(m)[q].mod, Quiet(m)
               PROVE  FALSE
    BY DEF OpenIn, Busy
  <1>1. Good(m)
    BY DEF OpenIn
  <1>2. /\ Alike(m.pool, Current(m)) /\ Working(m).index = Current(m).shadow
        /\ Working(m).used = Current(m).used
    BY <1>1, QuietAlike
  <1>3. WE(m)[q] = CE(m)[q]
    BY <1>2 DEF Alike, WE, CE
  <1>4. Fixed(CE(m), Current(m).used)
    BY <1>1, GoodFacts
  <1>5. ~CE(m)[q].mod
    BY <1>2, <1>4 DEF Fixed
  <1> QED
    BY <1>3, <1>5

\* What is known of memory and of the store then.
LEMMA OpenFacts ==
    ASSUME OpenNow
    PROVE  /\ Good(Memory) /\ Busy(Memory)
           /\ Memory.header = header /\ Memory.pool = pool /\ Memory.map = map
           /\ Memory.modified = modified /\ Memory.touched = {}
           /\ header.dirty \in BOOLEAN /\ modified \in BOOLEAN
           /\ committed = Current(Memory).used
           /\ WorkState = WState(Memory) /\ Survivors = {CState(Memory)}
           /\ StorePhase = "up"
           /\ \A q \in Users : WorkState.objs[q]
                 = IF q < Working(Memory).used THEN Content(pool, WE(Memory)[q]) ELSE NoObject
           /\ Bitmap(Memory) \in SUBSET Places
  <1>1. /\ Memory.header = header /\ Memory.pool = pool /\ Memory.map = map
        /\ Memory.modified = modified /\ Memory.touched = {}
        /\ header.dirty \in BOOLEAN
    BY MemoryTypes DEF OpenNow
  <1>2. modified \in BOOLEAN /\ fileHeader \in headers /\ pc = "open"
    BY DEF OpenNow, Base
  <1>3. Good(Memory) /\ committed = Current(Memory).used
    BY DEF OpenNow, OpenIn
  <1>4. Busy(Memory)
    BY <1>1, <1>2, OpenBusy DEF OpenNow
  <1>5. WorkState = WState(Memory) /\ StorePhase = "up"
    BY <1>2, SeenNow DEF WorkOf, PhaseOf
  <1>6. SurvivorsOf(Memory.pool, unflushed, headers) = {CState(Memory)}
    BY <1>2, OpenSurvives DEF OpenNow
  <1>7. Survivors = {CState(Memory)}
    BY <1>1, <1>6, SeenNow
  <1>8. \A q \in Users : WorkState.objs[q]
           = IF q < Working(Memory).used THEN Content(pool, WE(Memory)[q]) ELSE NoObject
    BY <1>1, <1>5, WObjects
  <1>9. Bitmap(Memory) \in SUBSET Places
    BY <1>3, GoodPlaces
  <1> QED
    BY <1>1, <1>2, <1>3, <1>4, <1>5, <1>7, <1>8, <1>9

\* A change of memory is a step of the store to the state it leaves.
LEMMA ChangeStep ==
    ASSUME OpenNow, NEW n, IsChange(Memory, n), Change(n)
    PROVE  Inv' /\ Store!Change(WState(n))
  <1>1. Changed(n)
    BY Changing DEF OpenNow
  <1>2. /\ Base' /\ pc' = "open"
        /\ OpenIn(Memory', committed', unflushed', headers', fileHeader')
        /\ WorkState' = WState(n) /\ Survivors' = Survivors
    BY <1>1 DEF Changed
  <1>3. Inv'
    BY <1>2 DEF Inv, PhaseInv
  <1>4. StorePhase' = "up"
    BY <1>2, SeenNext DEF PhaseOf
  <1>5. StorePhase = "up"
    BY OpenFacts
  <1> QED
    BY <1>2, <1>3, <1>4, <1>5 DEF Store!Change

\* allocateId() as it is written, and as AllocIn.
AllocateTo(m, k, o, full, at) ==
    SetPos(IF Working(m).freeList # 0
           THEN Mark([m EXCEPT !.header.root[k].freeList = GetPos(m, o).next], o)
           ELSE [(IF full THEN GrowIndex(m, at) ELSE m) EXCEPT !.header.root[k].used = @ + 1],
           o, At(NoPlace, FALSE))

\* The two are the same.
LEMMA AllocateIdIs ==
    ASSUME OpenNow, NEW m, m = SetDirty(Memory), NEW r, r = Working(m),
           NEW o, o = IF r.freeList # 0 THEN r.freeList ELSE r.used,
           NEW full, full = (r.used + 1 > Len(r.index) * HandlesPerPage),
           NEW at, r.freeList = 0 /\ full => /\ Bitmap(m) # Places
                                             /\ at \in NewPlaces(m, 2 * Len(r.index))
    PROVE  AllocateTo(m, 1 - header.curr, o, full, at) = AllocIn(m, at)
  <1>1. Good(m) /\ m.header.curr = header.curr
    <2>1. Good(Memory) /\ Memory.header = header
      BY OpenFacts
    <2> QED
      BY <2>1, DirtiedGood
  <1>2. CASE r.freeList # 0
    BY <1>1, <1>2 DEF AllocIn, PopIn, AllocateTo
  <1>3. CASE r.freeList = 0 /\ ~full
    BY <1>1, <1>3 DEF AllocIn, AppendIn, AllocateTo
  <1>4. CASE r.freeList = 0 /\ full
    <2> DEFINE g == GrowIndex(m, at)
    <2>1. Grew(m, g)
      BY <1>1, <1>4, Growing
    <2>2. g.header.curr = header.curr
      BY <1>1, <2>1 DEF Grew
    <2> HIDE DEF g
    <2>3. AllocIn(m, at) = AppendIn(g, o)
      BY <1>4 DEF AllocIn, g
    <2>4. AppendIn(g, o)
             = SetPos([g EXCEPT !.header.root[1 - header.curr].used = @ + 1], o, At(NoPlace, FALSE))
      BY <2>2 DEF AppendIn
    <2>5. AllocateTo(m, 1 - header.curr, o, full, at)
             = SetPos([g EXCEPT !.header.root[1 - header.curr].used = @ + 1], o, At(NoPlace, FALSE))
      BY <1>4 DEF AllocateTo, g
    <2> QED
      BY <2>3, <2>4, <2>5
  <1> QED
    BY <1>2, <1>3, <1>4

\* allocateId() gives out an identifier of the store.
LEMMA AllocateIdStep ==
    ASSUME OpenNow, AllocateId
    PROVE  Inv' /\ StoreStep
  <1> DEFINE m == Memory
             d == SetDirty(m)
             r == Working(d)
             o == IF r.freeList # 0 THEN r.freeList ELSE r.used
             full == r.used + 1 > Len(r.index) * HandlesPerPage
             grows == r.freeList = 0 /\ full
  <1>1. PICK at \in IF grows THEN NewPlaces(d, 2 * Len(r.index)) ELSE {<<>>} :
            /\ o <= MaxOid
            /\ grows => Room(4 * Len(r.index) + 2)
            /\ Change(AllocateTo(d, 1 - header.curr, o, full, at))
    BY DEF AllocateId, AllocateTo
  <1> DEFINE n == AllocIn(d, at)
  <1>2. /\ Good(m) /\ header.dirty \in BOOLEAN /\ m.header = header
        /\ Bitmap(m) \in SUBSET Places /\ WorkState = WState(m)
    BY OpenFacts
  <1>3. Bitmap(d) = Bitmap(m) /\ Working(d) = Working(m)
    BY <1>2, DirtiedGood
  <1>4. grows => Cardinality(Places \ Bitmap(m)) >= 4 * Len(r.index) + 2
    BY <1>1 DEF Room
  <1>5. grows => Bitmap(d) # Places
    <2>1. Len(r.index) \in Nat
      BY <1>2, <1>3, GoodFacts, RoomyFacts
    <2>2. Cardinality(Places \ Bitmap(m)) \in Nat
          /\ (Cardinality(Places \ Bitmap(m)) >= 1 => Bitmap(m) # Places)
      BY <1>2, RoomLeft
    <2> HIDE DEF r, full
    <2> QED
      BY <1>3, <1>4, <2>1, <2>2
  <1>6. grows => at \in NewPlaces(d, 2 * Len(r.index))
    BY <1>1
  <1> HIDE DEF n
  <1>7. Change(n)
    <2> HIDE DEF m, d, r, o, full
    <2>1. /\ d = SetDirty(Memory) /\ r = Working(d)
          /\ o = (IF r.freeList # 0 THEN r.freeList ELSE r.used)
          /\ full = (r.used + 1 > Len(r.index) * HandlesPerPage)
      BY DEF d, r, o, full, m
    <2>2. AllocateTo(d, 1 - header.curr, o, full, at) = AllocIn(d, at)
      BY <1>5, <1>6, <2>1, AllocateIdIs
    <2> QED
      BY <1>1, <2>2 DEF n
  <1>8. IsAllocated(m, n, o)
    <2> DEFINE gr == grows
    <2>1. /\ d = SetDirty(m) /\ r = Working(d)
          /\ o = (IF r.freeList # 0 THEN r.freeList ELSE r.used)
          /\ gr = (r.freeList = 0 /\ r.used + 1 > Len(r.index) * HandlesPerPage)
      OBVIOUS
    <2>2. o <= MaxOid
      BY <1>1
    <2> HIDE DEF gr, r, o, d, full
    <2>3. /\ gr => Cardinality(Places \ Bitmap(m)) >= 4 * Len(r.index) + 2
          /\ gr => at \in NewPlaces(d, 2 * Len(r.index))
          /\ n = AllocIn(d, at)
      BY <1>4, <1>6 DEF gr, n
    <2> QED
      BY ONLY <1>2, <2>1, <2>2, <2>3, Allocating
  <1>9. IsChange(m, n)
    <2> HIDE DEF o, n, m
    <2>1. Kept(m, n, {o}) /\ n.header.dirty = TRUE /\ n.modified = TRUE
      BY <1>8 DEF IsAllocated
    <2>2. m.header.dirty \in BOOLEAN
      BY <1>2
    <2> QED
      BY ONLY <2>1, <2>2 DEF Kept, IsChange
  <1> HIDE DEF o
  <1>10. /\ WState(m).objs[o] = NoObject
         /\ WState(n) = [WState(m) EXCEPT !.objs[o] = Unstored]
         /\ o \in Users
    <2>1. o \in Users
      BY <1>8 DEF IsAllocated
    <2> HIDE DEF m
    <2> QED
      BY ONLY <1>2, <1>8, <2>1, AllocatedState
  <1>11. Inv' /\ Store!Change(WState(n))
    BY <1>7, <1>9, ChangeStep
  <1>12. Store!Allocate
    <2>1. /\ WorkState.objs[o] = Store!NoObject
          /\ Store!Change([WorkState EXCEPT !.objs[o] = Store!Unstored])
      <3> HIDE DEF m
      <3> QED
        BY ONLY <1>2, <1>10, <1>11, SameStates
    <2> QED
      BY <1>10, <2>1 DEF Store!Allocate
  <1> QED
    BY <1>11, <1>12 DEF StoreStep, Store!Next

\* What an entry of a user is, from what the store has.
LEMMA ContentIs ==
    ASSUME NEW pages, NEW e
    PROVE  /\ Content(pages, e) # NoObject => ~e.free
           /\ Content(pages, e).is = "stored" => ~e.free /\ e.pos # NoPlace
           /\ Content(pages, e) # Unstored => e.free \/ e.pos # NoPlace
           /\ ~e.free /\ e.pos # NoPlace => Content(pages, e) = Stored(pages[e.pos].refs)
           /\ NoObject.is # "stored" /\ Unstored.is # "stored"
           /\ \A b : Stored(b).is = "stored" /\ Stored(b).refs = b
  BY DEF Content, NoObject, Unstored, Stored

\* An identifier that the store has is one of the working index.
LEMMA UserEntry ==
    ASSUME OpenNow, NEW o \in Users
    PROVE  /\ WorkState.objs[o] # NoObject => o < Working(Memory).used /\ ~WE(Memory)[o].free
           /\ WorkState.objs[o].is = "stored"
                 => /\ o < Working(Memory).used /\ ~WE(Memory)[o].free
                    /\ WE(Memory)[o].pos # NoPlace
           /\ o < Working(Memory).used /\ WorkState.objs[o] # Unstored
                 => WE(Memory)[o].free \/ WE(Memory)[o].pos # NoPlace
           /\ o \in Ids /\ GetPos(Memory, o) = WE(Memory)[o]
  <1>1. WorkState.objs[o]
           = IF o < Working(Memory).used THEN Content(pool, WE(Memory)[o]) ELSE NoObject
    BY OpenFacts
  <1>2. o \in Ids
    BY Sizes DEF Users, Ids
  <1>3. GetPos(Memory, o) = WE(Memory)[o]
    BY <1>2, Looked
  <1> QED
    BY <1>1, <1>2, <1>3, ContentIs

\* storeObject() changes one object of the store.
LEMMA StoreObjectStep ==
    ASSUME OpenNow, NEW o \in Users, NEW b \in Bodies, StoreObject(o, b)
    PROVE  Inv' /\ StoreStep
  <1> DEFINE m == Memory
             n == StoreIn(m, o, b)
  <1>1. /\ Good(m) /\ Busy(m) /\ header.dirty \in BOOLEAN /\ m.header = header /\ m.pool = pool
        /\ WorkState = WState(m)
    BY OpenFacts
  <1>2. /\ WorkState.objs[o] # NoObject
        /\ Cardinality(Places \ Bitmap(m)) >= 2
    BY DEF StoreObject, Room
  <1>3. Change(n)
    BY <1>1 DEF StoreObject, StoreIn
  <1> HIDE DEF n
  <1>4. o < Working(m).used /\ ~WE(m)[o].free
    BY <1>2, UserEntry
  <1>5. IsStored(m, n, o, b)
    <2>1. n = StoreIn(m, o, b)
      BY DEF n
    <2> HIDE DEF m
    <2> QED
      BY ONLY o \in Users, b \in Bodies, <1>1, <1>2, <1>4, <2>1, Storing
  <1>6. IsChange(m, n)
    <2>1. Kept(m, n, {o}) /\ n.header.dirty = TRUE /\ n.modified = TRUE
      BY <1>5 DEF IsStored
    <2> HIDE DEF m
    <2> QED
      BY ONLY <2>1 DEF Kept, IsChange
  <1>7. WState(n) = [WState(m) EXCEPT !.objs[o] = Stored(b)]
    BY <1>1, <1>4, <1>5, StoredState
  <1>8. Inv' /\ Store!Change(WState(n))
    BY <1>3, <1>6, ChangeStep
  <1>9. Store!Store
    <2>1. /\ WorkState.objs[o] # Store!NoObject
          /\ Store!Change([WorkState EXCEPT !.objs[o] = Store!Stored(b)])
      <3> HIDE DEF m
      <3> QED
        BY ONLY <1>1, <1>2, <1>7, <1>8, SameStates
    <2> QED
      BY <2>1 DEF Store!Store
  <1> QED
    BY <1>8, <1>9 DEF StoreStep, Store!Next

\* freeObject() releases one identifier.
LEMMA FreeObjectStep ==
    ASSUME OpenNow, NEW o \in Users, FreeObject(o)
    PROVE  Inv' /\ StoreStep
  <1> DEFINE m == Memory
             f == IF WE(m)[o].mod THEN Free(m, {WE(m)[o].pos}) ELSE CloneBitmap(m)
             G == {o}
             n == FreeIds(f, G)
  <1>1. /\ Good(m) /\ Busy(m) /\ header.dirty \in BOOLEAN /\ m.header = header
        /\ WorkState = WState(m) /\ Bitmap(m) \in SUBSET Places
    BY OpenFacts
  <1>2. WorkState.objs[o].is = "stored" /\ Cardinality(Places \ Bitmap(m)) >= 1
    BY DEF FreeObject, Room
  <1>3. GetPos(m, o) = WE(m)[o]
    BY UserEntry
  <1>4. Change(n)
    BY <1>3 DEF FreeObject
  <1>5. o < Working(m).used /\ ~WE(m)[o].free
    BY <1>2, UserEntry
  <1>6. Bitmap(m) # Places
    BY <1>1, <1>2, RoomLeft
  <1> HIDE DEF n
  <1>7. IsFreed(m, n, G)
    <2>1. \/ f = CloneBitmap(m) /\ \A q \in G : ~WE(m)[q].mod
          \/ \E q \in G : G = {q} /\ WE(m)[q].mod /\ f = Free(m, {WE(m)[q].pos})
      OBVIOUS
    <2>2. /\ G \in SUBSET Users /\ G # {}
          /\ \A q \in G : q < Working(m).used /\ ~WE(m)[q].free
      BY <1>5
    <2>3. n = FreeIds(f, G)
      BY DEF n
    <2> HIDE DEF m, G, f
    <2> QED
      BY ONLY <1>1, <1>6, <2>1, <2>2, <2>3, FreeingIds
  <1>8. IsChange(m, n)
    <2>1. Kept(m, n, G) /\ n.header.dirty = TRUE /\ n.modified = TRUE
      BY <1>7 DEF IsFreed
    <2> HIDE DEF m
    <2> QED
      BY ONLY <2>1 DEF Kept, IsChange
  <1>9. WState(n) = [WState(m) EXCEPT !.objs[o] = NoObject]
    <2> DEFINE s == WState(m)
               t == WState(n)
    <2>1. /\ t.root = s.root
          /\ t.objs = [q \in Users |-> IF q \in G THEN NoObject ELSE s.objs[q]]
      <3>1. G \in SUBSET Users
        OBVIOUS
      <3> HIDE DEF G, m
      <3> QED
        BY ONLY <1>1, <1>7, <3>1, FreedState
    <2>2. /\ s = [root |-> s.root, objs |-> s.objs] /\ t = [root |-> t.root, objs |-> t.objs]
          /\ s.objs = [q \in Users |-> s.objs[q]]
      <3>1. /\ s = [root |-> Working(m).rootObject, objs |-> s.objs]
            /\ s.root = Working(m).rootObject
            /\ t = [root |-> Working(n).rootObject, objs |-> t.objs]
            /\ t.root = Working(n).rootObject
            /\ s.objs = [q \in Users |-> s.objs[q]]
        BY WObjects
      <3> HIDE DEF s, t
      <3> QED
        BY ONLY <3>1
    <2> HIDE DEF s, t
    <2>3. t.objs = [s.objs EXCEPT ![o] = NoObject]
      BY ONLY <2>1, <2>2 DEF G
    <2>4. t = [s EXCEPT !.objs[o] = NoObject]
      BY ONLY <2>1, <2>2, <2>3
    <2> QED
      BY <2>4 DEF s, t
  <1>10. Inv' /\ Store!Change(WState(n))
    BY <1>4, <1>8, ChangeStep
  <1>11. Store!Release
    <2>1. Store!Change([WorkState EXCEPT !.objs[o] = Store!NoObject])
      <3> HIDE DEF m
      <3> QED
        BY ONLY <1>1, <1>9, <1>10, SameStates
    <2> QED
      BY <2>1 DEF Store!Release
  <1> QED
    BY <1>10, <1>11 DEF StoreStep, Store!Next

\* setRoot() changes the root of the store.
LEMMA SetRootStep ==
    ASSUME OpenNow, NEW o \in Users \cup {0}, SetRoot(o)
    PROVE  Inv' /\ StoreStep
  <1> DEFINE m == Memory
             n == RootIn(m, o)
  <1>1. /\ Good(m) /\ header.dirty \in BOOLEAN /\ m.header = header
        /\ WorkState = WState(m) /\ m.touched = {}
        /\ m.header.dirty \in BOOLEAN
    BY OpenFacts
  <1>2. Change(n)
    BY <1>1 DEF SetRoot, RootIn
  <1> HIDE DEF n
  <1>3. /\ Kept(m, n, {}) /\ WE(n) = WE(m) /\ n.modified = TRUE /\ n.map = m.map
        /\ n.header.dirty = m.header.dirty /\ n.touched = m.touched /\ n.pool = m.pool
        /\ Working(n) = [Working(m) EXCEPT !.rootObject = o]
        /\ Working(n).rootObject = o /\ Working(n).used = Working(m).used
    <2>1. n = RootIn(m, o)
      BY DEF n
    <2> HIDE DEF m
    <2>2. IsRooted(m, n, o)
      BY ONLY o \in Users \cup {0}, <1>1, <2>1, SettingRoot
    <2> QED
      BY ONLY <2>2 DEF IsRooted
  <1>4. ~m.header.dirty => Quiet(n)
    <2> SUFFICES ASSUME ~m.header.dirty PROVE Quiet(n)
      OBVIOUS
    <2>1. Quiet(m)
      BY DEF OpenNow, OpenIn
    <2>2. Current(n) = Current(m)
      BY <1>3 DEF Kept
    <2> DEFINE s == Swapped(Current(m))
    <2>3. m.map = {} /\ Working(m) = [s EXCEPT !.rootObject = Working(m).rootObject]
      BY <2>1 DEF Quiet
    <2> HIDE DEF s, m
    <2>4. Working(n) = [s EXCEPT !.rootObject = o]
      BY ONLY <1>3, <2>3
    <2> QED
      BY <1>3, <2>2, <2>3, <2>4 DEF Quiet, s
  <1>5. IsChange(m, n)
    <2> HIDE DEF m
    <2> QED
      BY ONLY <1>1, <1>3, <1>4 DEF Kept, IsChange
  <1>6. WState(n) = [WState(m) EXCEPT !.root = o]
    <2> HIDE DEF m
    <2> QED
      BY <1>1, <1>3, RootState
  <1>7. Inv' /\ Store!Change(WState(n))
    BY <1>2, <1>5, ChangeStep
  <1>8. Store!SetRoot
    <2>1. Store!Change([WorkState EXCEPT !.root = o])
      <3> HIDE DEF m
      <3> QED
        BY ONLY <1>1, <1>6, <1>7
    <2> QED
      BY <2>1 DEF Store!SetRoot
  <1> QED
    BY <1>7, <1>8 DEF StoreStep, Store!Next

\* Before any change the working state is the committed one.
LEMMA QuietState ==
    ASSUME NEW m, Good(m), Quiet(m), Working(m).rootObject = Current(m).rootObject
    PROVE  /\ WState(m) = CState(m)
           /\ \A q \in 0 .. Working(m).used - 1 : WE(m)[q] = CE(m)[q] /\ ~WE(m)[q].mod
           /\ \A q \in Users : q < Working(m).used /\ ~WE(m)[q].free => WE(m)[q].pos # NoPlace
  <1>1. /\ Alike(m.pool, Current(m)) /\ Working(m).index = Current(m).shadow
        /\ Working(m).used = Current(m).used
    BY QuietAlike
  <1>2. Whole(m.pool, Current(m)) /\ Fixed(CE(m), Current(m).used) /\ Working(m).used \in Nat
    BY GoodFacts DEF Good
  <1>3. WState(m) = CState(m)
    BY <1>1, <1>2, TwinState DEF WState, CState
  <1>4. \A q \in 0 .. Working(m).used - 1 : WE(m)[q] = CE(m)[q]
    BY <1>1 DEF Alike, WE, CE
  <1>5. \A q \in 0 .. Working(m).used - 1 : ~CE(m)[q].mod
    BY <1>1, <1>2 DEF Fixed
  <1>6. \A q \in Users : q < Working(m).used => q \in 0 .. Working(m).used - 1
    BY <1>2, UserInRange
  <1>7. \A q \in Users : q < Working(m).used /\ ~CE(m)[q].free => CE(m)[q].pos # NoPlace
    BY <1>1, <1>2, <1>6 DEF Fixed
  <1> QED
    BY <1>3, <1>4, <1>5, <1>6, <1>7

\* Without what is unreachable.
LEMMA Collected ==
    ASSUME NEW s, s.objs = [q \in Users |-> s.objs[q]], NEW t, NEW R, NEW G \in SUBSET Users,
           s = [root |-> s.root, objs |-> s.objs], t = [root |-> s.root, objs |-> t.objs],
           t.objs = [q \in Users |-> IF q \in G THEN NoObject ELSE s.objs[q]],
           \A q \in G : q \notin R,
           \A q \in Users \ G : q \in R \/ s.objs[q] = NoObject
    PROVE  t = [s EXCEPT !.objs = [q \in Users |-> IF q \in R THEN @[q] ELSE NoObject]]
  <1>1. t.objs = [q \in Users |-> IF q \in R THEN s.objs[q] ELSE NoObject]
    OBVIOUS
  <1>2. [s EXCEPT !.objs = [q \in Users |-> IF q \in R THEN @[q] ELSE NoObject]]
           = [root |-> s.root, objs |-> [q \in Users |-> IF q \in R THEN s.objs[q] ELSE NoObject]]
    BY ONLY s = [root |-> s.root, objs |-> s.objs]
  <1> QED
    BY ONLY <1>1, <1>2, t = [root |-> s.root, objs |-> t.objs]

\* What gc() removes: objects of the working state, before any change of it.
LEMMA GarbageIs ==
    ASSUME OpenNow, GCRuns
    PROVE  /\ WorkState = WState(Memory) /\ Survivors = {WorkState}
           /\ Garbage = {o \in Users : /\ o < committed
                                       /\ WorkState.objs[o].is = "stored"
                                       /\ o \notin Reachable(WorkState)}
  <1> DEFINE m == Memory
             s == WState(m)
  <1>1. /\ Good(m) /\ m.modified = modified /\ m.pool = pool
        /\ WorkState = s /\ Survivors = {CState(m)}
    BY OpenFacts
  <1>2. Quiet(m) /\ Working(m).rootObject = Current(m).rootObject
    BY <1>1 DEF OpenNow, OpenIn, GCRuns
  <1>3. s = CState(m)
    BY <1>1, <1>2, QuietState
  <1>4. Garbage = {o \in Users : /\ o < committed
                                /\ s.objs[o].is = "stored"
                                /\ o \notin Reachable(s)}
    BY <1>1, <1>3 DEF Garbage, CState, StateOf
  <1> QED
    BY <1>1, <1>3, <1>4

\* gc() releases what cannot be reached, and nothing else.
LEMMA StartGCStep ==
    ASSUME OpenNow, StartGC
    PROVE  Inv' /\ StoreStep
  <1> DEFINE m == Memory
             G == Garbage
             f == CloneBitmap(m)
             n == FreeIds(f, G)
             s == WState(m)
             t == WState(n)
  <1>1. /\ Good(m) /\ Busy(m) /\ m.modified = modified /\ m.pool = pool
        /\ WorkState = s /\ Bitmap(m) \in SUBSET Places
        /\ committed = Current(m).used
        /\ \A q \in Users : s.objs[q]
              = IF q < Working(m).used THEN Content(pool, WE(m)[q]) ELSE NoObject
    BY OpenFacts
  <1>2. ~modified /\ G # {} /\ Cardinality(Places \ Bitmap(m)) >= 1 /\ Change(n)
    BY DEF StartGC, GCRuns, Room
  <1>3. Quiet(m) /\ Working(m).rootObject = Current(m).rootObject
    BY <1>1, <1>2 DEF OpenNow, OpenIn
  <1>4. /\ s = CState(m)
        /\ \A q \in 0 .. Working(m).used - 1 : WE(m)[q] = CE(m)[q] /\ ~WE(m)[q].mod
        /\ \A q \in Users : q < Working(m).used /\ ~WE(m)[q].free => WE(m)[q].pos # NoPlace
        /\ Working(m).used = Current(m).used
    BY <1>1, <1>3, QuietState, QuietAlike
  <1>5. G = {o \in Users : /\ o < committed
                           /\ s.objs[o].is = "stored"
                           /\ o \notin Reachable(s)}
    BY <1>1, <1>4 DEF Garbage, CState, StateOf
  <1>6. Bitmap(m) # Places
    BY <1>1, <1>2, RoomLeft
  <1>7. \A o \in G : o < Working(m).used /\ ~WE(m)[o].free /\ ~WE(m)[o].mod
    <2> TAKE o \in G
    <2>1. o \in Users /\ o < Working(m).used /\ s.objs[o].is = "stored"
      BY <1>1, <1>4, <1>5
    <2>2. ~WE(m)[o].free
      BY <1>1, <2>1, ContentIs
    <2>3. o \in 0 .. Working(m).used - 1
      BY <1>1, <2>1, GoodFacts, UserInRange
    <2> QED
      BY <1>4, <2>1, <2>2, <2>3
  <1>8. G \in SUBSET Users
    BY <1>5
  <1> HIDE DEF n, G
  <1>9. IsFreed(m, n, G)
    <2>1. \/ f = CloneBitmap(m) /\ \A q \in G : ~WE(m)[q].mod
          \/ \E q \in G : G = {q} /\ WE(m)[q].mod /\ f = Free(m, {WE(m)[q].pos})
      BY <1>7
    <2>2. n = FreeIds(f, G) /\ \A o \in G : o < Working(m).used /\ ~WE(m)[o].free
      BY <1>7 DEF n
    <2> HIDE DEF m, f
    <2> QED
      BY ONLY <1>1, <1>2, <1>6, <1>8, <2>1, <2>2, FreeingIds
  <1>10. IsChange(m, n)
    <2>1. Kept(m, n, G) /\ n.header.dirty = TRUE /\ n.modified = TRUE
      BY <1>9 DEF IsFreed
    <2> HIDE DEF m
    <2> QED
      BY ONLY <2>1 DEF Kept, IsChange
  <1>11. t = [s EXCEPT !.objs = [q \in Users |-> IF q \in Reachable(s) THEN @[q] ELSE NoObject]]
    <2>1. /\ t.root = s.root
          /\ t.objs = [q \in Users |-> IF q \in G THEN NoObject ELSE s.objs[q]]
      <3> HIDE DEF m
      <3> QED
        BY ONLY <1>1, <1>8, <1>9, FreedState
    <2>2. /\ s = [root |-> s.root, objs |-> s.objs] /\ t = [root |-> t.root, objs |-> t.objs]
          /\ s.objs = [q \in Users |-> s.objs[q]]
      <3>1. /\ s = [root |-> Working(m).rootObject, objs |-> s.objs]
            /\ s.root = Working(m).rootObject
            /\ t = [root |-> Working(n).rootObject, objs |-> t.objs]
            /\ t.root = Working(n).rootObject
            /\ s.objs = [q \in Users |-> s.objs[q]]
        BY WObjects
      <3> HIDE DEF s, t
      <3> QED
        BY ONLY <3>1
    <2>3. \A q \in G : q \notin Reachable(s)
      BY <1>5
    <2>4. \A q \in Users \ G : q \in Reachable(s) \/ s.objs[q] = NoObject
      <3> SUFFICES ASSUME NEW q \in Users \ G, q \notin Reachable(s)
                   PROVE  s.objs[q] = NoObject
        OBVIOUS
      <3>1. ~(q < committed) \/ s.objs[q].is # "stored"
        BY <1>5
      <3>2. CASE ~(q < Working(m).used)
        BY <1>1, <3>2
      <3>3. CASE q < Working(m).used
        <4>1. s.objs[q] = Content(pool, WE(m)[q])
          BY <1>1, <3>3
        <4>2. CASE WE(m)[q].free
          BY <4>1, <4>2 DEF Content
        <4>3. CASE ~WE(m)[q].free
          <5>1. WE(m)[q].pos # NoPlace
            BY <1>4, <3>3, <4>3
          <5>2. s.objs[q].is = "stored"
            BY <4>1, <4>3, <5>1, ContentIs
          <5> QED
            BY <1>1, <1>4, <3>1, <3>3, <5>2
        <4> QED
          BY <4>2, <4>3
      <3> QED
        BY <3>2, <3>3
    <2> DEFINE R == Reachable(s)
    <2>5. /\ \A q \in G : q \notin R
          /\ \A q \in Users \ G : q \in R \/ s.objs[q] = NoObject
      BY <2>3, <2>4
    <2> HIDE DEF s, t, R
    <2>6. t = [root |-> s.root, objs |-> t.objs]
      BY <2>1, <2>2
    <2>7. t = [s EXCEPT !.objs = [q \in Users |-> IF q \in R THEN @[q] ELSE NoObject]]
      BY ONLY <1>8, <2>1, <2>2, <2>5, <2>6, Collected
    <2> QED
      BY <2>7 DEF R
  <1>12. Inv' /\ Store!Change(t)
    BY <1>2, <1>10, ChangeStep
  <1>13. Store!Collect
    <2>1. Store!Change([WorkState EXCEPT !.objs =
              [q \in Users |-> IF q \in Store!Reachable(WorkState) THEN @[q] ELSE Store!NoObject]])
      <3> HIDE DEF s, t
      <3> QED
        BY ONLY <1>1, <1>11, <1>12, SameStates
    <2> QED
      BY <2>1 DEF Store!Collect
  <1> QED
    BY <1>12, <1>13 DEF StoreStep, Store!Next

\* A rollback goes back to the one state that survives.
LEMMA RollbackStep ==
    ASSUME OpenNow, Rollback
    PROVE  Inv' /\ StoreStep
  <1> DEFINE m == Memory
             c == Current(m)
             n == RollIn(m, committed)
  <1>1. /\ Good(m) /\ m.header = header /\ m.map = map /\ m.touched = {}
        /\ header.dirty \in BOOLEAN /\ committed = c.used
        /\ Survivors = {CState(m)}
    BY OpenFacts
  <1>2. Change(n)
    BY <1>1 DEF Rollback, RollIn
  <1>3. Whole(m.pool, c)
    BY <1>1 DEF Good
  <1> HIDE DEF n
  <1>4. /\ IsRolled(m, n) /\ n.map = {} /\ n.modified = FALSE
        /\ m.map = {} /\ Working(m).index = c.shadow => n.touched = m.touched
    <2>1. n = RollIn(m, Current(m).used)
      BY <1>1 DEF n
    <2> QED
      BY <1>1, <2>1, Rolling
  <1>5. /\ Good(n) /\ Current(n) = c
        /\ Working(n) = Swapped(c)
        /\ n.header.curr = m.header.curr /\ n.header.init = m.header.init
        /\ n.header.dirty = m.header.dirty
        /\ Frame(m, n, ToSet(c.shadow))
    BY <1>4 DEF IsRolled
  <1>6. /\ WState(n) = CState(n) /\ CState(n) = CState(m)
        /\ ToSet(c.shadow) \cap Reads(m.pool, c) = {}
        /\ ToSet(c.shadow) \in SUBSET Places
    BY <1>3, <1>4, RolledState, WholeUses
  <1>7. Frame(m, n, Places \ (CI(m) \cup Spots(CE(m), c.used)))
    <2>1. Reads(m.pool, c) = CI(m) \cup Spots(CE(m), c.used)
      BY DEF Reads, CI, CE
    <2>2. ToSet(c.shadow) \subseteq Places \ (CI(m) \cup Spots(CE(m), c.used))
      BY <1>6, <2>1
    <2> QED
      BY <1>5, <2>2, FrameMore
  <1>8. Quiet(n) /\ Working(n).rootObject = c.rootObject
    <2>1. /\ RootFields(c) /\ Roomy(c) /\ IsInjective(c.shadow) /\ Len(c.shadow) = Len(c.index)
      BY <1>1, <1>3, WholeFacts, WorkingFields DEF Good
    <2> DEFINE s == Swapped(c)
    <2>2. RootFields(s) /\ s.rootObject = c.rootObject
      BY <2>1, SwappedFields
    <2> HIDE DEF s
    <2>3. [s EXCEPT !.rootObject = s.rootObject] = s
      BY ONLY <2>2 DEF RootFields
    <2> QED
      BY <1>4, <1>5, <2>2, <2>3 DEF Quiet, s
  <1>9. ~n.header.dirty => n.touched = {}
    <2> SUFFICES ASSUME ~n.header.dirty PROVE n.touched = {}
      OBVIOUS
    <2>1. Quiet(m)
      BY <1>5 DEF OpenNow, OpenIn
    <2>2. m.map = {} /\ Working(m).index = c.shadow
      BY <1>1, <2>1, QuietAlike DEF Quiet
    <2> QED
      BY <1>1, <1>4, <2>2
  <1>10. IsChange(m, n)
    <2>1. n.header.dirty \in BOOLEAN /\ n.modified \in BOOLEAN /\ ~n.modified
      BY <1>1, <1>4, <1>5
    <2> QED
      BY <1>5, <1>7, <1>8, <1>9, <2>1 DEF IsChange
  <1>11. Inv' /\ Store!Change(WState(n))
    BY <1>2, <1>10, ChangeStep
  <1>12. Store!Rollback
    BY <1>1, <1>6, <1>11 DEF Store!Rollback
  <1> QED
    BY <1>11, <1>12 DEF StoreStep, Store!Next

-----------------------------------------------------------------------------
(* A crash.                                                                 *)

\* The header h leads to a state that can be read from what a crash leaves.
Readable(pages, h) ==
    h.init => /\ Whole(pages, h.root[h.curr])
              /\ ~h.dirty => /\ h.root[1 - h.curr] = Swapped(h.root[h.curr])
                             /\ Alike(pages, h.root[h.curr])

\* While transactions run every header on the file is such a one,
LEMMA ReadableOpen ==
    ASSUME NEW m, NEW cn, NEW lost, NEW hs, NEW fh, OpenIn(m, cn, lost, hs, fh), NEW h \in hs
    PROVE  Readable(Spared(m.pool, lost), h)
  <1> DEFINE c == Current(m)
             sp == Spared(m.pool, lost)
  <1>1. /\ Good(m) /\ Reads(m.pool, c) \cap lost = {}
        /\ ~m.header.dirty => Quiet(m) /\ lost = {}
        /\ LeadTo(h, m.header.curr, c)
        /\ ~h.dirty => ~m.header.dirty /\ h.root[1 - h.curr] = Swapped(c)
    BY DEF OpenIn
  <1>2. Whole(m.pool, c) /\ h.root[h.curr] = c
    BY <1>1 DEF Good, LeadTo
  <1>3. Whole(sp, c)
    BY <1>1, <1>2, SparedState
  <1>4. ~h.dirty => h.root[1 - h.curr] = Swapped(c) /\ Alike(sp, c)
    <2> SUFFICES ASSUME ~h.dirty PROVE h.root[1 - h.curr] = Swapped(c) /\ Alike(sp, c)
      OBVIOUS
    <2>1. Quiet(m) /\ lost = {} /\ h.root[1 - h.curr] = Swapped(c)
      BY <1>1
    <2>2. Alike(m.pool, c)
      BY <1>1, <2>1, QuietAlike
    <2>3. \A p \in Places : sp[p] = m.pool[p]
      BY <2>1 DEF Spared
    <2> HIDE DEF sp, c
    <2>4. Alike(sp, c)
      BY <1>2, <2>2, <2>3, SparedAlike
    <2> QED
      BY <2>1, <2>4
  <1> HIDE DEF sp, c
  <1> QED
    BY <1>2, <1>3, <1>4 DEF Readable, sp

\* and when the file is closed.
LEMMA ReadableClosed ==
    ASSUME NEW m, NEW lost, NEW hs, NEW fh, ClosedIn(m, lost, hs, fh), NEW h \in hs
    PROVE  Readable(Spared(m.pool, lost), h)
  <1> DEFINE c == fh.root[fh.curr]
             sp == Spared(m.pool, lost)
  <1> SUFFICES ASSUME h.init PROVE Readable(sp, h)
    BY DEF Readable
  <1>1. /\ lost = {} /\ Whole(m.pool, c) /\ LeadTo(h, fh.curr, c)
        /\ ~h.dirty => h.root[1 - h.curr] = Swapped(c) /\ Alike(m.pool, c)
    BY DEF ClosedIn
  <1>2. Reads(m.pool, c) \cap lost = {} /\ \A p \in Places : sp[p] = m.pool[p]
    BY <1>1 DEF Spared
  <1>3. Whole(sp, c)
    BY <1>1, <1>2, SparedState
  <1>4. h.root[h.curr] = c
    BY <1>1 DEF LeadTo
  <1> HIDE DEF sp, c
  <1>5. Alike(m.pool, c) => Alike(sp, c)
    BY <1>1, <1>2, SparedAlike
  <1> QED
    BY <1>1, <1>3, <1>4, <1>5 DEF Readable

\* A header that is dirty needs the state it leads to, and no more.
LEMMA ReadableDirty ==
    ASSUME NEW pages, NEW lost, NEW h, h.dirty, NEW c, h.root[h.curr] = c,
           Whole(pages, c), Reads(pages, c) \cap lost = {}
    PROVE  Readable(Spared(pages, lost), h)
  <1>1. Whole(Spared(pages, lost), c)
    BY SparedState
  <1> QED
    BY <1>1 DEF Readable

\* The other of the two roots.
LEMMA OtherRoot ==
    ASSUME NEW k \in 0 .. 1
    PROVE  1 - k \in 0 .. 1 /\ 1 - (1 - k) = k
  <1>1. k = 0 \/ k = 1
    OBVIOUS
  <1> QED
    BY <1>1

\* The header with the roots exchanged.
Flipped(h) == [h EXCEPT !.curr = 1 - h.curr]

\* It is a header with the same roots.
LEMMA HeaderFlipped ==
    ASSUME NEW h, HeaderFields(h), Header(h)
    PROVE  /\ HeaderFields(Flipped(h)) /\ Header(Flipped(h))
           /\ Flipped(h).curr = 1 - h.curr /\ Flipped(h).dirty = h.dirty
           /\ Flipped(h).init = h.init /\ Flipped(h).root = h.root
           /\ 1 - (1 - h.curr) = h.curr
           /\ Flipped(Flipped(h)) = h
  <1> DEFINE f == Flipped(h)
  <1>1. h = [curr |-> h.curr, dirty |-> h.dirty, init |-> h.init, root |-> h.root]
    BY DEF HeaderFields
  <1>2. f = [curr |-> 1 - h.curr, dirty |-> h.dirty, init |-> h.init, root |-> h.root]
    BY ONLY <1>1 DEF Flipped
  <1>3. f.curr = 1 - h.curr /\ f.dirty = h.dirty /\ f.init = h.init /\ f.root = h.root
    BY ONLY <1>2
  <1>4. h.curr \in 0 .. 1 /\ 1 - h.curr \in 0 .. 1 /\ 1 - (1 - h.curr) = h.curr
    <2>1. h.curr \in 0 .. 1
      BY DEF Header
    <2> QED
      BY ONLY <2>1, OtherRoot
  <1>5. Flipped(f) = [curr |-> 1 - f.curr, dirty |-> f.dirty, init |-> f.init, root |-> f.root]
    <2> HIDE DEF f
    <2>1. f = [curr |-> f.curr, dirty |-> f.dirty, init |-> f.init, root |-> f.root]
      BY ONLY <1>2, <1>3
    <2> QED
      BY ONLY <2>1 DEF Flipped
  <1>6. Flipped(f) = h
    BY ONLY <1>1, <1>3, <1>4, <1>5
  <1> HIDE DEF f
  <1>7. HeaderFields(f)
    BY <1>2, <1>3 DEF HeaderFields
  <1>8. Header(f)
    BY <1>3, <1>4 DEF Header
  <1> QED
    BY <1>3, <1>4, <1>6, <1>7, <1>8 DEF f

\* Whatever header a crash leaves, it can be gone on from.
LEMMA AllReadable ==
    ASSUME Inv, pc # "torn", NEW h \in headers
    PROVE  Readable(Spared(pool, unflushed), h)
  <1> DEFINE m == Memory
  <1>1. /\ m.pool = pool /\ m.header = header /\ HeaderFields(header) /\ Header(header)
    BY MemoryTypes DEF Inv, Base
  <1>2. CASE pc = "open"
    <2>1. OpenIn(m, committed, unflushed, headers, fileHeader)
      BY <1>2 DEF Inv, PhaseInv
    <2> QED
      BY <1>1, <2>1, ReadableOpen
  <1>3. CASE pc = "close"
    <2>1. CloseIn(m, unflushed, headers)
      BY <1>3 DEF Inv, PhaseInv
    <2>2. /\ h.dirty /\ h.root[h.curr] = Current(m) /\ Whole(m.pool, Current(m))
          /\ Reads(m.pool, Current(m)) \cap unflushed = {}
      BY <2>1 DEF CloseIn, LeadTo, Good
    <2> QED
      BY <1>1, <2>2, ReadableDirty
  <1>4. CASE pc = "closed"
    <2>1. ClosedIn(m, unflushed, headers, fileHeader)
      BY <1>4 DEF Inv, PhaseInv
    <2> QED
      BY <1>1, <2>1, ReadableClosed
  <1>5. CASE pc = "create"
    <2>1. ~h.init
      BY <1>5 DEF Inv, PhaseInv, CreateIn
    <2> QED
      BY <2>1 DEF Readable
  <1>6. CASE pc = "flush"
    <2>1. FlushIn(m, committed, unflushed, headers)
      BY <1>6 DEF Inv, PhaseInv
    <2>2. /\ h.dirty /\ h.root[h.curr] = Current(m) /\ Whole(m.pool, Current(m))
          /\ Reads(m.pool, Current(m)) \cap unflushed = {}
      BY <2>1 DEF FlushIn, BothIn, LeadTo
    <2> QED
      BY <1>1, <2>2, ReadableDirty
  <1>7. CASE pc = "flip"
    <2>1. FlipIn(m, committed, unflushed, headers)
      BY <1>7 DEF Inv, PhaseInv
    <2>2. h = header /\ unflushed = {}
      BY <1>1, <2>1 DEF FlipIn
    <2>3. h.dirty /\ h.root[h.curr] = Current(m) /\ Whole(m.pool, Current(m))
      BY <1>1, <2>1, <2>2 DEF FlipIn, BothIn, Current
    <2>4. Reads(m.pool, Current(m)) \cap unflushed = {}
      BY <2>2
    <2> QED
      BY <1>1, <2>3, <2>4, ReadableDirty
  <1>8. CASE pc = "sync"
    <2>1. SyncIn(m, committed, unflushed, headers)
      BY <1>8 DEF Inv, PhaseInv
    <2>2. (h = header \/ h = Flipped(header)) /\ unflushed = {}
      BY <1>1, <2>1 DEF SyncIn, Flipped
    <2>3. /\ header.dirty /\ Whole(m.pool, Current(m)) /\ Whole(m.pool, Working(m))
      BY <1>1, <2>1 DEF SyncIn, BothIn
    <2>4. CASE h = header
      <3>1. h.dirty /\ h.root[h.curr] = Current(m)
        BY <1>1, <2>3, <2>4 DEF Current
      <3>2. Reads(m.pool, Current(m)) \cap unflushed = {}
        BY <2>2
      <3> QED
        BY <1>1, <2>3, <3>1, <3>2, ReadableDirty
    <2>5. CASE h = Flipped(header)
      <3>1. h.dirty /\ h.root[h.curr] = Working(m)
        <4>1. h.dirty = header.dirty /\ h.curr = 1 - header.curr /\ h.root = header.root
          BY <1>1, <2>5, HeaderFlipped
        <4> QED
          BY <1>1, <2>3, <4>1 DEF Working
      <3>2. Reads(m.pool, Working(m)) \cap unflushed = {}
        BY <2>2
      <3> QED
        BY <1>1, <2>3, <3>1, <3>2, ReadableDirty
    <2> QED
      BY <2>2, <2>4, <2>5
  <1> QED
    BY <1>2, <1>3, <1>4, <1>5, <1>6, <1>7, <1>8 DEF Inv, Base

\* What a crash leaves is closed.
LEMMA CrashStep ==
    ASSUME Inv, Crash
    PROVE  Inv' /\ StoreStep
  <1>1. PICK h \in headers : header' = h /\ fileHeader' = h /\ headers' = {h}
    BY DEF Crash
  <1> DEFINE sp == Spared(pool, unflushed)
  <1>2. /\ pool' = sp /\ unflushed' = {} /\ map' = {} /\ modified' = FALSE /\ committed' = 0
        /\ pc' = "closed" /\ calls < MaxCalls /\ calls' = calls + 1
    BY DEF Crash, Surviving, Spared, Count
  <1>3. Readable(sp, h)
    BY AllReadable DEF Crash
  <1>4. PageType(Lost)
    BY ObjectPageTyped DEF Lost
  <1>5. sp = [p \in Places |-> sp[p]] /\ \A p \in Places : PageType(sp[p])
    <2>1. \A p \in Places : PageType(pool[p])
      BY DEF Inv, Base
    <2>2. \A p \in Places : sp[p] = IF p \in unflushed THEN Lost ELSE pool[p]
      BY DEF Spared
    <2>3. sp = [p \in Places |-> sp[p]]
      BY DEF Spared
    <2> HIDE DEF sp
    <2> QED
      BY <1>4, <2>1, <2>2, <2>3
  <1>6. Spared(sp, {}) = sp
    BY DEF Spared
  <1> HIDE DEF sp
  <1>7. Base'
    <2>1. HeaderFields(h) /\ Header(h)
      BY DEF Inv, Base
    <2>2. calls' \in 0 .. MaxCalls
      <3>1. calls \in 0 .. MaxCalls /\ MaxCalls \in Nat
        BY Layout DEF Inv, Base
      <3> QED
        BY ONLY <1>2, <3>1
    <2>3. committed' \in 0 .. MaxOid + 1
      BY <1>2, Sizes
    <2> QED
      BY <1>1, <1>2, <1>5, <2>1, <2>2, <2>3 DEF Base
  <1>8. ClosedIn(Memory', unflushed', headers', fileHeader')
    <2>1. Memory'.pool = sp /\ Memory'.map = {} /\ Memory'.modified = FALSE
      BY <1>2 DEF Memory
    <2>2. CASE ~h.init
      BY <1>1, <1>2, <2>1, <2>2 DEF ClosedIn
    <2>3. CASE h.init
      <3>1. LeadTo(h, h.curr, h.root[h.curr])
        BY <2>3 DEF LeadTo
      <3>2. /\ Whole(sp, h.root[h.curr])
            /\ ~h.dirty => /\ h.root[1 - h.curr] = Swapped(h.root[h.curr])
                           /\ Alike(sp, h.root[h.curr])
        BY <1>3, <2>3 DEF Readable
      <3> QED
        BY <1>1, <1>2, <2>1, <3>1, <3>2 DEF ClosedIn
    <2> QED
      BY <2>2, <2>3
  <1>9. Inv'
    BY <1>2, <1>7, <1>8 DEF Inv, PhaseInv
  <1>10. Store!Crash
    <2> DEFINE s == IF ~h.init THEN Empty ELSE StateOf(sp, Recovered(h))
    <2>1. s \in Survivors
      BY SeenNow DEF SurvivorsOf, sp
    <2>2. Survivors' = {s}
      <3>1. Survivors' = SurvivorsOf(sp, {}, {h})
        BY <1>1, <1>2, SeenNext
      <3> QED
        BY <1>6, <3>1 DEF SurvivorsOf
    <2>3. StorePhase' = "down" /\ WorkState' = Store!Empty
      BY <1>2, SeenNext, SameStates DEF PhaseOf, WorkOf
    <2>4. StorePhase # "lost"
      BY SeenNow DEF PhaseOf, Crash, Inv, Base
    <2> QED
      BY <2>1, <2>2, <2>3, <2>4 DEF Store!Crash
  <1> QED
    BY <1>9, <1>10 DEF StoreStep, Store!Next

\* A crash in gc() may leave a file that nothing is known of, and does so only
\* when there was something to remove from a state that was not changed.
LEMMA CrashInGCStep ==
    ASSUME OpenNow, CrashInGC
    PROVE  Inv' /\ StoreStep
  <1>1. /\ header' = fileHeader /\ fileHeader' = fileHeader /\ headers' = {fileHeader}
        /\ unflushed' = {} /\ map' = {} /\ modified' = modified /\ committed' = 0
        /\ pc' = "torn" /\ calls < MaxCalls /\ calls' = calls + 1 /\ GCRuns
    BY DEF CrashInGC, Count
  <1>2. PICK ps : pool' = [p \in Places |-> IF p \in ps THEN Lost ELSE pool[p]]
    BY DEF CrashInGC
  <1>3. pool' = [p \in Places |-> pool'[p]] /\ \A p \in Places : PageType(pool'[p])
    <2>1. PageType(Lost) /\ \A p \in Places : PageType(pool[p])
      BY ObjectPageTyped DEF Lost, OpenNow, Base
    <2>2. \A p \in Places : pool'[p] = IF p \in ps THEN Lost ELSE pool[p]
      BY <1>2
    <2>3. pool' = [p \in Places |-> pool'[p]]
      BY <1>2
    <2> QED
      BY <2>1, <2>2, <2>3
  <1>4. Base'
    <2>1. HeaderFields(fileHeader) /\ Header(fileHeader) /\ modified \in BOOLEAN
      BY DEF OpenNow, Base
    <2>2. calls' \in 0 .. MaxCalls
      <3>1. calls \in 0 .. MaxCalls /\ MaxCalls \in Nat
        BY Layout DEF OpenNow, Base
      <3> QED
        BY ONLY <1>1, <3>1
    <2>3. committed' \in 0 .. MaxOid + 1
      BY <1>1, Sizes
    <2> QED
      BY <1>1, <1>3, <2>1, <2>2, <2>3 DEF Base
  <1>5. Inv'
    BY <1>1, <1>4 DEF Inv, PhaseInv
  <1>6. Store!Lose
    <2>1. Survivors = {WorkState} /\ StorePhase = "up"
      BY <1>1, GarbageIs, OpenFacts
    <2>2. PICK o \in Garbage : TRUE
      BY <1>1 DEF GCRuns
    <2>3. o \in Users /\ WorkState.objs[o].is = "stored" /\ o \notin Reachable(WorkState)
      BY <1>1, <2>2, GarbageIs
    <2>4. StorePhase' = "lost" /\ WorkState' = Store!Empty
      BY <1>1, SeenNext, SameStates DEF PhaseOf, WorkOf
    <2> QED
      BY <2>1, <2>3, <2>4, SameStates DEF Store!Lose
  <1> QED
    BY <1>5, <1>6 DEF StoreStep, Store!Next

-----------------------------------------------------------------------------
(* The file is closed.                                                      *)

\* A step that leaves memory alone.
LEMMA MemorySame ==
    ASSUME header' = header, pool' = pool, map' = map, modified' = modified
    PROVE  Memory' = Memory
  BY DEF Memory

\* Between transactions what survives is what the program works on.
LEMMA BetweenSurvivors ==
    ASSUME OpenNow, ~modified
    PROVE  /\ WorkState = CState(Memory) /\ Survivors = {WorkState}
           /\ Quiet(Memory) /\ Working(Memory).rootObject = Current(Memory).rootObject
           /\ Alike(pool, Current(Memory))
           /\ Whole(pool, Current(Memory)) /\ RootFields(Current(Memory))
           /\ Reads(pool, Current(Memory)) \cap unflushed = {}
           /\ CState(Memory) = StateOf(pool, Current(Memory))
           /\ header.root[header.curr] = Current(Memory)
           /\ header.root[1 - header.curr] = Swapped(Current(Memory))
  <1> DEFINE m == Memory
             c == Current(m)
             w == Working(m)
             s == Swapped(c)
  <1>1. /\ Good(m) /\ m.modified = modified /\ m.pool = pool /\ m.header = header
        /\ WorkState = WState(m) /\ Survivors = {CState(m)}
    BY OpenFacts
  <1>2. /\ Quiet(m) /\ w.rootObject = c.rootObject
        /\ Reads(m.pool, c) \cap unflushed = {}
    BY <1>1 DEF OpenNow, OpenIn
  <1>3. WState(m) = CState(m) /\ Alike(m.pool, c)
    BY <1>1, <1>2, QuietState, QuietAlike
  <1>4. Whole(m.pool, c) /\ RootFields(c) /\ RootFields(w)
    BY <1>1, WorkingFields DEF Good
  <1>5. s.rootObject = c.rootObject /\ RootFields(s)
    BY <1>4, WholeFacts, SwappedFields
  <1>6. w = [s EXCEPT !.rootObject = w.rootObject]
    BY <1>2 DEF Quiet
  <1>7. header.root[header.curr] = c /\ header.root[1 - header.curr] = w
    BY <1>1 DEF Current, Working
  <1> HIDE DEF s, w, m
  <1>8. w = s
    BY ONLY <1>2, <1>5, <1>6 DEF RootFields
  <1> QED
    BY <1>1, <1>2, <1>3, <1>4, <1>7, <1>8 DEF s, w, m, CState

\* A header is written before the pages: it leads to the same state.
LEMMA BeginCloseStep ==
    ASSUME OpenNow, BeginClose
    PROVE  Inv' /\ StoreStep
  <1> DEFINE m == Memory
             c == Current(m)
  <1>1. /\ ~modified /\ header.dirty
        /\ fileHeader' = header /\ headers' = headers \cup {header}
        /\ pc' = "close" /\ Memory' = m /\ pool' = pool /\ unflushed' = unflushed
        /\ header' = header /\ map' = map /\ modified' = modified
        /\ committed' = committed /\ calls' = calls
    BY DEF BeginClose, WriteHeader, Memory
  <1>2. /\ WorkState = CState(m) /\ Survivors = {WorkState}
        /\ Quiet(m) /\ Working(m).rootObject = c.rootObject
        /\ Whole(pool, c) /\ RootFields(c)
        /\ Reads(pool, c) \cap unflushed = {}
        /\ CState(m) = StateOf(pool, c)
        /\ header.root[header.curr] = c
    BY <1>1, BetweenSurvivors
  <1>3. m.pool = pool /\ m.header = header /\ m.modified = modified /\ StorePhase = "up"
    BY OpenFacts
  <1>4. /\ Good(m) /\ header.init
        /\ \A h \in headers : LeadTo(h, header.curr, c) /\ (~h.dirty => ~header.dirty)
    BY <1>3 DEF OpenNow, OpenIn
  <1>5. \A h \in headers' : LeadTo(h, header.curr, c) /\ h.dirty
    BY <1>1, <1>2, <1>4 DEF LeadTo
  <1>6. CloseIn(Memory', unflushed', headers')
    BY <1>1, <1>2, <1>3, <1>4, <1>5 DEF CloseIn
  <1>7. Base'
    BY <1>1 DEF OpenNow, Base
  <1>8. Inv'
    BY <1>1, <1>6, <1>7 DEF Inv, PhaseInv
  <1>9. SurvivorsOf(pool, unflushed, headers') = {StateOf(pool, c)}
    <2>1. AllLeadTo(pool, unflushed, headers', header.curr, c)
      BY <1>5 DEF AllLeadTo
    <2>2. headers' # {}
      BY <1>1
    <2> HIDE DEF c
    <2> QED
      BY <1>2, <2>1, <2>2, SurvivesOne
  <1>10. Store!Close
    <2>1. Survivors' = Survivors /\ WorkState' = Store!Empty /\ StorePhase' = "down"
      BY <1>1, <1>2, <1>9, SeenNext, SameStates DEF WorkOf, PhaseOf
    <2> QED
      BY <1>2, <1>3, <2>1 DEF Store!Close
  <1> QED
    BY <1>8, <1>10 DEF StoreStep, Store!Next

\* When nothing was changed the file is closed as it is.
LEMMA CloseCleanStep ==
    ASSUME OpenNow, CloseClean
    PROVE  Inv' /\ StoreStep
  <1> DEFINE m == Memory
             c == Current(m)
  <1>1. /\ ~modified /\ ~header.dirty
        /\ pool' = Surviving /\ committed' = 0 /\ pc' = "closed"
        /\ header' = header /\ map' = map /\ modified' = modified
        /\ fileHeader' = fileHeader /\ headers' = headers /\ unflushed' = unflushed
        /\ calls' = calls
    BY DEF CloseClean
  <1>2. /\ WorkState = CState(m) /\ Survivors = {WorkState}
        /\ Quiet(m) /\ Alike(pool, c) /\ Whole(pool, c)
    BY <1>1, BetweenSurvivors
  <1>3. m.pool = pool /\ m.header = header /\ m.modified = modified /\ m.map = map
        /\ StorePhase = "up"
    BY OpenFacts
  <1>4. /\ unflushed = {} /\ fileHeader.dirty = header.dirty
        /\ \A h \in headers : /\ LeadTo(h, header.curr, c)
                              /\ ~h.dirty => h.root[1 - h.curr] = Swapped(c)
    BY <1>1, <1>3 DEF OpenNow, OpenIn
  <1>5. pool' = pool
    BY <1>1, <1>4 DEF Surviving, OpenNow, Base
  <1>6. Memory' = m
    BY <1>1, <1>5, MemorySame
  <1>7. fileHeader \in headers /\ LeadTo(fileHeader, header.curr, c)
    BY <1>4 DEF OpenNow, Base
  <1>8. fileHeader.curr = header.curr /\ fileHeader.root[fileHeader.curr] = c
    BY <1>7 DEF LeadTo
  <1>9. ClosedIn(Memory', unflushed', headers', fileHeader')
    <2>1. map = {}
      BY <1>2, <1>3 DEF Quiet
    <2> QED
      BY <1>1, <1>2, <1>3, <1>4, <1>6, <1>8, <2>1 DEF ClosedIn
  <1>10. Base'
    <2>1. committed' \in 0 .. MaxOid + 1
      BY <1>1, Sizes
    <2> QED
      BY <1>1, <1>5, <2>1 DEF OpenNow, Base
  <1>11. Inv'
    BY <1>1, <1>9, <1>10 DEF Inv, PhaseInv
  <1>12. Store!Close
    <2>1. Survivors' = Survivors /\ WorkState' = Store!Empty /\ StorePhase' = "down"
      BY <1>1, <1>5, SeenNow, SeenNext, SameStates DEF WorkOf, PhaseOf
    <2> QED
      BY <1>2, <1>3, <2>1 DEF Store!Close
  <1> QED
    BY <1>11, <1>12 DEF StoreStep, Store!Next

\* The header that needs no recovery leads to the same state too.
LEMMA EndCloseStep ==
    ASSUME Inv, EndClose
    PROVE  Inv' /\ StoreStep
  <1> DEFINE m == Memory
             c == Current(m)
             no == FALSE
             d == [header EXCEPT !.dirty = no]
  <1>1. /\ pc = "close"
        /\ header' = d /\ fileHeader' = d /\ headers' = {header, d}
        /\ unflushed' = {} /\ committed' = 0 /\ pc' = "closed"
        /\ pool' = pool /\ map' = map /\ modified' = modified /\ calls' = calls
    BY DEF EndClose
  <1>2. /\ m.pool = pool /\ m.header = header /\ m.map = map /\ m.modified = modified
        /\ HeaderFields(header) /\ Header(header) /\ Base
    BY MemoryTypes DEF Inv, Base
  <1>3. CloseIn(m, unflushed, headers)
    BY <1>1 DEF Inv, PhaseInv
  <1>4. /\ Good(m) /\ header.init /\ header.dirty /\ ~modified
        /\ Quiet(m) /\ Working(m).rootObject = c.rootObject
        /\ Reads(pool, c) \cap unflushed = {} /\ header \in headers
        /\ \A h \in headers : LeadTo(h, header.curr, c) /\ h.dirty
    BY <1>2, <1>3 DEF CloseIn
  <1>5. /\ Alike(pool, c) /\ Whole(pool, c) /\ RootFields(c)
        /\ header.root[header.curr] = c
    BY <1>2, <1>4, QuietAlike, WorkingFields DEF Good, Current
  <1>6. header.root[1 - header.curr] = Swapped(c)
    <2> DEFINE w == Working(m)
               s == Swapped(c)
    <2>1. s.rootObject = c.rootObject /\ RootFields(s)
      BY <1>5, WholeFacts, SwappedFields
    <2>2. w = [s EXCEPT !.rootObject = w.rootObject] /\ w.rootObject = c.rootObject
      BY <1>4 DEF Quiet
    <2>3. header.root[1 - header.curr] = w
      BY <1>2 DEF Working
    <2> HIDE DEF s, w, m
    <2>4. w = s
      BY ONLY <2>1, <2>2 DEF RootFields
    <2> QED
      BY <2>3, <2>4 DEF s
  <1>7. /\ HeaderFields(d) /\ d.curr = header.curr /\ d.dirty = no /\ d.init = header.init
        /\ d.root = header.root
    <2> HIDE DEF no
    <2>1. d = [header EXCEPT !.dirty = no]
      OBVIOUS
    <2> HIDE DEF d
    <2> QED
      BY ONLY <1>2, <2>1, HeaderFlag
  <1> HIDE DEF d
  <1>8. Header(d)
    BY <1>2, <1>7 DEF Header
  <1>9. LeadTo(header, header.curr, c) /\ LeadTo(d, header.curr, c)
        /\ d.root[d.curr] = c /\ d.root[1 - d.curr] = Swapped(c) /\ ~d.dirty
    BY <1>4, <1>5, <1>6, <1>7 DEF LeadTo
  <1>10. ClosedIn(Memory', unflushed', headers', fileHeader')
    <2>1. map = {} /\ Memory'.map = map /\ Memory'.modified = modified /\ Memory'.pool = pool
      BY <1>1, <1>2, <1>4 DEF Quiet, Memory
    <2> QED
      BY <1>1, <1>4, <1>5, <1>7, <1>9, <2>1 DEF ClosedIn
  <1>11. Base'
    <2>1. committed' \in 0 .. MaxOid + 1
      BY <1>1, Sizes
    <2> QED
      BY <1>1, <1>2, <1>7, <1>8, <2>1 DEF Base
  <1>12. Inv'
    BY <1>1, <1>10, <1>11 DEF Inv, PhaseInv
  <1>13. Survivors = {StateOf(pool, c)}
    <2>1. AllLeadTo(pool, unflushed, headers, header.curr, c) /\ headers # {}
      BY <1>4 DEF AllLeadTo
    <2>2. Reads(pool, c) \cap unflushed = {}
      BY <1>4
    <2> HIDE DEF c
    <2>3. SurvivorsOf(pool, unflushed, headers) = {StateOf(pool, c)}
      BY ONLY <1>5, <2>1, <2>2, SurvivesOne
    <2> QED
      BY <2>3, SeenNow
  <1>14. Survivors' = {StateOf(pool, c)}
    <2> DEFINE hs == {header, d}
               lost == {}
    <2>1. AllLeadTo(pool, lost, hs, header.curr, c)
      BY <1>4, <1>5, <1>7, <1>9 DEF AllLeadTo
    <2>2. Reads(pool, c) \cap lost = {} /\ hs # {}
      OBVIOUS
    <2> HIDE DEF c, hs, lost
    <2>3. SurvivorsOf(pool, lost, hs) = {StateOf(pool, c)}
      BY ONLY <1>5, <2>1, <2>2, SurvivesOne
    <2> QED
      BY <1>1, <2>3, SeenNext DEF hs, lost
  <1>15. WorkState' = WorkState /\ StorePhase' = StorePhase
    BY <1>1, SeenNow, SeenNext DEF WorkOf, PhaseOf
  <1> QED
    BY <1>12, <1>13, <1>14, <1>15 DEF StoreStep

-----------------------------------------------------------------------------
(* A commit.                                                                *)

\* When nothing is unflushed a crash loses no page.
LEMMA SparedNone ==
    ASSUME NEW pages, pages = [p \in Places |-> pages[p]]
    PROVE  Spared(pages, {}) = pages
  BY DEF Spared

\* The new state reaches the file before the header that leads to it.
LEMMA FlushPagesStep ==
    ASSUME Inv, FlushPages
    PROVE  Inv' /\ StoreStep
  <1> DEFINE m == Memory
             c == Current(m)
  <1>1. /\ pc = "flush" /\ fileHeader' = header /\ headers' = {header}
        /\ unflushed' = {} /\ pc' = "flip" /\ Memory' = m
        /\ header' = header /\ pool' = pool /\ map' = map /\ modified' = modified
        /\ committed' = committed /\ calls' = calls
    BY DEF FlushPages, Flush, Memory
  <1>2. /\ m.pool = pool /\ m.header = header /\ MemFields(m) /\ Base
    BY MemoryTypes DEF Inv
  <1>3. FlushIn(m, committed, unflushed, headers)
    BY <1>1 DEF Inv, PhaseInv
  <1>4. /\ BothIn(m, committed, Current(m), Working(m), headers)
        /\ Reads(pool, c) \cap unflushed = {}
        /\ \A h \in headers : LeadTo(h, header.curr, c) /\ h.dirty
    BY <1>2, <1>3 DEF FlushIn
  <1>5. /\ header \in headers /\ Whole(pool, c) /\ RootFields(c)
    BY <1>2, <1>4, WorkingFields DEF BothIn
  <1>6. FlipIn(Memory', committed', unflushed', headers')
    BY <1>1, <1>2, <1>4 DEF FlipIn, BothIn
  <1>7. Base'
    BY <1>1, <1>2 DEF Base
  <1>8. Inv'
    BY <1>1, <1>6, <1>7 DEF Inv, PhaseInv
  <1>9. Survivors = {StateOf(pool, c)}
    <2>1. AllLeadTo(pool, unflushed, headers, header.curr, c) /\ headers # {}
      BY <1>4, <1>5 DEF AllLeadTo
    <2> HIDE DEF c
    <2>2. SurvivorsOf(pool, unflushed, headers) = {StateOf(pool, c)}
      BY <1>4, <1>5, <2>1, SurvivesOne
    <2> QED
      BY <2>2, SeenNow
  <1>10. Survivors' = {StateOf(pool, c)}
    <2> DEFINE hs == {header}
               lost == {}
    <2>1. AllLeadTo(pool, lost, hs, header.curr, c)
      BY <1>4, <1>5 DEF AllLeadTo
    <2>2. Reads(pool, c) \cap lost = {} /\ hs # {}
      OBVIOUS
    <2> HIDE DEF c, hs, lost
    <2>3. SurvivorsOf(pool, lost, hs) = {StateOf(pool, c)}
      BY ONLY <1>5, <2>1, <2>2, SurvivesOne
    <2> QED
      BY <1>1, <2>3, SeenNext DEF hs, lost
  <1>11. WorkState' = WorkState /\ StorePhase' = StorePhase
    BY <1>1, SeenNow, SeenNext DEF WorkOf, PhaseOf
  <1> QED
    BY <1>8, <1>9, <1>10, <1>11 DEF StoreStep

\* From here on the new state may survive.
LEMMA FlipRootsStep ==
    ASSUME Inv, FlipRoots
    PROVE  Inv' /\ StoreStep
  <1> DEFINE m == Memory
             n == Memory'
             f == Flipped(header)
  <1>1. /\ pc = "flip" /\ header' = f /\ fileHeader' = f /\ headers' = headers \cup {f}
        /\ pc' = "sync" /\ pool' = pool /\ map' = map /\ modified' = modified
        /\ committed' = committed /\ unflushed' = unflushed /\ calls' = calls
    BY DEF FlipRoots, WriteHeader, Flipped
  <1>2. /\ m.pool = pool /\ m.header = header /\ m.map = map /\ m.modified = modified
        /\ HeaderFields(header) /\ Header(header) /\ Base
    BY MemoryTypes DEF Inv, Base
  <1>3. /\ HeaderFields(f) /\ Header(f)
        /\ f.curr = 1 - header.curr /\ f.dirty = header.dirty
        /\ f.init = header.init /\ f.root = header.root
        /\ 1 - (1 - header.curr) = header.curr /\ Flipped(f) = header
    BY <1>2, HeaderFlipped
  <1>4. /\ unflushed = {} /\ headers = {header}
        /\ BothIn(m, committed, Current(m), Working(m), headers)
    BY <1>1, <1>2 DEF Inv, PhaseInv, FlipIn
  <1>5. /\ n.header = f /\ n.pool = pool /\ n.map = map /\ n.modified = modified
    BY <1>1 DEF Memory
  <1> HIDE DEF f, n
  <1>6. Current(n) = Working(m) /\ Working(n) = Current(m)
    BY <1>2, <1>3, <1>5 DEF Current, Working
  <1>7. SyncIn(n, committed, unflushed, headers')
    <2>1. headers' = {f, Flipped(f)}
      BY <1>1, <1>3, <1>4
    <2>2. headers' = {n.header, [n.header EXCEPT !.curr = 1 - n.header.curr]}
      BY <1>5, <2>1 DEF Flipped
    <2>3. /\ header.init /\ header.dirty /\ modified
          /\ Whole(pool, Current(m)) /\ Whole(pool, Working(m))
          /\ committed = Current(m).used /\ Current(m).used <= Working(m).used
          /\ Cut(pool, Current(m), Working(m), map)
      BY <1>2, <1>4 DEF BothIn
    <2>4. BothIn(n, committed, Working(n), Current(n), headers')
      BY <1>3, <1>5, <1>6, <2>1, <2>3 DEF BothIn
    <2> QED
      BY <1>4, <2>2, <2>4 DEF SyncIn
  <1>8. Base'
    BY <1>1, <1>2, <1>3 DEF Base
  <1>9. Inv'
    BY <1>1, <1>7, <1>8 DEF Inv, PhaseInv, n
  <1>10. /\ WorkState = StateOf(pool, Working(m)) /\ StorePhase = "commit"
         /\ WorkState' = StateOf(pool, Working(m)) /\ StorePhase' = "commit"
    <2>1. WorkState = WState(m) /\ WorkState' = CState(n)
      BY <1>1, SeenNow, SeenNext DEF WorkOf, n
    <2> QED
      BY <1>1, <1>2, <1>5, <1>6, <2>1, SeenNow, SeenNext DEF WState, CState, PhaseOf
  <1>11. Recovered(header) = Current(m) /\ Recovered(f) = Working(m)
         /\ header.init /\ f.init
    <2>1. header.dirty /\ header.init
      BY <1>2, <1>4 DEF BothIn
    <2> QED
      BY <1>2, <1>3, <2>1 DEF Recovered, Current, Working
  <1>12. Spared(pool, unflushed) = pool
    BY <1>2, <1>4, SparedNone DEF Base
  <1>13. Survivors' = Survivors \cup {WorkState}
    <2>1. Survivors = {StateOf(pool, Current(m))}
      BY <1>4, <1>11, <1>12, SeenNow DEF SurvivorsOf
    <2>2. Survivors' = SurvivorsOf(pool, unflushed, {header, f})
      BY <1>1, <1>4, SeenNext
    <2>3. SurvivorsOf(pool, unflushed, {header, f})
             = {StateOf(pool, Current(m)), StateOf(pool, Working(m))}
      BY <1>11, <1>12 DEF SurvivorsOf
    <2> QED
      BY <1>10, <2>1, <2>2, <2>3
  <1>14. Store!Decide
    BY <1>10, <1>13 DEF Store!Decide
  <1> QED
    BY <1>9, <1>14 DEF StoreStep, Store!Next

\* Both roots are states to go on from when the pages they use are kept.
LEMMA PreparedAfter ==
    ASSUME NEW p, MemFields(p), \A q \in Places : PageType(p.pool[q]),
           Whole(p.pool, Current(p)), Whole(p.pool, Working(p)),
           Cut(p.pool, Current(p), Working(p), p.map),
           NEW a, a = After(p)
    PROVE  /\ MemFields(a) /\ \A q \in Places : PageType(a.pool[q])
           /\ a.header = p.header /\ a.map = p.map /\ a.modified = p.modified
           /\ Current(a) = Current(p) /\ Working(a) = Working(p)
           /\ Whole(a.pool, Current(p)) /\ Whole(a.pool, Working(p))
           /\ Cut(a.pool, Current(p), Working(p), p.map)
           /\ Reads(a.pool, Current(p)) = Reads(p.pool, Current(p))
           /\ CState(a) = CState(p) /\ WState(a) = WState(p)
  <1>1. /\ MemFields(a)
        /\ a.pool = PooledIn(p) /\ a.header = p.header /\ a.map = p.map
        /\ a.modified = p.modified
        /\ Current(a) = Current(p) /\ Working(a) = Working(p)
    BY AfterFields
  <1>2. \A q \in Places : PageType(a.pool[q])
    BY <1>1, PooledTyped
  <1>3. /\ \A q \in Reads(p.pool, Current(p)) : a.pool[q] = p.pool[q]
        /\ \A q \in Reads(p.pool, Working(p)) : a.pool[q] = p.pool[q]
    BY <1>1, WholeUses
  <1>4. /\ Whole(a.pool, Current(p)) /\ Whole(a.pool, Working(p))
        /\ Ent(a.pool, Current(p).index) = Ent(p.pool, Current(p).index)
        /\ Ent(a.pool, Working(p).index) = Ent(p.pool, Working(p).index)
        /\ Reads(a.pool, Current(p)) = Reads(p.pool, Current(p))
    BY <1>3, WholeAgain
  <1>5. /\ StateOf(a.pool, Current(p)) = StateOf(p.pool, Current(p))
        /\ StateOf(a.pool, Working(p)) = StateOf(p.pool, Working(p))
    BY <1>3, StateAgain
  <1>6. Cut(a.pool, Current(p), Working(p), p.map)
    BY <1>4 DEF Cut
  <1> QED
    BY <1>1, <1>2, <1>4, <1>5, <1>6 DEF CState, WState

\* The objects are those that the working state had.
LEMMA PreparedState ==
    ASSUME NEW m, Good(m), NEW p, IsPrepared(m, p)
    PROVE  WState(p) = WState(m) /\ CState(p) = CState(m)
           /\ Reads(p.pool, Current(m)) = Reads(m.pool, Current(m))
           /\ p.touched \subseteq m.touched \cup (Places \ Reads(m.pool, Current(m)))
  <1>1. /\ Current(p) = Current(m)
        /\ Working(p).used = Working(m).used /\ Working(p).rootObject = Working(m).rootObject
        /\ Frame(m, p, Places \ (CI(m) \cup Spots(CE(m), Current(m).used)))
        /\ \A q \in 1 .. Working(m).used - 1 :
              /\ WE(p)[q].pos = WE(m)[q].pos /\ WE(p)[q].free = WE(m)[q].free
              /\ WE(m)[q].pos # NoPlace => p.pool[WE(m)[q].pos] = m.pool[WE(m)[q].pos]
    BY DEF IsPrepared
  <1>2. Working(m).used \in Nat /\ Whole(m.pool, Current(m))
    BY GoodFacts DEF Good
  <1>3. \A q \in Users : q < Working(m).used =>
            /\ Ent(p.pool, Working(p).index)[q].pos = Ent(m.pool, Working(m).index)[q].pos
            /\ Ent(p.pool, Working(p).index)[q].free = Ent(m.pool, Working(m).index)[q].free
            /\ Ent(m.pool, Working(m).index)[q].pos # NoPlace =>
                  p.pool[Ent(m.pool, Working(m).index)[q].pos].refs
                     = m.pool[Ent(m.pool, Working(m).index)[q].pos].refs
    <2> TAKE q \in Users
    <2> HAVE q < Working(m).used
    <2>1. q \in 1 .. Working(m).used - 1
      BY <1>2, UserInRange
    <2> QED
      BY <1>1, <2>1 DEF WE
  <1>4. StateOf(p.pool, Working(p)) = StateOf(m.pool, Working(m))
    BY <1>1, <1>3, ObjectsSame
  <1>5. CState(p) = CState(m) /\ Reads(p.pool, Current(p)) = Reads(m.pool, Current(m))
    BY <1>1, <1>2, CStateKept
  <1>6. Reads(m.pool, Current(m)) = CI(m) \cup Spots(CE(m), Current(m).used)
    BY DEF Reads, CI, CE
  <1> QED
    BY <1>1, <1>4, <1>5, <1>6 DEF WState, Frame

\* A commit prepares its state beside the committed one.
LEMMA BeginCommitStep ==
    ASSUME OpenNow, BeginCommit, Careful
    PROVE  Inv' /\ StoreStep
  <1> DEFINE m == Memory
             c == Current(m)
  <1>1. PICK at \in IF Grown(m) THEN NewPlaces(m, Len(Working(m).index)) ELSE {<<>>} :
            /\ header' = Prepared(m, at).header
            /\ WriteHeader(Prepared(m, at).header)
            /\ PoolBecomes(Prepared(m, at), FALSE)
            /\ map' = Prepared(m, at).map
    BY DEF BeginCommit
  <1> DEFINE p == Prepared(m, at)
             a == After(p)
  <1>2. /\ modified /\ modified' = modified /\ committed' = committed /\ calls' = calls
        /\ pc' = "flush" /\ header.dirty
        /\ \A o \in Users : WorkState.objs[o] # Unstored
    BY DEF BeginCommit, CommitAllowed
  <1>3. /\ Good(m) /\ m.header = header /\ m.pool = pool /\ m.map = map
        /\ m.modified = modified /\ m.touched = {}
        /\ header.dirty \in BOOLEAN /\ modified \in BOOLEAN /\ committed = c.used
        /\ WorkState = WState(m) /\ Survivors = {CState(m)} /\ StorePhase = "up"
    BY OpenFacts
  <1>4. \A q \in Users : q < Working(m).used /\ ~WE(m)[q].free => WE(m)[q].pos # NoPlace
    BY <1>2, UserEntry
  <1>5. Grown(m) => at \in NewPlaces(m, Len(Working(m).index))
    BY <1>1
  <1> HIDE DEF p
  <1>6. IsPrepared(m, p)
    <2>1. m.header.dirty = TRUE /\ m.modified = TRUE
      BY <1>2, <1>3
    <2>2. p = Prepared(m, at)
      BY DEF p
    <2> HIDE DEF m
    <2> QED
      BY <1>3, <1>4, <1>5, <2>1, <2>2, Preparing
  <1>7. /\ MemFields(p) /\ \A q \in Places : PageType(p.pool[q])
        /\ p.map \subseteq 0 .. PageOf(MaxOid)
        /\ Current(p) = c
        /\ p.header.curr = header.curr /\ p.header.init = header.init
        /\ p.header.dirty = TRUE /\ p.modified = TRUE
        /\ Whole(p.pool, Current(p)) /\ Whole(p.pool, Working(p))
        /\ Cut(p.pool, Current(p), Working(p), p.map)
        /\ c.used <= Working(p).used
        /\ HeaderFields(p.header)
    BY <1>3, <1>6 DEF IsPrepared, MemFields
  <1>8. /\ WState(p) = WState(m) /\ CState(p) = CState(m)
        /\ Reads(p.pool, c) = Reads(m.pool, c)
        /\ p.touched \subseteq Places \ Reads(m.pool, c)
    BY <1>3, <1>6, PreparedState
  <1>9. /\ header' = p.header /\ fileHeader' = p.header /\ headers' = headers \cup {p.header}
        /\ PoolBecomes(p, FALSE) /\ map' = p.map
    BY <1>1 DEF p, WriteHeader
  <1>10. /\ Memory' = a /\ pool' = PooledIn(p)
         /\ unflushed' = InUse(p) \cap (p.touched \cup unflushed)
    <2> DEFINE no == FALSE
    <2>1. PoolBecomes(p, no) /\ modified' = p.modified
      BY <1>2, <1>3, <1>7, <1>9
    <2> HIDE DEF no, a, m
    <2>2. /\ Memory' = After(p) /\ pool' = PooledIn(p)
          /\ unflushed' = InUse(p) \cap (p.touched \cup IF no THEN {} ELSE unflushed)
      BY <1>7, <1>9, <2>1, MemoryNext
    <2> QED
      BY <2>2 DEF no, a
  <1>11. /\ MemFields(a) /\ \A q \in Places : PageType(a.pool[q])
         /\ a.header = p.header /\ a.map = p.map /\ a.modified = p.modified
         /\ Current(a) = c /\ Working(a) = Working(p)
         /\ Whole(a.pool, c) /\ Whole(a.pool, Working(p))
         /\ Cut(a.pool, c, Working(p), p.map)
         /\ Reads(a.pool, c) = Reads(p.pool, c)
         /\ CState(a) = CState(p) /\ WState(a) = WState(p)
    BY <1>7, PreparedAfter
  <1> HIDE DEF a
  <1>12. /\ header.init /\ Reads(m.pool, c) \cap unflushed = {}
         /\ \A h \in headers : LeadTo(h, header.curr, c) /\ (~h.dirty => ~header.dirty)
    BY <1>3 DEF OpenNow, OpenIn
  <1>13. \A h \in headers' : LeadTo(h, header.curr, c) /\ h.dirty
    <2>1. p.header.root[p.header.curr] = c
      BY <1>7 DEF Current
    <2> HIDE DEF c
    <2> QED
      BY <1>2, <1>7, <1>9, <1>12, <2>1 DEF LeadTo
  <1>14. Reads(a.pool, c) \cap unflushed' = {}
    BY <1>8, <1>10, <1>11, <1>12
  <1>15. FlushIn(Memory', committed', unflushed', headers')
    <2>1. FlushIn(a, committed, unflushed', headers')
      BY <1>2, <1>3, <1>7, <1>9, <1>11, <1>12, <1>13, <1>14 DEF FlushIn, BothIn
    <2> QED
      BY <1>2, <1>10, <2>1
  <1>16. pool' = a.pool
    BY <1>10 DEF Memory
  <1>17. Base'
    <2>1. HeaderFields(p.header) /\ Header(p.header)
      <3>1. Root(Current(p)) /\ Root(Working(p))
        BY <1>7, WholeFacts DEF Roomy
      <3>2. p.header.dirty \in BOOLEAN /\ p.header.init \in BOOLEAN
        <4>1. header.init \in BOOLEAN
          BY MemoryTypes DEF OpenNow
        <4> QED
          BY <1>7, <4>1
      <3> QED
        BY <1>7, <3>1, <3>2, HeaderTyped
    <2>2. pool' = [q \in Places |-> pool'[q]] /\ \A q \in Places : PageType(pool'[q])
      BY <1>11, <1>16 DEF MemFields
    <2>3. unflushed' \subseteq Places
      BY <1>8, <1>10 DEF OpenNow, Base
    <2> QED
      BY <1>2, <1>7, <1>9, <2>1, <2>2, <2>3 DEF OpenNow, Base
  <1>18. Inv'
    BY <1>2, <1>15, <1>17 DEF Inv, PhaseInv
  <1>19. Survivors' = {CState(a)}
    <2>1. AllLeadTo(a.pool, unflushed', headers', header.curr, c) /\ headers' # {}
      BY <1>9, <1>13 DEF AllLeadTo
    <2>2. RootFields(c)
      BY <1>11, WorkingFields
    <2> DEFINE lost == unflushed'
               hs == headers'
    <2>3. Reads(a.pool, c) \cap lost = {} /\ AllLeadTo(a.pool, lost, hs, header.curr, c) /\ hs # {}
      BY <1>14, <2>1
    <2> HIDE DEF c, lost, hs
    <2>4. SurvivorsOf(a.pool, lost, hs) = {StateOf(a.pool, c)}
      BY ONLY <1>11, <2>2, <2>3, SurvivesOne
    <2> QED
      BY <1>11, <1>16, <2>4, SeenNext DEF CState, lost, hs
  <1>20. Store!BeginCommit
    <2>1. WorkState' = WorkState /\ StorePhase' = "commit"
      BY <1>2, <1>3, <1>8, <1>10, <1>11, SeenNext DEF WorkOf, PhaseOf
    <2> QED
      BY <1>3, <1>8, <1>11, <1>19, <2>1 DEF Store!BeginCommit
  <1> QED
    BY <1>18, <1>20 DEF StoreStep, Store!Next

\* Memory without marks, and not modified.
Settle(n) == [n EXCEPT !.map = {}, !.modified = FALSE]

\* Once the working root is a copy nothing is left to do.
LEMMA Settling ==
    ASSUME NEW n, Good(n), Working(n) = Swapped(Current(n)), Alike(n.pool, Current(n)),
           NEW z, z = Settle(n)
    PROVE  /\ Good(z) /\ Quiet(z) /\ Working(z).rootObject = Current(z).rootObject
           /\ z.header = n.header /\ z.pool = n.pool /\ z.touched = n.touched
           /\ z.map = {} /\ z.modified = FALSE
           /\ Current(z) = Current(n) /\ Working(z) = Working(n)
  <1> DEFINE c == Current(n)
             s == Swapped(c)
             no == FALSE
             none == {}
  <1>1. /\ n = [header |-> n.header, pool |-> n.pool, map |-> n.map,
                modified |-> n.modified, touched |-> n.touched]
        /\ MemFields(n) /\ Whole(n.pool, c)
        /\ \A p \in Places : PageType(n.pool[p])
        /\ RootFields(c)
    BY WorkingFields DEF Good, MemFields
  <1>2. z = [n EXCEPT !.map = none, !.modified = no]
    BY DEF Settle
  <1> HIDE DEF no, none
  <1>3. /\ z = [header |-> n.header, pool |-> n.pool, map |-> none,
                modified |-> no, touched |-> n.touched]
        /\ z.header = n.header /\ z.pool = n.pool /\ z.touched = n.touched
        /\ z.map = none /\ z.modified = no
    BY ONLY <1>1, <1>2
  <1>4. MemFields(z)
    BY <1>1, <1>3 DEF MemFields
  <1>5. Current(z) = c /\ Working(z) = Working(n)
    BY <1>3 DEF Current, Working
  <1>6. RootFields(s) /\ s.rootObject = c.rootObject
    BY <1>1, WholeFacts, SwappedFields
  <1>7. c.rootObject \in Users \cup {0}
    BY <1>1, WholeFacts DEF Roomy, Root
  <1> DEFINE x == c.rootObject
  <1>8. Working(z) = [Swapped(c) EXCEPT !.rootObject = x]
    <2>1. Working(z) = s
      BY <1>5
    <2> HIDE DEF s
    <2>2. [s EXCEPT !.rootObject = s.rootObject] = s
      BY ONLY <1>6 DEF RootFields
    <2>3. Working(z) = [s EXCEPT !.rootObject = x]
      BY <1>6, <2>1, <2>2
    <2> QED
      BY <2>3 DEF s
  <1>9. z.map = {} /\ z.modified = FALSE
    BY <1>3 DEF no, none
  <1>10. Good(z)
    <2>1. /\ \A p \in Places : PageType(z.pool[p])
          /\ Whole(z.pool, c) /\ Alike(z.pool, c)
          /\ z.map \subseteq 0 .. PageOf(MaxOid)
      BY <1>1, <1>3, <1>9
    <2> DEFINE w == Working(z)
    <2>2. w = [Swapped(c) EXCEPT !.rootObject = x] /\ c = Current(z) /\ w = Working(z)
          /\ x \in Users \cup {0}
      BY <1>5, <1>7, <1>8
    <2> HIDE DEF c, x, w
    <2> QED
      BY ONLY <1>4, <2>1, <2>2, TwinGood
  <1>11. Quiet(z) /\ Working(z).rootObject = c.rootObject
    <2>1. Working(z).rootObject = x
      BY <1>5, <1>6
    <2> QED
      BY <1>5, <1>8, <1>9, <2>1 DEF Quiet
  <1> QED
    BY <1>3, <1>5, <1>9, <1>10, <1>11

\* What a copy of the committed root leaves when the action is over.
IsFresh(m, a, lost) ==
    /\ Good(a) /\ Quiet(a) /\ Working(a).rootObject = Current(a).rootObject
    /\ MemFields(a) /\ a.map = {} /\ a.modified = FALSE
    /\ Current(a) = Current(m) /\ Working(a) = Swapped(Current(m))
    /\ WState(a) = CState(m) /\ CState(a) = CState(m)
    /\ Reads(a.pool, Current(a)) \cap lost = {}

Freshened(m, n, z, a, lost) ==
    /\ IsFresh(m, a, lost) /\ a.header = n.header /\ a.pool = PooledIn(z)
    /\ MemFields(z) /\ z.header = n.header /\ z.pool = n.pool /\ z.touched = n.touched
    /\ z.map = {} /\ z.modified = FALSE

\* When the action is over nothing is left to be done.
LEMMA Freshening ==
    ASSUME NEW m, Whole(m.pool, Current(m)), m.touched = {}, NEW n, IsRolled(m, n),
           NEW z, z = Settle(n), NEW a, a = After(z),
           NEW lost, lost \subseteq n.touched
    PROVE  Freshened(m, n, z, a, lost)
  <1> DEFINE c == Current(m)
  <1>1. /\ Good(n) /\ Current(n) = c /\ Working(n) = Swapped(c) /\ Alike(n.pool, c)
        /\ n.touched \subseteq ToSet(c.shadow)
    BY DEF IsRolled, Frame
  <1>2. /\ Good(z) /\ Quiet(z) /\ Working(z).rootObject = Current(z).rootObject
        /\ z.header = n.header /\ z.pool = n.pool /\ z.touched = n.touched
        /\ z.map = {} /\ z.modified = FALSE
        /\ Current(z) = c /\ Working(z) = Working(n)
    <2>1. Working(n) = Swapped(Current(n)) /\ Alike(n.pool, Current(n))
      BY <1>1
    <2> QED
      BY <1>1, <2>1, Settling
  <1>3. IsAfter(z, a)
    BY <1>2, AfterGood
  <1>4. /\ Good(a) /\ MemFields(a)
        /\ a.header = z.header /\ a.map = z.map /\ a.modified = z.modified
        /\ Current(a) = Current(z) /\ Working(a) = Working(z)
        /\ Reads(a.pool, Current(a)) = Reads(z.pool, Current(z))
    BY <1>3 DEF IsAfter
  <1>5. WState(a) = WState(z) /\ CState(a) = CState(z)
    BY <1>2, <1>3, WStateAfter
  <1>6. /\ WState(n) = CState(n) /\ CState(n) = CState(m)
        /\ Reads(n.pool, Current(n)) = Reads(m.pool, c)
        /\ ToSet(c.shadow) \cap Reads(m.pool, c) = {}
    BY RolledState
  <1>7. WState(z) = WState(n) /\ CState(z) = CState(n)
    BY <1>1, <1>2 DEF WState, CState
  <1>8. Reads(a.pool, Current(a)) = Reads(m.pool, c)
    BY <1>1, <1>2, <1>4, <1>6
  <1>9. Reads(a.pool, Current(a)) \cap lost = {}
    BY <1>1, <1>6, <1>8
  <1>10. Quiet(a) /\ Working(a).rootObject = Current(a).rootObject
    BY <1>2, <1>4 DEF Quiet
  <1>11. a.pool = PooledIn(z)
    <2>1. MemFields(z)
      BY <1>2 DEF Good
    <2> QED
      BY <2>1, AfterFields
  <1>12. MemFields(z)
    BY <1>2 DEF Good
  <1> QED
    BY <1>1, <1>2, <1>4, <1>5, <1>6, <1>7, <1>9, <1>10, <1>11, <1>12 DEF IsFresh, Freshened

\* When the header is on the file the new state alone survives.
LEMMA EndCommitStep ==
    ASSUME Inv, EndCommit
    PROVE  Inv' /\ StoreStep
  <1> DEFINE m == Memory
             c == Current(m)
             n == EndIn(m)
             z == Settle(n)
             a == After(z)
  <1>1. /\ m.pool = pool /\ m.header = header /\ m.map = map /\ m.modified = modified
        /\ m.touched = {} /\ MemFields(m)
        /\ \A p \in Places : PageType(m.pool[p])
        /\ m.map \subseteq 0 .. PageOf(MaxOid)
        /\ HeaderFields(header) /\ Header(header) /\ Base
    BY MemoryTypes DEF Inv, Base
  <1>2. /\ pc = "sync" /\ calls < MaxCalls /\ calls' = calls + 1
        /\ header' = n.header /\ PoolBecomes(n, TRUE)
        /\ map' = {} /\ modified' = FALSE /\ committed' = c.used
        /\ fileHeader' = header /\ headers' = {header} /\ pc' = "open"
    BY <1>1 DEF EndCommit, EndIn, Flush, Count
  <1>3. SyncIn(m, committed, unflushed, headers)
    BY <1>2 DEF Inv, PhaseInv
  <1>4. /\ BothIn(m, committed, Working(m), Current(m), headers)
        /\ unflushed = {} /\ headers = {header, Flipped(header)}
    BY <1>1, <1>3 DEF SyncIn, Flipped
  <1>5. /\ header.init /\ header.dirty
        /\ Whole(m.pool, c) /\ Whole(m.pool, Working(m))
        /\ committed = Working(m).used /\ Working(m).used <= c.used
        /\ Cut(m.pool, Working(m), c, m.map)
    BY <1>1, <1>4 DEF BothIn
  <1> HIDE DEF n
  <1>6. IsRolled(m, n)
    <2>1. n = EndIn(m)
      BY DEF n
    <2> QED
      BY <1>1, <1>5, <2>1, Ending
  <1> DEFINE lost == InUse(n) \cap n.touched
  <1>7. /\ IsFresh(m, a, lost) /\ a.header = n.header /\ a.pool = PooledIn(z)
        /\ MemFields(z) /\ z.header = n.header /\ z.pool = n.pool /\ z.touched = n.touched
        /\ z.map = {} /\ z.modified = FALSE
    <2>1. /\ z = Settle(n) /\ a = After(z) /\ lost \subseteq n.touched
      OBVIOUS
    <2>2. Whole(m.pool, Current(m)) /\ m.touched = {}
      BY <1>1, <1>5
    <2> HIDE DEF z, a, lost, m
    <2>3. Freshened(m, n, z, a, lost)
      BY ONLY <1>6, <2>1, <2>2, Freshening
    <2> QED
      BY ONLY <2>3 DEF Freshened
  <1> HIDE DEF z, lost
  <1>8. PoolBecomes(z, TRUE) /\ InUse(z) = InUse(n)
    <2>1. InUse(z) = InUse(n)
      BY <1>7 DEF InUse, Current, Working
    <2> QED
      BY <1>2, <1>7, <2>1 DEF PoolBecomes
  <1>9. Memory' = a /\ pool' = PooledIn(z) /\ unflushed' = lost
    <2> DEFINE yes == TRUE
    <2>1. /\ header' = z.header /\ map' = z.map /\ modified' = z.modified
          /\ PoolBecomes(z, yes)
      BY <1>2, <1>7, <1>8
    <2> HIDE DEF yes, a, m
    <2>2. /\ Memory' = After(z) /\ pool' = PooledIn(z)
          /\ unflushed' = InUse(z) \cap (z.touched \cup IF yes THEN {} ELSE unflushed)
      BY <1>7, <2>1, MemoryNext
    <2> QED
      BY <1>7, <1>8, <2>2 DEF yes, a, lost
  <1> HIDE DEF a
  <1>10. /\ Good(a) /\ Quiet(a) /\ Working(a).rootObject = Current(a).rootObject
         /\ MemFields(a) /\ a.map = {} /\ a.modified = FALSE
         /\ Current(a) = c
         /\ WState(a) = CState(m) /\ CState(a) = CState(m)
         /\ Reads(a.pool, Current(a)) \cap lost = {}
    BY <1>7 DEF IsFresh
  <1>11. a.header.curr = header.curr /\ a.header.init = header.init
         /\ a.header.dirty = header.dirty
    BY <1>1, <1>6, <1>7 DEF IsRolled
  <1>12. LeadTo(header, header.curr, c)
    BY <1>1, <1>5 DEF LeadTo, Current
  <1>13. OpenIn(Memory', committed', unflushed', headers', fileHeader')
    <2>1. OpenIn(a, c.used, lost, {header}, header)
      BY <1>5, <1>10, <1>11, <1>12 DEF OpenIn
    <2> QED
      BY <1>2, <1>9, <2>1
  <1>14. pool' = a.pool
    BY <1>7, <1>9
  <1>15. Base'
    <2>1. HeaderFields(a.header) /\ Header(a.header)
      <3>1. Root(Current(a)) /\ Root(Working(a))
        BY <1>10, GoodFacts DEF Roomy
      <3>2. a.header.dirty \in BOOLEAN /\ a.header.init \in BOOLEAN
        BY <1>1, <1>11 DEF Header
      <3> QED
        BY <1>10, <3>1, <3>2, HeaderTyped
    <2>2. pool' = [q \in Places |-> pool'[q]] /\ \A q \in Places : PageType(pool'[q])
      BY <1>10, <1>14 DEF MemFields, Good
    <2>3. unflushed' \subseteq Places
      <3>1. n.touched \subseteq m.touched \cup ToSet(c.shadow) /\ ToSet(c.shadow) \in SUBSET Places
        BY <1>5, <1>6, WholeUses DEF IsRolled, Frame
      <3> QED
        BY <1>1, <1>9, <3>1 DEF lost
    <2>4. calls' \in 0 .. MaxCalls
      <3>1. calls \in 0 .. MaxCalls /\ MaxCalls \in Nat
        BY Layout DEF Inv, Base
      <3> QED
        BY ONLY <1>2, <3>1
    <2>5. committed' \in 0 .. MaxOid + 1
      <3>1. c.used \in Nat /\ c.used <= MaxOid + 1
        BY <1>5, WholeFacts, RoomyFacts
      <3> QED
        BY <1>2, <3>1, Sizes
    <2> QED
      BY <1>1, <1>2, <1>7, <2>1, <2>2, <2>3, <2>4, <2>5 DEF Base
  <1>16. Inv'
    BY <1>2, <1>13, <1>15 DEF Inv, PhaseInv
  <1>17. WorkState = CState(m) /\ WorkState' = CState(m)
         /\ StorePhase = "commit" /\ StorePhase' = "up"
    BY <1>2, <1>9, <1>10, SeenNow, SeenNext DEF WorkOf, PhaseOf
  <1>18. Survivors' = {CState(m)}
    <2>1. SurvivorsOf(a.pool, unflushed', headers') = {CState(a)}
      <3>1. fileHeader' \in headers'
        BY <1>2
      <3>2. OpenIn(a, committed', unflushed', headers', fileHeader')
        BY <1>9, <1>13
      <3> DEFINE ls == unflushed'
                 hs == headers'
                 fh == fileHeader'
                 cn == committed'
      <3>3. fh \in hs /\ OpenIn(a, cn, ls, hs, fh)
        BY <3>1, <3>2
      <3> HIDE DEF ls, hs, fh, cn
      <3>4. SurvivorsOf(a.pool, ls, hs) = {CState(a)}
        BY ONLY <3>3, OpenSurvives
      <3> QED
        BY <3>4 DEF ls, hs
    <2> QED
      BY <1>10, <1>14, <2>1, SeenNext
  <1>19. CState(m) \in Survivors
    <2>1. Recovered(header) = c /\ header \in headers
      BY <1>1, <1>4, <1>5 DEF Recovered, Current
    <2>2. Spared(pool, unflushed) = pool
      BY <1>1, <1>4, SparedNone DEF Base
    <2> QED
      BY <1>1, <1>5, <2>1, <2>2, SeenNow DEF SurvivorsOf, CState
  <1>20. Store!EndCommit
    BY <1>17, <1>18, <1>19 DEF Store!EndCommit
  <1> QED
    BY <1>16, <1>20 DEF StoreStep, Store!Next

-----------------------------------------------------------------------------
(* The file is opened, or created.                                          *)

\* A header is read into memory.
Loaded(m, h) == [m EXCEPT !.header = h]

\* Memory with the header that was read.
LEMMA Loading ==
    ASSUME Base, NEW m, m = Loaded(Memory, fileHeader)
    PROVE  /\ MemFields(m) /\ m.header = fileHeader /\ m.pool = pool /\ m.map = map
           /\ m.modified = modified /\ m.touched = {}
           /\ Current(m) = fileHeader.root[fileHeader.curr]
           /\ Working(m) = fileHeader.root[1 - fileHeader.curr]
  <1>1. m = [header |-> fileHeader, pool |-> pool, map |-> map, modified |-> modified,
             touched |-> {}]
    BY DEF Loaded, Memory
  <1>2. /\ m.header = fileHeader /\ m.pool = pool /\ m.map = map
        /\ m.modified = modified /\ m.touched = {}
    BY ONLY <1>1
  <1>3. HeaderFields(fileHeader) /\ fileHeader.curr \in 0 .. 1
        /\ pool = [p \in Places |-> pool[p]]
    BY DEF Base, Header
  <1>4. MemFields(m)
    BY <1>1, <1>2, <1>3 DEF MemFields
  <1> QED
    BY <1>2, <1>4 DEF Current, Working

\* Where open() leaves memory.
OpenedIn(m) == IF m.header.dirty THEN Recover(m) ELSE m

\* After a crash, and after an orderly close, the roots are alike.
LEMMA Opening ==
    ASSUME NEW m, MemFields(m), \A p \in Places : PageType(m.pool[p]),
           m.map = {}, m.modified = FALSE, m.touched = {},
           Whole(m.pool, Current(m)),
           ~m.header.dirty => Working(m) = Swapped(Current(m)) /\ Alike(m.pool, Current(m)),
           NEW n, n = OpenedIn(m)
    PROVE  /\ IsRolled(m, n) /\ n.map = {} /\ n.modified = FALSE
           /\ ~m.header.dirty => n.touched = {}
  <1> DEFINE c == Current(m)
             no == FALSE
             none == {}
  <1>1. m.map \subseteq 0 .. PageOf(MaxOid)
    OBVIOUS
  <1>2. CASE m.header.dirty
    <2> DEFINE pages == 0 .. PagesOf(c.used) - 1
               s == Swapped(c)
    <2>1. /\ RootFields(c) /\ Roomy(c) /\ IsInjective(c.shadow) /\ Len(c.shadow) = Len(c.index)
      BY WholeFacts, WorkingFields
    <2>2. s.index = c.shadow
      BY <2>1, SwappedFields
    <2>3. n = ReplacedIn(m, pages)
      BY <1>2, <2>2 DEF OpenedIn, Recover, ReplacedIn, WithWorking, Swapped
    <2>4. c.used \in Nat
      BY <2>1, RoomyFacts
    <2>5. \A q \in 0 .. c.used - 1 : PageOf(q) \in pages
      <3> TAKE q \in 0 .. c.used - 1
      <3>1. q \in Nat /\ q < c.used
        BY <2>4
      <3>2. PageOf(q) < PagesOf(c.used) /\ PagesOf(c.used) \in Nat /\ PageOf(q) \in Nat
        BY <2>4, <3>1, PageBelow, PageAndSlot
      <3> QED
        BY ONLY <3>2
    <2>6. pages \in SUBSET Nat
      OBVIOUS
    <2>7. \A q \in 0 .. c.used - 1 :
              PageOf(q) \in pages \/ Ent(m.pool, c.shadow)[q] = Ent(m.pool, c.index)[q]
      BY <2>5
    <2> HIDE DEF pages
    <2>8. IsRolled(m, n) /\ n.map = m.map /\ n.modified = m.modified
      BY <1>1, <2>3, <2>6, <2>7, Replaced
    <2> QED
      BY <1>2, <2>8
  <1>3. CASE ~m.header.dirty
    <2>1. n = m /\ Working(m) = Swapped(c) /\ Alike(m.pool, c)
      BY <1>3 DEF OpenedIn
    <2> DEFINE s == Swapped(c)
               x == c.rootObject
               w == Working(m)
    <2>2. RootFields(s) /\ s.rootObject = c.rootObject
      BY WholeFacts, WorkingFields, SwappedFields
    <2>3. x \in Users \cup {0}
      BY WholeFacts DEF Roomy, Root
    <2>4. w = [Swapped(c) EXCEPT !.rootObject = x]
      <3>1. w = s /\ x = s.rootObject
        BY <2>1, <2>2
      <3> HIDE DEF s, w, x
      <3>2. [s EXCEPT !.rootObject = s.rootObject] = s
        BY ONLY <2>2 DEF RootFields
      <3>3. w = [s EXCEPT !.rootObject = x]
        BY <3>1, <3>2
      <3> QED
        BY <3>3 DEF s
    <2>5. Good(m)
      <3>1. c = Current(m) /\ w = Working(m) /\ Whole(m.pool, c) /\ Alike(m.pool, c)
            /\ MemFields(m)
        BY <2>1
      <3>2. \A p \in Places : PageType(m.pool[p])
        OBVIOUS
      <3> HIDE DEF c, w, x
      <3> QED
        BY ONLY <1>1, <2>3, <2>4, <3>1, <3>2, TwinGood
    <2>6. Frame(m, m, ToSet(c.shadow))
      BY DEF Frame
    <2>7. IsRolled(m, n)
      BY <2>1, <2>5, <2>6 DEF IsRolled
    <2> QED
      BY <2>1, <2>7
  <1> QED
    BY <1>2, <1>3

\* open() finds the one state that survives.
LEMMA OpenStep ==
    ASSUME Inv, Open
    PROVE  Inv' /\ StoreStep
  <1> DEFINE m == Loaded(Memory, fileHeader)
             c == fileHeader.root[fileHeader.curr]
             n == OpenedIn(m)
             a == After(n)
             lost == InUse(n) \cap n.touched
  <1>1. Base
    BY DEF Inv
  <1>2. /\ MemFields(m) /\ m.header = fileHeader /\ m.pool = pool /\ m.map = map
        /\ m.modified = modified /\ m.touched = {}
        /\ Current(m) = c
        /\ Working(m) = fileHeader.root[1 - fileHeader.curr]
    BY <1>1, Loading
  <1> HIDE DEF m
  <1>3. /\ pc = "closed" /\ fileHeader.init
        /\ header' = n.header /\ PoolBecomes(n, FALSE) /\ committed' = Working(n).used
        /\ pc' = "open" /\ map' = map /\ modified' = modified
        /\ fileHeader' = fileHeader /\ headers' = headers /\ calls' = calls
    <2>1. m = [Memory EXCEPT !.header = fileHeader]
      BY DEF m, Loaded
    <2>2. n = IF fileHeader.dirty THEN Recover(m) ELSE m
      BY <1>2 DEF OpenedIn
    <2> QED
      BY <2>1, <2>2 DEF Open
  <1>4. ClosedIn(Memory, unflushed, headers, fileHeader) /\ Memory.pool = pool
        /\ Memory.map = map /\ Memory.modified = modified
    BY <1>1, <1>3, MemoryTypes DEF Inv, PhaseInv
  <1>5. /\ HeaderFields(fileHeader) /\ Header(fileHeader) /\ fileHeader \in headers
        /\ modified \in BOOLEAN
    BY <1>1 DEF Base
  <1>6. /\ unflushed = {} /\ map = {} /\ ~modified
        /\ fileHeader.dirty => \A h \in headers : h.dirty
        /\ Whole(pool, c)
        /\ \A h \in headers : /\ LeadTo(h, fileHeader.curr, c)
                              /\ ~h.dirty => h.root[1 - h.curr] = Swapped(c) /\ Alike(pool, c)
    BY <1>3, <1>4, <1>5 DEF ClosedIn
  <1> HIDE DEF n
  <1>7. /\ IsRolled(m, n) /\ n.map = {} /\ n.modified = FALSE
        /\ ~m.header.dirty => n.touched = {}
    <2>1. ~m.header.dirty => Working(m) = Swapped(Current(m)) /\ Alike(m.pool, Current(m))
      BY <1>2, <1>5, <1>6
    <2>2. \A p \in Places : PageType(m.pool[p])
      BY <1>1, <1>2 DEF Base
    <2>3. m.map = {} /\ m.modified = FALSE /\ Whole(m.pool, Current(m))
      BY <1>2, <1>5, <1>6
    <2>4. n = OpenedIn(m)
      BY DEF n
    <2> QED
      BY ONLY <1>2, <2>1, <2>2, <2>3, <2>4, Opening
  <1> DEFINE z == Settle(n)
  <1>8. z = n
    <2>1. n = [header |-> n.header, pool |-> n.pool, map |-> n.map,
               modified |-> n.modified, touched |-> n.touched]
      BY <1>7 DEF IsRolled, Good, MemFields
    <2> DEFINE no == FALSE
               none == {}
    <2>2. n.map = none /\ n.modified = no /\ z = [n EXCEPT !.map = none, !.modified = no]
      BY <1>7 DEF Settle
    <2> HIDE DEF z, no, none
    <2> QED
      BY ONLY <2>1, <2>2
  <1>9. IsFresh(m, a, lost) /\ a.header = n.header /\ a.pool = PooledIn(n) /\ MemFields(n)
    <2>1. z = Settle(n) /\ a = After(z) /\ lost \subseteq n.touched
      BY <1>8
    <2>2. Whole(m.pool, Current(m)) /\ m.touched = {}
      BY <1>2, <1>6
    <2> HIDE DEF z, a, lost
    <2>3. Freshened(m, n, z, a, lost)
      BY ONLY <1>7, <2>1, <2>2, Freshening
    <2> QED
      BY ONLY <1>8, <2>3 DEF Freshened
  <1>10. Memory' = a /\ pool' = PooledIn(n) /\ unflushed' = lost
    <2> DEFINE no == FALSE
    <2>1. /\ header' = n.header /\ map' = n.map /\ modified' = n.modified
          /\ PoolBecomes(n, no)
      BY <1>3, <1>5, <1>6, <1>7
    <2> HIDE DEF no, a
    <2>2. /\ Memory' = After(n) /\ pool' = PooledIn(n)
          /\ unflushed' = InUse(n) \cap (n.touched \cup IF no THEN {} ELSE unflushed)
      BY <1>9, <2>1, MemoryNext
    <2> QED
      BY <1>6, <2>2 DEF no, a
  <1> HIDE DEF a, lost, z
  <1>11. /\ Good(a) /\ Quiet(a) /\ Working(a).rootObject = Current(a).rootObject
         /\ MemFields(a) /\ a.map = {} /\ a.modified = FALSE
         /\ Current(a) = c
         /\ WState(a) = CState(m) /\ CState(a) = CState(m)
         /\ Reads(a.pool, Current(a)) \cap lost = {}
    BY <1>2, <1>9 DEF IsFresh
  <1>12. a.header.curr = fileHeader.curr /\ a.header.init = fileHeader.init
         /\ a.header.dirty = fileHeader.dirty
    BY <1>2, <1>7, <1>9 DEF IsRolled
  <1>13. committed' = c.used
    <2>1. Working(n) = Swapped(c)
      BY <1>2, <1>7 DEF IsRolled
    <2>2. RootFields(c)
      BY <1>11, WorkingFields
    <2>3. Swapped(c).used = c.used
      BY <1>6, <2>2, WholeFacts, SwappedFields
    <2> QED
      BY <1>3, <2>1, <2>3
  <1>14. OpenIn(Memory', committed', unflushed', headers', fileHeader')
    <2>1. ~a.header.dirty => lost = {}
      BY <1>2, <1>7, <1>12 DEF lost
    <2>2. \A h \in headers : /\ LeadTo(h, a.header.curr, c)
                             /\ ~h.dirty => ~a.header.dirty /\ h.root[1 - h.curr] = Swapped(c)
      BY <1>6, <1>12
    <2>3. OpenIn(a, c.used, lost, headers, fileHeader)
      BY <1>3, <1>11, <1>12, <2>1, <2>2 DEF OpenIn
    <2> QED
      BY <1>3, <1>10, <1>13, <2>3
  <1>15. pool' = a.pool
    BY <1>9, <1>10
  <1>16. Base'
    <2>1. HeaderFields(header') /\ Header(header')
      <3>1. Root(Current(a)) /\ Root(Working(a))
        BY <1>11, GoodFacts DEF Roomy
      <3>2. a.header.dirty \in BOOLEAN /\ a.header.init \in BOOLEAN
        BY <1>5, <1>12 DEF Header
      <3>3. HeaderFields(a.header) /\ Header(a.header)
        BY <1>11, <3>1, <3>2, HeaderTyped
      <3> QED
        BY <1>3, <1>9, <3>3
    <2>2. pool' = [q \in Places |-> pool'[q]] /\ \A q \in Places : PageType(pool'[q])
      BY <1>11, <1>15 DEF MemFields, Good
    <2>3. unflushed' \subseteq Places
      <3>1. n.touched \subseteq m.touched \cup ToSet(c.shadow) /\ ToSet(c.shadow) \in SUBSET Places
        BY <1>2, <1>6, <1>7, WholeUses DEF IsRolled, Frame
      <3> QED
        BY <1>2, <1>10, <3>1 DEF lost
    <2>4. committed' \in 0 .. MaxOid + 1
      <3>1. c.used \in Nat /\ c.used <= MaxOid + 1
        BY <1>6, WholeFacts, RoomyFacts
      <3> QED
        BY <1>13, <3>1, Sizes
    <2> QED
      BY <1>1, <1>3, <2>1, <2>2, <2>3, <2>4 DEF Base
  <1>17. Inv'
    BY <1>3, <1>14, <1>16 DEF Inv, PhaseInv
  <1>18. Survivors' = {CState(a)} /\ WorkState' = WState(a) /\ StorePhase' = "up"
         /\ StorePhase = "down"
    <2>1. SurvivorsOf(a.pool, lost, headers) = {CState(a)}
      <3>1. OpenIn(a, committed', lost, headers, fileHeader)
        BY <1>3, <1>10, <1>14
      <3> DEFINE cn == committed'
      <3>2. OpenIn(a, cn, lost, headers, fileHeader)
        BY <3>1
      <3> HIDE DEF cn
      <3> QED
        BY <1>5, <3>2, OpenSurvives
    <2>2. Survivors' = SurvivorsOf(a.pool, lost, headers)
      BY <1>3, <1>10, <1>15, SeenNext
    <2> QED
      BY <1>3, <1>10, <2>1, <2>2, SeenNow, SeenNext DEF WorkOf, PhaseOf
  <1>19. Survivors = {CState(m)}
    <2>1. AllLeadTo(pool, unflushed, headers, fileHeader.curr, c) /\ headers # {}
      BY <1>5, <1>6 DEF AllLeadTo
    <2>2. Reads(pool, c) \cap unflushed = {} /\ RootFields(c)
      BY <1>6, <1>11, WorkingFields
    <2> HIDE DEF c
    <2>3. SurvivorsOf(pool, unflushed, headers) = {StateOf(pool, c)}
      BY <1>6, <2>1, <2>2, SurvivesOne
    <2> QED
      BY <1>2, <2>3, SeenNow DEF CState
  <1>20. Store!Open
    BY <1>11, <1>18, <1>19 DEF Store!Open
  <1> QED
    BY <1>17, <1>20 DEF StoreStep, Store!Next

-----------------------------------------------------------------------------
(* A new file is laid out.                                                  *)

\* Entries of places, and of none.
LEMMA FirstEntries ==
    /\ InitBitmap \in Places /\ At(InitBitmap, FALSE) \in Entry
    /\ At(InitBitmap, FALSE).pos = InitBitmap
    /\ At(InitBitmap, FALSE).mod = FALSE /\ At(InitBitmap, FALSE).free = FALSE
    /\ InitBitmap # NoPlace
  <1>1. InitBitmap \in Places
    BY InitApart
  <1> QED
    BY <1>1, NoPlaceIsNone DEF At, Entry

\* The header of a new file is of its type, and has a root and its counterpart.
LEMMA FirstFields ==
    /\ HeaderFields(FirstHeader) /\ Header(FirstHeader)
    /\ FirstHeader.curr = 0 /\ FirstHeader.dirty = TRUE /\ FirstHeader.init = FALSE
    /\ \A k \in 0 .. 1 : FirstHeader.root[k]
          = [index |-> InitIndex[k], shadow |-> InitIndex[1 - k],
             used |-> FirstUserId, freeList |-> 0, rootObject |-> 0]
  <1> DEFINE r(k) == [index |-> InitIndex[k], shadow |-> InitIndex[1 - k],
                      used |-> FirstUserId, freeList |-> 0, rootObject |-> 0]
             yes == TRUE
             no == FALSE
             roots == [k \in 0 .. 1 |-> r(k)]
  <1>1. \A k \in 0 .. 1 : InitIndex[k] \in Seq(Places) /\ InitIndex[1 - k] \in Seq(Places)
    <2>1. \A k \in 0 .. 1 : 1 - k \in 0 .. 1
      OBVIOUS
    <2> QED
      BY <2>1, Layout
  <1>2. FirstUserId \in 0 .. MaxOid + 1
    BY Sizes
  <1>3. \A k \in 0 .. 1 : RootFields(r(k)) /\ Root(r(k))
    BY <1>1, <1>2 DEF RootFields, Root
  <1>4. FirstHeader = [curr |-> 0, dirty |-> yes, init |-> no, root |-> roots]
    BY DEF FirstHeader
  <1>5. roots = [k \in 0 .. 1 |-> roots[k]] /\ \A k \in 0 .. 1 : roots[k] = r(k)
    OBVIOUS
  <1> HIDE DEF roots, yes, no
  <1>6. /\ FirstHeader.curr = 0 /\ FirstHeader.dirty = yes /\ FirstHeader.init = no
        /\ FirstHeader.root = roots
    BY ONLY <1>4
  <1>7. FirstHeader = [curr |-> FirstHeader.curr, dirty |-> FirstHeader.dirty,
                       init |-> FirstHeader.init, root |-> FirstHeader.root]
    BY ONLY <1>4, <1>6
  <1>8. yes \in BOOLEAN /\ no \in BOOLEAN /\ yes = TRUE /\ no = FALSE
    BY DEF yes, no
  <1>9. HeaderFields(FirstHeader)
    <2> HIDE DEF r
    <2> QED
      BY ONLY <1>3, <1>5, <1>6, <1>7 DEF HeaderFields
  <1>10. Header(FirstHeader)
    <2> HIDE DEF r
    <2> QED
      BY <1>3, <1>5, <1>6, <1>8 DEF Header
  <1> QED
    BY <1>5, <1>6, <1>8, <1>9, <1>10

\* So are its pages.
LEMMA FirstTyped ==
    /\ InitPlaces \in SUBSET Places
    /\ \A p \in Places : PageType(FirstPage(p))
  <1>1. InitPlaces \in SUBSET Places
    <2>1. InitIndex[0] \in Seq(Places) /\ InitIndex[1] \in Seq(Places)
      BY Layout
    <2> QED
      BY <2>1, ToSetPlaces, FirstEntries DEF InitPlaces
  <1>2. ASSUME NEW p \in Places
        PROVE  PageType(FirstPage(p))
    <2> DEFINE es == [s \in 1 .. HandlesPerPage |->
                         IF s = Slot(BitmapId) /\ \E k \in 0 .. 1 : InitIndex[k][1] = p
                         THEN At(InitBitmap, FALSE)
                         ELSE At(NoPlace, FALSE)]
    <2>1. DOMAIN es = 1 .. HandlesPerPage /\ \A s \in 1 .. HandlesPerPage : es[s] \in Entry
      BY FirstEntries, NowhereFields
    <2>2. FirstPage(p) = IF p = InitBitmap THEN BitmapPage(InitPlaces) ELSE IndexPage(es)
      BY DEF FirstPage
    <2> HIDE DEF es
    <2> QED
      BY <1>1, <2>1, <2>2, IndexPageTyped, BitmapPageTyped
  <1> QED
    BY <1>1, <1>2

\* As long as no header says that the file is complete nothing survives.
LEMMA NoneSurvives ==
    ASSUME NEW pages, NEW lost, NEW hs, hs # {}, \A h \in hs : ~h.init
    PROVE  SurvivorsOf(pages, lost, hs) = {Empty}
  BY DEF SurvivorsOf

\* The file is laid out where there was none.
LEMMA CreateFileStep ==
    ASSUME Inv, CreateFile
    PROVE  Inv' /\ StoreStep
  <1>1. /\ pc = "closed" /\ ~fileHeader.init
        /\ header' = FirstHeader /\ fileHeader' = FirstHeader
        /\ headers' = headers \cup {FirstHeader}
        /\ pool' = FirstPages /\ unflushed' = InitPlaces /\ pc' = "create"
        /\ map' = map /\ modified' = modified /\ committed' = committed /\ calls' = calls
    BY DEF CreateFile, WriteHeader
  <1>2. Base /\ ClosedIn(Memory, unflushed, headers, fileHeader)
        /\ Memory.map = map /\ Memory.modified = modified
    BY <1>1, MemoryTypes DEF Inv, PhaseInv
  <1>3. map = {} /\ ~modified /\ fileHeader \in headers
    BY <1>2 DEF ClosedIn, Base
  <1>4. \A h \in headers : ~h.init
    BY <1>1, <1>2, <1>3 DEF ClosedIn, LeadTo
  <1>5. /\ pool' = [p \in Places |-> pool'[p]]
        /\ \A p \in Places : pool'[p] = IF p \in InitPlaces THEN FirstPage(p) ELSE pool[p]
    <2>1. pool' = [p \in Places |-> IF p \in InitPlaces THEN FirstPage(p) ELSE pool[p]]
      <3>1. InitBitmap \in InitPlaces
        BY DEF InitPlaces
      <3> QED
        BY <1>1, <3>1 DEF FirstPages, FirstPage
    <2> QED
      BY ONLY <2>1
  <1>6. CreateIn(Memory', headers')
    <2>1. /\ Memory'.header = FirstHeader /\ Memory'.map = {} /\ ~Memory'.modified
          /\ Memory'.pool = pool'
      BY <1>1, <1>3 DEF Memory
    <2> QED
      BY <1>1, <1>4, <1>5, <2>1, FirstFields, FirstTyped DEF CreateIn
  <1>7. Base'
    <2>1. \A p \in Places : PageType(pool'[p])
      BY <1>2, <1>5, FirstTyped DEF Base
    <2>2. unflushed' \subseteq Places
      BY <1>1, FirstTyped
    <2> QED
      BY <1>1, <1>2, <1>5, <2>1, <2>2, FirstFields DEF Base
  <1>8. Inv'
    BY <1>1, <1>6, <1>7 DEF Inv, PhaseInv
  <1>9. Survivors = {Empty} /\ Survivors' = {Empty}
    <2>1. headers' # {} /\ headers # {} /\ \A h \in headers' : ~h.init
      BY <1>1, <1>3, <1>4, FirstFields
    <2> QED
      BY <1>4, <2>1, SeenNow, SeenNext, NoneSurvives
  <1>10. WorkState' = WorkState /\ StorePhase' = StorePhase
    BY <1>1, SeenNow, SeenNext DEF WorkOf, PhaseOf
  <1> QED
    BY <1>8, <1>9, <1>10 DEF StoreStep

\* The first indexes, and what keeps them apart.
LEMMA FirstIndexes ==
    ASSUME NEW k \in 0 .. 1
    PROVE  /\ InitIndex[k] \in Seq(Places) /\ IsInjective(InitIndex[k])
           /\ Len(InitIndex[k]) = Len(InitIndex[0]) /\ Len(InitIndex[0]) \in Nat \ {0}
           /\ FirstUserId <= HandlesPerPage * Len(InitIndex[k])
           /\ ToSet(InitIndex[k]) \subseteq InitPlaces
           /\ InitBitmap \notin ToSet(InitIndex[k])
           /\ \A j \in 0 .. 1 : j # k => ToSet(InitIndex[k]) \cap ToSet(InitIndex[j]) = {}
           /\ 1 - k \in 0 .. 1 /\ 1 - k # k
  <1>1. k = 0 \/ k = 1
    OBVIOUS
  <1>2. /\ InitIndex[0] \in Seq(Places) /\ InitIndex[1] \in Seq(Places)
        /\ Len(InitIndex[0]) = Len(InitIndex[1])
        /\ FirstUserId \in 1 .. HandlesPerPage * Len(InitIndex[0])
    BY Layout
  <1>3. Len(InitIndex[0]) \in Nat \ {0}
    <2> DEFINE n == Len(InitIndex[0])
    <2>1. n \in Nat /\ HandlesPerPage \in Nat /\ FirstUserId \in 1 .. HandlesPerPage * n
      BY <1>2, Sizes
    <2> HIDE DEF n
    <2>2. n # 0
      <3>1. HandlesPerPage * 0 = 0
        BY ONLY <2>1
      <3> QED
        BY ONLY <2>1, <3>1
    <2> QED
      BY <2>1, <2>2 DEF n
  <1>4. IsInjective(InitIndex[0]) /\ IsInjective(InitIndex[1])
        /\ ToSet(InitIndex[0]) \cap ToSet(InitIndex[1]) = {}
        /\ InitBitmap \notin ToSet(InitIndex[0]) \cup ToSet(InitIndex[1])
    BY InitApart
  <1>5. FirstUserId <= HandlesPerPage * Len(InitIndex[k])
    BY <1>1, <1>2, <1>3, Sizes
  <1> QED
    BY <1>1, <1>2, <1>3, <1>4, <1>5 DEF InitPlaces

\* Both lead to the bitmap, and to nothing else.
LEMMA FirstLookup ==
    ASSUME NEW pages, \A p \in InitPlaces : pages[p] = FirstPage(p), NEW k \in 0 .. 1,
           NEW q \in 0 .. FirstUserId - 1
    PROVE  Ent(pages, InitIndex[k])[q]
              = IF q = 0 THEN At(InitBitmap, FALSE) ELSE At(NoPlace, FALSE)
  <1> DEFINE ix == InitIndex[k]
             i == PageOf(q)
             p == ix[i + 1]
             es == [s \in 1 .. HandlesPerPage |->
                       IF s = Slot(BitmapId) /\ \E j \in 0 .. 1 : InitIndex[j][1] = p
                       THEN At(InitBitmap, FALSE)
                       ELSE At(NoPlace, FALSE)]
  <1>1. q \in Nat /\ q \in Ids /\ q < FirstUserId
    BY Sizes DEF Ids
  <1>2. i \in Nat /\ i < Len(ix) /\ Slot(q) \in 1 .. HandlesPerPage
    <2>1. q < HandlesPerPage * Len(ix) /\ Len(ix) \in Nat
      BY <1>1, FirstIndexes, Sizes
    <2> QED
      BY <1>1, <2>1, PageInIndex, PageAndSlot
  <1>3. i + 1 \in DOMAIN ix /\ p \in ToSet(ix)
    BY <1>2, FirstIndexes, IndexPlaces
  <1>4. pages[p] = IndexPage(es)
    <2>1. p \in InitPlaces /\ p # InitBitmap
      BY <1>3, FirstIndexes
    <2> QED
      BY <2>1 DEF FirstPage
  <1>5. Entries(pages[p]) = es
    <2>1. 1 \in DOMAIN es
      BY Sizes
    <2>2. es # <<>>
      <3>1. DOMAIN <<>> = {}
        OBVIOUS
      <3> HIDE DEF es
      <3> QED
        BY ONLY <2>1, <3>1
    <2>3. IndexPage(es).map = es
      BY DEF IndexPage, Blank
    <2> HIDE DEF es
    <2> QED
      BY <1>4, <2>2, <2>3 DEF Entries
  <1>6. Ent(pages, ix)[q] = es[Slot(q)]
    BY <1>1, <1>2, <1>5 DEF Ent, Lookup
  <1>7. CASE q = 0
    <2>1. i = 0 /\ Slot(q) = Slot(BitmapId)
      BY <1>7, BitmapPageIsFirst DEF BitmapId
    <2>2. InitIndex[k][1] = p
      BY <2>1
    <2>3. es[Slot(q)] = At(InitBitmap, FALSE)
      BY <1>2, <2>1, <2>2
    <2> QED
      BY <1>6, <1>7, <2>3
  <1>8. CASE q # 0
    <2>1. ASSUME Slot(q) = Slot(BitmapId), NEW j \in 0 .. 1, InitIndex[j][1] = p
          PROVE  FALSE
      <3>1. 1 \in DOMAIN InitIndex[j] /\ InitIndex[j][1] \in ToSet(InitIndex[j])
        <4>1. InitIndex[j] \in Seq(Places) /\ 0 < Len(InitIndex[j])
          BY FirstIndexes
        <4>2. 0 + 1 \in DOMAIN InitIndex[j] /\ InitIndex[j][0 + 1] \in ToSet(InitIndex[j])
          BY <4>1, IndexPlaces
        <4> QED
          BY <4>2
      <3>2. j = k
        <4>1. p \in ToSet(InitIndex[j]) /\ p \in ToSet(InitIndex[k])
          BY <1>3, <2>1, <3>1
        <4> QED
          BY <4>1, FirstIndexes
      <3>3. 1 = i + 1
        <4>1. IsInjective(ix) /\ ix[1] = ix[i + 1] /\ 1 \in DOMAIN ix
          BY <2>1, <3>1, <3>2, FirstIndexes
        <4> QED
          BY <1>3, <4>1 DEF IsInjective
      <3>4. PageOf(q) = PageOf(0) /\ Slot(q) = Slot(0)
        BY <1>2, <2>1, <3>3, BitmapPageIsFirst DEF BitmapId
      <3> QED
        BY <1>1, <1>8, <3>4, SlotsApart
    <2>2. es[Slot(q)] = At(NoPlace, FALSE)
      BY <1>2, <2>1
    <2> QED
      BY <1>6, <1>8, <2>2
  <1> QED
    BY <1>7, <1>8

\* They stand for a state to go on from, in which there is no object.
LEMMA FirstWhole ==
    ASSUME NEW pages, \A p \in InitPlaces : pages[p] = FirstPage(p),
           NEW c, c = FirstHeader.root[0]
    PROVE  /\ Whole(pages, c) /\ Alike(pages, c)
           /\ FirstHeader.root[1] = Swapped(c)
           /\ c.used = FirstUserId /\ c.rootObject = 0
  <1>1. c = [index |-> InitIndex[0], shadow |-> InitIndex[1],
             used |-> FirstUserId, freeList |-> 0, rootObject |-> 0]
    BY FirstFields
  <1>2. /\ c.index = InitIndex[0] /\ c.shadow = InitIndex[1] /\ c.used = FirstUserId
        /\ c.freeList = 0 /\ c.rootObject = 0
    BY ONLY <1>1
  <1>3. FirstHeader.root[1] = Swapped(c)
    <2>1. FirstHeader.root[1] = [index |-> InitIndex[1], shadow |-> InitIndex[0],
                                 used |-> FirstUserId, freeList |-> 0, rootObject |-> 0]
      BY FirstFields
    <2> DEFINE s == Swapped(c)
    <2>2. s = [c EXCEPT !.index = c.shadow, !.shadow = c.index]
      BY DEF Swapped
    <2> HIDE DEF s
    <2>3. s = [index |-> InitIndex[1], shadow |-> InitIndex[0],
               used |-> FirstUserId, freeList |-> 0, rootObject |-> 0]
      BY ONLY <1>1, <1>2, <2>2
    <2> QED
      BY <2>1, <2>3 DEF s
  <1> DEFINE ce == Ent(pages, c.index)
             n == FirstUserId
  <1>4. \A q \in 0 .. n - 1 :
            /\ ce[q] = IF q = 0 THEN At(InitBitmap, FALSE) ELSE At(NoPlace, FALSE)
            /\ Ent(pages, c.shadow)[q] = ce[q]
    <2> TAKE q \in 0 .. n - 1
    <2> DEFINE e == IF q = 0 THEN At(InitBitmap, FALSE) ELSE At(NoPlace, FALSE)
    <2>1. 0 \in 0 .. 1 /\ 1 \in 0 .. 1
      OBVIOUS
    <2>2. Ent(pages, InitIndex[0])[q] = e
      BY <2>1, FirstLookup
    <2>3. Ent(pages, InitIndex[1])[q] = e
      BY <2>1, FirstLookup
    <2> QED
      BY <1>2, <2>2, <2>3
  <1>5. Alike(pages, c)
    BY <1>2, <1>4 DEF Alike
  <1>6. n \in Nat /\ n >= 1 /\ 0 \in 0 .. n - 1
    BY Sizes
  <1>7. /\ \A q \in 0 .. n - 1 : ce[q] \in Entry /\ ce[q].mod = FALSE /\ ce[q].free = FALSE
        /\ \A q \in 0 .. n - 1 : ce[q].pos = IF q = 0 THEN InitBitmap ELSE NoPlace
    BY <1>4, FirstEntries, NowhereFields
  <1> HIDE DEF ce
  <1>8. Formed(ce, n)
    BY <1>6, <1>7, FirstEntries DEF Formed
  <1>9. Fixed(ce, n)
    BY <1>6, <1>7, <1>8 DEF Fixed, Users
  <1>10. Linked(ce, n, 0)
    BY <1>7 DEF Linked, Freed
  <1>11. Spots(ce, n) = {InitBitmap}
    BY <1>6, <1>7, FirstEntries DEF Spots
  <1>12. /\ InitIndex[0] \in Seq(Places) /\ InitIndex[1] \in Seq(Places)
         /\ IsInjective(InitIndex[0]) /\ IsInjective(InitIndex[1])
         /\ Len(InitIndex[1]) = Len(InitIndex[0]) /\ Len(InitIndex[0]) \in Nat
         /\ n <= HandlesPerPage * Len(InitIndex[0])
         /\ ToSet(InitIndex[0]) \cap ToSet(InitIndex[1]) = {}
         /\ InitBitmap \notin ToSet(InitIndex[0]) \cup ToSet(InitIndex[1])
    BY FirstIndexes, InitApart
  <1>13. Roomy(c)
    <2>1. Root(c)
      BY <1>2, <1>12, Sizes DEF Root
    <2>2. HandlesPerPage * Len(InitIndex[0]) \in Nat
      BY <1>12, Sizes
    <2> QED
      BY <1>2, <1>6, <1>12, <2>1, <2>2 DEF Roomy
  <1>14. \A q \in 0 .. n - 1 : ce[q].pos \notin ToSet(c.index) \cup ToSet(c.shadow)
    <2>1. NoPlace \notin ToSet(c.index) \cup ToSet(c.shadow)
      BY <1>2, <1>12, ToSetPlaces, NoPlaceIsNone
    <2> QED
      BY <1>2, <1>7, <1>12, <2>1
  <1>15. pages[ce[0].pos].used = ToSet(c.index) \cup ToSet(c.shadow) \cup Spots(ce, n)
    <2>1. ce[0].pos = InitBitmap /\ InitBitmap \in InitPlaces
      BY <1>6, <1>7 DEF InitPlaces
    <2>2. pages[InitBitmap].used = InitPlaces
      BY <2>1, FirstTyped, BitmapPageTyped DEF FirstPage
    <2> QED
      BY <1>2, <1>11, <2>1, <2>2 DEF InitPlaces
  <1>16. Whole(pages, c)
    BY <1>2, <1>9, <1>10, <1>12, <1>13, <1>14, <1>15 DEF Whole, ce
  <1> QED
    BY <1>2, <1>3, <1>5, <1>16

\* The header with the flag that says that the file is complete.
LEMMA HeaderDone ==
    ASSUME NEW h, HeaderFields(h), NEW flag, NEW d, d = [h EXCEPT !.init = flag]
    PROVE  /\ HeaderFields(d)
           /\ d.curr = h.curr /\ d.dirty = h.dirty /\ d.init = flag /\ d.root = h.root
  <1>1. h = [curr |-> h.curr, dirty |-> h.dirty, init |-> h.init, root |-> h.root]
    BY DEF HeaderFields
  <1>2. d = [curr |-> h.curr, dirty |-> h.dirty, init |-> flag, root |-> h.root]
    BY ONLY <1>1, d = [h EXCEPT !.init = flag]
  <1>3. d.curr = h.curr /\ d.dirty = h.dirty /\ d.init = flag /\ d.root = h.root
    BY ONLY <1>2
  <1> QED
    BY <1>2, <1>3 DEF HeaderFields

\* The header is written once more, and the file is open and empty.
LEMMA CompleteFileStep ==
    ASSUME Inv, CompleteFile
    PROVE  Inv' /\ StoreStep
  <1> DEFINE yes == TRUE
             m == Memory
             d == [header EXCEPT !.init = yes]
             n == Memory'
             c == FirstHeader.root[0]
  <1>1. /\ pc = "create" /\ header' = d /\ fileHeader' = d /\ headers' = {d}
        /\ unflushed' = {} /\ committed' = FirstUserId /\ pc' = "open"
        /\ pool' = pool /\ map' = map /\ modified' = modified /\ calls' = calls
    BY DEF CompleteFile, Flush
  <1>2. /\ Base /\ CreateIn(m, headers)
        /\ m.pool = pool /\ m.header = header /\ m.map = map /\ m.modified = modified
    BY <1>1, MemoryTypes DEF Inv, PhaseInv
  <1>3. /\ header = FirstHeader /\ map = {} /\ ~modified /\ modified = FALSE
        /\ \A h \in headers : ~h.init
        /\ \A p \in InitPlaces : pool[p] = FirstPage(p)
    BY <1>2 DEF CreateIn, Base
  <1>4. /\ HeaderFields(header) /\ Header(header) /\ headers # {}
        /\ pool = [p \in Places |-> pool[p]] /\ \A p \in Places : PageType(pool[p])
    BY <1>2 DEF Base
  <1>5. /\ HeaderFields(d)
        /\ d.curr = header.curr /\ d.dirty = header.dirty /\ d.init = yes /\ d.root = header.root
    <2> HIDE DEF yes
    <2>1. d = [header EXCEPT !.init = yes]
      OBVIOUS
    <2> HIDE DEF d
    <2> QED
      BY ONLY <1>4, <2>1, HeaderDone
  <1> HIDE DEF d
  <1>6. /\ d.curr = 0 /\ d.dirty = TRUE /\ d.init = TRUE /\ d.root = FirstHeader.root
        /\ Header(d)
    BY <1>3, <1>4, <1>5, FirstFields DEF Header
  <1>7. /\ Whole(pool, c) /\ Alike(pool, c) /\ FirstHeader.root[1] = Swapped(c)
        /\ c.used = FirstUserId /\ c.rootObject = 0
    BY <1>3, FirstWhole
  <1>8. n = [header |-> d, pool |-> pool, map |-> map, modified |-> modified, touched |-> {}]
    BY <1>1 DEF Memory
  <1> HIDE DEF n, c
  <1>9. /\ n.header = d /\ n.pool = pool /\ n.map = {} /\ n.modified = FALSE /\ n.touched = {}
    <2>1. n.header = d /\ n.pool = pool /\ n.map = map /\ n.modified = modified /\ n.touched = {}
      BY ONLY <1>8
    <2> QED
      BY <1>3, <2>1
  <1>10. Current(n) = c /\ Working(n) = Swapped(c)
    <2>1. d.root[0] = c /\ d.root[1] = Swapped(c)
      BY <1>6, <1>7 DEF c
    <2> QED
      BY <1>6, <1>9, <2>1 DEF Current, Working
  <1>11. MemFields(n)
    <2>1. n = [header |-> n.header, pool |-> n.pool, map |-> n.map,
               modified |-> n.modified, touched |-> n.touched]
      BY ONLY <1>8
    <2> QED
      BY <1>4, <1>5, <1>6, <1>9, <2>1 DEF MemFields
  <1>12. /\ RootFields(c)
         /\ Swapped(c).rootObject = c.rootObject /\ RootFields(Swapped(c))
         /\ Swapped(c) = [Swapped(c) EXCEPT !.rootObject = c.rootObject]
    <2>1. RootFields(c)
      BY <1>10, <1>11, WorkingFields
    <2> DEFINE s == Swapped(c)
    <2>2. s.rootObject = c.rootObject /\ RootFields(s)
      BY <1>7, <2>1, WholeFacts, SwappedFields
    <2> HIDE DEF s
    <2>3. s = [s EXCEPT !.rootObject = c.rootObject]
      BY ONLY <2>2 DEF RootFields
    <2> QED
      BY <2>1, <2>2, <2>3 DEF s
  <1>13. Good(n)
    <2> DEFINE w == Swapped(c)
               o == c.rootObject
    <2>1. c = Current(n) /\ w = Working(n) /\ o \in Users \cup {0}
          /\ w = [Swapped(c) EXCEPT !.rootObject = o]
      BY <1>7, <1>10, <1>12
    <2>2. Whole(n.pool, c) /\ Alike(n.pool, c) /\ n.map \subseteq 0 .. PageOf(MaxOid)
      BY <1>7, <1>9
    <2>3. \A p \in Places : PageType(n.pool[p])
      BY <1>4, <1>9
    <2> HIDE DEF w, o
    <2> QED
      BY ONLY <1>11, <2>1, <2>2, <2>3, TwinGood
  <1>14. Quiet(n) /\ Working(n).rootObject = Current(n).rootObject
    BY <1>9, <1>10, <1>12 DEF Quiet
  <1>15. OpenIn(Memory', committed', unflushed', headers', fileHeader')
    <2>1. LeadTo(d, n.header.curr, Current(n))
      BY <1>6, <1>7, <1>9, <1>10 DEF LeadTo, c
    <2>2. OpenIn(n, committed', unflushed', headers', fileHeader')
      BY <1>1, <1>6, <1>7, <1>9, <1>10, <1>13, <1>14, <2>1 DEF OpenIn
    <2> QED
      BY <2>2 DEF n
  <1>16. Base'
    <2>1. committed' \in 0 .. MaxOid + 1
      BY <1>1, Sizes
    <2> QED
      BY <1>1, <1>2, <1>5, <1>6, <2>1 DEF Base
  <1>17. Inv'
    BY <1>1, <1>15, <1>16 DEF Inv, PhaseInv
  <1>18. CState(n) = Empty /\ WState(n) = Empty
    <2>1. \A q \in Users : ~(q < c.used)
      BY <1>7, Sizes DEF Users
    <2>2. StateOf(pool, c) = Empty
      <3>1. Objects(pool, c) = [q \in Users |-> NoObject]
        BY <2>1 DEF Objects
      <3> QED
        BY <1>7, <3>1 DEF StateOf, Empty
    <2>3. StateOf(pool, Swapped(c)) = StateOf(pool, c)
      <3>1. Swapped(c).index = c.shadow /\ Swapped(c).used = c.used
        BY <1>7, <1>12, WholeFacts, SwappedFields
      <3> QED
        BY <1>7, <1>12, <3>1, TwinState
    <2> QED
      BY <1>9, <1>10, <2>2, <2>3 DEF CState, WState
  <1>19. Survivors = {Empty}
    BY <1>3, <1>4, SeenNow, NoneSurvives
  <1>20. Survivors' = {Empty}
    <2> DEFINE cn == committed'
               lost == unflushed'
               hs == headers'
               fh == fileHeader'
    <2>1. OpenIn(n, cn, lost, hs, fh) /\ fh \in hs
      BY <1>1, <1>15 DEF n
    <2>2. Survivors' = SurvivorsOf(n.pool, lost, hs)
      BY <1>1, <1>9, SeenNext
    <2> HIDE DEF cn, lost, hs, fh
    <2> QED
      BY <1>18, <2>1, <2>2, OpenSurvives
  <1>21. WorkState' = Empty /\ StorePhase' = "up" /\ StorePhase = "down"
    BY <1>1, <1>18, SeenNow, SeenNext DEF WorkOf, PhaseOf, n
  <1>22. Store!Open
    BY <1>19, <1>20, <1>21 DEF Store!Open
  <1> QED
    BY <1>17, <1>22 DEF StoreStep, Store!Next

-----------------------------------------------------------------------------
(* The theorems.                                                            *)

\* There is no file yet.
LEMMA Starts ==
    ASSUME Init
    PROVE  Inv /\ WorkState = Empty /\ Survivors = {Empty} /\ StorePhase = "down"
  <1>1. /\ header = BlankHeader /\ fileHeader = BlankHeader /\ headers = {BlankHeader}
        /\ pool = [p \in Places |-> Blank] /\ unflushed = {} /\ calls = 0 /\ map = {}
        /\ modified = FALSE /\ committed = 0 /\ pc = "closed"
    BY DEF Init
  <1>2. HeaderFields(BlankHeader) /\ Header(BlankHeader) /\ ~BlankHeader.init
    <2> DEFINE none == <<>>
               no == FALSE
               r == [index |-> none, shadow |-> none, used |-> 0, freeList |-> 0,
                     rootObject |-> 0]
               roots == [k \in 0 .. 1 |-> r]
    <2>1. BlankHeader = [curr |-> 0, dirty |-> no, init |-> no, root |-> roots]
      BY DEF BlankHeader
    <2>2. none \in Seq(Places) /\ no \in BOOLEAN /\ ~no /\ 0 \in 0 .. MaxOid + 1
      BY Sizes
    <2> HIDE DEF none, no
    <2>3. RootFields(r) /\ Root(r)
      BY <2>2 DEF RootFields, Root
    <2>4. roots = [k \in 0 .. 1 |-> roots[k]] /\ \A k \in 0 .. 1 : roots[k] = r
      OBVIOUS
    <2> HIDE DEF roots, r
    <2>5. /\ BlankHeader.curr = 0 /\ BlankHeader.dirty = no /\ BlankHeader.init = no
          /\ BlankHeader.root = roots
      BY ONLY <2>1
    <2> QED
      BY <2>1, <2>2, <2>3, <2>4, <2>5 DEF HeaderFields, Header
  <1>3. PageType(Blank)
    <2>1. Blank.map = <<>> /\ Blank.refs = {} /\ Blank.used = {} /\ DOMAIN <<>> = {}
      BY DEF Blank
    <2> QED
      BY <2>1 DEF PageType
  <1>4. Base
    <2>1. pool = [p \in Places |-> pool[p]] /\ \A p \in Places : PageType(pool[p])
      BY <1>1, <1>3
    <2>2. committed \in 0 .. MaxOid + 1 /\ calls \in 0 .. MaxCalls
      BY <1>1, Sizes, Layout
    <2> QED
      BY <1>1, <1>2, <2>1, <2>2 DEF Base
  <1>5. ClosedIn(Memory, unflushed, headers, fileHeader)
    BY <1>1, <1>2, <1>4, MemoryTypes DEF ClosedIn
  <1>6. Inv
    BY <1>1, <1>4, <1>5 DEF Inv, PhaseInv
  <1>7. Survivors = {Empty}
    BY <1>1, <1>2, SeenNow, NoneSurvives
  <1> QED
    BY <1>1, <1>6, <1>7, SeenNow DEF WorkOf, PhaseOf

\* A change is made to an open file.
LEMMA OpenThen ==
    ASSUME Inv, pc = "open"
    PROVE  OpenNow
  BY DEF Inv, PhaseInv, OpenNow

\* Every step keeps the invariant and is one of the store, if what a commit
\* relies on is seen to.
LEMMA EveryStep ==
    ASSUME Inv, [Next]_vars, Careful
    PROVE  Inv' /\ StoreStep
  <1>1. CASE CreateFile
    BY <1>1, CreateFileStep
  <1>2. CASE CompleteFile
    BY <1>2, CompleteFileStep
  <1>3. CASE Open
    BY <1>3, OpenStep
  <1>4. CASE BeginClose
    <2>1. pc = "open"
      BY <1>4 DEF BeginClose
    <2> QED
      BY <1>4, <2>1, OpenThen, BeginCloseStep
  <1>5. CASE EndClose
    BY <1>5, EndCloseStep
  <1>6. CASE CloseClean
    <2>1. pc = "open"
      BY <1>6 DEF CloseClean
    <2> QED
      BY <1>6, <2>1, OpenThen, CloseCleanStep
  <1>7. CASE AllocateId
    <2>1. pc = "open"
      BY <1>7 DEF AllocateId
    <2> QED
      BY <1>7, <2>1, OpenThen, AllocateIdStep
  <1>8. CASE \E o \in Users, b \in Bodies : StoreObject(o, b)
    <2>1. PICK o \in Users, b \in Bodies : StoreObject(o, b)
      BY <1>8
    <2>2. pc = "open"
      BY <2>1 DEF StoreObject
    <2> QED
      BY <2>1, <2>2, OpenThen, StoreObjectStep
  <1>9. CASE \E o \in Users : FreeObject(o)
    <2>1. PICK o \in Users : FreeObject(o)
      BY <1>9
    <2>2. pc = "open"
      BY <2>1 DEF FreeObject
    <2> QED
      BY <2>1, <2>2, OpenThen, FreeObjectStep
  <1>10. CASE \E o \in Users \cup {0} : SetRoot(o)
    <2>1. PICK o \in Users \cup {0} : SetRoot(o)
      BY <1>10
    <2>2. pc = "open"
      BY <2>1 DEF SetRoot
    <2> QED
      BY <2>1, <2>2, OpenThen, SetRootStep
  <1>11. CASE StartGC
    <2>1. pc = "open"
      BY <1>11 DEF StartGC, GCRuns
    <2> QED
      BY <1>11, <2>1, OpenThen, StartGCStep
  <1>12. CASE Rollback
    <2>1. pc = "open"
      BY <1>12 DEF Rollback, Change
    <2> QED
      BY <1>12, <2>1, OpenThen, RollbackStep
  <1>13. CASE BeginCommit
    <2>1. pc = "open"
      BY <1>13 DEF BeginCommit
    <2> QED
      BY <1>13, <2>1, OpenThen, BeginCommitStep
  <1>14. CASE FlushPages
    BY <1>14, FlushPagesStep
  <1>15. CASE FlipRoots
    BY <1>15, FlipRootsStep
  <1>16. CASE EndCommit
    BY <1>16, EndCommitStep
  <1>17. CASE Crash
    BY <1>17, CrashStep
  <1>18. CASE CrashInGC
    <2>1. pc = "open"
      BY <1>18 DEF CrashInGC, GCRuns
    <2> QED
      BY <1>18, <2>1, OpenThen, CrashInGCStep
  <1>19. CASE UNCHANGED vars
    <2>1. /\ header' = header /\ pool' = pool /\ map' = map /\ modified' = modified
          /\ committed' = committed /\ pc' = pc /\ fileHeader' = fileHeader
          /\ headers' = headers /\ unflushed' = unflushed /\ calls' = calls
      BY <1>19 DEF vars
    <2>2. Memory' = Memory
      BY <2>1, MemorySame
    <2>3. Base'
      BY <2>1 DEF Inv, Base
    <2>4. PhaseInv'
      BY <2>1, <2>2 DEF Inv, PhaseInv
    <2>5. UNCHANGED <<WorkState, Survivors, StorePhase>>
      BY <2>1, <2>2, SeenNow, SeenNext
    <2> QED
      BY <2>3, <2>4, <2>5 DEF Inv, StoreStep
  <1> QED
    BY <1>1, <1>2, <1>3, <1>4, <1>5, <1>6, <1>7, <1>8, <1>9, <1>10, <1>11, <1>12,
       <1>13, <1>14, <1>15, <1>16, <1>17, <1>18, <1>19 DEF Next

\* The invariant holds throughout.
THEOREM Invariant == Careful => (Spec => []Inv)
<1> SUFFICES ASSUME Careful PROVE Spec => []Inv
    OBVIOUS
<1>1. Init => Inv
    BY Starts
<1>2. Inv /\ [Next]_vars => Inv'
    BY EveryStep
<1> QED
    BY <1>1, <1>2, PTL DEF Spec

\* All along the state has its type.
THEOREM Typed == Careful => (Spec => []TypeOK)
<1> SUFFICES ASSUME Careful PROVE Spec => []TypeOK
    OBVIOUS
<1>1. Inv => TypeOK
    BY BaseTypes DEF Inv
<1>2. Spec => []Inv
    BY Invariant
<1> QED
    BY <1>1, <1>2, PTL

\* The places of a root, as the properties name them.
LEMMA HeldReads ==
    ASSUME NEW c, Roomy(c)
    PROVE  Held(c) = Reads(pool, c)
  <1>1. /\ ToSet(c.index) \in SUBSET Places
        /\ \A q \in 0 .. c.used - 1 : q \in Ids
    BY RoomyFacts
  <1>2. \A q \in 0 .. c.used - 1 : Lookup(pool, c.index, q) = Ent(pool, c.index)[q]
    BY <1>1 DEF Ent
  <1>3. {Lookup(pool, c.index, o).pos : o \in 0 .. c.used - 1}
           = {Ent(pool, c.index)[o].pos : o \in 0 .. c.used - 1}
    BY <1>2
  <1> QED
    BY <1>1, <1>3, NoPlaceIsNone DEF Held, Reads, Spots

\* Whatever a transaction allocates, moves, frees and grows, the places that
\* the committed state is read from are neither written nor given away.
THEOREM CommittedIsUntouched == Careful => (Spec => []CommittedUntouched)
<1> SUFFICES ASSUME Careful PROVE Spec => []CommittedUntouched
    OBVIOUS
<1>1. Inv => CommittedUntouched
  <2> SUFFICES ASSUME Inv, pc = "open"
               PROVE  /\ Held(Current(Memory)) \cap unflushed = {}
                      /\ Held(Current(Memory)) \subseteq Bitmap(Memory)
    BY DEF CommittedUntouched
  <2>1. OpenNow
    BY OpenThen
  <2>2. Good(Memory) /\ Memory.pool = pool
    BY <2>1, OpenFacts
  <2>3. Reads(pool, Current(Memory)) \cap unflushed = {}
    BY <2>1, <2>2 DEF OpenNow, OpenIn
  <2>4. Reads(pool, Current(Memory)) \subseteq Bitmap(Memory)
    BY <2>2, GoodUses
  <2>5. Held(Current(Memory)) = Reads(pool, Current(Memory))
    BY <2>2, GoodFacts, HeldReads
  <2> QED
    BY <2>3, <2>4, <2>5
<1>2. Spec => []Inv
    BY Invariant
<1> QED
    BY <1>1, <1>2, PTL

\* Between transactions the bitmap marks exactly the places that the two
\* roots lead to: no operation loses a place, and none frees one that is used.
THEOREM BitmapIsExact == Careful => (Spec => []BitmapExact)
<1> SUFFICES ASSUME Careful PROVE Spec => []BitmapExact
    OBVIOUS
<1>1. Inv => BitmapExact
  <2>1. ASSUME Inv PROVE TypeOK
    BY <2>1, BaseTypes DEF Inv
  <2>2. ASSUME Inv, pc = "open"
        PROVE  Bitmap(Memory) = Held(Current(Memory)) \cup Held(Working(Memory))
    <3>1. Good(Memory) /\ Memory.pool = pool
      BY <2>2, OpenThen, OpenFacts
    <3>2. /\ Held(Current(Memory)) = Reads(pool, Current(Memory))
          /\ Held(Working(Memory)) = Reads(pool, Working(Memory))
      BY <3>1, GoodFacts, HeldReads
    <3>3. Bitmap(Memory) = CI(Memory) \cup WI(Memory)
                              \cup Spots(CE(Memory), Current(Memory).used)
                              \cup Spots(WE(Memory), Working(Memory).used)
      BY <3>1, GoodPlaces
    <3> QED
      BY <3>1, <3>2, <3>3 DEF Reads, CI, WI, CE, WE
  <2> QED
    BY <2>1, <2>2 DEF BitmapExact
<1>2. Spec => []Inv
    BY Invariant
<1> QED
    BY <1>1, <1>2, PTL

\* The file implements an atomic store: what an open() finds after a crash at
\* any point is the state of the last commit, or during a commit that state or
\* the new one, and the program sees its own changes meanwhile.  The exception
\* is CrashInGC: a crash in gc() of an unchanged file with a clean header.
THEOREM FileIsAtomicStore == Careful => (Spec => ImplementsStore)
<1> SUFFICES ASSUME Careful PROVE Spec => ImplementsStore
    OBVIOUS
<1>1. Init => Store!Init
    BY Starts, SameStates DEF Store!Init
<1>2. Inv /\ [Next]_vars => [Store!Next]_(Store!vars)
    BY EveryStep DEF StoreStep, Store!vars
<1>3. Spec => []Inv
    BY Invariant
<1> QED
    BY <1>1, <1>2, <1>3, PTL DEF Spec, ImplementsStore, Store!Spec

=============================================================================
