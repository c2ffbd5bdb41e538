------------------------- MODULE DatabaseOperations -------------------------
(***************************************************************************)
(* What the operations of Database keep, for every layout of the file: its *)
(* places, the entries of a page, the first identifiers, the allocator.    *)
(*                                                                         *)
(* An index is the function Ent from identifiers to the entries that its   *)
(* pages stand for; Beside says how the entries of the working index fit   *)
(* to the committed ones.  Good is what holds of the memory between two    *)
(* calls.  From marking a page to what a commit prepares, each operation   *)
(* has a lemma that it keeps Good, and what it changes and leaves alone.   *)
(***************************************************************************)
EXTENDS Database, FiniteSetTheorems, SequenceTheorems, WellFoundedInduction, TLAPS

-----------------------------------------------------------------------------
(* An index as the function from identifiers to entries that it stands for. *)

Ids == 0 .. MaxOid
Ent(pages, ix) == [q \in Ids |-> Lookup(pages, ix, q)]

\* The places that the first n entries lead to.
Spots(e, n) == {e[q].pos : q \in 0 .. n - 1} \ {NoPlace}

\* The entries of the first n identifiers are those of an index: each leads to
\* a place of its own, or to none.
Formed(e, n) ==
    /\ \A q \in 0 .. n - 1 : e[q] \in Entry
    /\ \A q \in 0 .. n - 1 : e[q].free => e[q].pos = NoPlace /\ ~e[q].mod
    /\ \A q \in 0 .. n - 1 : e[q].mod => e[q].pos # NoPlace
    /\ e[0].pos # NoPlace
    /\ \A q \in 1 .. FirstUserId - 1 : e[q].pos = NoPlace /\ ~e[q].free
    /\ \A q, r \in 0 .. n - 1 : e[q].pos = e[r].pos /\ e[q].pos # NoPlace => q = r

\* The free entries are linked: no two lead to the same, and none to the first.
Freed(e, n) == {q \in 0 .. n - 1 : e[q].free}
Linked(e, n, first) ==
    /\ first \in Freed(e, n) \cup {0}
    /\ \A q \in Freed(e, n) : e[q].next \in Freed(e, n) \cup {0}
    /\ \A q \in Freed(e, n) : e[q].next # 0 => e[q].next # first
    /\ \A q, r \in Freed(e, n) : e[q].next = e[r].next /\ e[q].next # 0 => q = r

\* The entries of a state that was committed.
Fixed(e, n) ==
    /\ Formed(e, n)
    /\ \A q \in 0 .. n - 1 : ~e[q].mod
    /\ \A q \in 0 .. n - 1 : q \in Users /\ ~e[q].free => e[q].pos # NoPlace

\* Entries we of the working index next to the committed ones, ce: what they
\* lead to is apart or the same.
Apart(ce, we, cn, wn, ci, wi) ==
    /\ \A q \in 0 .. cn - 1 : ce[q].pos \notin ci \cup wi
    /\ \A q \in 0 .. wn - 1 : we[q].pos \notin ci \cup wi
    /\ \A q \in 0 .. wn - 1, r \in 0 .. cn - 1 : we[q].mod => we[q].pos # ce[r].pos
    /\ \A q \in 0 .. wn - 1 : ~we[q].mod /\ we[q].pos # NoPlace => q < cn /\ we[q] = ce[q]

\* As long as the bitmap is shared nothing that is stored was changed.
Cloned(ce, we, cn) ==
    we[0].mod \/ \A q \in 0 .. cn - 1 : ce[q].pos # NoPlace => we[q] = ce[q]

\* The pages of what was changed are marked.
Marked(ce, we, cn, wn, marks) ==
    /\ \A q \in 0 .. cn - 1 : we[q] # ce[q] => PageOf(q) \in marks
    /\ \A q \in 0 .. wn - 1 : we[q].mod => PageOf(q) \in marks \/ q >= cn

\* The places of those identifiers of G that the working state put there.
Left(we, n, G) == {we[q].pos : q \in {r \in G : r < n /\ we[r].mod}}

\* All of it, and the bitmap marks what the two lead to.
Beside(ce, we, cn, wn, ci, wi, first, used, marks) ==
    /\ Formed(we, wn)
    /\ Linked(we, wn, first)
    /\ Apart(ce, we, cn, wn, ci, wi)
    /\ Cloned(ce, we, cn)
    /\ Marked(ce, we, cn, wn, marks)
    /\ used = ci \cup wi \cup Spots(ce, cn) \cup Spots(we, wn)

-----------------------------------------------------------------------------
(* Identifiers, pages of an index and slots in them.                        *)

\* The sizes that the layout gives.
LEMMA Sizes ==
    /\ HandlesPerPage \in Nat \ {0}
    /\ MaxOid \in Nat
    /\ FirstUserId \in Nat /\ FirstUserId >= 1 /\ FirstUserId <= MaxOid + 1
  <1>1. Len(InitIndex[0]) \in Nat
    BY Layout DEF Layout
  <1>2. HandlesPerPage * Len(InitIndex[0]) \in Nat
    BY <1>1, Layout DEF Layout
  <1> QED
    BY <1>2, Layout DEF Layout

\* A page has entries.
LEMMA HandlesPerPageIsPositive == HandlesPerPage \in Nat \ {0}
  BY Sizes

\* An identifier is a page and a slot of it.
LEMMA PageAndSlot ==
    ASSUME NEW o \in Nat
    PROVE  /\ PageOf(o) \in Nat
           /\ Slot(o) \in 1 .. HandlesPerPage
           /\ o = HandlesPerPage * PageOf(o) + Slot(o) - 1
  BY HandlesPerPageIsPositive DEF PageOf, Slot

\* No two identifiers have the same page and slot.
LEMMA SlotsApart ==
    ASSUME NEW o \in Nat, NEW q \in Nat, PageOf(o) = PageOf(q), Slot(o) = Slot(q)
    PROVE  o = q
  BY PageAndSlot, HandlesPerPageIsPositive

\* The page of an identifier that n pages have room for.
LEMMA PageInIndex ==
    ASSUME NEW o \in Nat, NEW n \in Nat, o < HandlesPerPage * n
    PROVE  PageOf(o) < n
  BY PageAndSlot, HandlesPerPageIsPositive DEF PageOf

\* The page of an identifier that is below n.
LEMMA PageBelow ==
    ASSUME NEW o \in Nat, NEW n \in Nat, o < n
    PROVE  PageOf(o) < PagesOf(n) /\ PagesOf(n) \in Nat
  BY PageAndSlot, HandlesPerPageIsPositive DEF PageOf, PagesOf

\* Pages are in the order of identifiers.
LEMMA PagesInOrder ==
    ASSUME NEW o \in Nat, NEW n \in Nat, o <= n
    PROVE  PageOf(o) <= PageOf(n)
  BY PageAndSlot, HandlesPerPageIsPositive DEF PageOf

\* The bitmap is in the first page.
LEMMA BitmapPageIsFirst == PageOf(BitmapId) = 0 /\ Slot(BitmapId) = 1
  BY HandlesPerPageIsPositive DEF PageOf, Slot, BitmapId

-----------------------------------------------------------------------------
(* What writing pages does to the indexes read from them.                   *)

\* A sequence of places leads to them.
LEMMA IndexPlaces ==
    ASSUME NEW ix \in Seq(Places), NEW i \in Nat, i < Len(ix)
    PROVE  i + 1 \in DOMAIN ix /\ ix[i + 1] \in ToSet(ix) /\ ix[i + 1] \in Places
  <1>1. i + 1 \in 1 .. Len(ix) /\ DOMAIN ix = 1 .. Len(ix)
    OBVIOUS
  <1> QED
    BY <1>1 DEF ToSet

\* The places of an index are places.
LEMMA ToSetPlaces ==
    ASSUME NEW ix \in Seq(Places)
    PROVE  ToSet(ix) \subseteq Places
  BY DEF ToSet

\* An index read from the same pages has the same entries.
LEMMA LookupSame ==
    ASSUME NEW pages, NEW pages2, NEW ix \in Seq(Places), NEW o \in Nat,
           \A p \in ToSet(ix) : pages2[p] = pages[p]
    PROVE  Lookup(pages2, ix, o) = Lookup(pages, ix, o)
  <1>1. CASE PageOf(o) < Len(ix)
    <2>1. pages2[ix[PageOf(o) + 1]] = pages[ix[PageOf(o) + 1]]
      BY <1>1, IndexPlaces, PageAndSlot
    <2> QED
      BY <2>1 DEF Lookup
  <1>2. CASE ~(PageOf(o) < Len(ix))
    BY <1>2 DEF Lookup
  <1> QED
    BY <1>1, <1>2

\* The same for all entries of an index.
LEMMA EntSame ==
    ASSUME NEW pages, NEW pages2, NEW ix \in Seq(Places),
           \A p \in ToSet(ix) : pages2[p] = pages[p]
    PROVE  Ent(pages2, ix) = Ent(pages, ix)
  <1>1. \A o \in Ids : Lookup(pages2, ix, o) = Lookup(pages, ix, o)
    BY LookupSame, Sizes DEF Ids
  <1> QED
    BY <1>1 DEF Ent

\* Memory is a record with these fields, and so are a header and a root.
RootFields(r) ==
    r = [index |-> r.index, shadow |-> r.shadow, used |-> r.used,
         freeList |-> r.freeList, rootObject |-> r.rootObject]
HeaderFields(h) ==
    /\ h = [curr |-> h.curr, dirty |-> h.dirty, init |-> h.init, root |-> h.root]
    /\ h.root = [k \in 0 .. 1 |-> h.root[k]]
    /\ \A k \in 0 .. 1 : RootFields(h.root[k])
MemFields(m) ==
    /\ m = [header |-> m.header, pool |-> m.pool, map |-> m.map,
            modified |-> m.modified, touched |-> m.touched]
    /\ m.pool = [p \in Places |-> m.pool[p]]
    /\ HeaderFields(m.header)
    /\ m.header.curr \in 0 .. 1

\* Writing changes pages and nothing else.
LEMMA WrittenFields ==
    ASSUME NEW m, MemFields(m), NEW pages, NEW ps, pages = [p \in Places |-> pages[p]]
    PROVE  /\ MemFields(Written(m, pages, ps))
           /\ Written(m, pages, ps).header = m.header
           /\ Written(m, pages, ps).map = m.map
           /\ Written(m, pages, ps).modified = m.modified
           /\ Written(m, pages, ps).pool = pages
           /\ Written(m, pages, ps).touched = m.touched \cup ps
  <1> DEFINE n == [m EXCEPT !.pool = pages]
             w == Written(m, pages, ps)
  <1>0. /\ m = [header |-> m.header, pool |-> m.pool, map |-> m.map,
                modified |-> m.modified, touched |-> m.touched]
        /\ HeaderFields(m.header) /\ m.header.curr \in 0 .. 1
    BY DEF MemFields
  <1>1. n = [header |-> m.header, pool |-> pages, map |-> m.map,
             modified |-> m.modified, touched |-> m.touched]
    BY ONLY <1>0
  <1>2. w = [n EXCEPT !.touched = @ \cup ps]
    BY <1>0 DEF Written
  <1> HIDE DEF w, n
  <1>3. w = [header |-> m.header, pool |-> pages, map |-> m.map,
             modified |-> m.modified, touched |-> m.touched \cup ps]
    BY ONLY <1>1, <1>2
  <1>4. /\ w.header = m.header /\ w.map = m.map /\ w.modified = m.modified
        /\ w.pool = pages /\ w.touched = m.touched \cup ps
    BY ONLY <1>3
  <1>5. MemFields(w)
    BY ONLY <1>0, <1>3, <1>4, pages = [p \in Places |-> pages[p]] DEF MemFields
  <1> QED
    BY <1>4, <1>5 DEF w

\* The page that SetEntries leaves at p.
NewPage(m, es, p) ==
    LET here == {o \in DOMAIN es : Working(m).index[PageOf(o) + 1] = p}
    IN  IF here = {} THEN m.pool[p]
        ELSE IndexPage([s \in 1 .. HandlesPerPage |->
                 IF \E o \in here : Slot(o) = s
                 THEN es[CHOOSE o \in here : Slot(o) = s]
                 ELSE Entries(m.pool[p])[s]])

\* SetEntries leaves all but pages alone.
LEMMA SetEntriesFields ==
    ASSUME NEW m, MemFields(m), NEW es
    PROVE  /\ MemFields(SetEntries(m, es))
           /\ SetEntries(m, es).header = m.header
           /\ SetEntries(m, es).map = m.map
           /\ SetEntries(m, es).modified = m.modified
           /\ SetEntries(m, es).touched
                  = m.touched \cup {Working(m).index[PageOf(o) + 1] : o \in DOMAIN es}
           /\ \A p \in Places : SetEntries(m, es).pool[p] = NewPage(m, es, p)
  <1> DEFINE page(p) == NewPage(m, es, p)
             pages == [p \in Places |-> page(p)]
             ps == {Working(m).index[PageOf(o) + 1] : o \in DOMAIN es}
  <1>1. SetEntries(m, es) = Written(m, pages, ps)
    BY DEF SetEntries, NewPage
  <1>2. pages = [p \in Places |-> pages[p]] /\ \A p \in Places : pages[p] = page(p)
    <2> HIDE DEF page
    <2> QED
      OBVIOUS
  <1> HIDE DEF pages, ps, page
  <1>3. /\ MemFields(SetEntries(m, es))
        /\ SetEntries(m, es).header = m.header
        /\ SetEntries(m, es).map = m.map
        /\ SetEntries(m, es).modified = m.modified
        /\ SetEntries(m, es).pool = pages
        /\ SetEntries(m, es).touched = m.touched \cup ps
    BY <1>1, <1>2, WrittenFields
  <1> QED
    BY <1>2, <1>3 DEF page, ps

\* It writes the pages of the working index.
LEMMA SetEntriesPages ==
    ASSUME NEW m, MemFields(m), NEW es, DOMAIN es \subseteq Nat,
           Working(m).index \in Seq(Places),
           \A o \in DOMAIN es : PageOf(o) < Len(Working(m).index)
    PROVE  /\ \A p \in Places \ ToSet(Working(m).index) : SetEntries(m, es).pool[p] = m.pool[p]
           /\ SetEntries(m, es).touched \subseteq m.touched \cup ToSet(Working(m).index)
  <1>1. \A o \in DOMAIN es : Working(m).index[PageOf(o) + 1] \in ToSet(Working(m).index)
    BY IndexPlaces, PageAndSlot
  <1>2. \A p \in Places \ ToSet(Working(m).index) : SetEntries(m, es).pool[p] = m.pool[p]
    <2>1. \A p \in Places \ ToSet(Working(m).index) :
              {o \in DOMAIN es : Working(m).index[PageOf(o) + 1] = p} = {}
      BY <1>1
    <2>2. \A p \in Places \ ToSet(Working(m).index) : NewPage(m, es, p) = m.pool[p]
      BY <2>1 DEF NewPage
    <2> QED
      BY <2>2, SetEntriesFields
  <1>3. SetEntries(m, es).touched
            = m.touched \cup {Working(m).index[PageOf(o) + 1] : o \in DOMAIN es}
    BY SetEntriesFields
  <1> QED
    BY <1>1, <1>2, <1>3

\* And the working index has these entries then.
LEMMA SetEntriesLookup ==
    ASSUME NEW m, MemFields(m), NEW es, DOMAIN es \subseteq Nat,
           Working(m).index \in Seq(Places), IsInjective(Working(m).index),
           \A o \in DOMAIN es : PageOf(o) < Len(Working(m).index),
           NEW q \in Nat
    PROVE  Lookup(SetEntries(m, es).pool, Working(m).index, q)
               = IF q \in DOMAIN es THEN es[q] ELSE Lookup(m.pool, Working(m).index, q)
  <1> DEFINE ix == Working(m).index
             page(o) == ix[PageOf(o) + 1]
             here(p) == {o \in DOMAIN es : page(o) = p}
             P == page(q)
  <1>1. CASE ~(PageOf(q) < Len(ix))
    <2>1. q \notin DOMAIN es
      BY <1>1
    <2> QED
      BY <2>1, <1>1 DEF Lookup
  <1>2. CASE PageOf(q) < Len(ix)
    <2>1. P \in Places
      BY <1>2, IndexPlaces, PageAndSlot
    <2>2. \A o \in DOMAIN es : page(o) = P => PageOf(o) = PageOf(q)
      <3>1. \A o \in DOMAIN es : PageOf(o) \in Nat /\ PageOf(o) + 1 \in DOMAIN ix
        BY PageAndSlot, IndexPlaces
      <3>2. PageOf(q) \in Nat /\ PageOf(q) + 1 \in DOMAIN ix
        BY <1>2, PageAndSlot, IndexPlaces
      <3>3. \A o \in DOMAIN es : page(o) = P => PageOf(o) + 1 = PageOf(q) + 1
        BY <3>1, <3>2 DEF IsInjective
      <3> QED
        BY <3>1, <3>2, <3>3
    <2>3. \A o \in here(P) : Slot(o) = Slot(q) => o = q
      BY <2>2, SlotsApart
    <2>4. SetEntries(m, es).pool[P]
              = IF here(P) = {} THEN m.pool[P]
                ELSE IndexPage([s \in 1 .. HandlesPerPage |->
                         IF \E o \in here(P) : Slot(o) = s
                         THEN es[CHOOSE o \in here(P) : Slot(o) = s]
                         ELSE Entries(m.pool[P])[s]])
      <3>1. SetEntries(m, es).pool[P] = NewPage(m, es, P)
        BY <2>1, SetEntriesFields
      <3> QED
        BY <3>1 DEF NewPage
    <2>5. Lookup(SetEntries(m, es).pool, ix, q) = Entries(SetEntries(m, es).pool[P])[Slot(q)]
      BY <1>2 DEF Lookup
    <2>6. Lookup(m.pool, ix, q) = Entries(m.pool[P])[Slot(q)]
      BY <1>2 DEF Lookup
    <2>7. CASE here(P) = {}
      <3>1. q \notin DOMAIN es
        BY <2>7
      <3> QED
        BY <3>1, <2>4, <2>5, <2>6, <2>7
    <2>8. CASE here(P) # {}
      <3> DEFINE es2 == [s \in 1 .. HandlesPerPage |->
                         IF \E o \in here(P) : Slot(o) = s
                         THEN es[CHOOSE o \in here(P) : Slot(o) = s]
                         ELSE Entries(m.pool[P])[s]]
      <3>1. SetEntries(m, es).pool[P] = IndexPage(es2)
        BY <2>4, <2>8
      <3>2. es2 # <<>>
        BY HandlesPerPageIsPositive
      <3>3. Entries(SetEntries(m, es).pool[P]) = es2
        <4> HIDE DEF es2
        <4> QED
          BY <3>1, <3>2 DEF Entries, IndexPage, Blank
      <3>4. Slot(q) \in 1 .. HandlesPerPage
        BY PageAndSlot
      <3>5. CASE q \in DOMAIN es
        <4>1. q \in here(P)
          BY <3>5
        <4>2. (CHOOSE o \in here(P) : Slot(o) = Slot(q)) = q
          BY <4>1, <2>3
        <4> QED
          BY <2>5, <3>3, <3>4, <4>1, <4>2, <3>5
      <3>6. CASE q \notin DOMAIN es
        <4>1. ~\E o \in here(P) : Slot(o) = Slot(q)
          BY <3>6, <2>3
        <4> QED
          BY <2>5, <2>6, <3>3, <3>4, <4>1, <3>6
      <3> QED
        BY <3>5, <3>6
    <2> QED
      BY <2>7, <2>8
  <1> QED
    BY <1>1, <1>2

\* The page that CopyIndex leaves at p.
CopiedPage(m, to, from, pages, p) ==
    LET ps == {i \in pages : i < Len(to) /\ i < Len(from)}
    IN  IF \E i \in ps : to[i + 1] = p
        THEN m.pool[from[(CHOOSE i \in ps : to[i + 1] = p) + 1]]
        ELSE m.pool[p]

\* CopyIndex writes pages of the index it copies to.
LEMMA CopyIndexPages ==
    ASSUME NEW m, MemFields(m), NEW to \in Seq(Places), NEW from \in Seq(Places),
           NEW pages \in SUBSET Nat
    PROVE  /\ MemFields(CopyIndex(m, to, from, pages))
           /\ CopyIndex(m, to, from, pages).header = m.header
           /\ CopyIndex(m, to, from, pages).map = m.map
           /\ CopyIndex(m, to, from, pages).modified = m.modified
           /\ CopyIndex(m, to, from, pages).touched \subseteq m.touched \cup ToSet(to)
           /\ pages = {} => CopyIndex(m, to, from, pages).touched = m.touched
           /\ \A p \in Places \ ToSet(to) :
                 CopyIndex(m, to, from, pages).pool[p] = m.pool[p]
  <1> DEFINE ps == {i \in pages : i < Len(to) /\ i < Len(from)}
             page(p) == CopiedPage(m, to, from, pages, p)
             new == [p \in Places |-> page(p)]
             where == {to[i + 1] : i \in ps}
             n == CopyIndex(m, to, from, pages)
  <1>1. n = Written(m, new, where)
    BY DEF CopyIndex, CopiedPage
  <1>2. new = [p \in Places |-> new[p]] /\ \A p \in Places : new[p] = page(p)
    <2> HIDE DEF page
    <2> QED
      OBVIOUS
  <1>3. /\ MemFields(n) /\ n.header = m.header /\ n.map = m.map /\ n.modified = m.modified
        /\ n.pool = new /\ n.touched = m.touched \cup where
    <2> HIDE DEF new, where, n
    <2> QED
      BY <1>1, <1>2, WrittenFields
  <1>4. \A i \in ps : to[i + 1] \in ToSet(to)
    BY IndexPlaces
  <1>5. \A p \in Places \ ToSet(to) : page(p) = m.pool[p]
    BY <1>4 DEF CopiedPage
  <1>6. pages = {} => n.touched = m.touched
    <2>1. pages = {} => where = {}
      OBVIOUS
    <2> HIDE DEF where, n
    <2> QED
      BY <1>3, <2>1
  <1> HIDE DEF n, new
  <1>7. \A p \in Places : n.pool[p] = page(p)
    BY <1>2, <1>3
  <1> HIDE DEF page
  <1>8. \A p \in Places \ ToSet(to) : n.pool[p] = m.pool[p]
    BY <1>5, <1>7
  <1>9. n.touched \subseteq m.touched \cup ToSet(to)
    BY <1>3, <1>4
  <1> QED
    BY <1>3, <1>6, <1>8, <1>9 DEF n

\* What it leaves at a place.
LEMMA CopyIndexPool ==
    ASSUME NEW m, MemFields(m), NEW to, NEW from, NEW pages, NEW p \in Places
    PROVE  CopyIndex(m, to, from, pages).pool[p] = CopiedPage(m, to, from, pages, p)
  <1> DEFINE ps == {i \in pages : i < Len(to) /\ i < Len(from)}
             page(q) == CopiedPage(m, to, from, pages, q)
             new == [q \in Places |-> page(q)]
             where == {to[i + 1] : i \in ps}
             n == CopyIndex(m, to, from, pages)
  <1>1. n = Written(m, new, where)
    BY DEF CopyIndex, CopiedPage
  <1>2. new = [q \in Places |-> new[q]] /\ new[p] = page(p)
    <2> HIDE DEF page
    <2> QED
      OBVIOUS
  <1>3. n.pool = new
    <2> HIDE DEF new, where, n
    <2> QED
      BY <1>1, <1>2, WrittenFields
  <1> QED
    BY <1>2, <1>3 DEF n, page

\* The index that was copied to has the entries of the other in those pages.
LEMMA CopyIndexLookup ==
    ASSUME NEW m, MemFields(m), NEW to \in Seq(Places), NEW from \in Seq(Places),
           IsInjective(to), NEW pages \in SUBSET Nat,
           NEW q \in Nat, PageOf(q) < Len(to), PageOf(q) < Len(from)
    PROVE  Lookup(CopyIndex(m, to, from, pages).pool, to, q)
              = IF PageOf(q) \in pages THEN Lookup(m.pool, from, q) ELSE Lookup(m.pool, to, q)
  <1> DEFINE k == PageOf(q)
             ps == {i \in pages : i < Len(to) /\ i < Len(from)}
             pool2 == CopyIndex(m, to, from, pages).pool
  <1>1. k \in Nat /\ k + 1 \in DOMAIN to /\ to[k + 1] \in Places
    BY IndexPlaces, PageAndSlot
  <1>2. \A i \in ps : to[i + 1] = to[k + 1] => i = k
    <2>1. \A i \in ps : i \in Nat /\ i + 1 \in DOMAIN to
      BY IndexPlaces
    <2>2. \A i \in ps : to[i + 1] = to[k + 1] => i + 1 = k + 1
      BY <1>1, <2>1 DEF IsInjective
    <2> QED
      BY <1>1, <2>1, <2>2
  <1>3. pool2[to[k + 1]] = IF k \in pages THEN m.pool[from[k + 1]] ELSE m.pool[to[k + 1]]
    <2>0. pool2[to[k + 1]] = CopiedPage(m, to, from, pages, to[k + 1])
      BY <1>1, CopyIndexPool
    <2>1. CASE k \in pages
      <3>1. k \in ps
        BY <2>1
      <3>2. (CHOOSE i \in ps : to[i + 1] = to[k + 1]) = k
        BY <3>1, <1>2
      <3>3. CopiedPage(m, to, from, pages, to[k + 1])
                = m.pool[from[(CHOOSE i \in ps : to[i + 1] = to[k + 1]) + 1]]
        BY <3>1 DEF CopiedPage
      <3> QED
        BY <3>2, <3>3, <2>1, <2>0
    <2>2. CASE k \notin pages
      <3>1. ~\E i \in ps : to[i + 1] = to[k + 1]
        BY <1>2, <2>2
      <3>2. CopiedPage(m, to, from, pages, to[k + 1]) = m.pool[to[k + 1]]
        BY <3>1 DEF CopiedPage
      <3> QED
        BY <2>0, <3>2, <2>2
    <2> QED
      BY <2>1, <2>2
  <1>4. Lookup(pool2, to, q) = Entries(pool2[to[k + 1]])[Slot(q)]
    BY DEF Lookup
  <1>5. Lookup(m.pool, from, q) = Entries(m.pool[from[k + 1]])[Slot(q)]
    BY DEF Lookup
  <1>6. Lookup(m.pool, to, q) = Entries(m.pool[to[k + 1]])[Slot(q)]
    BY DEF Lookup
  <1> QED
    BY <1>3, <1>4, <1>5, <1>6

\* A root of a header is replaced.
WithRoot(h, k, r) == [h EXCEPT !.root[k] = r]

\* The header is one still, and the other root is as it was.
LEMMA RootReplaced ==
    ASSUME NEW h, HeaderFields(h), NEW k \in 0 .. 1, NEW r, RootFields(r)
    PROVE  /\ HeaderFields(WithRoot(h, k, r))
           /\ WithRoot(h, k, r).root[k] = r
           /\ WithRoot(h, k, r).root[1 - k] = h.root[1 - k]
           /\ WithRoot(h, k, r).curr = h.curr
           /\ WithRoot(h, k, r).dirty = h.dirty
           /\ WithRoot(h, k, r).init = h.init
  <1> DEFINE h2 == WithRoot(h, k, r)
  <1> DEFINE R == [h.root EXCEPT ![k] = r]
  <1>1. h = [curr |-> h.curr, dirty |-> h.dirty, init |-> h.init, root |-> h.root]
    BY DEF HeaderFields
  <1>2. h2 = [h EXCEPT !.root = R]
    BY <1>1 DEF WithRoot
  <1>3. /\ DOMAIN R = 0 .. 1 /\ R = [i \in 0 .. 1 |-> R[i]] /\ R[k] = r /\ R[1 - k] = h.root[1 - k]
    <2>1. h.root = [i \in 0 .. 1 |-> h.root[i]]
      BY DEF HeaderFields
    <2>2. DOMAIN h.root = 0 .. 1
      BY ONLY <2>1
    <2>3. 1 - k \in 0 .. 1 /\ 1 - k # k
      OBVIOUS
    <2>4. R = [i \in 0 .. 1 |-> IF i = k THEN r ELSE h.root[i]]
      BY ONLY <2>2
    <2> HIDE DEF R
    <2> QED
      BY ONLY <2>3, <2>4, k \in 0 .. 1
  <1> HIDE DEF R, h2
  <1>4. h2 = [curr |-> h.curr, dirty |-> h.dirty, init |-> h.init, root |-> R]
    BY ONLY <1>1, <1>2
  <1>5. h2.curr = h.curr /\ h2.dirty = h.dirty /\ h2.init = h.init /\ h2.root = R
    BY ONLY <1>4
  <1>6. \A i \in 0 .. 1 : RootFields(R[i])
    <2>1. \A i \in 0 .. 1 : i = k \/ i = 1 - k
      OBVIOUS
    <2>2. RootFields(h.root[1 - k])
      BY DEF HeaderFields
    <2> QED
      BY <2>1, <2>2, <1>3
  <1>7. HeaderFields(h2)
    BY <1>3, <1>4, <1>5, <1>6 DEF HeaderFields
  <1> QED
    BY <1>3, <1>5, <1>7 DEF h2

\* The header in memory is replaced.
WithHeader(m, h) == [m EXCEPT !.header = h]

\* Memory is the same but for its header.
LEMMA HeaderReplaced ==
    ASSUME NEW m, MemFields(m), NEW h, HeaderFields(h), h.curr = m.header.curr,
           NEW n, n = WithHeader(m, h)
    PROVE  /\ MemFields(n)
           /\ n.header = h /\ n.pool = m.pool /\ n.map = m.map
           /\ n.modified = m.modified /\ n.touched = m.touched
  <1>0. /\ m = [header |-> m.header, pool |-> m.pool, map |-> m.map,
                modified |-> m.modified, touched |-> m.touched]
        /\ m.pool = [p \in Places |-> m.pool[p]] /\ m.header.curr \in 0 .. 1
    BY DEF MemFields
  <1>1. n = [header |-> h, pool |-> m.pool, map |-> m.map,
             modified |-> m.modified, touched |-> m.touched]
    BY ONLY <1>0, n = WithHeader(m, h) DEF WithHeader
  <1>2. /\ n.header = h /\ n.pool = m.pool /\ n.map = m.map
        /\ n.modified = m.modified /\ n.touched = m.touched
    BY ONLY <1>1
  <1> QED
    BY <1>0, <1>1, <1>2 DEF MemFields

-----------------------------------------------------------------------------
(* What an operation does to the working entries.                           *)

\* An entry that is not free at a place of its own, and one that is nowhere.
LEMMA EntryFields ==
    ASSUME NEW p \in Places
    PROVE  /\ At(p, TRUE) \in Entry
           /\ At(p, TRUE).pos = p /\ At(p, TRUE).mod = TRUE /\ At(p, TRUE).free = FALSE
  BY DEF At, Entry

\* The entry of an identifier that has no place.
LEMMA NowhereFields ==
    /\ At(NoPlace, FALSE) \in Entry
    /\ At(NoPlace, FALSE).pos = NoPlace
    /\ At(NoPlace, FALSE).mod = FALSE
    /\ At(NoPlace, FALSE).free = FALSE
  BY DEF At, Entry

\* The entry of an identifier that is free.
LEMMA FreeFields ==
    ASSUME NEW n \in Users \cup {0}
    PROVE  /\ FreeEntry(n) \in Entry
           /\ FreeEntry(n).pos = NoPlace /\ FreeEntry(n).mod = FALSE
           /\ FreeEntry(n).free = TRUE /\ FreeEntry(n).next = n
  BY DEF FreeEntry, Entry

\* No place is not a place.
LEMMA NoPlaceIsNone == NoPlace \notin Places
  BY Layout DEF Layout

\* Entries stay those of an index when o is put at a place that no other has.
LEMMA FormedOccupy ==
    ASSUME NEW we, NEW we2, NEW wn \in Nat, Formed(we, wn),
           NEW o \in 0 .. wn - 1, o = 0 \/ o >= FirstUserId,
           NEW p, p # NoPlace,
           \A q \in 0 .. wn - 1 : we[q].pos # NoPlace => we[q].pos # p,
           we2[o] \in Entry, we2[o].pos = p, we2[o].mod, ~we2[o].free,
           \A q \in 0 .. wn - 1 : q # o => we2[q] = we[q],
           FirstUserId \in Nat, FirstUserId >= 1, FirstUserId <= wn
    PROVE  Formed(we2, wn)
  <1>1. \A q \in 0 .. wn - 1 : we2[q] \in Entry
    BY DEF Formed
  <1>2. \A q \in 0 .. wn - 1 : we2[q].free => we2[q].pos = NoPlace /\ ~we2[q].mod
    BY DEF Formed
  <1>3. \A q \in 0 .. wn - 1 : we2[q].mod => we2[q].pos # NoPlace
    BY DEF Formed
  <1>4. we2[0].pos # NoPlace
    BY DEF Formed
  <1>5. \A q \in 1 .. FirstUserId - 1 : we2[q].pos = NoPlace /\ ~we2[q].free
    BY DEF Formed
  <1>6. \A q, r \in 0 .. wn - 1 : we2[q].pos = we2[r].pos /\ we2[q].pos # NoPlace => q = r
    BY DEF Formed
  <1> QED
    BY <1>1, <1>2, <1>3, <1>4, <1>5, <1>6 DEF Formed

\* They stay apart from the committed ones.
LEMMA ApartOccupy ==
    ASSUME NEW ce, NEW we, NEW we2, NEW cn \in Nat, NEW wn \in Nat, NEW ci, NEW wi,
           Apart(ce, we, cn, wn, ci, wi),
           NEW o \in 0 .. wn - 1, NEW p, p # NoPlace,
           p \notin ci \cup wi, \A r \in 0 .. cn - 1 : ce[r].pos # p,
           we2[o].pos = p, we2[o].mod,
           \A q \in 0 .. wn - 1 : q # o => we2[q] = we[q]
    PROVE  Apart(ce, we2, cn, wn, ci, wi)
  <1>1. \A q \in 0 .. cn - 1 : ce[q].pos \notin ci \cup wi
    BY DEF Apart
  <1>2. \A q \in 0 .. wn - 1 : we2[q].pos \notin ci \cup wi
    BY DEF Apart
  <1>3. \A q \in 0 .. wn - 1, r \in 0 .. cn - 1 : we2[q].mod => we2[q].pos # ce[r].pos
    BY DEF Apart
  <1>4. \A q \in 0 .. wn - 1 : ~we2[q].mod /\ we2[q].pos # NoPlace => q < cn /\ we2[q] = ce[q]
    BY DEF Apart
  <1> QED
    BY <1>1, <1>2, <1>3, <1>4 DEF Apart

\* The places they lead to.
LEMMA SpotsOccupy ==
    ASSUME NEW we, NEW we2, NEW wn \in Nat, Formed(we, wn),
           NEW o \in 0 .. wn - 1, we2[o].pos # NoPlace,
           \A q \in 0 .. wn - 1 : q # o => we2[q] = we[q]
    PROVE  Spots(we2, wn) = (Spots(we, wn) \ {we[o].pos}) \cup {we2[o].pos}
  <1>1. \A x \in Spots(we2, wn) : x \in (Spots(we, wn) \ {we[o].pos}) \cup {we2[o].pos}
    BY DEF Spots, Formed
  <1>2. \A x \in Spots(we, wn) \ {we[o].pos} : x \in Spots(we2, wn)
    BY DEF Spots
  <1>3. we2[o].pos \in Spots(we2, wn)
    BY DEF Spots
  <1> QED
    BY <1>1, <1>2, <1>3

\* An identifier o is given the free place p: the bitmap its own, before the
\* first change of it, or an object.
LEMMA Occupy ==
    ASSUME NEW ce, NEW we, NEW we2, NEW cn \in Nat, NEW wn \in Nat,
           NEW ci \in SUBSET Places, NEW wi \in SUBSET Places, NEW first,
           NEW used \in SUBSET Places, NEW used2, NEW marks, NEW marks2,
           cn <= wn, FirstUserId <= cn,
           Fixed(ce, cn),
           Beside(ce, we, cn, wn, ci, wi, first, used, marks),
           NEW o \in 0 .. wn - 1, o = 0 \/ (o >= FirstUserId /\ we[0].mod),
           ~we[o].free,
           NEW p \in Places, p \notin used,
           we2[o] = At(p, TRUE),
           \A q \in 0 .. wn - 1 : q # o => we2[q] = we[q],
           marks \subseteq marks2, PageOf(o) \in marks2 \/ o >= cn,
           used2 = (used \cup {p}) \ Left(we, wn, {o})
    PROVE  Beside(ce, we2, cn, wn, ci, wi, first, used2, marks2)
  <1>0. FirstUserId <= wn /\ 0 \in 0 .. wn - 1 /\ (o = 0 \/ o >= FirstUserId)
    BY Sizes
  <1>1. Formed(we2, wn)
    <2>1. Formed(we, wn)
      BY DEF Beside
    <2>2. \A q \in 0 .. wn - 1 : we[q].pos # NoPlace => we[q].pos # p
      BY DEF Beside, Spots
    <2>3. we2[o] \in Entry /\ we2[o].pos = p /\ we2[o].mod /\ ~we2[o].free
      BY EntryFields
    <2>4. p # NoPlace
      BY NoPlaceIsNone
    <2> QED
      BY <2>1, <2>2, <2>3, <2>4, <1>0, Sizes, FormedOccupy, Zenon
  <1>2. Linked(we2, wn, first)
    <2>1. Freed(we2, wn) = Freed(we, wn) /\ o \notin Freed(we, wn)
      BY EntryFields DEF Freed
    <2>2. \A q \in Freed(we, wn) : we2[q] = we[q]
      BY <2>1 DEF Freed
    <2> QED
      BY <2>1, <2>2 DEF Linked, Beside
  <1>3. Apart(ce, we2, cn, wn, ci, wi)
    <2>1. p \notin ci \cup wi /\ \A r \in 0 .. cn - 1 : ce[r].pos # p
      BY NoPlaceIsNone DEF Beside, Spots
    <2>2. we2[o].pos = p /\ we2[o].mod
      BY EntryFields
    <2>3. Apart(ce, we, cn, wn, ci, wi)
      BY DEF Beside
    <2> QED
      BY <2>1, <2>2, <2>3, ApartOccupy, NoPlaceIsNone
  <1>4. Cloned(ce, we2, cn)
    <2>1. CASE o = 0
      BY <2>1, EntryFields DEF Cloned
    <2>2. CASE o # 0
      <3>1. we2[0] = we[0]
        BY <1>0, <2>2
      <3> QED
        BY <2>2, <3>1 DEF Cloned
    <2> QED
      BY <2>1, <2>2
  <1>5. Marked(ce, we2, cn, wn, marks2)
    <2>1. Marked(ce, we, cn, wn, marks)
      BY DEF Beside
    <2> QED
      BY <2>1 DEF Marked
  <1>6. used2 = ci \cup wi \cup Spots(ce, cn) \cup Spots(we2, wn)
    <2> DEFINE left == {we[q].pos : q \in {r \in {o} : we[r].mod}}
    <2>0. used2 = (used \cup {p}) \ left
      <3>1. left = Left(we, wn, {o})
        BY DEF Left
      <3> QED
        BY <3>1
    <2>1. used = ci \cup wi \cup Spots(ce, cn) \cup Spots(we, wn)
      BY DEF Beside
    <2>2. we2[o].pos = p /\ p # NoPlace
      BY EntryFields, NoPlaceIsNone
    <2>3. left \cap (ci \cup wi \cup Spots(ce, cn)) = {}
      BY DEF Beside, Apart, Spots, Formed
    <2>4. Spots(we2, wn) = (Spots(we, wn) \ {we[o].pos}) \cup {p}
      <3>1. Formed(we, wn)
        BY DEF Beside
      <3>2. \A q \in 0 .. wn - 1 : q # o => we2[q] = we[q]
        OBVIOUS
      <3> QED
        BY ONLY <2>2, <3>1, <3>2, o \in 0 .. wn - 1, wn \in Nat, SpotsOccupy
    <2>5. ~we[o].mod => we[o].pos \in Spots(ce, cn) \cup {NoPlace}
      BY DEF Beside, Apart, Spots
    <2>6. NoPlace \notin used
      BY NoPlaceIsNone
    <2>7. p \notin left
      BY DEF Beside, Spots, Formed
    <2>8. CASE we[o].mod
      <3>1. left = {we[o].pos}
        BY <2>8
      <3> HIDE DEF left
      <3> QED
        BY <3>1, <2>0, <2>1, <2>3, <2>4, <2>7
    <2>9. CASE ~we[o].mod
      <3>1. left = {}
        BY <2>9
      <3>2. we[o].pos \in Spots(ce, cn) \cup {NoPlace}
        BY <2>5, <2>9
      <3>3. NoPlace \notin Spots(we, wn)
        BY DEF Spots
      <3>4. (Spots(we, wn) \ {we[o].pos}) \cup Spots(ce, cn) = Spots(we, wn) \cup Spots(ce, cn)
        BY <3>2, <3>3
      <3> HIDE DEF left
      <3>5. used2 = used \cup {p}
        BY <3>1, <2>0
      <3> QED
        BY ONLY <3>5, <2>1, <3>4, <2>4
    <2> QED
      BY <2>8, <2>9
  <1> QED
    BY <1>1, <1>2, <1>3, <1>4, <1>5, <1>6 DEF Beside

\* Identifiers G lose their places or never had one: they are freed, or given
\* out anew; a new one may be the last.
LEMMA Vacate ==
    ASSUME NEW ce, NEW we, NEW we2, NEW cn \in Nat, NEW wn \in Nat, NEW wn2 \in Nat,
           NEW ci \in SUBSET Places, NEW wi \in SUBSET Places, NEW first, NEW first2,
           NEW used \in SUBSET Places, NEW used2, NEW marks, NEW marks2,
           cn <= wn, wn <= wn2, FirstUserId <= cn,
           Fixed(ce, cn),
           Beside(ce, we, cn, wn, ci, wi, first, used, marks),
           NEW G, G \subseteq FirstUserId .. wn2 - 1,
           \A q \in 0 .. wn2 - 1 : q \in G \/ (q < wn /\ we2[q] = we[q]),
           \A q \in G : we2[q] \in Entry /\ we2[q].pos = NoPlace /\ ~we2[q].mod,
           \A q \in G : q < wn => we[0].mod \/ we[q].pos = NoPlace,
           Linked(we2, wn2, first2),
           marks \subseteq marks2, \A q \in G : q < cn => PageOf(q) \in marks2,
           used2 = used \ Left(we, wn, G)
    PROVE  Beside(ce, we2, cn, wn2, ci, wi, first2, used2, marks2)
  <1>0. /\ FirstUserId <= wn /\ 0 \in 0 .. wn - 1 /\ 0 \in 0 .. wn2 - 1 /\ 0 \notin G
        /\ \A q \in G : q \in 0 .. wn2 - 1
        /\ \A q \in 0 .. wn - 1 : q \in 0 .. wn2 - 1
        /\ \A q \in 0 .. cn - 1 : q \in 0 .. wn - 1
        /\ \A q \in 0 .. wn2 - 1 : q < wn => q \in 0 .. wn - 1
        /\ \A q \in 1 .. FirstUserId - 1 : q \notin G /\ q \in 0 .. wn2 - 1
    BY Sizes
  <1>f. Formed(we, wn)
    BY DEF Beside
  <1>a. Apart(ce, we, cn, wn, ci, wi)
    BY DEF Beside
  <1>1. Formed(we2, wn2)
    <2>1. \A q \in 0 .. wn2 - 1 : we2[q] \in Entry
      BY <1>0, <1>f DEF Formed
    <2>2. \A q \in 0 .. wn2 - 1 : we2[q].free => we2[q].pos = NoPlace /\ ~we2[q].mod
      BY <1>0, <1>f DEF Formed
    <2>3. \A q \in 0 .. wn2 - 1 : we2[q].mod => we2[q].pos # NoPlace
      BY <1>0, <1>f DEF Formed
    <2>4. we2[0].pos # NoPlace
      BY <1>0, <1>f DEF Formed
    <2>5. \A q \in 1 .. FirstUserId - 1 : we2[q].pos = NoPlace /\ ~we2[q].free
      BY <1>0, <1>f DEF Formed
    <2>6. \A q, r \in 0 .. wn2 - 1 : we2[q].pos = we2[r].pos /\ we2[q].pos # NoPlace => q = r
      BY <1>0, <1>f DEF Formed
    <2> QED
      BY <2>1, <2>2, <2>3, <2>4, <2>5, <2>6 DEF Formed
  <1>3. Apart(ce, we2, cn, wn2, ci, wi)
    <2>1. \A q \in 0 .. cn - 1 : ce[q].pos \notin ci \cup wi
      BY <1>a DEF Apart
    <2>2. \A q \in 0 .. wn2 - 1 : we2[q].pos \notin ci \cup wi
      BY <1>0, <1>a, NoPlaceIsNone DEF Apart
    <2>3. \A q \in 0 .. wn2 - 1, r \in 0 .. cn - 1 : we2[q].mod => we2[q].pos # ce[r].pos
      BY <1>0, <1>a DEF Apart
    <2>4. \A q \in 0 .. wn2 - 1 : ~we2[q].mod /\ we2[q].pos # NoPlace => q < cn /\ we2[q] = ce[q]
      BY <1>0, <1>a DEF Apart
    <2> QED
      BY <2>1, <2>2, <2>3, <2>4 DEF Apart
  <1>4. Cloned(ce, we2, cn)
    <2>0. we2[0] = we[0]
      BY <1>0
    <2>1. CASE we[0].mod
      BY <2>0, <2>1 DEF Cloned
    <2>2. CASE ~we[0].mod
      <3>1. \A q \in 0 .. cn - 1 : ce[q].pos # NoPlace => we[q] = ce[q]
        BY <2>2 DEF Beside, Cloned
      <3>2. \A q \in 0 .. cn - 1 : q \in G => ce[q].pos = NoPlace
        BY <3>1, <2>2, <1>0
      <3>3. \A q \in 0 .. cn - 1 : ce[q].pos # NoPlace => we2[q] = ce[q]
        BY <3>1, <3>2, <1>0
      <3> QED
        BY <3>3 DEF Cloned
    <2> QED
      BY <2>1, <2>2
  <1>5. Marked(ce, we2, cn, wn2, marks2)
    <2>1. Marked(ce, we, cn, wn, marks)
      BY DEF Beside
    <2>2. \A q \in 0 .. cn - 1 : we2[q] # ce[q] => PageOf(q) \in marks2
      BY <2>1, <1>0 DEF Marked
    <2>3. \A q \in 0 .. wn2 - 1 : we2[q].mod => PageOf(q) \in marks2 \/ q >= cn
      BY <2>1, <1>0 DEF Marked
    <2> QED
      BY <2>2, <2>3 DEF Marked
  <1>6. used2 = ci \cup wi \cup Spots(ce, cn) \cup Spots(we2, wn2)
    <2> DEFINE left == {we[q].pos : q \in {r \in G : r < wn /\ we[r].mod}}
    <2>1. used = ci \cup wi \cup Spots(ce, cn) \cup Spots(we, wn)
      BY DEF Beside
    <2>2. used2 = used \ left
      BY DEF Left
    <2>3. \A x \in left : x \notin ci \cup wi \cup Spots(ce, cn)
      <3>1. ASSUME NEW r \in G, r < wn, we[r].mod
            PROVE  we[r].pos \notin ci \cup wi \cup Spots(ce, cn)
        <4>1. r \in 0 .. wn - 1
          BY <3>1, <1>0
        <4>2. we[r].pos \notin ci \cup wi
          BY <4>1, <1>a DEF Apart
        <4>3. \A q \in 0 .. cn - 1 : we[r].pos # ce[q].pos
          BY <4>1, <3>1, <1>a DEF Apart
        <4> QED
          BY <4>2, <4>3 DEF Spots
      <3> QED
        BY <3>1
    <2>4. \A x \in left : x \notin Spots(we2, wn2)
      <3>1. ASSUME NEW r \in G, r < wn, we[r].mod, NEW q \in 0 .. wn2 - 1,
                   we2[q].pos # NoPlace
            PROVE  we2[q].pos # we[r].pos
        <4>1. q \in 0 .. wn - 1 /\ q \notin G /\ we2[q] = we[q] /\ r \in 0 .. wn - 1
          BY <3>1, <1>0
        <4> QED
          BY <4>1, <3>1, <1>f DEF Formed
      <3> QED
        BY <3>1 DEF Spots
    <2>5. \A x \in Spots(we2, wn2) : x \in Spots(we, wn)
      BY <1>0 DEF Spots
    <2>6. \A x \in Spots(we, wn) : x \in Spots(we2, wn2) \cup left \cup Spots(ce, cn)
      <3>1. ASSUME NEW q \in 0 .. wn - 1, we[q].pos # NoPlace
            PROVE  we[q].pos \in Spots(we2, wn2) \cup left \cup Spots(ce, cn)
        <4>1. CASE q \in G /\ we[q].mod
          BY <4>1, <1>0
        <4>2. CASE q \in G /\ ~we[q].mod
          BY <4>2, <3>1, <1>a, <1>0 DEF Apart, Spots
        <4>3. CASE q \notin G
          BY <4>3, <3>1, <1>0 DEF Spots
        <4> QED
          BY <4>1, <4>2, <4>3
      <3> QED
        BY <3>1 DEF Spots
    <2> HIDE DEF left
    <2> QED
      BY ONLY <2>1, <2>2, <2>3, <2>4, <2>5, <2>6
  <1> QED
    BY <1>1, <1>3, <1>4, <1>5, <1>6 DEF Beside

\* The first free identifier is taken off the list.
LEMMA LinkedPop ==
    ASSUME NEW e, NEW e2, NEW n \in Nat, NEW first, Linked(e, n, first), first # 0,
           ~e2[first].free,
           \A q \in 0 .. n - 1 : q # first => e2[q] = e[q]
    PROVE  Linked(e2, n, e[first].next)
  <1>1. \A q : q \in Freed(e2, n) <=> q \in Freed(e, n) /\ q # first
    BY DEF Freed
  <1>2. \A q \in Freed(e2, n) : e2[q] = e[q]
    BY <1>1 DEF Freed
  <1>3. first \in Freed(e, n)
    BY DEF Linked
  <1>4. e[first].next \in Freed(e2, n) \cup {0}
    BY <1>1, <1>3 DEF Linked
  <1>5. \A q \in Freed(e2, n) : e2[q].next \in Freed(e2, n) \cup {0}
    BY <1>1, <1>2 DEF Linked
  <1>6. \A q \in Freed(e2, n) : e2[q].next # 0 => e2[q].next # e[first].next
    BY <1>1, <1>2, <1>3 DEF Linked
  <1>7. \A q, r \in Freed(e2, n) : e2[q].next = e2[r].next /\ e2[q].next # 0 => q = r
    BY <1>1, <1>2 DEF Linked
  <1> QED
    BY <1>4, <1>5, <1>6, <1>7 DEF Linked

\* Identifiers G, up to top, are put before the list.
LEMMA LinkedPush ==
    ASSUME NEW e, NEW e2, NEW n \in Nat, NEW first, Linked(e, n, first),
           NEW G, G \subseteq 1 .. n - 1, NEW top \in G,
           \A q \in G : q <= top /\ ~e[q].free /\ e2[q].free,
           \A q \in G : \/ e2[q].next = first /\ \A r \in G : q <= r
                        \/ /\ e2[q].next \in G /\ e2[q].next < q
                           /\ \A r \in G : r < q => r <= e2[q].next,
           \A q \in 0 .. n - 1 : q \notin G => e2[q] = e[q]
    PROVE  Linked(e2, n, top)
  <1>0. /\ \A q \in G : q \in 0 .. n - 1 /\ e2[q].free
        /\ \A q \in 0 .. n - 1 : q \notin G => e2[q] = e[q]
    OBVIOUS
  <1>1. \A q : q \in Freed(e2, n) <=> q \in Freed(e, n) \/ q \in G
    BY ONLY <1>0 DEF Freed
  <1>2. \A q \in Freed(e, n) : e2[q] = e[q] /\ q \notin G
    BY DEF Freed
  <1>3. first \notin G
    BY <1>2 DEF Linked
  <1>4. \A q \in Freed(e2, n) : e2[q].next \in Freed(e2, n) \cup {0}
    BY <1>1, <1>2 DEF Linked
  <1>5. \A q \in Freed(e2, n) : e2[q].next # 0 => e2[q].next # top
    <2>1. \A q \in Freed(e, n) : e2[q].next # top
      <3>1. top \notin Freed(e, n) /\ top # 0
        BY <1>2
      <3> QED
        BY <3>1, <1>2 DEF Linked
    <2>2. \A q \in G : e2[q].next # top
      BY <1>3
    <2> QED
      BY <1>1, <2>1, <2>2
  <1>6. \A q, r \in Freed(e2, n) : e2[q].next = e2[r].next /\ e2[q].next # 0 => q = r
    <2>1. ASSUME NEW q \in Freed(e, n), NEW r \in Freed(e, n),
                 e2[q].next = e2[r].next, e2[q].next # 0
          PROVE  q = r
      BY <2>1, <1>2 DEF Linked
    <2>2. ASSUME NEW q \in Freed(e, n), NEW r \in G, e2[q].next # 0
          PROVE  e2[q].next # e2[r].next
      <3>1. e2[q].next \in Freed(e, n) /\ e2[q].next # first
        BY <2>2, <1>2 DEF Linked
      <3> QED
        BY <3>1, <1>2
    <2>3. ASSUME NEW q \in G, NEW r \in G, e2[q].next = e2[r].next
          PROVE  q = r
      BY <2>3, <1>3
    <2> QED
      BY <1>1, <2>1, <2>2, <2>3
  <1>7. top \in Freed(e2, n) \cup {0}
    BY <1>1
  <1> QED
    BY <1>4, <1>5, <1>6, <1>7 DEF Linked

\* An identifier is appended.
LEMMA LinkedAppend ==
    ASSUME NEW e, NEW e2, NEW n \in Nat, NEW first, Linked(e, n, first),
           ~e2[n].free, \A q \in 0 .. n - 1 : e2[q] = e[q]
    PROVE  Linked(e2, n + 1, first)
  <1>1. \A q : q \in Freed(e2, n + 1) <=> q \in Freed(e, n)
    BY DEF Freed
  <1>2. \A q \in Freed(e, n) : e2[q] = e[q]
    BY DEF Freed
  <1>3. \A q \in Freed(e2, n + 1) : e2[q].next \in Freed(e2, n + 1) \cup {0}
    BY <1>1, <1>2 DEF Linked
  <1>4. \A q \in Freed(e2, n + 1) : e2[q].next # 0 => e2[q].next # first
    BY <1>1, <1>2 DEF Linked
  <1>5. \A q, r \in Freed(e2, n + 1) : e2[q].next = e2[r].next /\ e2[q].next # 0 => q = r
    BY <1>1, <1>2 DEF Linked
  <1>6. first \in Freed(e2, n + 1) \cup {0}
    BY <1>1 DEF Linked
  <1> QED
    BY <1>3, <1>4, <1>5, <1>6 DEF Linked

\* What is linked in one index is in one with the same entries.
LEMMA LinkedSame ==
    ASSUME NEW e, NEW e2, NEW n \in Nat, NEW first, Linked(e, n, first),
           \A q \in 0 .. n - 1 : e2[q].free = e[q].free /\ e2[q].next = e[q].next
    PROVE  Linked(e2, n, first)
  <1>1. \A q : q \in Freed(e2, n) <=> q \in Freed(e, n)
    BY DEF Freed
  <1>2. \A q \in Freed(e, n) : e2[q].next = e[q].next
    BY DEF Freed
  <1>3. \A q \in Freed(e2, n) : e2[q].next \in Freed(e2, n) \cup {0}
    BY <1>1, <1>2 DEF Linked
  <1>4. \A q \in Freed(e2, n) : e2[q].next # 0 => e2[q].next # first
    BY <1>1, <1>2 DEF Linked
  <1>5. \A q, r \in Freed(e2, n) : e2[q].next = e2[r].next /\ e2[q].next # 0 => q = r
    BY <1>1, <1>2 DEF Linked
  <1>6. first \in Freed(e2, n) \cup {0}
    BY <1>1 DEF Linked
  <1> QED
    BY <1>3, <1>4, <1>5, <1>6 DEF Linked

\* What is formed in one index is in one with the same entries, or with the
\* same but for the modified flags, and those cleared.
LEMMA FormedSame ==
    ASSUME NEW e, NEW e2, NEW n \in Nat, Formed(e, n), FirstUserId <= n,
           \A q \in 0 .. n - 1 :
               /\ e2[q] \in Entry
               /\ e2[q].pos = e[q].pos /\ e2[q].free = e[q].free
               /\ e2[q].mod => e[q].mod
    PROVE  Formed(e2, n)
  <1>0. 0 \in 0 .. n - 1 /\ \A q \in 1 .. FirstUserId - 1 : q \in 0 .. n - 1
    BY Sizes
  <1>1. \A q \in 0 .. n - 1 : e2[q] \in Entry
    OBVIOUS
  <1>2. \A q \in 0 .. n - 1 : e2[q].free => e2[q].pos = NoPlace /\ ~e2[q].mod
    BY DEF Formed
  <1>3. \A q \in 0 .. n - 1 : e2[q].mod => e2[q].pos # NoPlace
    BY DEF Formed
  <1>4. e2[0].pos # NoPlace
    BY <1>0 DEF Formed
  <1>5. \A q \in 1 .. FirstUserId - 1 : e2[q].pos = NoPlace /\ ~e2[q].free
    BY <1>0 DEF Formed
  <1>6. \A q, r \in 0 .. n - 1 : e2[q].pos = e2[r].pos /\ e2[q].pos # NoPlace => q = r
    BY DEF Formed
  <1> QED
    BY <1>1, <1>2, <1>3, <1>4, <1>5, <1>6 DEF Formed

\* The same places are led to by entries with the same places.
LEMMA SpotsSame ==
    ASSUME NEW e, NEW e2, NEW n \in Nat, \A q \in 0 .. n - 1 : e2[q].pos = e[q].pos
    PROVE  Spots(e2, n) = Spots(e, n)
  BY DEF Spots

\* The working index is moved to other pages.
LEMMA MoveIndex ==
    ASSUME NEW ce, NEW we, NEW we2, NEW cn \in Nat, NEW wn \in Nat,
           NEW ci \in SUBSET Places, NEW wi \in SUBSET Places, NEW wi2 \in SUBSET Places,
           NEW first, NEW used \in SUBSET Places, NEW used2, NEW marks,
           Beside(ce, we, cn, wn, ci, wi, first, used, marks), cn <= wn, FirstUserId <= cn,
           \A q \in 0 .. wn - 1 : we2[q] = we[q],
           wi2 \cap used = {}, wi \cap ci = {},
           used2 = (used \cup wi2) \ wi
    PROVE  Beside(ce, we2, cn, wn, ci, wi2, first, used2, marks)
  <1>0. 0 \in 0 .. wn - 1 /\ \A q \in 0 .. cn - 1 : q \in 0 .. wn - 1
    BY Sizes
  <1>f. Formed(we, wn) /\ Linked(we, wn, first) /\ Apart(ce, we, cn, wn, ci, wi)
    BY DEF Beside
  <1>1. Formed(we2, wn)
    <2>1. \A q \in 0 .. wn - 1 : we[q] \in Entry
      BY <1>f DEF Formed
    <2> QED
      BY <2>1, <1>f, FormedSame, Sizes
  <1>2. Linked(we2, wn, first)
    BY <1>f, LinkedSame
  <1>3. Spots(we2, wn) = Spots(we, wn)
    BY SpotsSame
  <1>4. used = ci \cup wi \cup Spots(ce, cn) \cup Spots(we, wn)
    BY DEF Beside
  <1>5. \A x \in wi : x \notin Spots(ce, cn) \cup Spots(we, wn)
    BY <1>f DEF Apart, Spots
  <1>6. used2 = ci \cup wi2 \cup Spots(ce, cn) \cup Spots(we2, wn)
    BY ONLY <1>3, <1>4, <1>5, wi2 \cap used = {}, wi \cap ci = {},
            used2 = (used \cup wi2) \ wi
  <1>7. Apart(ce, we2, cn, wn, ci, wi2)
    <2>1. \A q \in 0 .. cn - 1 : ce[q].pos \notin ci \cup wi2
      <3>1. \A q \in 0 .. cn - 1 : ce[q].pos \in used \cup {NoPlace}
        BY <1>4 DEF Spots
      <3> QED
        BY <3>1, <1>f, NoPlaceIsNone DEF Apart
    <2>2. \A q \in 0 .. wn - 1 : we2[q].pos \notin ci \cup wi2
      <3>1. \A q \in 0 .. wn - 1 : we[q].pos \in used \cup {NoPlace}
        BY <1>4 DEF Spots
      <3> QED
        BY <3>1, <1>f, NoPlaceIsNone DEF Apart
    <2>3. \A q \in 0 .. wn - 1, r \in 0 .. cn - 1 : we2[q].mod => we2[q].pos # ce[r].pos
      BY <1>f DEF Apart
    <2>4. \A q \in 0 .. wn - 1 : ~we2[q].mod /\ we2[q].pos # NoPlace => q < cn /\ we2[q] = ce[q]
      BY <1>f DEF Apart
    <2> QED
      BY <2>1, <2>2, <2>3, <2>4 DEF Apart
  <1>8. Cloned(ce, we2, cn)
    BY <1>0 DEF Beside, Cloned
  <1>9. Marked(ce, we2, cn, wn, marks)
    BY <1>0 DEF Beside, Marked
  <1> QED
    BY <1>1, <1>2, <1>6, <1>7, <1>8, <1>9 DEF Beside

\* The same entries are beside the same ones, in a larger set of marks too.
LEMMA BesideSame ==
    ASSUME NEW ce, NEW ce2, NEW we, NEW we2, NEW cn \in Nat, NEW wn \in Nat,
           NEW ci, NEW wi, NEW first, NEW used, NEW marks, NEW marks2,
           Beside(ce, we, cn, wn, ci, wi, first, used, marks), cn <= wn, FirstUserId <= cn,
           \A q \in 0 .. wn - 1 : we2[q] = we[q],
           \A q \in 0 .. cn - 1 : ce2[q] = ce[q],
           marks \subseteq marks2
    PROVE  Beside(ce2, we2, cn, wn, ci, wi, first, used, marks2)
  <1>0. 0 \in 0 .. wn - 1 /\ \A q \in 0 .. cn - 1 : q \in 0 .. wn - 1
    BY Sizes
  <1>1. Formed(we2, wn)
    <2>0. Formed(we, wn) /\ FirstUserId <= wn
      BY Sizes DEF Beside
    <2>1. \A q \in 0 .. wn - 1 : we[q] \in Entry
      BY <2>0 DEF Formed
    <2> QED
      BY <2>0, <2>1, FormedSame
  <1>2. Linked(we2, wn, first)
    BY LinkedSame DEF Beside
  <1>3. Spots(we2, wn) = Spots(we, wn) /\ Spots(ce2, cn) = Spots(ce, cn)
    BY SpotsSame
  <1>4. Apart(ce2, we2, cn, wn, ci, wi)
    <2>1. Apart(ce, we, cn, wn, ci, wi)
      BY DEF Beside
    <2>2. \A q \in 0 .. wn - 1 : ~we2[q].mod /\ we2[q].pos # NoPlace => q < cn /\ we2[q] = ce2[q]
      BY <2>1 DEF Apart
    <2> QED
      BY <2>1, <2>2 DEF Apart
  <1>5. Cloned(ce2, we2, cn)
    BY <1>0 DEF Beside, Cloned
  <1>6. Marked(ce2, we2, cn, wn, marks2)
    BY <1>0 DEF Beside, Marked
  <1>7. used = ci \cup wi \cup Spots(ce2, cn) \cup Spots(we2, wn)
    BY <1>3 DEF Beside
  <1> QED
    BY <1>1, <1>2, <1>4, <1>5, <1>6, <1>7 DEF Beside

\* The same entries are those of a committed state.
LEMMA FixedSame ==
    ASSUME NEW e, NEW e2, NEW n \in Nat, FirstUserId <= n, Fixed(e, n),
           \A q \in 0 .. n - 1 : e2[q] = e[q]
    PROVE  Fixed(e2, n)
  <1>1. Formed(e2, n)
    <2>1. Formed(e, n) /\ \A q \in 0 .. n - 1 : e[q] \in Entry
      BY DEF Fixed, Formed
    <2> QED
      BY <2>1, FormedSame
  <1> QED
    BY <1>1 DEF Fixed

\* Before any change the working entries are the committed ones.
LEMMA TwinBeside ==
    ASSUME NEW ce, NEW we, NEW cn \in Nat, FirstUserId <= cn,
           NEW ci, NEW wi, NEW first, NEW used, NEW marks,
           Fixed(ce, cn), Linked(ce, cn, first),
           \A q \in 0 .. cn - 1 : we[q] = ce[q],
           \A q \in 0 .. cn - 1 : ce[q].pos \notin ci \cup wi,
           used = ci \cup wi \cup Spots(ce, cn)
    PROVE  Beside(ce, we, cn, cn, ci, wi, first, used, marks)
  <1>1. Formed(we, cn)
    BY FixedSame DEF Fixed
  <1>2. Linked(we, cn, first)
    BY LinkedSame
  <1>3. Spots(we, cn) = Spots(ce, cn)
    BY SpotsSame
  <1>4. Apart(ce, we, cn, cn, ci, wi)
    BY DEF Apart, Fixed
  <1>5. Cloned(ce, we, cn)
    BY DEF Cloned
  <1>6. Marked(ce, we, cn, cn, marks)
    BY DEF Marked, Fixed
  <1>7. used = ci \cup wi \cup Spots(ce, cn) \cup Spots(we, cn)
    BY <1>3
  <1> QED
    BY <1>1, <1>2, <1>4, <1>5, <1>6, <1>7 DEF Beside

\* What a commit gives up is what the committed entries lead to and the
\* working ones do not.
GivenPlaces(ce, we, cn, marks) ==
    {ce[o].pos : o \in {q \in 0 .. cn - 1 :
        PageOf(q) \in marks /\ we[q] # ce[q] /\ ~ce[q].free}} \ {NoPlace}

\* They are those that the committed state alone leads to.
LEMMA GivenUp ==
    ASSUME NEW ce, NEW we, NEW cn \in Nat, NEW wn \in Nat, NEW ci, NEW wi, NEW marks,
           cn <= wn, FirstUserId <= cn, Fixed(ce, cn), Formed(we, wn),
           Apart(ce, we, cn, wn, ci, wi), Marked(ce, we, cn, wn, marks),
           NEW old, old = GivenPlaces(ce, we, cn, marks)
    PROVE  \A x : x \in old <=> x \in Spots(ce, cn) /\ x \notin Spots(we, wn)
  <1>0. \A q \in 0 .. cn - 1 : q \in 0 .. wn - 1
    OBVIOUS
  <1>f. Formed(ce, cn)
    BY DEF Fixed
  <1>1. ASSUME NEW x \in old
        PROVE  x \in Spots(ce, cn) /\ x \notin Spots(we, wn)
    <2>1. PICK q \in 0 .. cn - 1 : we[q] # ce[q] /\ x = ce[q].pos /\ x # NoPlace
      BY <1>1 DEF GivenPlaces
    <2>2. x \in Spots(ce, cn)
      BY <2>1 DEF Spots
    <2>3. ASSUME NEW r \in 0 .. wn - 1, we[r].pos = x
          PROVE  FALSE
      <3>1. ~we[r].mod
        BY <2>1, <2>3 DEF Apart
      <3>2. r < cn /\ we[r] = ce[r]
        BY <3>1, <2>1, <2>3 DEF Apart
      <3>3. r \in 0 .. cn - 1 /\ ce[r].pos = ce[q].pos
        BY <3>2, <2>1, <2>3
      <3>4. r = q
        BY <3>3, <2>1, <1>f DEF Formed
      <3> QED
        BY <3>2, <3>4, <2>1
    <2> QED
      BY <2>2, <2>3 DEF Spots
  <1>2. ASSUME NEW x \in Spots(ce, cn), x \notin Spots(we, wn)
        PROVE  x \in old
    <2>1. PICK q \in 0 .. cn - 1 : x = ce[q].pos /\ x # NoPlace
      BY DEF Spots
    <2>2. we[q] # ce[q]
      <3> SUFFICES ASSUME we[q] = ce[q] PROVE FALSE
        OBVIOUS
      <3> QED
        BY <1>0, <1>2, <2>1 DEF Spots
    <2>3. PageOf(q) \in marks
      BY <2>2 DEF Marked
    <2>4. ~ce[q].free
      BY <2>1, <1>f DEF Formed
    <2> QED
      BY <2>1, <2>2, <2>3, <2>4 DEF GivenPlaces
  <1> QED
    BY <1>1, <1>2

\* An entry that loses its modified flag.
LEMMA ClearedEntry ==
    ASSUME NEW e \in Entry, NEW e2, e2 = [e EXCEPT !.mod = FALSE]
    PROVE  e2 \in Entry /\ e2.pos = e.pos /\ e2.free = e.free /\ e2.next = e.next /\ ~e2.mod
  BY DEF Entry

\* A commit clears the flags of the working entries: they are those of a
\* committed state.
LEMMA Clearing ==
    ASSUME NEW we, NEW we2, NEW wn \in Nat, FirstUserId <= wn, NEW first,
           Formed(we, wn), Linked(we, wn, first),
           \A q \in 0 .. wn - 1 : q \in Users /\ ~we[q].free => we[q].pos # NoPlace,
           \A q \in 0 .. wn - 1 : we2[q] = [we[q] EXCEPT !.mod = FALSE]
    PROVE  Fixed(we2, wn) /\ Linked(we2, wn, first) /\ Spots(we2, wn) = Spots(we, wn)
  <1>1. \A q \in 0 .. wn - 1 :
            /\ we2[q] \in Entry /\ we2[q].pos = we[q].pos
            /\ we2[q].free = we[q].free /\ we2[q].next = we[q].next
            /\ ~we2[q].mod
    <2>1. \A q \in 0 .. wn - 1 : we[q] \in Entry
      BY DEF Formed
    <2> QED
      BY <2>1, ClearedEntry
  <1>2. Formed(we2, wn)
    BY <1>1, FormedSame
  <1>3. Linked(we2, wn, first)
    BY <1>1, LinkedSame
  <1>4. Spots(we2, wn) = Spots(we, wn)
    BY <1>1, SpotsSame
  <1> QED
    BY <1>1, <1>2, <1>3, <1>4 DEF Fixed

-----------------------------------------------------------------------------
(* What the steps of an operation do to memory.                             *)

PageType(page) ==
    /\ page.map = <<>> \/ DOMAIN page.map = 1 .. HandlesPerPage
    /\ \A s \in DOMAIN page.map : page.map[s] \in Entry
    /\ page.refs \in Bodies \cup {{}, {BitmapId}}
    /\ page.used \subseteq Places

\* Memory in which the two indexes can be read and are apart.
Laid(m) ==
    /\ MemFields(m)
    /\ \A p \in Places : PageType(m.pool[p])
    /\ Current(m).index \in Seq(Places)
    /\ Working(m).index \in Seq(Places)
    /\ IsInjective(Working(m).index)
    /\ ToSet(Current(m).index) \cap ToSet(Working(m).index) = {}

\* The entries of the committed and of the working index.
CE(m) == Ent(m.pool, Current(m).index)
WE(m) == Ent(m.pool, Working(m).index)

CI(m) == ToSet(Current(m).index)
WI(m) == ToSet(Working(m).index)

\* From m to n only pages of S were written.
Frame(m, n, S) ==
    /\ \A p \in Places \ S : n.pool[p] = m.pool[p]
    /\ n.touched \subseteq m.touched \cup S

\* What goes with the pages is the same.
SameHeader(m, n) ==
    /\ n.header = m.header /\ n.map = m.map /\ n.modified = m.modified

\* What two steps write together.
LEMMA FrameTwice ==
    ASSUME NEW l, NEW m, NEW n, NEW S, NEW T, Frame(l, m, S), Frame(m, n, T)
    PROVE  Frame(l, n, S \cup T)
  BY DEF Frame

\* A set of pages that is not written may be described with more of them.
LEMMA FrameMore ==
    ASSUME NEW m, NEW n, NEW S, NEW T, Frame(m, n, S), S \subseteq T
    PROVE  Frame(m, n, T)
  BY DEF Frame

\* The bitmap has an identifier.
LEMMA ZeroIsId == BitmapId \in Ids /\ BitmapId = 0
  BY Sizes DEF Ids, BitmapId

\* The entries as the operations look them up.
LEMMA Looked ==
    ASSUME NEW m, NEW o \in Ids
    PROVE  GetPos(m, o) = WE(m)[o] /\ GetGCPos(m, o) = CE(m)[o]
  BY DEF GetPos, GetGCPos, WE, CE, Ent

\* The bitmap is where the first entry of the working index leads.
LEMMA BitmapLooked ==
    ASSUME NEW m
    PROVE  /\ Bitmap(m) = m.pool[WE(m)[0].pos].used
           /\ GetPos(m, BitmapId) = WE(m)[0]
  BY Looked, ZeroIsId DEF Bitmap

\* What a page of an index holds are entries.
LEMMA EntriesTyped ==
    ASSUME NEW page, PageType(page), NEW s \in 1 .. HandlesPerPage
    PROVE  Entries(page)[s] \in Entry
  <1>1. CASE page.map = <<>>
    <2>1. Entries(page)[s] = At(NoPlace, FALSE)
      BY <1>1 DEF Entries
    <2> QED
      BY <2>1, NowhereFields
  <1>2. CASE page.map # <<>>
    <2>1. Entries(page) = page.map
      BY <1>2 DEF Entries
    <2>2. s \in DOMAIN page.map
      BY <1>2 DEF PageType
    <2> QED
      BY <2>1, <2>2 DEF PageType
  <1> QED
    BY <1>1, <1>2

\* So is what an index has for an identifier,
LEMMA LookupTyped ==
    ASSUME NEW pages, \A p \in Places : PageType(pages[p]), NEW ix \in Seq(Places), NEW o \in Nat
    PROVE  Lookup(pages, ix, o) \in Entry
  <1>1. CASE PageOf(o) < Len(ix)
    <2>1. ix[PageOf(o) + 1] \in Places /\ Slot(o) \in 1 .. HandlesPerPage
      BY <1>1, IndexPlaces, PageAndSlot
    <2>2. Entries(pages[ix[PageOf(o) + 1]])[Slot(o)] \in Entry
      BY <2>1, EntriesTyped
    <2> QED
      BY <2>2, <1>1 DEF Lookup
  <1>2. CASE ~(PageOf(o) < Len(ix))
    BY <1>2, NowhereFields DEF Lookup
  <1> QED
    BY <1>1, <1>2

\* and what the function that it stands for has.
LEMMA EntTyped ==
    ASSUME NEW pages, \A p \in Places : PageType(pages[p]), NEW ix \in Seq(Places), NEW o \in Ids
    PROVE  Ent(pages, ix)[o] \in Entry
  <1>1. o \in Nat
    BY Sizes DEF Ids
  <1> QED
    BY <1>1, LookupTyped DEF Ent

\* Pages that operations write are of their type: those of an index,
LEMMA IndexPageTyped ==
    ASSUME NEW es, DOMAIN es = 1 .. HandlesPerPage, \A s \in 1 .. HandlesPerPage : es[s] \in Entry
    PROVE  PageType(IndexPage(es))
  <1>1. /\ IndexPage(es).map = es /\ IndexPage(es).refs = {} /\ IndexPage(es).used = {}
    BY DEF IndexPage, Blank
  <1> QED
    BY <1>1 DEF PageType

\* those of objects,
LEMMA ObjectPageTyped ==
    ASSUME NEW b \in Bodies \cup {{BitmapId}}
    PROVE  PageType(ObjectPage(b)) /\ ObjectPage(b).refs = b
  <1>1. /\ ObjectPage(b).map = <<>> /\ ObjectPage(b).refs = b /\ ObjectPage(b).used = {}
    BY DEF ObjectPage, Blank
  <1>2. DOMAIN <<>> = {}
    OBVIOUS
  <1> QED
    BY <1>1, <1>2 DEF PageType

\* those of the bitmap,
LEMMA BitmapPageTyped ==
    ASSUME NEW u \in SUBSET Places
    PROVE  PageType(BitmapPage(u)) /\ BitmapPage(u).used = u
  <1>1. /\ BitmapPage(u).map = <<>> /\ BitmapPage(u).refs = {} /\ BitmapPage(u).used = u
    BY DEF BitmapPage, Blank
  <1>2. DOMAIN <<>> = {}
    OBVIOUS
  <1> QED
    BY <1>1, <1>2 DEF PageType

\* and those in which SetEntries sets entries.
LEMMA NewPageTyped ==
    ASSUME NEW m, NEW es, NEW p, PageType(m.pool[p]), \A o \in DOMAIN es : es[o] \in Entry
    PROVE  PageType(NewPage(m, es, p))
  <1> DEFINE here == {o \in DOMAIN es : Working(m).index[PageOf(o) + 1] = p}
             entry(s) == IF \E o \in here : Slot(o) = s
                         THEN es[CHOOSE o \in here : Slot(o) = s]
                         ELSE Entries(m.pool[p])[s]
             new == [s \in 1 .. HandlesPerPage |-> entry(s)]
  <1>1. NewPage(m, es, p) = IF here = {} THEN m.pool[p] ELSE IndexPage(new)
    BY DEF NewPage
  <1>2. \A s \in 1 .. HandlesPerPage : entry(s) \in Entry
    <2> TAKE s \in 1 .. HandlesPerPage
    <2>1. CASE \E o \in here : Slot(o) = s
      <3>1. (CHOOSE o \in here : Slot(o) = s) \in DOMAIN es
        BY <2>1
      <3> QED
        BY <2>1, <3>1
    <2>2. CASE ~\E o \in here : Slot(o) = s
      BY <2>2, EntriesTyped
    <2> QED
      BY <2>1, <2>2
  <1>3. PageType(IndexPage(new))
    <2>1. DOMAIN new = 1 .. HandlesPerPage /\ \A s \in 1 .. HandlesPerPage : new[s] \in Entry
      BY <1>2
    <2> QED
      BY <2>1, IndexPageTyped
  <1> QED
    BY <1>1, <1>3

\* Memory with the same header, and pages of the type they have to have.
LEMMA StillLaid ==
    ASSUME NEW m, NEW n, Laid(m), MemFields(n), SameHeader(m, n),
           \A p \in Places : PageType(n.pool[p])
    PROVE  Laid(n) /\ Current(n) = Current(m) /\ Working(n) = Working(m)
  <1>1. Current(n) = Current(m) /\ Working(n) = Working(m)
    BY DEF SameHeader, Current, Working
  <1> QED
    BY <1>1 DEF Laid

\* Entries of the working index are set.
LEMMA EntriesSet ==
    ASSUME NEW m, Laid(m), NEW es, DOMAIN es \in SUBSET Nat,
           \A o \in DOMAIN es : PageOf(o) < Len(Working(m).index) /\ es[o] \in Entry,
           NEW n, n = SetEntries(m, es)
    PROVE  /\ Laid(n) /\ SameHeader(m, n)
           /\ Current(n) = Current(m) /\ Working(n) = Working(m)
           /\ CE(n) = CE(m)
           /\ \A q \in Ids : WE(n)[q] = IF q \in DOMAIN es THEN es[q] ELSE WE(m)[q]
           /\ Frame(m, n, WI(m))
  <1>1. MemFields(m) /\ DOMAIN es \subseteq Nat /\ Ids \subseteq Nat
    BY Sizes DEF Laid, Ids
  <1>2. MemFields(n) /\ SameHeader(m, n) /\ \A p \in Places : n.pool[p] = NewPage(m, es, p)
    BY <1>1, SetEntriesFields DEF SameHeader
  <1>3. \A p \in Places : PageType(n.pool[p])
    BY <1>2, NewPageTyped DEF Laid
  <1>4. Laid(n) /\ Current(n) = Current(m) /\ Working(n) = Working(m)
    BY <1>2, <1>3, StillLaid
  <1>5. Frame(m, n, WI(m))
    BY <1>1, SetEntriesPages DEF Frame, WI, Laid
  <1>6. CE(n) = CE(m)
    <2>1. \A p \in ToSet(Current(m).index) : n.pool[p] = m.pool[p]
      BY <1>5, ToSetPlaces DEF Frame, Laid, WI
    <2> QED
      BY <2>1, <1>4, EntSame DEF CE, Laid
  <1>7. \A q \in Ids : WE(n)[q] = IF q \in DOMAIN es THEN es[q] ELSE WE(m)[q]
    <2> TAKE q \in Ids
    <2>1. Lookup(n.pool, Working(m).index, q)
             = IF q \in DOMAIN es THEN es[q] ELSE Lookup(m.pool, Working(m).index, q)
      BY <1>1, SetEntriesLookup DEF Laid
    <2> QED
      BY <2>1, <1>4 DEF WE, Ent
  <1> QED
    BY <1>2, <1>4, <1>5, <1>6, <1>7

\* A page that neither index uses is written.
LEMMA PageWritten ==
    ASSUME NEW m, Laid(m), NEW p \in Places, p \notin CI(m) \cup WI(m),
           NEW page, PageType(page), NEW n, n = Write(m, p, page)
    PROVE  /\ Laid(n) /\ SameHeader(m, n)
           /\ Current(n) = Current(m) /\ Working(n) = Working(m)
           /\ CE(n) = CE(m) /\ WE(n) = WE(m)
           /\ n.pool[p] = page
           /\ Frame(m, n, {p})
  <1> DEFINE pages == [m.pool EXCEPT ![p] = page]
  <1>1. /\ m.pool = [q \in Places |-> m.pool[q]] /\ MemFields(m)
    BY DEF Laid, MemFields
  <1>2. /\ pages = [q \in Places |-> pages[q]] /\ pages[p] = page
        /\ \A q \in Places \ {p} : pages[q] = m.pool[q]
    <2>1. pages = [q \in Places |-> IF q = p THEN page ELSE m.pool[q]]
      BY ONLY <1>1
    <2> HIDE DEF pages
    <2> QED
      BY ONLY <2>1, p \in Places
  <1> HIDE DEF pages
  <1>3. /\ MemFields(n) /\ SameHeader(m, n) /\ n.pool = pages /\ n.touched = m.touched \cup {p}
    <2>1. n = Written(m, pages, {p})
      BY DEF Write, pages
    <2> QED
      BY <2>1, <1>1, <1>2, WrittenFields DEF SameHeader
  <1>4. Frame(m, n, {p})
    BY <1>2, <1>3 DEF Frame
  <1>5. \A q \in Places : PageType(n.pool[q])
    BY <1>2, <1>3 DEF Laid
  <1>6. Laid(n) /\ Current(n) = Current(m) /\ Working(n) = Working(m)
    BY <1>3, <1>5, StillLaid
  <1>7. CE(n) = CE(m)
    <2>1. \A q \in ToSet(Current(m).index) : n.pool[q] = m.pool[q]
      BY <1>2, <1>3, ToSetPlaces DEF Laid, CI
    <2> QED
      BY <2>1, <1>6, EntSame DEF CE, Laid
  <1>8. WE(n) = WE(m)
    <2>1. \A q \in ToSet(Working(m).index) : n.pool[q] = m.pool[q]
      BY <1>2, <1>3, ToSetPlaces DEF Laid, WI
    <2> QED
      BY <2>1, <1>6, EntSame DEF WE, Laid
  <1> QED
    BY <1>2, <1>3, <1>4, <1>6, <1>7, <1>8

\* The bitmap is changed.
LEMMA BitmapSet ==
    ASSUME NEW m, Laid(m), NEW b, b = WE(m)[0].pos, b \in Places, b \notin CI(m) \cup WI(m),
           NEW u \in SUBSET Places, NEW n, n = SetBitmap(m, u)
    PROVE  /\ Laid(n) /\ SameHeader(m, n)
           /\ Current(n) = Current(m) /\ Working(n) = Working(m)
           /\ CE(n) = CE(m) /\ WE(n) = WE(m)
           /\ Bitmap(n) = u
           /\ Frame(m, n, {b})
  <1>1. n = Write(m, b, BitmapPage(u))
    BY BitmapLooked DEF SetBitmap
  <1>2. /\ Laid(n) /\ SameHeader(m, n)
        /\ Current(n) = Current(m) /\ Working(n) = Working(m)
        /\ CE(n) = CE(m) /\ WE(n) = WE(m)
        /\ n.pool[b] = BitmapPage(u)
        /\ Frame(m, n, {b})
    <2> DEFINE page == BitmapPage(u)
    <2>1. PageType(page)
      BY BitmapPageTyped
    <2> HIDE DEF page
    <2>2. n = Write(m, b, page)
      BY <1>1 DEF page
    <2>3. /\ Laid(n) /\ SameHeader(m, n)
          /\ Current(n) = Current(m) /\ Working(n) = Working(m)
          /\ CE(n) = CE(m) /\ WE(n) = WE(m)
          /\ n.pool[b] = page
          /\ Frame(m, n, {b})
      BY <2>1, <2>2, PageWritten
    <2> QED
      BY <2>3 DEF page
  <1>3. Bitmap(n) = u
    BY <1>2, BitmapLooked, BitmapPageTyped
  <1> QED
    BY <1>2, <1>3

\* The header is to be written before the next change.
LEMMA Dirtied ==
    ASSUME NEW m, MemFields(m), NEW n, n = SetDirty(m)
    PROVE  /\ MemFields(n)
           /\ n.pool = m.pool /\ n.map = m.map /\ n.touched = m.touched /\ n.modified = TRUE
           /\ n.header.curr = m.header.curr /\ n.header.init = m.header.init
           /\ n.header.root = m.header.root /\ n.header.dirty = TRUE
           /\ Current(n) = Current(m) /\ Working(n) = Working(m)
  <1> DEFINE yes == TRUE
             l == [m EXCEPT !.modified = yes]
             h == [m.header EXCEPT !.dirty = yes]
  <1>0. /\ m = [header |-> m.header, pool |-> m.pool, map |-> m.map,
                modified |-> m.modified, touched |-> m.touched]
        /\ m.pool = [p \in Places |-> m.pool[p]] /\ m.header.curr \in 0 .. 1
        /\ HeaderFields(m.header)
        /\ m.header = [curr |-> m.header.curr, dirty |-> m.header.dirty,
                       init |-> m.header.init, root |-> m.header.root]
    BY DEF MemFields, HeaderFields
  <1>1. l = [header |-> m.header, pool |-> m.pool, map |-> m.map,
             modified |-> yes, touched |-> m.touched]
    <2> HIDE DEF yes
    <2> QED
      BY ONLY <1>0
  <1>2. h = [curr |-> m.header.curr, dirty |-> yes,
             init |-> m.header.init, root |-> m.header.root]
    <2> HIDE DEF yes
    <2> QED
      BY ONLY <1>0
  <1>3. n = [l EXCEPT !.header = h]
    BY ONLY <1>0, n = SetDirty(m) DEF SetDirty
  <1> HIDE DEF l, h, yes
  <1>4. n = [header |-> h, pool |-> m.pool, map |-> m.map,
             modified |-> yes, touched |-> m.touched]
    BY ONLY <1>1, <1>3
  <1>5. /\ n.header = h /\ n.pool = m.pool /\ n.map = m.map
        /\ n.modified = yes /\ n.touched = m.touched
    BY ONLY <1>4
  <1>6. /\ h.curr = m.header.curr /\ h.init = m.header.init
        /\ h.root = m.header.root /\ h.dirty = yes
    BY ONLY <1>2
  <1>7. HeaderFields(h)
    BY ONLY <1>0, <1>2, <1>6 DEF HeaderFields
  <1>8. MemFields(n)
    BY ONLY <1>0, <1>4, <1>5, <1>6, <1>7 DEF MemFields
  <1> QED
    BY <1>5, <1>6, <1>8 DEF Current, Working, yes

\* Pages of the index are marked as changed.
LEMMA MapSet ==
    ASSUME NEW m, MemFields(m), NEW marks, NEW n, n = [m EXCEPT !.map = marks]
    PROVE  /\ MemFields(n)
           /\ n.header = m.header /\ n.pool = m.pool /\ n.touched = m.touched
           /\ n.modified = m.modified /\ n.map = marks
           /\ Current(n) = Current(m) /\ Working(n) = Working(m)
  <1>0. /\ m = [header |-> m.header, pool |-> m.pool, map |-> m.map,
                modified |-> m.modified, touched |-> m.touched]
        /\ m.pool = [p \in Places |-> m.pool[p]] /\ m.header.curr \in 0 .. 1
        /\ HeaderFields(m.header)
    BY DEF MemFields
  <1>1. n = [header |-> m.header, pool |-> m.pool, map |-> marks,
             modified |-> m.modified, touched |-> m.touched]
    BY ONLY <1>0, n = [m EXCEPT !.map = marks]
  <1>2. /\ n.header = m.header /\ n.pool = m.pool /\ n.map = marks
        /\ n.modified = m.modified /\ n.touched = m.touched
    BY ONLY <1>1
  <1> QED
    BY <1>0, <1>1, <1>2 DEF MemFields, Current, Working

\* A page of the index is marked as changed.
LEMMA MarkedPage ==
    ASSUME NEW m, MemFields(m), NEW o, NEW n, n = Mark(m, o)
    PROVE  /\ MemFields(n)
           /\ n.header = m.header /\ n.pool = m.pool /\ n.touched = m.touched
           /\ n.modified = m.modified /\ n.map = m.map \cup {PageOf(o)}
           /\ Current(n) = Current(m) /\ Working(n) = Working(m)
  <1>1. n = [m EXCEPT !.map = m.map \cup {PageOf(o)}]
    BY DEF Mark
  <1> QED
    BY <1>1, MapSet

\* The working root is replaced.
WithWorking(m, r) == [m EXCEPT !.header.root[1 - m.header.curr] = r]

\* The other root and all that is not a root stay.
LEMMA RootSet ==
    ASSUME NEW m, MemFields(m), NEW r, RootFields(r), NEW n, n = WithWorking(m, r)
    PROVE  /\ MemFields(n)
           /\ n.pool = m.pool /\ n.map = m.map /\ n.touched = m.touched
           /\ n.modified = m.modified
           /\ n.header.curr = m.header.curr /\ n.header.init = m.header.init
           /\ n.header.dirty = m.header.dirty
           /\ Current(n) = Current(m) /\ Working(n) = r
  <1> DEFINE k == 1 - m.header.curr
             h == WithRoot(m.header, k, r)
  <1>1. HeaderFields(m.header) /\ m.header.curr \in 0 .. 1
    BY DEF MemFields
  <1>2. k \in 0 .. 1 /\ 1 - k = m.header.curr
    BY <1>1
  <1>3. n = WithHeader(m, h)
    <2>1. m = [header |-> m.header, pool |-> m.pool, map |-> m.map,
                modified |-> m.modified, touched |-> m.touched]
      BY DEF MemFields
    <2> QED
      BY ONLY <2>1, n = WithWorking(m, r) DEF WithWorking, WithHeader, WithRoot
  <1>5. /\ HeaderFields(h) /\ h.root[k] = r /\ h.root[1 - k] = m.header.root[1 - k]
        /\ h.curr = m.header.curr /\ h.dirty = m.header.dirty /\ h.init = m.header.init
    <2> HIDE DEF k
    <2> QED
      BY <1>1, <1>2, RootReplaced
  <1> HIDE DEF h, k
  <1>6. /\ MemFields(n)
        /\ n.header = h /\ n.pool = m.pool /\ n.map = m.map
        /\ n.modified = m.modified /\ n.touched = m.touched
    BY <1>3, <1>5, HeaderReplaced
  <1>7. Current(n) = Current(m) /\ Working(n) = r
    BY <1>2, <1>5, <1>6 DEF Current, Working, k
  <1> QED
    BY <1>5, <1>6, <1>7

\* The two roots are records of their fields.
LEMMA WorkingFields ==
    ASSUME NEW m, MemFields(m)
    PROVE  /\ RootFields(Working(m)) /\ RootFields(Current(m))
           /\ m.header.curr \in 0 .. 1 /\ 1 - m.header.curr \in 0 .. 1
           /\ HeaderFields(m.header)
  <1>1. /\ HeaderFields(m.header) /\ m.header.curr \in 0 .. 1 /\ 1 - m.header.curr \in 0 .. 1
    BY DEF MemFields
  <1> QED
    BY <1>1 DEF HeaderFields, Working, Current

\* The roots with one field of the working one set.
LEMMA RootWithField ==
    ASSUME NEW r, RootFields(r), NEW x
    PROVE  /\ RootFields([r EXCEPT !.index = x]) /\ RootFields([r EXCEPT !.shadow = x])
           /\ RootFields([r EXCEPT !.used = x]) /\ RootFields([r EXCEPT !.freeList = x])
           /\ RootFields([r EXCEPT !.rootObject = x])
  BY DEF RootFields

-----------------------------------------------------------------------------
(* Memory while a transaction runs.                                         *)

\* The index of a root has room for its entries, and its pages are apart.
Roomy(r) ==
    /\ Root(r)
    /\ IsInjective(r.index)
    /\ r.used \in FirstUserId .. HandlesPerPage * Len(r.index)

\* The root c alone is a state to go on from.
Whole(pages, c) ==
    LET ce == Ent(pages, c.index)
    IN  /\ Roomy(c)
        /\ IsInjective(c.shadow)
        /\ Len(c.shadow) = Len(c.index)
        /\ ToSet(c.index) \cap ToSet(c.shadow) = {}
        /\ Fixed(ce, c.used)
        /\ Linked(ce, c.used, c.freeList)
        /\ \A q \in 0 .. c.used - 1 : ce[q].pos \notin ToSet(c.index) \cup ToSet(c.shadow)
        /\ pages[ce[0].pos].used = ToSet(c.index) \cup ToSet(c.shadow) \cup Spots(ce, c.used)

\* The working root w stands beside the committed one c.
Under(pages, c, w, marks) ==
    LET ce == Ent(pages, c.index)
        we == Ent(pages, w.index)
    IN  /\ Roomy(w)
        /\ c.used <= w.used
        /\ w.shadow = c.index
        /\ \/ w.index = c.shadow
           \/ /\ Len(w.index) > Len(c.index)
              /\ ToSet(w.index) \cap ToSet(c.index) = {}
              /\ we[0].mod
        /\ Beside(ce, we, c.used, w.used, ToSet(c.index), ToSet(w.index),
                  w.freeList, pages[we[0].pos].used, marks)

Good(m) ==
    /\ MemFields(m)
    /\ \A p \in Places : PageType(m.pool[p])
    /\ m.map \subseteq 0 .. PageOf(MaxOid)
    /\ Whole(m.pool, Current(m))
    /\ Under(m.pool, Current(m), Working(m), m.map)

\* The pages that a change of the working state may write, besides the object.
Own(m) == WI(m) \cup (Places \ Bitmap(m)) \cup (IF WE(m)[0].mod THEN {WE(m)[0].pos} ELSE {})

\* Where its index and its identifiers are.
LEMMA RoomyFacts ==
    ASSUME NEW r, Roomy(r)
    PROVE  /\ r.index \in Seq(Places) /\ r.shadow \in Seq(Places)
           /\ ToSet(r.index) \in SUBSET Places /\ ToSet(r.shadow) \in SUBSET Places
           /\ IsInjective(r.index)
           /\ r.used \in Nat /\ r.used <= MaxOid + 1 /\ FirstUserId <= r.used
           /\ \A q \in 0 .. r.used - 1 : q \in Nat /\ PageOf(q) < Len(r.index) /\ q \in Ids
           /\ r.used <= HandlesPerPage * Len(r.index)
  <1>1. /\ r.index \in Seq(Places) /\ r.shadow \in Seq(Places) /\ IsInjective(r.index)
        /\ r.used \in 0 .. MaxOid + 1
        /\ r.used \in FirstUserId .. HandlesPerPage * Len(r.index)
    BY DEF Roomy, Root
  <1>2. r.used \in Nat /\ r.used <= MaxOid + 1 /\ FirstUserId <= r.used
        /\ r.used <= HandlesPerPage * Len(r.index)
    BY <1>1, Sizes
  <1>3. \A q \in 0 .. r.used - 1 : q \in Nat /\ PageOf(q) < Len(r.index) /\ q \in Ids
    <2> TAKE q \in 0 .. r.used - 1
    <2>1. q \in Nat /\ q < r.used
      BY <1>2
    <2>2. q \in Ids
      BY <2>1, <1>2, Sizes DEF Ids
    <2>3. Len(r.index) \in Nat
      BY <1>1
    <2>4. HandlesPerPage * Len(r.index) \in Nat
      BY <2>3, Sizes
    <2>5. q < HandlesPerPage * Len(r.index)
      BY <2>1, <2>4, <1>2
    <2> QED
      BY <2>1, <2>2, <2>3, <2>5, PageInIndex
  <1> QED
    BY <1>1, <1>2, <1>3, ToSetPlaces

\* What Whole says, part by part.
LEMMA WholeFacts ==
    ASSUME NEW pages, NEW c, Whole(pages, c)
    PROVE  /\ Roomy(c)
           /\ IsInjective(c.shadow) /\ Len(c.shadow) = Len(c.index)
           /\ ToSet(c.index) \cap ToSet(c.shadow) = {}
           /\ Fixed(Ent(pages, c.index), c.used)
           /\ Linked(Ent(pages, c.index), c.used, c.freeList)
           /\ \A q \in 0 .. c.used - 1 :
                 Ent(pages, c.index)[q].pos \notin ToSet(c.index) \cup ToSet(c.shadow)
           /\ pages[Ent(pages, c.index)[0].pos].used
                 = ToSet(c.index) \cup ToSet(c.shadow) \cup Spots(Ent(pages, c.index), c.used)
  BY DEF Whole

\* What Good says of the two roots, part by part.
LEMMA GoodFacts ==
    ASSUME NEW m, Good(m)
    PROVE  /\ Laid(m)
           /\ Roomy(Current(m)) /\ Roomy(Working(m))
           /\ Current(m).used \in Nat /\ Working(m).used \in Nat
           /\ Current(m).used <= Working(m).used /\ FirstUserId <= Current(m).used
           /\ Working(m).used <= MaxOid + 1
           /\ CI(m) \in SUBSET Places /\ WI(m) \in SUBSET Places
           /\ Fixed(CE(m), Current(m).used)
           /\ Linked(CE(m), Current(m).used, Current(m).freeList)
           /\ Beside(CE(m), WE(m), Current(m).used, Working(m).used, CI(m), WI(m),
                     Working(m).freeList, Bitmap(m), m.map)
           /\ CI(m) \cap WI(m) = {}
           /\ Working(m).shadow = Current(m).index
           /\ \/ Working(m).index = Current(m).shadow
              \/ Len(Working(m).index) > Len(Current(m).index) /\ WE(m)[0].mod
  <1> DEFINE c == Current(m)
             w == Working(m)
  <1>1. Whole(m.pool, c) /\ Under(m.pool, c, w, m.map) /\ MemFields(m)
        /\ \A p \in Places : PageType(m.pool[p])
    BY DEF Good
  <1>2. /\ Roomy(c) /\ IsInjective(c.shadow) /\ ToSet(c.index) \cap ToSet(c.shadow) = {}
        /\ Fixed(CE(m), c.used) /\ Linked(CE(m), c.used, c.freeList)
    BY <1>1, WholeFacts DEF CE
  <1>3. /\ Roomy(w) /\ c.used <= w.used /\ w.shadow = c.index
        /\ \/ w.index = c.shadow
           \/ Len(w.index) > Len(c.index) /\ ToSet(w.index) \cap ToSet(c.index) = {} /\ WE(m)[0].mod
        /\ Beside(CE(m), WE(m), c.used, w.used, CI(m), WI(m),
                  w.freeList, m.pool[WE(m)[0].pos].used, m.map)
    BY <1>1 DEF Under, CE, WE, CI, WI
  <1>4. CI(m) \cap WI(m) = {}
    BY <1>2, <1>3 DEF CI, WI
  <1>5. Laid(m)
    BY <1>1, <1>2, <1>3, <1>4, RoomyFacts DEF Laid, CI, WI
  <1>6. m.pool[WE(m)[0].pos].used = Bitmap(m)
    BY BitmapLooked
  <1>7. CI(m) \in SUBSET Places /\ WI(m) \in SUBSET Places
    BY <1>2, <1>3, RoomyFacts DEF CI, WI
  <1>8. /\ c.used \in Nat /\ w.used \in Nat /\ FirstUserId <= c.used /\ w.used <= MaxOid + 1
    BY <1>2, <1>3, RoomyFacts
  <1> QED
    BY <1>2, <1>3, <1>4, <1>5, <1>6, <1>7, <1>8

\* Where entries lead to.
LEMMA EntryPlaces ==
    ASSUME NEW e, NEW n \in Nat, Formed(e, n), FirstUserId <= n
    PROVE  /\ \A q \in 0 .. n - 1 : e[q].pos # NoPlace => e[q].pos \in Places
           /\ \A q \in 0 .. n - 1 : e[q].pos # NoPlace => e[q].pos \in Spots(e, n)
           /\ Spots(e, n) \in SUBSET Places
           /\ e[0].pos \in Places /\ e[0].pos \in Spots(e, n) /\ 0 \in 0 .. n - 1
  <1>1. 0 \in 0 .. n - 1
    BY Sizes
  <1>2. \A q \in 0 .. n - 1 : e[q].pos # NoPlace => e[q].pos \in Places
    BY DEF Formed, Entry
  <1>3. \A q \in 0 .. n - 1 : e[q].pos # NoPlace => e[q].pos \in Spots(e, n)
    BY DEF Spots
  <1>4. Spots(e, n) \subseteq Places
    BY <1>2 DEF Spots
  <1>5. e[0].pos # NoPlace
    BY DEF Formed
  <1> QED
    BY <1>1, <1>2, <1>3, <1>4, <1>5

\* The places that are in use are those of the bitmap.
LEMMA GoodPlaces ==
    ASSUME NEW m, Good(m)
    PROVE  /\ Bitmap(m) \in SUBSET Places
           /\ Bitmap(m) = CI(m) \cup WI(m) \cup Spots(CE(m), Current(m).used)
                             \cup Spots(WE(m), Working(m).used)
           /\ Formed(CE(m), Current(m).used) /\ Formed(WE(m), Working(m).used)
           /\ WE(m)[0].pos \in Places /\ WE(m)[0].pos \in Bitmap(m)
           /\ WE(m)[0].pos \notin CI(m) \cup WI(m)
           /\ CE(m)[0].pos \in Places /\ CE(m)[0].pos \in Bitmap(m)
           /\ CE(m)[0].pos \notin CI(m) \cup WI(m)
           /\ \A q \in 0 .. Working(m).used - 1 :
                 WE(m)[q].pos \notin CI(m) \cup WI(m)
                 /\ (WE(m)[q].pos # NoPlace => WE(m)[q].pos \in Bitmap(m))
           /\ \A q \in 0 .. Current(m).used - 1 :
                 CE(m)[q].pos \notin CI(m) \cup WI(m)
                 /\ (CE(m)[q].pos # NoPlace => CE(m)[q].pos \in Bitmap(m))
           /\ 0 \in 0 .. Working(m).used - 1 /\ 0 \in 0 .. Current(m).used - 1
  <1> DEFINE c == Current(m)
             w == Working(m)
  <1>1. Beside(CE(m), WE(m), c.used, w.used, CI(m), WI(m), w.freeList, Bitmap(m), m.map)
        /\ Fixed(CE(m), c.used)
    BY GoodFacts
  <1>2. /\ c.used \in Nat /\ w.used \in Nat /\ FirstUserId <= c.used /\ FirstUserId <= w.used
    BY GoodFacts, Sizes
  <1>3. Formed(CE(m), c.used) /\ Formed(WE(m), w.used)
    BY <1>1 DEF Beside, Fixed
  <1>4. /\ \A q \in 0 .. w.used - 1 : WE(m)[q].pos \notin CI(m) \cup WI(m)
        /\ \A q \in 0 .. c.used - 1 : CE(m)[q].pos \notin CI(m) \cup WI(m)
    BY <1>1 DEF Beside, Apart
  <1>5. Bitmap(m) = CI(m) \cup WI(m) \cup Spots(CE(m), c.used) \cup Spots(WE(m), w.used)
    BY <1>1 DEF Beside
  <1>6. /\ \A q \in 0 .. w.used - 1 : WE(m)[q].pos # NoPlace => WE(m)[q].pos \in Spots(WE(m), w.used)
        /\ Spots(WE(m), w.used) \in SUBSET Places
        /\ WE(m)[0].pos \in Places /\ WE(m)[0].pos \in Spots(WE(m), w.used) /\ 0 \in 0 .. w.used - 1
    BY <1>2, <1>3, EntryPlaces
  <1>7. /\ \A q \in 0 .. c.used - 1 : CE(m)[q].pos # NoPlace => CE(m)[q].pos \in Spots(CE(m), c.used)
        /\ Spots(CE(m), c.used) \in SUBSET Places
        /\ CE(m)[0].pos \in Places /\ CE(m)[0].pos \in Spots(CE(m), c.used) /\ 0 \in 0 .. c.used - 1
    BY <1>2, <1>3, EntryPlaces
  <1>8. CI(m) \in SUBSET Places /\ WI(m) \in SUBSET Places
    BY GoodFacts
  <1> HIDE DEF c, w
  <1>9. Bitmap(m) \in SUBSET Places
    BY <1>5, <1>6, <1>7, <1>8
  <1> QED
    BY <1>3, <1>4, <1>5, <1>6, <1>7, <1>9 DEF c, w

\* What may be written is not what the committed state is read from, nor
\* what another object is at.
LEMMA OwnApart ==
    ASSUME NEW m, Good(m)
    PROVE  /\ Own(m) \in SUBSET Places
           /\ WI(m) \subseteq Own(m)
           /\ \A p \in CI(m) : p \notin Own(m)
           /\ \A q \in 0 .. Current(m).used - 1 : CE(m)[q].pos \notin Own(m)
           /\ \A q \in 1 .. Working(m).used - 1 : WE(m)[q].pos \notin Own(m)
  <1> DEFINE c == Current(m)
             w == Working(m)
             b == WE(m)[0].pos
  <1>1. /\ Beside(CE(m), WE(m), c.used, w.used, CI(m), WI(m), w.freeList, Bitmap(m), m.map)
        /\ CI(m) \cap WI(m) = {} /\ WI(m) \in SUBSET Places /\ CI(m) \in SUBSET Places
        /\ c.used \in Nat /\ w.used \in Nat
    BY GoodFacts
  <1>2. /\ Formed(WE(m), w.used) /\ Apart(CE(m), WE(m), c.used, w.used, CI(m), WI(m))
        /\ Bitmap(m) = CI(m) \cup WI(m) \cup Spots(CE(m), c.used) \cup Spots(WE(m), w.used)
    BY <1>1 DEF Beside
  <1>3. /\ b \in Places /\ b \notin CI(m) \cup WI(m)
        /\ \A q \in 0 .. w.used - 1 :
              WE(m)[q].pos \notin CI(m) \cup WI(m)
              /\ (WE(m)[q].pos # NoPlace => WE(m)[q].pos \in Bitmap(m))
        /\ \A q \in 0 .. c.used - 1 :
              CE(m)[q].pos \notin CI(m) \cup WI(m)
              /\ (CE(m)[q].pos # NoPlace => CE(m)[q].pos \in Bitmap(m))
        /\ 0 \in 0 .. w.used - 1
    BY GoodPlaces
  <1>4. Own(m) \in SUBSET Places /\ WI(m) \subseteq Own(m)
    BY <1>1, <1>3 DEF Own
  <1>5. \A p \in CI(m) : p \notin Own(m)
    BY <1>1, <1>2, <1>3 DEF Own
  <1>6. \A q \in 0 .. c.used - 1 : CE(m)[q].pos \notin Own(m)
    <2> TAKE q \in 0 .. c.used - 1
    <2>1. WE(m)[0].mod => b # CE(m)[q].pos
      BY <1>2, <1>3 DEF Apart
    <2>2. CE(m)[q].pos \notin Places \ Bitmap(m)
      BY <1>3, NoPlaceIsNone
    <2> QED
      BY <2>1, <2>2, <1>3 DEF Own
  <1>7. \A q \in 1 .. w.used - 1 : WE(m)[q].pos \notin Own(m)
    <2> TAKE q \in 1 .. w.used - 1
    <2>0. q \in 0 .. w.used - 1 /\ q # 0
      BY <1>1
    <2>1. WE(m)[q].pos # b
      <3>1. b # NoPlace
        BY <1>3, NoPlaceIsNone
      <3> QED
        BY <2>0, <3>1, <1>2, <1>3 DEF Formed
    <2>2. WE(m)[q].pos \notin Places \ Bitmap(m)
      BY <2>0, <1>3, NoPlaceIsNone
    <2> QED
      BY <2>0, <2>1, <2>2, <1>3 DEF Own
  <1> QED
    BY <1>4, <1>5, <1>6, <1>7

\* The committed state is there as before when its pages are.
LEMMA WholeKept ==
    ASSUME NEW pages, NEW pages2, NEW c, Whole(pages, c),
           \A p \in ToSet(c.index) : pages2[p] = pages[p],
           pages2[Ent(pages, c.index)[0].pos] = pages[Ent(pages, c.index)[0].pos]
    PROVE  Whole(pages2, c)
  <1>1. c.index \in Seq(Places)
    BY WholeFacts, RoomyFacts
  <1>2. Ent(pages2, c.index) = Ent(pages, c.index)
    BY <1>1, EntSame
  <1> QED
    BY <1>2 DEF Whole

\* Memory after a change of the working state.
LEMMA GoodMade ==
    ASSUME NEW m, Good(m), NEW n, Laid(n), Current(n) = Current(m), CE(n) = CE(m),
           n.pool[CE(m)[0].pos] = m.pool[CE(m)[0].pos],
           n.map \subseteq 0 .. PageOf(MaxOid),
           Roomy(Working(n)), Current(m).used <= Working(n).used,
           Working(n).shadow = Current(m).index,
           \/ Working(n).index = Working(m).index
              /\ (WE(m)[0].mod => WE(n)[0].mod)
           \/ Len(Working(n).index) > Len(Current(m).index) /\ WE(n)[0].mod,
           Beside(CE(m), WE(n), Current(m).used, Working(n).used, CI(m), WI(n),
                  Working(n).freeList, Bitmap(n), n.map)
    PROVE  Good(n)
  <1> DEFINE c == Current(m)
             w == Working(n)
  <1>1. /\ MemFields(n) /\ \A p \in Places : PageType(n.pool[p])
        /\ ToSet(c.index) \cap ToSet(w.index) = {}
    BY DEF Laid
  <1>2. Whole(n.pool, c)
    <2>1. Whole(m.pool, c)
      BY DEF Good
    <2>2. Ent(n.pool, c.index) = Ent(m.pool, c.index)
      BY DEF CE
    <2>3. n.pool[Ent(m.pool, c.index)[0].pos] = m.pool[Ent(m.pool, c.index)[0].pos]
      BY DEF CE
    <2> QED
      BY <2>1, <2>2, <2>3 DEF Whole
  <1>3. \/ w.index = c.shadow
        \/ /\ Len(w.index) > Len(c.index)
           /\ ToSet(w.index) \cap ToSet(c.index) = {}
           /\ WE(n)[0].mod
    <2>1. \/ Working(m).index = c.shadow
          \/ Len(Working(m).index) > Len(c.index) /\ WE(m)[0].mod
      BY GoodFacts
    <2> QED
      BY <2>1, <1>1
  <1>4. Under(n.pool, c, w, n.map)
    <2>1. n.pool[WE(n)[0].pos].used = Bitmap(n)
      BY BitmapLooked
    <2>2. WE(n) = Ent(n.pool, w.index) /\ CE(m) = Ent(n.pool, c.index)
      BY DEF CE, WE
    <2>3. CI(m) = ToSet(c.index) /\ WI(n) = ToSet(w.index)
      BY DEF CI, WI
    <2> HIDE DEF c, w
    <2>4. Roomy(w) /\ c.used <= w.used /\ w.shadow = c.index
      BY DEF c, w
    <2>5. Beside(Ent(n.pool, c.index), Ent(n.pool, w.index), c.used, w.used, ToSet(c.index),
                 ToSet(w.index), w.freeList, n.pool[Ent(n.pool, w.index)[0].pos].used, n.map)
      BY <2>1, <2>2, <2>3 DEF c, w
    <2>6. \/ w.index = c.shadow
          \/ /\ Len(w.index) > Len(c.index)
             /\ ToSet(w.index) \cap ToSet(c.index) = {}
             /\ Ent(n.pool, w.index)[0].mod
      BY <1>3, <2>2
    <2> QED
      BY <2>4, <2>5, <2>6 DEF Under
  <1> QED
    BY <1>1, <1>2, <1>4 DEF Good

\* Memory with the same pages and roots, and more marks.
LEMMA GoodSame ==
    ASSUME NEW m, Good(m), NEW n, MemFields(n), n.pool = m.pool,
           Current(n) = Current(m), Working(n) = Working(m),
           m.map \subseteq n.map, n.map \subseteq 0 .. PageOf(MaxOid)
    PROVE  /\ Good(n) /\ CE(n) = CE(m) /\ WE(n) = WE(m) /\ Bitmap(n) = Bitmap(m)
           /\ Own(n) = Own(m) /\ CI(n) = CI(m) /\ WI(n) = WI(m)
  <1>1. /\ CE(n) = CE(m) /\ WE(n) = WE(m) /\ CI(n) = CI(m) /\ WI(n) = WI(m)
    BY DEF CE, WE, CI, WI
  <1>2. Bitmap(n) = Bitmap(m)
    BY <1>1, BitmapLooked
  <1>3. Own(n) = Own(m)
    BY <1>1, <1>2 DEF Own
  <1>4. /\ Roomy(Working(m)) /\ Current(m).used <= Working(m).used
        /\ Working(m).shadow = Current(m).index /\ Laid(m) /\ FirstUserId <= Current(m).used
        /\ Current(m).used \in Nat /\ Working(m).used \in Nat
        /\ Beside(CE(m), WE(m), Current(m).used, Working(m).used, CI(m), WI(m),
                  Working(m).freeList, Bitmap(m), m.map)
    BY GoodFacts
  <1>5. Laid(n)
    BY <1>4 DEF Laid
  <1>6. Beside(CE(m), WE(n), Current(m).used, Working(n).used, CI(m), WI(n),
               Working(n).freeList, Bitmap(n), n.map)
    <2> DEFINE cn == Current(m).used
               wn == Working(m).used
               fr == Working(m).freeList
    <2>1. /\ Beside(CE(m), WE(m), cn, wn, CI(m), WI(m), fr, Bitmap(m), m.map)
          /\ cn \in Nat /\ wn \in Nat /\ cn <= wn /\ FirstUserId <= cn
      BY <1>4
    <2> HIDE DEF cn, wn, fr
    <2>2. Beside(CE(m), WE(m), cn, wn, CI(m), WI(m), fr, Bitmap(m), n.map)
      BY <2>1, BesideSame
    <2> QED
      BY <2>2, <1>1, <1>2 DEF cn, wn, fr
  <1>7. Good(n)
    BY <1>1, <1>4, <1>5, <1>6, GoodMade
  <1> QED
    BY <1>1, <1>2, <1>3, <1>7

\* The bitmap of the working state becomes its own: what a copy of it gives.
Owned(m, n) ==
    /\ Good(n)
    /\ WE(n)[0].mod
    /\ \A q \in 1 .. Working(m).used - 1 : WE(n)[q] = WE(m)[q]
    /\ Current(n) = Current(m) /\ Working(n) = Working(m) /\ CE(n) = CE(m)
    /\ n.header.curr = m.header.curr /\ n.header.init = m.header.init
    /\ m.header.dirty => n.header.dirty
    /\ m.modified => n.modified
    /\ ~WE(m)[0].mod => n.header.dirty = TRUE /\ n.modified = TRUE
    /\ WE(m)[0].mod => n = m
    /\ n.map = m.map \cup (IF WE(m)[0].mod THEN {} ELSE {PageOf(BitmapId)})
    /\ Bitmap(m) \subseteq Bitmap(n)
    /\ Bitmap(n) \subseteq Bitmap(m) \cup {Place(Bitmap(m))}
    /\ Frame(m, n, Own(m))
    /\ Own(n) \subseteq Own(m)

\* One entry of the working index is set.
LEMMA EntrySet ==
    ASSUME NEW m, Laid(m), NEW o \in Ids, PageOf(o) < Len(Working(m).index),
           NEW e \in Entry, NEW n, n = SetPos(m, o, e)
    PROVE  /\ Laid(n) /\ SameHeader(m, n)
           /\ Current(n) = Current(m) /\ Working(n) = Working(m)
           /\ CE(n) = CE(m)
           /\ WE(n)[o] = e
           /\ \A q \in Ids : q # o => WE(n)[q] = WE(m)[q]
           /\ Frame(m, n, WI(m))
  <1> DEFINE es == [q \in {o} |-> e]
  <1>1. DOMAIN es = {o} /\ es[o] = e
    OBVIOUS
  <1>2. n = SetEntries(m, es)
    BY DEF SetPos
  <1> HIDE DEF es
  <1>3. DOMAIN es \in SUBSET Nat
    BY <1>1, Sizes DEF Ids
  <1>4. \A q \in DOMAIN es : PageOf(q) < Len(Working(m).index) /\ es[q] \in Entry
    BY <1>1
  <1>5. /\ Laid(n) /\ SameHeader(m, n)
        /\ Current(n) = Current(m) /\ Working(n) = Working(m)
        /\ CE(n) = CE(m)
        /\ \A q \in Ids : WE(n)[q] = IF q \in DOMAIN es THEN es[q] ELSE WE(m)[q]
        /\ Frame(m, n, WI(m))
    BY <1>2, <1>3, <1>4, EntriesSet
  <1> QED
    BY <1>1, <1>5

\* Every identifier has a page that can be marked.
LEMMA FirstPageMarks ==
    /\ PageOf(BitmapId) \in 0 .. PageOf(MaxOid)
    /\ \A o \in Ids : PageOf(o) \in 0 .. PageOf(MaxOid)
  <1>1. \A o \in Ids : PageOf(o) \in 0 .. PageOf(MaxOid)
    <2> TAKE o \in Ids
    <2>1. o \in Nat /\ MaxOid \in Nat /\ o <= MaxOid
      BY Sizes DEF Ids
    <2>2. PageOf(o) <= PageOf(MaxOid) /\ PageOf(o) \in Nat /\ PageOf(MaxOid) \in Nat
      BY <2>1, PagesInOrder, PageAndSlot
    <2> QED
      BY <2>2
  <1> QED
    BY <1>1, ZeroIsId

\* CloneBitmap gives the working state a bitmap of its own, and keeps the rest.
LEMMA Cloning ==
    ASSUME NEW m, Good(m), Bitmap(m) # Places
    PROVE  Owned(m, CloneBitmap(m))
  <1> DEFINE n == CloneBitmap(m)
  <1>1. CASE WE(m)[0].mod
    <2>1. n = m
      BY <1>1, BitmapLooked DEF CloneBitmap
    <2>2. Frame(m, m, Own(m))
      BY DEF Frame
    <2> QED
      BY <2>1, <2>2, <1>1 DEF Owned
  <1>2. CASE ~WE(m)[0].mod
    <2> DEFINE c == Current(m)
               w == Working(m)
               used == Bitmap(m)
               p == Place(used)
               s == SetDirty(m)
               d == Mark(s, BitmapId)
               page == BitmapPage(used \cup {p})
               e == Write(d, p, page)
    <2>1. n = SetPos(e, BitmapId, At(p, TRUE))
      BY <1>2, BitmapLooked DEF CloneBitmap
    <2>2. used \in SUBSET Places /\ p \in Places /\ p \notin used
      BY GoodPlaces, PlaceIsFree
    <2>3. /\ Laid(m) /\ MemFields(m) /\ m.map \subseteq 0 .. PageOf(MaxOid)
          /\ Roomy(w) /\ c.used \in Nat /\ w.used \in Nat /\ c.used <= w.used
          /\ FirstUserId <= c.used /\ w.used <= MaxOid + 1
          /\ CI(m) \in SUBSET Places /\ WI(m) \in SUBSET Places /\ Fixed(CE(m), c.used)
          /\ Beside(CE(m), WE(m), c.used, w.used, CI(m), WI(m), w.freeList, used, m.map)
          /\ w.shadow = c.index
      BY GoodFacts DEF Good
    <2>4. /\ used = CI(m) \cup WI(m) \cup Spots(CE(m), c.used) \cup Spots(WE(m), w.used)
          /\ CE(m)[0].pos \in Places /\ CE(m)[0].pos \in used
          /\ CE(m)[0].pos \notin CI(m) \cup WI(m)
          /\ 0 \in 0 .. w.used - 1
      BY GoodPlaces
    <2>5. /\ MemFields(s)
          /\ s.pool = m.pool /\ s.map = m.map /\ s.touched = m.touched /\ s.modified = TRUE
          /\ s.header.curr = m.header.curr /\ s.header.init = m.header.init
          /\ s.header.root = m.header.root /\ s.header.dirty = TRUE
          /\ Current(s) = c /\ Working(s) = w
      BY <2>3, Dirtied
    <2>6. /\ MemFields(d)
          /\ d.header = s.header /\ d.pool = m.pool /\ d.touched = m.touched
          /\ d.modified = TRUE /\ d.map = m.map \cup {PageOf(BitmapId)}
          /\ Current(d) = c /\ Working(d) = w
      <3> HIDE DEF s, c, w
      <3> QED
        BY <2>5, MarkedPage
    <2>7. d.map \subseteq 0 .. PageOf(MaxOid)
      BY <2>3, <2>6, FirstPageMarks
    <2>8. /\ Good(d) /\ CE(d) = CE(m) /\ WE(d) = WE(m) /\ CI(d) = CI(m) /\ WI(d) = WI(m)
      <3> HIDE DEF d
      <3> QED
        BY <2>6, <2>7, GoodSame
    <2>9. PageType(page) /\ page.used = used \cup {p}
      BY <2>2, BitmapPageTyped
    <2>10. p \notin CI(d) \cup WI(d)
      BY <2>2, <2>4, <2>8
    <2>11. /\ Laid(e) /\ SameHeader(d, e)
           /\ Current(e) = c /\ Working(e) = w
           /\ CE(e) = CE(m) /\ WE(e) = WE(m)
           /\ e.pool[p] = page
           /\ Frame(d, e, {p})
      <3>1. Laid(d)
        BY <2>8, GoodFacts
      <3> HIDE DEF d, p, page, c, w
      <3> QED
        BY <3>1, <2>2, <2>6, <2>8, <2>9, <2>10, PageWritten
    <2>12. PageOf(BitmapId) < Len(w.index)
      BY <2>3, <2>4, RoomyFacts DEF BitmapId
    <2>13. /\ Laid(n) /\ SameHeader(e, n)
           /\ Current(n) = c /\ Working(n) = w
           /\ CE(n) = CE(m)
           /\ WE(n)[0] = At(p, TRUE)
           /\ \A q \in Ids : q # 0 => WE(n)[q] = WE(m)[q]
           /\ Frame(e, n, WI(e))
      <3>1. At(p, TRUE) \in Entry
        BY <2>2, EntryFields
      <3> DEFINE a == At(p, TRUE)
      <3> HIDE DEF e, n, a, c, w
      <3>2. n = SetPos(e, BitmapId, a) /\ a \in Entry
        BY <2>1, <3>1 DEF a
      <3>3. /\ Laid(n) /\ SameHeader(e, n)
            /\ Current(n) = Current(e) /\ Working(n) = Working(e)
            /\ CE(n) = CE(e)
            /\ WE(n)[BitmapId] = a
            /\ \A q \in Ids : q # BitmapId => WE(n)[q] = WE(e)[q]
            /\ Frame(e, n, WI(e))
        BY <2>11, <2>12, <3>2, ZeroIsId, EntrySet
      <3> QED
        BY <2>11, <3>3, ZeroIsId DEF a
    <2>14. WI(e) = WI(m) /\ WI(n) = WI(m)
      BY <2>11, <2>13 DEF WI
    <2>15. n.pool[p] = page
      BY <2>2, <2>10, <2>8, <2>11, <2>13, <2>14 DEF Frame
    <2>16. WE(n)[0].pos = p /\ WE(n)[0].mod
      <3>1. At(p, TRUE).pos = p /\ At(p, TRUE).mod = TRUE
        BY <2>2, EntryFields
      <3> HIDE DEF n, p
      <3> QED
        BY <2>13, <3>1
    <2>17. Bitmap(n) = used \cup {p}
      <3> HIDE DEF n, page
      <3>1. Bitmap(n) = n.pool[WE(n)[0].pos].used
        BY BitmapLooked
      <3> QED
        BY <3>1, <2>9, <2>15, <2>16
    <2>18. n.map = m.map \cup {PageOf(BitmapId)} /\ n.header = s.header /\ n.modified = TRUE
      <3> HIDE DEF n, s, d, e
      <3> QED
        BY <2>6, <2>11, <2>13 DEF SameHeader
    <2>19. Frame(m, n, Own(m))
      <3>1. Frame(m, e, {p})
        BY <2>6, <2>11 DEF Frame
      <3>2. Frame(m, n, {p} \cup WI(m))
        <4> HIDE DEF n, e, p
        <4> QED
          BY <3>1, <2>13, <2>14, FrameTwice
      <3>3. {p} \cup WI(m) \subseteq Own(m)
        BY <2>2 DEF Own
      <3> HIDE DEF n, p
      <3> QED
        BY <3>2, <3>3, FrameMore
    <2>20. Own(n) \subseteq Own(m)
      BY <2>2, <2>14, <2>16, <2>17 DEF Own
    <2>21. \A q \in 0 .. w.used - 1 : q # 0 => WE(n)[q] = WE(m)[q]
      BY <2>3, <2>13, RoomyFacts
    <2>22. Beside(CE(m), WE(n), c.used, w.used, CI(m), WI(n), w.freeList, Bitmap(n), n.map)
      <3>1. WE(m)[0].free = FALSE \/ ~WE(m)[0].free
        <4>1. Formed(WE(m), w.used)
          BY GoodPlaces
        <4> QED
          BY <4>1, <2>4 DEF Formed
      <3>2. Left(WE(m), w.used, {0}) = {}
        BY <1>2 DEF Left
      <3>3. Bitmap(n) = (used \cup {p}) \ Left(WE(m), w.used, {0})
        BY <3>2, <2>17
      <3>4. PageOf(0) \in n.map /\ m.map \subseteq n.map
        BY <2>18 DEF BitmapId
      <3>5. ~WE(m)[0].free
        BY <3>1
      <3> DEFINE cn == c.used
                 wn == w.used
                 fr == w.freeList
                 ce == CE(m)
                 we == WE(m)
                 we2 == WE(n)
                 ci == CI(m)
                 wi == WI(m)
                 used2 == Bitmap(n)
                 ms == m.map
                 ms2 == n.map
      <3>6. /\ cn \in Nat /\ wn \in Nat /\ ci \in SUBSET Places /\ wi \in SUBSET Places
            /\ used \in SUBSET Places /\ cn <= wn /\ FirstUserId <= cn /\ Fixed(ce, cn)
            /\ Beside(ce, we, cn, wn, ci, wi, fr, used, ms)
            /\ 0 \in 0 .. wn - 1 /\ ~we[0].free /\ p \in Places /\ p \notin used
            /\ we2[0] = At(p, TRUE) /\ ms \subseteq ms2 /\ PageOf(0) \in ms2
            /\ used2 = (used \cup {p}) \ Left(we, wn, {0})
        BY <2>2, <2>3, <2>4, <2>13, <3>3, <3>4, <3>5
      <3>7. \A q \in 0 .. wn - 1 : q # 0 => we2[q] = we[q]
        BY <2>21
      <3> HIDE DEF n, p, used, c, w, cn, wn, fr, ce, we, we2, ci, wi, used2, ms, ms2
      <3>8. Beside(ce, we2, cn, wn, ci, wi, fr, used2, ms2)
        BY ONLY <3>6, <3>7, Occupy
      <3>9. Beside(CE(m), WE(n), c.used, w.used, CI(m), WI(m), w.freeList, Bitmap(n), n.map)
        BY <3>8 DEF cn, wn, fr, ce, we, we2, ci, wi, used2, ms, ms2
      <3> QED
        BY <3>9, <2>14
    <2>23. n.pool[CE(m)[0].pos] = m.pool[CE(m)[0].pos]
      <3>1. CE(m)[0].pos # p /\ CE(m)[0].pos \notin WI(m)
        BY <2>2, <2>4
      <3> HIDE DEF n, e, d, p
      <3> QED
        BY <3>1, <2>4, <2>6, <2>11, <2>13, <2>14 DEF Frame
    <2>24. Good(n)
      <3>1. n.map \subseteq 0 .. PageOf(MaxOid)
        BY <2>7, <2>18, <2>6
      <3> HIDE DEF n
      <3> QED
        BY <3>1, <2>3, <2>13, <2>14, <2>16, <2>22, <2>23, GoodMade DEF WI
    <2>25. \A q \in 1 .. w.used - 1 : WE(n)[q] = WE(m)[q]
      BY <2>3, <2>21
    <2>26. /\ n.header.curr = m.header.curr /\ n.header.init = m.header.init
           /\ n.header.dirty = TRUE
      <3> HIDE DEF n, s
      <3> QED
        BY <2>5, <2>18
    <2>27. n.map = m.map \cup (IF WE(m)[0].mod THEN {} ELSE {PageOf(BitmapId)})
      BY <1>2, <2>18
    <2>28. Bitmap(m) \subseteq Bitmap(n) /\ Bitmap(n) \subseteq Bitmap(m) \cup {Place(Bitmap(m))}
      BY <2>17
    <2>29. m.header.dirty => n.header.dirty
      <3> HIDE DEF n
      <3> QED
        BY <2>26
    <2>30. (m.modified => n.modified) /\ (~WE(m)[0].mod => n.header.dirty = TRUE /\ n.modified = TRUE)
      <3> HIDE DEF n
      <3> QED
        BY <2>18, <2>26
    <2>31. WE(m)[0].mod => n = m
      BY <1>2
    <2> QED
      <3> HIDE DEF n, s, p
      <3>1. Owned(m, n)
        BY <2>13, <2>16, <2>19, <2>20, <2>24, <2>25, <2>26, <2>27, <2>28, <2>29, <2>30, <2>31
        DEF Owned
      <3> QED
        BY <3>1 DEF n
  <1> QED
    BY <1>1, <1>2

-----------------------------------------------------------------------------
(* A version of an object is stored.                                        *)

\* An identifier gets a place of its own.
LEMMA GoodOccupy ==
    ASSUME NEW m, Good(m), NEW n, Laid(n), Current(n) = Current(m), Working(n) = Working(m),
           CE(n) = CE(m), n.pool[CE(m)[0].pos] = m.pool[CE(m)[0].pos],
           NEW o \in 0 .. Working(m).used - 1, o >= FirstUserId, WE(m)[0].mod, ~WE(m)[o].free,
           NEW p \in Places, p \notin Bitmap(m),
           WE(n)[o] = At(p, TRUE), \A q \in Ids : q # o => WE(n)[q] = WE(m)[q],
           m.map \subseteq n.map, n.map \subseteq 0 .. PageOf(MaxOid),
           PageOf(o) \in n.map \/ o >= Current(m).used,
           Bitmap(n) = (Bitmap(m) \cup {p}) \ Left(WE(m), Working(m).used, {o})
    PROVE  Good(n) /\ WE(n)[0].mod
  <1> DEFINE cn == Current(m).used
             wn == Working(m).used
             fr == Working(m).freeList
             ce == CE(m)
             we == WE(m)
             we2 == WE(n)
             ci == CI(m)
             wi == WI(m)
             used == Bitmap(m)
             used2 == Bitmap(n)
             ms == m.map
             ms2 == n.map
  <1>1. /\ cn \in Nat /\ wn \in Nat /\ ci \in SUBSET Places /\ wi \in SUBSET Places
        /\ cn <= wn /\ FirstUserId <= cn /\ Fixed(ce, cn)
        /\ Beside(ce, we, cn, wn, ci, wi, fr, used, ms)
        /\ Roomy(Working(m)) /\ Working(m).shadow = Current(m).index
    BY GoodFacts
  <1>2. used \in SUBSET Places /\ we[0].mod
    BY GoodPlaces
  <1>3. \A q \in 0 .. wn - 1 : q # o => we2[q] = we[q]
    BY <1>1, RoomyFacts
  <1>4. we2[0].mod
    <2>1. 0 \in Ids /\ o # 0
      BY ZeroIsId, Sizes
    <2> QED
      BY <2>1
  <1>5. WI(n) = wi
    BY DEF WI
  <1>6. Beside(ce, we2, cn, wn, ci, wi, fr, used2, ms2)
    <2>1. /\ o \in 0 .. wn - 1 /\ o >= FirstUserId /\ ~we[o].free /\ p \notin used
          /\ we2[o] = At(p, TRUE) /\ ms \subseteq ms2 /\ (PageOf(o) \in ms2 \/ o >= cn)
          /\ used2 = (used \cup {p}) \ Left(we, wn, {o})
      OBVIOUS
    <2> HIDE DEF cn, wn, fr, ce, we, we2, ci, wi, used, used2, ms, ms2
    <2> QED
      BY ONLY <1>1, <1>2, <1>3, <2>1, p \in Places, Occupy
  <1>7. Beside(CE(m), WE(n), Current(m).used, Working(n).used, CI(m), WI(n),
               Working(n).freeList, Bitmap(n), n.map)
    BY <1>5, <1>6
  <1> HIDE DEF cn, wn, fr, ce, we, we2, ci, wi, used, used2, ms, ms2
  <1> QED
    BY <1>1, <1>4, <1>7, GoodMade DEF we2, cn, wn

\* Memory when o is stored elsewhere.
Moved(d, o, b) ==
    LET p == Place(Bitmap(d))
        a == SetBitmap(d, Bitmap(d) \cup {p})
        f == IF WE(d)[o].mod THEN SetBitmap(a, Bitmap(a) \ {WE(d)[o].pos}) ELSE a
    IN  Write(SetPos(f, o, At(p, TRUE)), p, ObjectPage(b))

\* An object is put at a place of its own, and its old one is given up.
LEMMA Moving ==
    ASSUME NEW d, Good(d), WE(d)[0].mod, Bitmap(d) # Places,
           NEW o \in 0 .. Working(d).used - 1, o >= FirstUserId, ~WE(d)[o].free,
           PageOf(o) \in d.map \/ o >= Current(d).used,
           NEW b \in Bodies, NEW n, n = Moved(d, o, b)
    PROVE  /\ Good(n) /\ SameHeader(d, n) /\ WE(n)[0].mod
           /\ Current(n) = Current(d) /\ Working(n) = Working(d) /\ CE(n) = CE(d)
           /\ WE(n)[o].pos \in Places /\ ~WE(n)[o].free
           /\ n.pool[WE(n)[o].pos].refs = b
           /\ \A q \in Ids : q # o => WE(n)[q] = WE(d)[q]
           /\ Frame(d, n, Own(d))
  <1> DEFINE c == Current(d)
             w == Working(d)
             used == Bitmap(d)
             p == Place(used)
             x == WE(d)[0].pos
             a == SetBitmap(d, used \cup {p})
             f == IF WE(d)[o].mod THEN SetBitmap(a, Bitmap(a) \ {WE(d)[o].pos}) ELSE a
             s == SetPos(f, o, At(p, TRUE))
             page == ObjectPage(b)
  <1>1. n = Write(s, p, page)
    BY DEF Moved
  <1>2. used \in SUBSET Places /\ p \in Places /\ p \notin used
    BY GoodPlaces, PlaceIsFree
  <1>3. /\ Laid(d) /\ Roomy(w) /\ d.map \subseteq 0 .. PageOf(MaxOid)
        /\ Formed(WE(d), w.used) /\ w.used \in Nat /\ WI(d) \subseteq used /\ CI(d) \subseteq used
        /\ x \in Places /\ x \in used /\ x \notin CI(d) \cup WI(d)
        /\ CE(d)[0].pos \in used /\ CE(d)[0].pos \in Places
    BY GoodFacts, GoodPlaces DEF Good
  <1>4. /\ Laid(a) /\ SameHeader(d, a)
        /\ Current(a) = c /\ Working(a) = w
        /\ CE(a) = CE(d) /\ WE(a) = WE(d)
        /\ Bitmap(a) = used \cup {p}
        /\ Frame(d, a, {x})
    <2> DEFINE u == used \cup {p}
    <2>1. u \in SUBSET Places
      BY <1>2
    <2> HIDE DEF u
    <2>2. a = SetBitmap(d, u)
      BY DEF u
    <2>4. x = WE(d)[0].pos
      OBVIOUS
    <2> HIDE DEF a, x
    <2>3. /\ Laid(a) /\ SameHeader(d, a)
          /\ Current(a) = Current(d) /\ Working(a) = Working(d)
          /\ CE(a) = CE(d) /\ WE(a) = WE(d)
          /\ Bitmap(a) = u
          /\ Frame(d, a, {x})
      BY <2>1, <2>2, <2>4, <1>3, BitmapSet
    <2> QED
      BY <2>3 DEF u
  <1>5. /\ Laid(f) /\ SameHeader(d, f)
        /\ Current(f) = c /\ Working(f) = w
        /\ CE(f) = CE(d) /\ WE(f) = WE(d)
        /\ Bitmap(f) = (used \cup {p}) \ Left(WE(d), w.used, {o})
        /\ Frame(d, f, {x})
    <2>1. CASE ~WE(d)[o].mod
      <3>1. f = a
        BY <2>1
      <3>2. Left(WE(d), w.used, {o}) = {}
        BY <2>1 DEF Left
      <3> HIDE DEF f, a
      <3> QED
        BY <1>4, <3>1, <3>2
    <2>2. CASE WE(d)[o].mod
      <3> DEFINE u == (used \cup {p}) \ {WE(d)[o].pos}
      <3>1. Left(WE(d), w.used, {o}) = {WE(d)[o].pos}
        BY <2>2, <1>3 DEF Left
      <3>2. u \in SUBSET Places
        BY <1>2
      <3>3. f = SetBitmap(a, u)
        BY <2>2, <1>4
      <3>4. x = WE(a)[0].pos /\ x \notin CI(a) \cup WI(a)
        BY <1>3, <1>4 DEF CI, WI
      <3> HIDE DEF u, a, f, x
      <3>5. /\ Laid(f) /\ SameHeader(a, f)
            /\ Current(f) = Current(a) /\ Working(f) = Working(a)
            /\ CE(f) = CE(a) /\ WE(f) = WE(a)
            /\ Bitmap(f) = u
            /\ Frame(a, f, {x})
        BY <3>2, <3>3, <3>4, <1>3, <1>4, BitmapSet
      <3>6. Frame(d, f, {x} \cup {x})
        BY <3>5, <1>4, FrameTwice
      <3>7. {x} \cup {x} = {x}
        OBVIOUS
      <3>8. Frame(d, f, {x})
        BY <3>6, <3>7
      <3>9. SameHeader(d, f)
        BY <1>4, <3>5 DEF SameHeader
      <3> QED
        BY <1>4, <3>1, <3>5, <3>8, <3>9 DEF u
    <2> QED
      BY <2>1, <2>2
  <1>6. o \in Ids /\ o # 0 /\ PageOf(o) < Len(w.index)
    BY <1>3, RoomyFacts, Sizes
  <1>7. /\ At(p, TRUE) \in Entry
        /\ At(p, TRUE).pos = p /\ At(p, TRUE).mod = TRUE /\ At(p, TRUE).free = FALSE
    BY <1>2, EntryFields
  <1>8. /\ Laid(s) /\ SameHeader(d, s)
        /\ Current(s) = c /\ Working(s) = w
        /\ CE(s) = CE(d)
        /\ WE(s)[o] = At(p, TRUE)
        /\ \A q \in Ids : q # o => WE(s)[q] = WE(d)[q]
        /\ Frame(f, s, WI(d))
    <2> DEFINE e == At(p, TRUE)
    <2> HIDE DEF e, f
    <2>1. s = SetPos(f, o, e) /\ e \in Entry
      BY <1>7 DEF e
    <2>2. WI(f) = WI(d)
      BY <1>5 DEF WI
    <2> HIDE DEF s
    <2>3. /\ Laid(s) /\ SameHeader(f, s)
          /\ Current(s) = Current(f) /\ Working(s) = Working(f)
          /\ CE(s) = CE(f)
          /\ WE(s)[o] = e
          /\ \A q \in Ids : q # o => WE(s)[q] = WE(f)[q]
          /\ Frame(f, s, WI(f))
      BY <2>1, <1>5, <1>6, EntrySet
    <2>4. SameHeader(d, s)
      BY <1>5, <2>3 DEF SameHeader
    <2> QED
      BY <2>2, <2>3, <2>4, <1>5 DEF e
  <1>9. PageType(page) /\ page.refs = b
    BY ObjectPageTyped
  <1>10. p \notin CI(s) \cup WI(s)
    BY <1>2, <1>3, <1>8 DEF CI, WI
  <1>11. /\ Laid(n) /\ SameHeader(d, n)
         /\ Current(n) = c /\ Working(n) = w
         /\ CE(n) = CE(d) /\ WE(n) = WE(s)
         /\ n.pool[p] = page
         /\ Frame(s, n, {p})
    <2> HIDE DEF s, p, page
    <2>1. /\ Laid(n) /\ SameHeader(s, n)
          /\ Current(n) = Current(s) /\ Working(n) = Working(s)
          /\ CE(n) = CE(s) /\ WE(n) = WE(s)
          /\ n.pool[p] = page
          /\ Frame(s, n, {p})
      BY <1>1, <1>2, <1>8, <1>9, <1>10, PageWritten
    <2>2. SameHeader(d, n)
      BY <1>8, <2>1 DEF SameHeader
    <2> QED
      BY <1>8, <2>1, <2>2
  <1> HIDE DEF a, f, s, p
  <1>12. Frame(d, n, ({x} \cup WI(d)) \cup {p})
    <2>1. Frame(d, s, {x} \cup WI(d))
      BY <1>5, <1>8, FrameTwice
    <2> QED
      BY <2>1, <1>11, FrameTwice
  <1>13. Frame(d, n, Own(d))
    <2>1. ({x} \cup WI(d)) \cup {p} \subseteq Own(d)
      BY <1>2 DEF Own
    <2> QED
      BY <2>1, <1>12, FrameMore
  <1>14. n.pool[CE(d)[0].pos] = d.pool[CE(d)[0].pos]
    <2>1. CE(d)[0].pos \notin Own(d)
      BY OwnApart, GoodPlaces
    <2> QED
      BY <2>1, <1>3, <1>13 DEF Frame
  <1>15. Bitmap(n) = (used \cup {p}) \ Left(WE(d), w.used, {o})
    <2>1. WE(n)[0] = WE(d)[0]
      BY <1>6, <1>8, <1>11, ZeroIsId
    <2>2. x # p /\ x \notin WI(d)
      BY <1>2, <1>3
    <2>3. n.pool[x] = s.pool[x] /\ s.pool[x] = f.pool[x]
      BY <1>3, <1>8, <1>11, <2>2 DEF Frame
    <2>4. Bitmap(f) = f.pool[x].used
      BY <1>5, BitmapLooked
    <2>5. Bitmap(n) = n.pool[x].used
      BY <2>1, BitmapLooked
    <2> QED
      BY <2>3, <2>4, <2>5, <1>5
  <1>16. WE(n)[o] = At(p, TRUE) /\ \A q \in Ids : q # o => WE(n)[q] = WE(d)[q]
    BY <1>8, <1>11
  <1>17. Good(n) /\ WE(n)[0].mod
    <2>1. d.map \subseteq n.map /\ n.map = d.map
      BY <1>11 DEF SameHeader
    <2>2. n.map \subseteq 0 .. PageOf(MaxOid) /\ (PageOf(o) \in n.map \/ o >= Current(d).used)
      BY <1>3, <2>1
    <2> HIDE DEF used, page, c, w
    <2>3. /\ Good(d) /\ Laid(n) /\ Current(n) = Current(d) /\ Working(n) = Working(d)
          /\ CE(n) = CE(d) /\ p \notin Bitmap(d)
          /\ Bitmap(n) = (Bitmap(d) \cup {p}) \ Left(WE(d), Working(d).used, {o})
          /\ o \in 0 .. Working(d).used - 1 /\ o >= FirstUserId /\ WE(d)[0].mod /\ ~WE(d)[o].free
          /\ p \in Places
      BY <1>2, <1>11, <1>15 DEF c, w, used
    <2> QED
      BY ONLY <2>1, <2>2, <2>3, <1>14, <1>16, GoodOccupy
  <1>18. WE(n)[o].pos = p /\ ~WE(n)[o].free
    BY <1>7, <1>16
  <1>19. n.pool[WE(n)[o].pos].refs = b
    BY <1>9, <1>11, <1>18
  <1> HIDE DEF x
  <1> QED
    BY <1>2, <1>11, <1>13, <1>16, <1>17, <1>18, <1>19

-----------------------------------------------------------------------------
(* Identifiers are freed.                                                   *)

\* A set of identifiers that is not empty has a last one.
LEMMA LastExists ==
    ASSUME NEW S \in SUBSET Ids, S # {}
    PROVE  \E o \in S : \A q \in S : q <= o
  <1> DEFINE R == OpToRel(<, Nat)
             T == {MaxOid - q : q \in S}
  <1>1. MaxOid \in Nat /\ \A q \in S : q \in Nat /\ q <= MaxOid
    BY Sizes DEF Ids
  <1>2. T \subseteq Nat /\ T # {}
    BY <1>1
  <1>3. IsWellFoundedOn(R, Nat)
    BY NatLessThanWellFounded
  <1>4. \A x \in Nat, y \in Nat : y < x => <<y, x>> \in R
    BY DEF OpToRel
  <1>5. \E x \in T : \A y \in T : ~ (<<y, x>> \in R)
    <2> HIDE DEF R, T
    <2> QED
      BY <1>2, <1>3, WFMin
  <1>6. PICK x \in T : \A y \in T : ~ (<<y, x>> \in R)
    BY <1>5
  <1>7. PICK o \in S : x = MaxOid - o
    BY <1>6
  <1> HIDE DEF R
  <1>8. \A q \in S : ~ (MaxOid - q < MaxOid - o)
    BY <1>1, <1>2, <1>4, <1>6, <1>7
  <1>9. \A q \in S : q <= o
    BY <1>1, <1>8
  <1> QED
    BY <1>9

\* The greatest of some identifiers.
Latest(S) == CHOOSE o \in S : \A q \in S : q <= o

\* It is the one that the operations choose.
LEMMA LatestIs ==
    ASSUME NEW S \in SUBSET Ids, S # {}
    PROVE  Latest(S) \in S /\ \A q \in S : q <= Latest(S)
  <1>1. \E o \in S : \A q \in S : q <= o
    BY LastExists
  <1> QED
    BY <1>1 DEF Latest

\* Identifiers lose their places.
LEMMA GoodVacate ==
    ASSUME NEW m, Good(m), NEW n, Laid(n), Current(n) = Current(m),
           CE(n) = CE(m), n.pool[CE(m)[0].pos] = m.pool[CE(m)[0].pos],
           Roomy(Working(n)), Working(n).index = Working(m).index,
           Working(n).shadow = Working(m).shadow, Working(m).used <= Working(n).used,
           NEW G \in SUBSET Ids,
           \A q \in G : FirstUserId <= q /\ q < Working(n).used,
           \A q \in 0 .. Working(n).used - 1 :
               q \in G \/ (q < Working(m).used /\ WE(n)[q] = WE(m)[q]),
           \A q \in G : WE(n)[q].pos = NoPlace /\ ~WE(n)[q].mod,
           \A q \in G : q < Working(m).used => WE(m)[0].mod \/ WE(m)[q].pos = NoPlace,
           Linked(WE(n), Working(n).used, Working(n).freeList),
           m.map \subseteq n.map, n.map \subseteq 0 .. PageOf(MaxOid),
           \A q \in G : q < Current(m).used => PageOf(q) \in n.map,
           Bitmap(n) = Bitmap(m) \ Left(WE(m), Working(m).used, G)
    PROVE  Good(n) /\ WE(n)[0] = WE(m)[0]
  <1> DEFINE cn == Current(m).used
             wn == Working(m).used
             wn2 == Working(n).used
             fr == Working(m).freeList
             fr2 == Working(n).freeList
             ce == CE(m)
             we == WE(m)
             we2 == WE(n)
             ci == CI(m)
             wi == WI(m)
             used == Bitmap(m)
             used2 == Bitmap(n)
             ms == m.map
             ms2 == n.map
  <1>1. /\ cn \in Nat /\ wn \in Nat /\ ci \in SUBSET Places /\ wi \in SUBSET Places
        /\ cn <= wn /\ FirstUserId <= cn /\ Fixed(ce, cn)
        /\ Beside(ce, we, cn, wn, ci, wi, fr, used, ms)
        /\ Working(m).shadow = Current(m).index
    BY GoodFacts
  <1>2. /\ used \in SUBSET Places /\ wn2 \in Nat /\ 0 \in 0 .. wn - 1
        /\ \A q \in 0 .. wn2 - 1 : q \in Ids
    BY GoodPlaces, RoomyFacts
  <1>3. we2[0] = we[0]
    <2>1. 0 \in 0 .. wn2 - 1 /\ 0 \notin G
      BY <1>1, <1>2, Sizes
    <2> QED
      BY <2>1
  <1>4. WI(n) = wi /\ Laid(n)
    BY DEF WI
  <1>5. \A q \in G : we2[q] \in Entry
    <2>1. \A q \in Ids : Ent(n.pool, Working(n).index)[q] \in Entry
      BY EntTyped DEF Laid
    <2> QED
      BY <2>1 DEF WE
  <1>6. G \subseteq FirstUserId .. wn2 - 1
    BY <1>2, Sizes DEF Ids
  <1>7. Beside(ce, we2, cn, wn2, ci, wi, fr2, used2, ms2)
    <2>1. /\ \A q \in 0 .. wn2 - 1 : q \in G \/ (q < wn /\ we2[q] = we[q])
          /\ \A q \in G : we2[q].pos = NoPlace /\ ~we2[q].mod
          /\ \A q \in G : q < wn => we[0].mod \/ we[q].pos = NoPlace
          /\ Linked(we2, wn2, fr2)
          /\ ms \subseteq ms2 /\ \A q \in G : q < cn => PageOf(q) \in ms2
          /\ used2 = used \ Left(we, wn, G)
          /\ wn <= wn2
      OBVIOUS
    <2> HIDE DEF cn, wn, fr, ce, we, we2, ci, wi, used, used2, ms, ms2, wn2, fr2
    <2>2. \A q \in G : we2[q] \in Entry /\ we2[q].pos = NoPlace /\ ~we2[q].mod
      BY <1>5, <2>1
    <2> QED
      BY ONLY <1>1, <1>2, <1>6, <2>1, <2>2, Vacate
  <1>8. Beside(CE(m), WE(n), Current(m).used, Working(n).used, CI(m), WI(n),
               Working(n).freeList, Bitmap(n), n.map)
    BY <1>4, <1>7
  <1>9. Current(m).used <= Working(n).used
    BY <1>1, <1>2
  <1> HIDE DEF cn, wn, fr, ce, we, we2, ci, wi, used, used2, ms, ms2, wn2, fr2
  <1> QED
    BY <1>1, <1>3, <1>8, <1>9, GoodMade DEF we2, we

\* What freeId() makes of the identifiers in G, and the list it links them to.
NextOf(G, fr, o) ==
    IF {q \in G : q < o} = {} THEN fr ELSE Latest({q \in G : q < o})
WithFree(m, G) ==
    [m EXCEPT !.header.root[1 - m.header.curr].freeList = Latest(G),
              !.map = @ \cup {PageOf(o) : o \in G}]

\* Each leads to the one before it, and the first to the list so far.
LEMMA NextOfFacts ==
    ASSUME NEW G \in SUBSET Ids, NEW fr, NEW o \in G
    PROVE  \/ NextOf(G, fr, o) = fr /\ \A r \in G : o <= r
           \/ /\ NextOf(G, fr, o) \in G /\ NextOf(G, fr, o) < o
              /\ \A r \in G : r < o => r <= NextOf(G, fr, o)
  <1> DEFINE B == {q \in G : q < o}
  <1>1. CASE B = {}
    <2>1. \A r \in G : o <= r
      BY <1>1, Sizes DEF Ids
    <2>2. NextOf(G, fr, o) = fr
      BY <1>1 DEF NextOf
    <2> QED
      BY <2>1, <2>2
  <1>2. CASE B # {}
    <2>1. B \in SUBSET Ids
      OBVIOUS
    <2>2. NextOf(G, fr, o) = Latest(B)
      BY <1>2 DEF NextOf
    <2>3. Latest(B) \in B /\ \A q \in B : q <= Latest(B)
      <3> HIDE DEF B
      <3> QED
        BY <1>2, <2>1, LatestIs
    <2> QED
      BY <2>2, <2>3
  <1> QED
    BY <1>1, <1>2

WithNext(f, G) == SetEntries(f, [o \in G |-> FreeEntry(NextOf(G, Working(f).freeList, o))])

\* FreeIds sets these entries.
LEMMA FreeIdsIs ==
    ASSUME NEW f, MemFields(f), NEW G
    PROVE  FreeIds(f, G) = WithFree(WithNext(f, G), G)
  <1> DEFINE e == WithNext(f, G)
  <1>1. FreeIds(f, G) = [e EXCEPT !.header.root[1 - f.header.curr].freeList = Latest(G),
                                  !.map = @ \cup {PageOf(o) : o \in G}]
    BY DEF FreeIds, NextOf, Latest, WithNext
  <1>2. e.header = f.header
    BY SetEntriesFields DEF WithNext
  <1> HIDE DEF e
  <1>3. FreeIds(f, G) = WithFree(e, G)
    BY <1>1, <1>2 DEF WithFree
  <1> QED
    BY <1>3 DEF e

\* The list and the marks are set.
LEMMA FreeSet ==
    ASSUME NEW e, MemFields(e), NEW G, NEW n, n = WithFree(e, G)
    PROVE  /\ MemFields(n)
           /\ n.pool = e.pool /\ n.touched = e.touched /\ n.modified = e.modified
           /\ n.map = e.map \cup {PageOf(o) : o \in G}
           /\ n.header.curr = e.header.curr /\ n.header.init = e.header.init
           /\ n.header.dirty = e.header.dirty
           /\ Current(n) = Current(e)
           /\ Working(n) = [Working(e) EXCEPT !.freeList = Latest(G)]
  <1> DEFINE top == Latest(G)
             marks == e.map \cup {PageOf(o) : o \in G}
             r == [Working(e) EXCEPT !.freeList = top]
             l == WithWorking(e, r)
  <1>1. RootFields(r)
    BY WorkingFields, RootWithField
  <1>2. n = [l EXCEPT !.map = marks]
    <2>1. e = [header |-> e.header, pool |-> e.pool, map |-> e.map,
                modified |-> e.modified, touched |-> e.touched]
      BY DEF MemFields
    <2> HIDE DEF top
    <2>2. n = [e EXCEPT !.header.root[1 - e.header.curr].freeList = top,
                        !.map = @ \cup {PageOf(o) : o \in G}]
      BY DEF WithFree, top
    <2> QED
      BY ONLY <2>1, <2>2 DEF WithWorking, Working
  <1> HIDE DEF r, l, marks
  <1>3. /\ MemFields(l)
        /\ l.pool = e.pool /\ l.map = e.map /\ l.touched = e.touched
        /\ l.modified = e.modified
        /\ l.header.curr = e.header.curr /\ l.header.init = e.header.init
        /\ l.header.dirty = e.header.dirty
        /\ Current(l) = Current(e) /\ Working(l) = r
    BY <1>1, RootSet DEF l
  <1>4. /\ MemFields(n)
        /\ n.header = l.header /\ n.pool = l.pool /\ n.touched = l.touched
        /\ n.modified = l.modified /\ n.map = marks
        /\ Current(n) = Current(l) /\ Working(n) = Working(l)
    BY <1>2, <1>3, MapSet
  <1> QED
    BY <1>3, <1>4 DEF r, marks

\* Memory with the same pages and the same two indexes.
LEMMA LaidSame ==
    ASSUME NEW m, Laid(m), NEW n, MemFields(n), n.pool = m.pool,
           Current(n) = Current(m), Working(n).index = Working(m).index
    PROVE  /\ Laid(n) /\ CE(n) = CE(m) /\ WE(n) = WE(m) /\ Bitmap(n) = Bitmap(m)
           /\ CI(n) = CI(m) /\ WI(n) = WI(m)
  <1>1. CE(n) = CE(m) /\ WE(n) = WE(m) /\ CI(n) = CI(m) /\ WI(n) = WI(m)
    BY DEF CE, WE, CI, WI
  <1>2. Bitmap(n) = Bitmap(m)
    BY <1>1, BitmapLooked
  <1> QED
    BY <1>1, <1>2 DEF Laid

\* A root with another first free identifier has the same room.
LEMMA RoomyFree ==
    ASSUME NEW r, RootFields(r), Roomy(r), NEW x \in Users \cup {0},
           NEW s, s = [r EXCEPT !.freeList = x]
    PROVE  /\ Roomy(s) /\ s.index = r.index /\ s.shadow = r.shadow /\ s.used = r.used
           /\ s.freeList = x /\ s.rootObject = r.rootObject
  <1>1. /\ s.index = r.index /\ s.shadow = r.shadow /\ s.used = r.used
        /\ s.freeList = x /\ s.rootObject = r.rootObject
    BY DEF RootFields
  <1> QED
    BY <1>1 DEF Roomy, Root

\* freeId() of the identifiers in G, when the places that the working state
\* gave them are no longer marked.
FreedIn(d, n, G) ==
    /\ Good(n) /\ WE(n)[0].mod /\ CE(n) = CE(d) /\ Current(n) = Current(d)
    /\ Working(n).used = Working(d).used
    /\ Working(n).rootObject = Working(d).rootObject
    /\ n.header.curr = d.header.curr /\ n.header.init = d.header.init
    /\ n.header.dirty = d.header.dirty /\ n.modified = d.modified
    /\ \A q \in G : WE(n)[q].free
    /\ \A q \in Ids \ G : WE(n)[q] = WE(d)[q]
    /\ Frame(d, n, Own(d))

\* Identifiers are freed, and memory stays good.
LEMMA Freeing ==
    ASSUME NEW d, Good(d), WE(d)[0].mod,
           NEW G \in SUBSET Users, G # {}, \A o \in G : o < Working(d).used /\ ~WE(d)[o].free,
           NEW f, Laid(f), SameHeader(d, f), Current(f) = Current(d), Working(f) = Working(d),
           CE(f) = CE(d), WE(f) = WE(d),
           Bitmap(f) = Bitmap(d) \ Left(WE(d), Working(d).used, G), Frame(d, f, Own(d)),
           NEW n, n = FreeIds(f, G)
    PROVE  FreedIn(d, n, G)
  <1> DEFINE w == Working(d)
             top == Latest(G)
             fr == w.freeList
             es == [o \in G |-> FreeEntry(NextOf(G, fr, o))]
             e == SetEntries(f, es)
  <1>1. /\ G \in SUBSET Ids /\ \A o \in G : FirstUserId <= o /\ o \in Nat /\ o >= 1
    BY Sizes DEF Users, Ids
  <1>2. /\ Laid(d) /\ Roomy(w) /\ d.map \subseteq 0 .. PageOf(MaxOid) /\ MemFields(d)
        /\ w.used \in Nat /\ w.used <= MaxOid + 1 /\ MemFields(f)
        /\ Current(d).used \in Nat /\ Current(d).used <= w.used
    BY GoodFacts DEF Good, Laid
  <1>3. /\ \A q \in 0 .. w.used - 1 : q \in Nat /\ PageOf(q) < Len(w.index) /\ q \in Ids
    BY <1>2, RoomyFacts
  <1>4. fr \in Users \cup {0}
    BY <1>2 DEF Roomy, Root
  <1>5. \A o \in G : NextOf(G, fr, o) \in Users \cup {0}
    BY <1>1, <1>4, NextOfFacts
  <1>6. n = WithFree(e, G)
    <2>1. e = WithNext(f, G)
      BY DEF WithNext
    <2>2. n = WithFree(WithNext(f, G), G)
      BY <1>2, FreeIdsIs
    <2> QED
      BY <2>1, <2>2
  <1>7. /\ DOMAIN es = G /\ \A o \in G : /\ es[o] = FreeEntry(NextOf(G, fr, o))
                                         /\ es[o] \in Entry
                                         /\ es[o].pos = NoPlace /\ es[o].mod = FALSE
                                         /\ es[o].free = TRUE /\ es[o].next = NextOf(G, fr, o)
    BY <1>5, FreeFields
  <1> HIDE DEF es
  <1>8. /\ Laid(e) /\ SameHeader(f, e)
        /\ Current(e) = Current(d) /\ Working(e) = w
        /\ CE(e) = CE(d)
        /\ \A q \in Ids : WE(e)[q] = IF q \in G THEN es[q] ELSE WE(d)[q]
        /\ Frame(f, e, WI(d))
    <2>1. DOMAIN es \in SUBSET Nat
      <3>1. DOMAIN es \in SUBSET Ids
        BY <1>1, <1>7
      <3> QED
        BY <3>1, Sizes DEF Ids
    <2>2. \A o \in DOMAIN es : PageOf(o) < Len(Working(f).index) /\ es[o] \in Entry
      BY <1>1, <1>2, <1>3, <1>7
    <2>3. WI(f) = WI(d)
      BY DEF WI
    <2>4. e = SetEntries(f, es)
      OBVIOUS
    <2> HIDE DEF e
    <2>5. /\ Laid(e) /\ SameHeader(f, e)
          /\ Current(e) = Current(f) /\ Working(e) = Working(f)
          /\ CE(e) = CE(f)
          /\ \A q \in Ids : WE(e)[q] = IF q \in DOMAIN es THEN es[q] ELSE WE(f)[q]
          /\ Frame(f, e, WI(f))
      BY <2>1, <2>2, <2>4, EntriesSet
    <2> QED
      BY <2>3, <2>5, <1>7
  <1> HIDE DEF e
  <1>9. /\ MemFields(n)
        /\ n.pool = e.pool /\ n.touched = e.touched /\ n.modified = e.modified
        /\ n.map = e.map \cup {PageOf(o) : o \in G}
        /\ n.header.curr = e.header.curr /\ n.header.init = e.header.init
        /\ n.header.dirty = e.header.dirty
        /\ Current(n) = Current(d)
        /\ Working(n) = [w EXCEPT !.freeList = top]
    BY <1>6, <1>8, FreeSet DEF Laid
  <1>10. top \in G /\ \A q \in G : q <= top
    BY <1>1, LatestIs
  <1>11. /\ Roomy(Working(n)) /\ Working(n).index = w.index /\ Working(n).shadow = w.shadow
         /\ Working(n).used = w.used /\ Working(n).freeList = top
         /\ Working(n).rootObject = w.rootObject
    <2>1. RootFields(w)
      BY <1>2, WorkingFields
    <2>2. top \in Users \cup {0}
      BY <1>10
    <2> HIDE DEF w, top
    <2> QED
      BY <1>2, <1>9, <2>1, <2>2, RoomyFree
  <1> HIDE DEF top
  <1>12. /\ Laid(n) /\ CE(n) = CE(d) /\ WE(n) = WE(e) /\ Bitmap(n) = Bitmap(e)
    <2>1. /\ Laid(e) /\ MemFields(n) /\ n.pool = e.pool
          /\ Current(n) = Current(e) /\ Working(n).index = Working(e).index
      BY <1>8, <1>9, <1>11
    <2>2. /\ Laid(n) /\ CE(n) = CE(e) /\ WE(n) = WE(e) /\ Bitmap(n) = Bitmap(e)
      BY ONLY <2>1, LaidSame
    <2> QED
      BY <2>2, <1>8
  <1>13. Frame(d, n, Own(d))
    <2>1. Frame(d, e, Own(d) \cup WI(d))
      BY <1>8, FrameTwice
    <2>2. Own(d) \cup WI(d) = Own(d)
      BY OwnApart
    <2>3. Frame(d, e, Own(d))
      BY <2>1, <2>2
    <2> QED
      BY <2>3, <1>9 DEF Frame
  <1>14. n.pool[CE(d)[0].pos] = d.pool[CE(d)[0].pos]
    <2>1. CE(d)[0].pos \notin Own(d) /\ CE(d)[0].pos \in Places
      BY OwnApart, GoodPlaces
    <2> QED
      BY <2>1, <1>13 DEF Frame
  <1>15. 0 \in Ids /\ 0 \notin G
    BY <1>1, ZeroIsId
  <1>16. Bitmap(n) = Bitmap(d) \ Left(WE(d), w.used, G)
    <2>1. WE(e)[0] = WE(d)[0]
      BY <1>8, <1>15
    <2>2. WE(d)[0].pos \in Places /\ WE(d)[0].pos \notin WI(d)
      BY GoodPlaces
    <2>3. e.pool[WE(d)[0].pos] = f.pool[WE(d)[0].pos]
      BY <2>2, <1>8 DEF Frame
    <2>4. Bitmap(e) = e.pool[WE(d)[0].pos].used /\ Bitmap(f) = f.pool[WE(d)[0].pos].used
      BY <2>1, BitmapLooked
    <2> QED
      BY <2>3, <2>4, <1>12
  <1>17. \A q \in G : /\ WE(n)[q].pos = NoPlace /\ WE(n)[q].mod = FALSE
                      /\ WE(n)[q].free = TRUE /\ WE(n)[q].next = NextOf(G, fr, q)
    BY <1>1, <1>7, <1>8, <1>12
  <1>18. \A q \in Ids \ G : WE(n)[q] = WE(d)[q]
    BY <1>8, <1>12
  <1>19. Linked(WE(n), w.used, top)
    <2> DEFINE e1 == WE(d)
               e2 == WE(n)
               k == w.used
    <2>1. Linked(e1, k, fr)
      BY GoodFacts DEF Beside
    <2>2. G \subseteq 1 .. k - 1
      BY <1>1, <1>2
    <2>3. \A q \in G : q <= top /\ ~e1[q].free /\ e2[q].free
      BY <1>10, <1>17
    <2>4. \A q \in G : \/ e2[q].next = fr /\ \A r \in G : q <= r
                       \/ /\ e2[q].next \in G /\ e2[q].next < q
                          /\ \A r \in G : r < q => r <= e2[q].next
      <3> TAKE q \in G
      <3>1. \/ NextOf(G, fr, q) = fr /\ \A r \in G : q <= r
            \/ /\ NextOf(G, fr, q) \in G /\ NextOf(G, fr, q) < q
               /\ \A r \in G : r < q => r <= NextOf(G, fr, q)
        BY <1>1, NextOfFacts
      <3>2. e2[q].next = NextOf(G, fr, q)
        BY <1>17
      <3> HIDE DEF e2, fr
      <3> QED
        BY <3>1, <3>2
    <2>5. \A q \in 0 .. k - 1 : q \notin G => e2[q] = e1[q]
      BY <1>3, <1>18
    <2>6. k \in Nat
      BY <1>2
    <2> HIDE DEF e1, e2, k, fr
    <2>7. Linked(e2, k, top)
      BY <2>1, <2>2, <2>3, <2>4, <2>5, <2>6, <1>10, LinkedPush
    <2> QED
      BY <2>7 DEF e2, k
  <1>20. /\ d.map \subseteq n.map /\ n.map \subseteq 0 .. PageOf(MaxOid)
         /\ \A q \in G : PageOf(q) \in n.map
    <2>1. n.map = d.map \cup {PageOf(o) : o \in G}
      BY <1>8, <1>9 DEF SameHeader
    <2>2. \A o \in G : PageOf(o) \in 0 .. PageOf(MaxOid)
      BY <1>1, FirstPageMarks
    <2> QED
      BY <2>1, <2>2, <1>2
  <1>21. Good(n) /\ WE(n)[0].mod
    <2>1. \A q \in G : FirstUserId <= q /\ q < Working(n).used
      BY <1>1, <1>11
    <2>2. \A q \in 0 .. Working(n).used - 1 : q \in G \/ (q < w.used /\ WE(n)[q] = WE(d)[q])
      BY <1>2, <1>3, <1>11, <1>18
    <2>3. \A q \in G : WE(n)[q].pos = NoPlace /\ ~WE(n)[q].mod
      BY <1>17
    <2>4. Linked(WE(n), Working(n).used, Working(n).freeList)
      BY <1>11, <1>19
    <2>5. \A q \in G : q < Current(d).used => PageOf(q) \in n.map
      BY <1>20
    <2>6. w.used <= Working(n).used
      BY <1>2, <1>11
    <2>7. Current(n) = Current(d)
      BY <1>9
    <2>8. \A q \in G : q < w.used => WE(d)[0].mod \/ WE(d)[q].pos = NoPlace
      OBVIOUS
    <2>9. Good(n) /\ WE(n)[0] = WE(d)[0]
      BY ONLY Good(d), <1>1, <1>11, <1>12, <1>14, <1>16, <1>20, <2>1, <2>2, <2>3, <2>4, <2>5, <2>6,
         <2>7, <2>8, GoodVacate
    <2> QED
      BY <2>9
  <1>22. \A q \in G : WE(n)[q].free
    BY <1>17
  <1>23. /\ n.header.curr = d.header.curr /\ n.header.init = d.header.init
         /\ n.header.dirty = d.header.dirty /\ n.modified = d.modified
    BY <1>8, <1>9 DEF SameHeader
  <1> QED
    BY <1>9, <1>11, <1>12, <1>13, <1>18, <1>21, <1>22, <1>23 DEF FreedIn

-----------------------------------------------------------------------------
(* Identifiers are given out.                                               *)

\* The first of the free list is taken.
Popped(d, n, o) ==
    /\ Good(n) /\ WE(n)[0] = WE(d)[0] /\ CE(n) = CE(d) /\ Current(n) = Current(d)
    /\ Working(n).used = Working(d).used
    /\ Working(n).rootObject = Working(d).rootObject
    /\ n.header.curr = d.header.curr /\ n.header.init = d.header.init
    /\ n.header.dirty = d.header.dirty /\ n.modified = d.modified
    /\ WE(n)[o] = At(NoPlace, FALSE) /\ WE(d)[o].free
    /\ o \in Users /\ o < Working(d).used
    /\ \A q \in Ids \ {o} : WE(n)[q] = WE(d)[q]
    /\ Frame(d, n, Own(d))

\* The first free identifier is given out, and memory stays good.
LEMMA Popping ==
    ASSUME NEW d, Good(d), NEW o, o = Working(d).freeList, o # 0,
           NEW n, n = SetPos(Mark(WithWorking(d, [Working(d) EXCEPT !.freeList = WE(d)[o].next]), o),
                             o, At(NoPlace, FALSE))
    PROVE  Popped(d, n, o)
  <1> DEFINE w == Working(d)
             x == WE(d)[o].next
             r == [w EXCEPT !.freeList = x]
             l == WithWorking(d, r)
             k == Mark(l, o)
             none == At(NoPlace, FALSE)
  <1>1. /\ Laid(d) /\ MemFields(d) /\ Roomy(w) /\ d.map \subseteq 0 .. PageOf(MaxOid)
        /\ w.used \in Nat /\ w.used <= MaxOid + 1
        /\ Linked(WE(d), w.used, w.freeList) /\ Formed(WE(d), w.used)
        /\ Cloned(CE(d), WE(d), Current(d).used)
    BY GoodFacts DEF Good, Beside
  <1>2. /\ o \in Freed(WE(d), w.used)
        /\ x \in Freed(WE(d), w.used) \cup {0}
    BY <1>1 DEF Linked
  <1>3. /\ w.freeList \in Users \cup {0}
        /\ \A q \in 0 .. w.used - 1 : q \in Nat /\ PageOf(q) < Len(w.index) /\ q \in Ids
    BY <1>1, RoomyFacts DEF Roomy, Root
  <1>4. /\ o \in Users /\ o \in 0 .. w.used - 1 /\ WE(d)[o].free /\ o \in Ids /\ o < w.used
        /\ PageOf(o) < Len(w.index) /\ o >= FirstUserId
    BY <1>1, <1>2, <1>3, Sizes DEF Freed, Users
  <1>5. x \in Users \cup {0}
    <2>1. WE(d)[o] \in Entry
      BY <1>1, <1>4 DEF Formed
    <2> QED
      BY <2>1 DEF Entry
  <1>6. /\ RootFields(r) /\ Roomy(r) /\ r.index = w.index /\ r.shadow = w.shadow
        /\ r.used = w.used /\ r.freeList = x /\ r.rootObject = w.rootObject
    <2>1. RootFields(w)
      BY <1>1, WorkingFields
    <2>2. r = [w EXCEPT !.freeList = x] /\ RootFields(r)
      BY <2>1, RootWithField
    <2> HIDE DEF w, x, r
    <2> QED
      BY ONLY <2>1, <2>2, <1>1, <1>5, RoomyFree
  <1> HIDE DEF r
  <1>7. /\ MemFields(l)
        /\ l.pool = d.pool /\ l.map = d.map /\ l.touched = d.touched
        /\ l.modified = d.modified
        /\ l.header.curr = d.header.curr /\ l.header.init = d.header.init
        /\ l.header.dirty = d.header.dirty
        /\ Current(l) = Current(d) /\ Working(l) = r
    BY <1>1, <1>6, RootSet
  <1> HIDE DEF l
  <1>8. /\ MemFields(k)
        /\ k.header = l.header /\ k.pool = d.pool /\ k.touched = d.touched
        /\ k.modified = d.modified /\ k.map = d.map \cup {PageOf(o)}
        /\ Current(k) = Current(d) /\ Working(k) = r
    BY <1>7, MarkedPage
  <1>9. n = SetPos(k, o, none)
    BY DEF l, r
  <1> HIDE DEF k
  <1>10. /\ Laid(k) /\ CE(k) = CE(d) /\ WE(k) = WE(d) /\ Bitmap(k) = Bitmap(d)
         /\ WI(k) = WI(d)
    <2>1. Working(k).index = w.index
      BY <1>6, <1>8
    <2> QED
      BY <1>1, <1>8, <2>1, LaidSame
  <1>11. none \in Entry /\ none.pos = NoPlace /\ none.mod = FALSE /\ none.free = FALSE
    BY NowhereFields
  <1> HIDE DEF none
  <1>12. /\ Laid(n) /\ SameHeader(k, n)
         /\ Current(n) = Current(d) /\ Working(n) = r
         /\ CE(n) = CE(d)
         /\ WE(n)[o] = none
         /\ \A q \in Ids : q # o => WE(n)[q] = WE(d)[q]
         /\ Frame(k, n, WI(d))
    <2>1. PageOf(o) < Len(Working(k).index)
      BY <1>4, <1>6, <1>8
    <2>2. /\ Laid(n) /\ SameHeader(k, n)
          /\ Current(n) = Current(k) /\ Working(n) = Working(k)
          /\ CE(n) = CE(k)
          /\ WE(n)[o] = none
          /\ \A q \in Ids : q # o => WE(n)[q] = WE(k)[q]
          /\ Frame(k, n, WI(k))
      BY ONLY <2>1, <1>4, <1>9, <1>10, <1>11, EntrySet
    <2> QED
      BY <2>2, <1>8, <1>10
  <1>13. Frame(d, n, Own(d))
    <2>1. WI(d) \subseteq Own(d)
      BY OwnApart
    <2>2. Frame(d, n, WI(d))
      BY <1>8, <1>12 DEF Frame
    <2> QED
      BY <2>1, <2>2, FrameMore
  <1>14. n.pool[CE(d)[0].pos] = d.pool[CE(d)[0].pos]
    <2>1. CE(d)[0].pos \notin Own(d) /\ CE(d)[0].pos \in Places
      BY OwnApart, GoodPlaces
    <2> QED
      BY <2>1, <1>13 DEF Frame
  <1>15. WE(n)[0] = WE(d)[0]
    BY <1>4, <1>12, ZeroIsId, Sizes
  <1>16. Bitmap(n) = Bitmap(d) \ Left(WE(d), w.used, {o})
    <2>1. WE(d)[0].pos \in Places /\ WE(d)[0].pos \notin WI(d)
      BY GoodPlaces
    <2>2. n.pool[WE(d)[0].pos] = d.pool[WE(d)[0].pos]
      BY <2>1, <1>8, <1>12 DEF Frame
    <2>3. Bitmap(n) = Bitmap(d)
      BY <2>2, <1>15, BitmapLooked
    <2>4. Left(WE(d), w.used, {o}) = {}
      <3>1. ~WE(d)[o].mod
        BY <1>1, <1>4 DEF Formed
      <3> QED
        BY <3>1 DEF Left
    <2> QED
      BY <2>3, <2>4
  <1>17. WE(n)[o].pos = NoPlace /\ ~WE(n)[o].mod /\ ~WE(n)[o].free
    BY <1>11, <1>12
  <1>18. Linked(WE(n), w.used, x)
    <2> DEFINE e1 == WE(d)
               e2 == WE(n)
               kk == w.used
    <2>1. Linked(e1, kk, o) /\ ~e2[o].free /\ \A q \in 0 .. kk - 1 : q # o => e2[q] = e1[q]
      BY <1>1, <1>3, <1>12, <1>17
    <2>2. kk \in Nat
      BY <1>1
    <2> HIDE DEF e2, e1, kk, x
    <2>3. Linked(e2, kk, e1[o].next)
      BY <2>1, <2>2, LinkedPop
    <2> QED
      BY <2>3 DEF e1, e2, kk, x
  <1>19. n.map = d.map \cup {PageOf(o)} /\ n.map \subseteq 0 .. PageOf(MaxOid)
    <2>1. PageOf(o) \in 0 .. PageOf(MaxOid)
      BY <1>4, FirstPageMarks
    <2> QED
      BY <2>1, <1>1, <1>8, <1>12 DEF SameHeader
  <1>20. Good(n)
    <2> DEFINE G == {o}
    <2>1. /\ G \in SUBSET Ids
          /\ \A q \in G : FirstUserId <= q /\ q < Working(n).used
          /\ \A q \in G : q < Current(d).used => PageOf(q) \in n.map
          /\ \A q \in G : WE(n)[q].pos = NoPlace /\ ~WE(n)[q].mod
      BY <1>4, <1>6, <1>12, <1>17, <1>19
    <2>8. Working(n).used = w.used
      BY <1>6, <1>12
    <2>2. \A q \in 0 .. Working(n).used - 1 : q \in G \/ (q < w.used /\ WE(n)[q] = WE(d)[q])
      <3>1. \A q \in 0 .. w.used - 1 : q \in G \/ (q < w.used /\ WE(n)[q] = WE(d)[q])
        BY ONLY <1>1, <1>3, <1>12
      <3> QED
        BY ONLY <2>8, <3>1
    <2>3. \A q \in G : q < w.used => WE(d)[0].mod \/ WE(d)[q].pos = NoPlace
      BY <1>1, <1>4 DEF Formed
    <2>4. Linked(WE(n), Working(n).used, Working(n).freeList)
      BY <1>6, <1>12, <1>18
    <2>5. /\ Roomy(Working(n)) /\ Working(n).index = w.index
          /\ Working(n).shadow = w.shadow /\ w.used <= Working(n).used
      <3>1. w.used <= Working(n).used
        BY ONLY <2>8, <1>1
      <3> HIDE DEF w
      <3> QED
        BY <3>1, <1>6, <1>12
    <2>6. Bitmap(n) = Bitmap(d) \ Left(WE(d), w.used, G)
      BY <1>16
    <2>7. d.map \subseteq n.map
      BY <1>19
    <2> HIDE DEF G
    <2> QED
      BY <1>12, <1>14, <1>19, <2>1, <2>2, <2>3, <2>4, <2>5, <2>6, <2>7, GoodVacate
  <1>21. /\ n.header.curr = d.header.curr /\ n.header.init = d.header.init
         /\ n.header.dirty = d.header.dirty /\ n.modified = d.modified
    BY <1>7, <1>8, <1>12 DEF SameHeader
  <1>22. Working(n).used = w.used /\ Working(n).rootObject = w.rootObject
    BY <1>6, <1>12
  <1>23. \A q \in Ids \ {o} : WE(n)[q] = WE(d)[q]
    BY <1>12
  <1> QED
    BY <1>4, <1>12, <1>13, <1>15, <1>20, <1>21, <1>22, <1>23 DEF none, Popped

\* The index has one more entry.
Appended(d, n, o) ==
    /\ Good(n) /\ WE(n)[0] = WE(d)[0] /\ CE(n) = CE(d) /\ Current(n) = Current(d)
    /\ Working(n).used = o + 1
    /\ Working(n).rootObject = Working(d).rootObject
    /\ n.header.curr = d.header.curr /\ n.header.init = d.header.init
    /\ n.header.dirty = d.header.dirty /\ n.modified = d.modified
    /\ WE(n)[o] = At(NoPlace, FALSE)
    /\ o \in Users
    /\ \A q \in Ids \ {o} : WE(n)[q] = WE(d)[q]
    /\ Frame(d, n, Own(d))

\* A new identifier is given out, and memory stays good.
LEMMA Appending ==
    ASSUME NEW d, Good(d), NEW o, o = Working(d).used, o <= MaxOid,
           o + 1 <= HandlesPerPage * Len(Working(d).index),
           NEW n, n = SetPos(WithWorking(d, [Working(d) EXCEPT !.used = o + 1]),
                             o, At(NoPlace, FALSE))
    PROVE  Appended(d, n, o)
  <1> DEFINE w == Working(d)
             x == o + 1
             r == [w EXCEPT !.used = x]
             k == WithWorking(d, r)
             none == At(NoPlace, FALSE)
  <1>1. /\ Laid(d) /\ MemFields(d) /\ Roomy(w) /\ d.map \subseteq 0 .. PageOf(MaxOid)
        /\ w.used \in Nat /\ w.used <= MaxOid + 1
        /\ Linked(WE(d), w.used, w.freeList) /\ Formed(WE(d), w.used)
        /\ Current(d).used <= w.used /\ Current(d).used \in Nat
        /\ FirstUserId <= Current(d).used
    BY GoodFacts DEF Good, Beside
  <1>2. /\ o \in Nat /\ o = w.used /\ x \in Nat /\ x = o + 1 /\ x <= MaxOid + 1 /\ MaxOid \in Nat
        /\ FirstUserId \in Nat /\ 1 <= FirstUserId
    BY <1>1, Sizes
  <1>3. /\ \A q \in 0 .. w.used - 1 : q \in Nat /\ PageOf(q) < Len(w.index) /\ q \in Ids
    BY <1>1, RoomyFacts
  <1>4. /\ o \in Users /\ o \in Ids /\ PageOf(o) < Len(w.index) /\ o >= FirstUserId
    <2>1. Len(w.index) \in Nat /\ HandlesPerPage \in Nat
      BY <1>1, Sizes DEF Laid
    <2>2. o < HandlesPerPage * Len(w.index)
      BY <1>2, <2>1
    <2>3. PageOf(o) < Len(w.index)
      BY <1>2, <2>1, <2>2, PageInIndex
    <2>4. o >= FirstUserId
      BY ONLY <1>1, <1>2
    <2> HIDE DEF w
    <2> QED
      BY <1>2, <2>3, <2>4 DEF Users, Ids
  <1>6. /\ RootFields(r) /\ Roomy(r) /\ r.index = w.index /\ r.shadow = w.shadow
        /\ r.used = x /\ r.freeList = w.freeList /\ r.rootObject = w.rootObject
    <2>1. RootFields(w)
      BY <1>1, WorkingFields
    <2>2. r = [w EXCEPT !.used = x] /\ RootFields(r)
      BY <2>1, RootWithField
    <2>3. x \in 0 .. MaxOid + 1
      BY <1>2
    <2>4. x \in FirstUserId .. HandlesPerPage * Len(w.index)
      <3>1. Len(w.index) \in Nat /\ HandlesPerPage \in Nat
        BY <1>1, Sizes DEF Laid
      <3>2. HandlesPerPage * Len(w.index) \in Nat
        BY <3>1
      <3>3. x <= HandlesPerPage * Len(w.index)
        OBVIOUS
      <3> QED
        BY ONLY <3>2, <3>3, <1>2, <1>4
    <2> HIDE DEF w, x, r
    <2>5. /\ r.index = w.index /\ r.shadow = w.shadow
          /\ r.used = x /\ r.freeList = w.freeList /\ r.rootObject = w.rootObject
      BY ONLY <2>1, <2>2 DEF RootFields
    <2>6. Roomy(r)
      BY ONLY <1>1, <2>3, <2>4, <2>5 DEF Roomy, Root
    <2> QED
      BY ONLY <2>2, <2>5, <2>6
  <1>9. n = SetPos(k, o, none)
    OBVIOUS
  <1>5. k = WithWorking(d, r)
    OBVIOUS
  <1> HIDE DEF r, k
  <1>8. /\ MemFields(k)
        /\ k.pool = d.pool /\ k.map = d.map /\ k.touched = d.touched
        /\ k.modified = d.modified
        /\ k.header.curr = d.header.curr /\ k.header.init = d.header.init
        /\ k.header.dirty = d.header.dirty
        /\ Current(k) = Current(d) /\ Working(k) = r
    BY ONLY <1>1, <1>5, <1>6, RootSet
  <1>10. /\ Laid(k) /\ CE(k) = CE(d) /\ WE(k) = WE(d) /\ Bitmap(k) = Bitmap(d)
         /\ WI(k) = WI(d)
    <2>1. Working(k).index = w.index
      BY <1>6, <1>8
    <2> QED
      BY <1>1, <1>8, <2>1, LaidSame
  <1>11. none \in Entry /\ none.pos = NoPlace /\ none.mod = FALSE /\ none.free = FALSE
    BY NowhereFields
  <1> HIDE DEF none
  <1>12. /\ Laid(n) /\ SameHeader(k, n)
         /\ Current(n) = Current(d) /\ Working(n) = r
         /\ CE(n) = CE(d)
         /\ WE(n)[o] = none
         /\ \A q \in Ids : q # o => WE(n)[q] = WE(d)[q]
         /\ Frame(k, n, WI(d))
    <2>1. PageOf(o) < Len(Working(k).index)
      BY ONLY <1>4, <1>6, <1>8
    <2>2. /\ Laid(n) /\ SameHeader(k, n)
          /\ Current(n) = Current(k) /\ Working(n) = Working(k)
          /\ CE(n) = CE(k)
          /\ WE(n)[o] = none
          /\ \A q \in Ids : q # o => WE(n)[q] = WE(k)[q]
          /\ Frame(k, n, WI(k))
      BY ONLY <2>1, <1>4, <1>9, <1>10, <1>11, EntrySet
    <2> QED
      BY <2>2, <1>8, <1>10
  <1>13. Frame(d, n, Own(d))
    <2>1. WI(d) \subseteq Own(d)
      BY OwnApart
    <2>2. Frame(d, n, WI(d))
      BY <1>8, <1>12 DEF Frame
    <2> QED
      BY <2>1, <2>2, FrameMore
  <1>14. n.pool[CE(d)[0].pos] = d.pool[CE(d)[0].pos]
    <2>1. CE(d)[0].pos \notin Own(d) /\ CE(d)[0].pos \in Places
      BY OwnApart, GoodPlaces
    <2> QED
      BY <2>1, <1>13 DEF Frame
  <1>15. WE(n)[0] = WE(d)[0]
    <2>1. o # 0
      BY ONLY <1>2, <1>4
    <2>2. 0 \in Ids
      BY ZeroIsId
    <2> QED
      BY ONLY <2>1, <2>2, <1>12
  <1>16. Bitmap(n) = Bitmap(d) \ Left(WE(d), w.used, {o})
    <2>1. WE(d)[0].pos \in Places /\ WE(d)[0].pos \notin WI(d)
      BY GoodPlaces
    <2>2. n.pool[WE(d)[0].pos] = d.pool[WE(d)[0].pos]
      BY <2>1, <1>8, <1>12 DEF Frame
    <2>3. Bitmap(n) = Bitmap(d)
      BY <2>2, <1>15, BitmapLooked
    <2>4. Left(WE(d), w.used, {o}) = {}
      <3>1. ~(o < w.used)
        BY ONLY <1>2
      <3> QED
        BY <3>1 DEF Left
    <2> QED
      BY <2>3, <2>4
  <1>17. WE(n)[o].pos = NoPlace /\ ~WE(n)[o].mod /\ ~WE(n)[o].free
    BY <1>11, <1>12
  <1>18. Linked(WE(n), x, w.freeList)
    <2> DEFINE e1 == WE(d)
               e2 == WE(n)
               kk == w.used
               fr == w.freeList
    <2>1. \A q \in 0 .. kk - 1 : e2[q] = e1[q]
      <3>1. \A q \in 0 .. kk - 1 : q # o /\ q \in Ids
        BY ONLY <1>1, <1>2, <1>3
      <3> QED
        BY ONLY <1>12, <3>1
    <2>2. kk \in Nat /\ ~e2[kk].free /\ Linked(e1, kk, fr)
      BY <1>1, <1>2, <1>17
    <2>4. x = kk + 1
      BY <1>2
    <2> HIDE DEF e2, e1, kk, x, fr
    <2>3. Linked(e2, kk + 1, fr)
      BY <2>1, <2>2, LinkedAppend
    <2> QED
      BY <2>3, <2>4 DEF e2, fr
  <1>19. n.map = d.map /\ n.map \subseteq 0 .. PageOf(MaxOid)
    BY <1>1, <1>8, <1>12 DEF SameHeader
  <1>20. Good(n)
    <2> DEFINE G == {o}
    <2>8. Working(n).used = x /\ w.used < x /\ x \in Nat
      <3>1. Working(n).used = x
        BY ONLY <1>6, <1>12
      <3> QED
        BY ONLY <3>1, <1>2
    <2>1. /\ G \in SUBSET Ids
          /\ \A q \in G : WE(n)[q].pos = NoPlace /\ ~WE(n)[q].mod
      BY <1>4, <1>17
    <2>9. \A q \in G : FirstUserId <= q /\ q < Working(n).used
      <3>1. FirstUserId <= o /\ o < Working(n).used
        BY ONLY <2>8, <1>2, <1>4
      <3> QED
        BY <3>1
    <2>10. \A q \in G : q < Current(d).used => PageOf(q) \in n.map
      <3>1. ~(o < Current(d).used)
        BY ONLY <1>1, <1>2
      <3> QED
        BY <3>1
    <2>2. \A q \in 0 .. Working(n).used - 1 : q \in G \/ (q < w.used /\ WE(n)[q] = WE(d)[q])
      <3>1. \A q \in 0 .. x - 1 : q = o \/ (q \in 0 .. w.used - 1 /\ q < w.used /\ q # o)
        BY ONLY <1>2
      <3>2. \A q \in 0 .. w.used - 1 : q \in Ids
        BY <1>3
      <3> QED
        BY ONLY <2>8, <3>1, <3>2, <1>12
    <2>3. \A q \in G : q < w.used => WE(d)[0].mod \/ WE(d)[q].pos = NoPlace
      <3>1. ~(o < w.used)
        BY ONLY <1>2
      <3> QED
        BY <3>1
    <2>4. Linked(WE(n), Working(n).used, Working(n).freeList)
      <3> HIDE DEF x
      <3> QED
        BY ONLY <1>6, <1>12, <1>18, <2>8
    <2>5. /\ Roomy(Working(n)) /\ Working(n).index = w.index
          /\ Working(n).shadow = w.shadow /\ w.used <= Working(n).used
      <3>1. w.used <= Working(n).used
        BY ONLY <2>8, <1>1
      <3> HIDE DEF w
      <3> QED
        BY <3>1, <1>6, <1>12
    <2>6. Bitmap(n) = Bitmap(d) \ Left(WE(d), w.used, G)
      BY <1>16
    <2>7. d.map \subseteq n.map
      BY <1>19
    <2> HIDE DEF G
    <2> QED
      BY ONLY Good(d), <1>12, <1>14, <1>19, <2>1, <2>2, <2>3, <2>4, <2>5, <2>6, <2>7, <2>9, <2>10,
         GoodVacate
  <1>21. /\ n.header.curr = d.header.curr /\ n.header.init = d.header.init
         /\ n.header.dirty = d.header.dirty /\ n.modified = d.modified
    BY <1>8, <1>12 DEF SameHeader
  <1>22. Working(n).used = x /\ Working(n).rootObject = w.rootObject
    BY <1>6, <1>12
  <1>23. \A q \in Ids \ {o} : WE(n)[q] = WE(d)[q]
    BY <1>12
  <1> QED
    BY <1>4, <1>12, <1>13, <1>15, <1>20, <1>21, <1>22, <1>23 DEF none, Appended

\* Memory before something is allocated.
Ready(m, d) ==
    /\ Good(d)
    /\ WE(d)[0].mod
    /\ \A q \in 1 .. Working(m).used - 1 : WE(d)[q] = WE(m)[q]
    /\ Current(d) = Current(m) /\ Working(d) = Working(m) /\ CE(d) = CE(m)
    /\ d.header.curr = m.header.curr /\ d.header.init = m.header.init
    /\ d.header.dirty = TRUE /\ d.modified = TRUE
    /\ m.map \subseteq d.map
    /\ Bitmap(m) \subseteq Bitmap(d)
    /\ Bitmap(d) \subseteq Bitmap(m) \cup {Place(Bitmap(m))}
    /\ WE(m)[0].mod => Bitmap(d) = Bitmap(m)
    /\ Frame(m, d, Own(m))
    /\ Own(d) \subseteq Own(m)

\* Memory that becomes dirty stays good.
LEMMA DirtiedGood ==
    ASSUME NEW m, Good(m), NEW s, s = SetDirty(m)
    PROVE  /\ Good(s) /\ CE(s) = CE(m) /\ WE(s) = WE(m) /\ Bitmap(s) = Bitmap(m)
           /\ Own(s) = Own(m)
           /\ s.pool = m.pool /\ s.map = m.map /\ s.touched = m.touched /\ s.modified = TRUE
           /\ s.header.curr = m.header.curr /\ s.header.init = m.header.init
           /\ s.header.dirty = TRUE
           /\ Current(s) = Current(m) /\ Working(s) = Working(m)
  <1>1. /\ MemFields(s)
        /\ s.pool = m.pool /\ s.map = m.map /\ s.touched = m.touched /\ s.modified = TRUE
        /\ s.header.curr = m.header.curr /\ s.header.init = m.header.init
        /\ s.header.dirty = TRUE
        /\ Current(s) = Current(m) /\ Working(s) = Working(m)
    BY Dirtied DEF Good
  <1>2. m.map \subseteq 0 .. PageOf(MaxOid)
    BY DEF Good
  <1>3. m.map \subseteq s.map /\ s.map \subseteq 0 .. PageOf(MaxOid)
    BY <1>1, <1>2
  <1>4. /\ Good(s) /\ CE(s) = CE(m) /\ WE(s) = WE(m) /\ Bitmap(s) = Bitmap(m)
        /\ Own(s) = Own(m)
    BY ONLY Good(m), <1>1, <1>3, GoodSame
  <1> QED
    BY <1>1, <1>4

\* So does memory in which an operation gets a bitmap to change.
LEMMA Readying ==
    ASSUME NEW m, Good(m), Bitmap(m) # Places
    PROVE  Ready(m, CloneBitmap(SetDirty(m)))
  <1> DEFINE s == SetDirty(m)
             d == CloneBitmap(s)
  <1>1. /\ Good(s) /\ CE(s) = CE(m) /\ WE(s) = WE(m) /\ Bitmap(s) = Bitmap(m)
        /\ Own(s) = Own(m)
        /\ s.pool = m.pool /\ s.map = m.map /\ s.touched = m.touched /\ s.modified = TRUE
        /\ s.header.curr = m.header.curr /\ s.header.init = m.header.init
        /\ s.header.dirty = TRUE
        /\ Current(s) = Current(m) /\ Working(s) = Working(m)
    BY DirtiedGood
  <1>2. Owned(s, d)
    <2> HIDE DEF s
    <2> QED
      BY <1>1, Cloning
  <1> HIDE DEF s, d
  <1>3. d.header.dirty = TRUE /\ d.modified = TRUE
    BY <1>1, <1>2 DEF Owned
  <1>4. m.map \subseteq d.map
    BY <1>1, <1>2 DEF Owned
  <1>5. WE(m)[0].mod => Bitmap(d) = Bitmap(m)
    BY <1>1, <1>2 DEF Owned
  <1>6. Frame(m, d, Own(m)) /\ Own(d) \subseteq Own(m)
    BY <1>1, <1>2 DEF Owned, Frame
  <1>7. /\ Bitmap(m) \subseteq Bitmap(d)
        /\ Bitmap(d) \subseteq Bitmap(m) \cup {Place(Bitmap(m))}
    BY <1>1, <1>2 DEF Owned
  <1>8. /\ Good(d) /\ WE(d)[0].mod
        /\ \A q \in 1 .. Working(m).used - 1 : WE(d)[q] = WE(m)[q]
        /\ Current(d) = Current(m) /\ Working(d) = Working(m) /\ CE(d) = CE(m)
        /\ d.header.curr = m.header.curr /\ d.header.init = m.header.init
    BY <1>1, <1>2 DEF Owned
  <1>9. Ready(m, d)
    BY <1>3, <1>4, <1>5, <1>6, <1>7, <1>8 DEF Ready
  <1> QED
    BY <1>9 DEF d, s

\* The places an index is given are free, and there are as many as asked for.
LEMMA NewPlacesFacts ==
    ASSUME NEW m, NEW n \in Nat, NEW at \in NewPlaces(m, n),
           NEW used, used = Bitmap(CloneBitmap(SetDirty(m))), used \in SUBSET Places
    PROVE  /\ at \in Seq(Places) /\ Len(at) = n
           /\ IsInjective(at)
           /\ ToSet(at) \in SUBSET Places
           /\ ToSet(at) \cap used = {}
  <1> DEFINE before(i) == used \cup {at[j] : j \in 1 .. i - 1}
  <1>1. /\ at \in [1 .. n -> Places]
        /\ \A i \in 1 .. n : before(i) # Places /\ at[i] = Place(before(i))
    BY DEF NewPlaces
  <1>2. at \in Seq(Places) /\ Len(at) = n /\ DOMAIN at = 1 .. n
    BY <1>1
  <1>3. \A i \in 1 .. n : before(i) \in SUBSET Places
    BY <1>1
  <1>4. \A i \in 1 .. n : at[i] \notin before(i)
    <2> TAKE i \in 1 .. n
    <2> DEFINE b == before(i)
    <2>1. b \in SUBSET Places /\ b # Places /\ at[i] = Place(b)
      BY <1>1, <1>3
    <2> HIDE DEF b
    <2>2. at[i] \notin b
      BY <2>1, PlaceIsFree
    <2> QED
      BY <2>2 DEF b
  <1>5. \A i, j \in 1 .. n : j < i => at[j] # at[i]
    <2> TAKE i, j \in 1 .. n
    <2> HAVE j < i
    <2>1. at[j] \in before(i)
      OBVIOUS
    <2> QED
      BY <2>1, <1>4
  <1>6. IsInjective(at)
    <2>1. \A i, j \in 1 .. n : i = j \/ i < j \/ j < i
      OBVIOUS
    <2> QED
      BY <1>2, <1>5, <2>1 DEF IsInjective
  <1>7. ToSet(at) \in SUBSET Places
    BY <1>2, ToSetPlaces
  <1>8. ToSet(at) \cap used = {}
    BY <1>2, <1>4 DEF ToSet
  <1> QED
    BY <1>2, <1>6, <1>7, <1>8

\* The places are marked as used.
Taken(m, n, at, d, t) ==
    /\ Ready(m, d)
    /\ at \in Seq(Places) /\ Len(at) = n /\ IsInjective(at)
    /\ ToSet(at) \in SUBSET Places /\ ToSet(at) \cap Bitmap(d) = {}
    /\ Laid(t) /\ SameHeader(d, t)
    /\ Current(t) = Current(d) /\ Working(t) = Working(d)
    /\ CE(t) = CE(d) /\ WE(t) = WE(d)
    /\ Bitmap(t) = Bitmap(d) \cup ToSet(at)
    /\ Frame(d, t, {WE(d)[0].pos})

\* Places are taken, and nothing leads to them yet.
LEMMA Taking ==
    ASSUME NEW m, Good(m), Bitmap(m) # Places, NEW n \in Nat, NEW at \in NewPlaces(m, n),
           NEW d, d = CloneBitmap(SetDirty(m)), NEW t, t = Take(m, at)
    PROVE  Taken(m, n, at, d, t)
  <1>1. Ready(m, d)
    BY Readying
  <1>2. Good(d)
    BY <1>1 DEF Ready
  <1>3. Bitmap(d) \in SUBSET Places
    BY <1>2, GoodPlaces
  <1>4. /\ at \in Seq(Places) /\ Len(at) = n /\ IsInjective(at)
        /\ ToSet(at) \in SUBSET Places /\ ToSet(at) \cap Bitmap(d) = {}
    BY <1>3, NewPlacesFacts
  <1>5. t = SetBitmap(d, Bitmap(d) \cup ToSet(at))
    BY DEF Take
  <1> DEFINE u == Bitmap(d) \cup ToSet(at)
             x == WE(d)[0].pos
  <1>6. u \in SUBSET Places /\ t = SetBitmap(d, u)
    BY <1>3, <1>4, <1>5
  <1>7. x \in Places /\ x \notin CI(d) \cup WI(d) /\ x = WE(d)[0].pos /\ Laid(d)
    BY <1>2, GoodPlaces, GoodFacts
  <1> HIDE DEF u, x
  <1>8. /\ Laid(t) /\ SameHeader(d, t)
        /\ Current(t) = Current(d) /\ Working(t) = Working(d)
        /\ CE(t) = CE(d) /\ WE(t) = WE(d)
        /\ Bitmap(t) = u
        /\ Frame(d, t, {x})
    BY ONLY <1>6, <1>7, BitmapSet
  <1> QED
    BY <1>1, <1>4, <1>8 DEF u, x, Taken

-----------------------------------------------------------------------------
(* The index is moved to more pages.                                        *)

\* A copy of a page of an index is such a page.
LEMMA CopyTyped ==
    ASSUME NEW m, MemFields(m), \A p \in Places : PageType(m.pool[p]),
           NEW to \in Seq(Places), NEW from \in Seq(Places), NEW pages \in SUBSET Nat
    PROVE  \A p \in Places : PageType(CopyIndex(m, to, from, pages).pool[p])
  <1> DEFINE ps == {i \in pages : i < Len(to) /\ i < Len(from)}
  <1>1. \A p \in Places : CopyIndex(m, to, from, pages).pool[p] = CopiedPage(m, to, from, pages, p)
    BY CopyIndexPool
  <1>2. \A i \in ps : from[i + 1] \in Places
    BY IndexPlaces
  <1>3. \A p \in Places : PageType(CopiedPage(m, to, from, pages, p))
    <2> TAKE p \in Places
    <2>1. CASE \E i \in ps : to[i + 1] = p
      <3> DEFINE i == CHOOSE i \in ps : to[i + 1] = p
      <3>1. i \in ps
        BY <2>1
      <3>2. CopiedPage(m, to, from, pages, p) = m.pool[from[i + 1]]
        BY <2>1 DEF CopiedPage
      <3> HIDE DEF i, ps
      <3>3. from[i + 1] \in Places
        BY <1>2, <3>1
      <3> QED
        BY <3>2, <3>3
    <2>2. CASE ~ \E i \in ps : to[i + 1] = p
      BY <2>2 DEF CopiedPage
    <2> QED
      BY <2>1, <2>2
  <1> QED
    BY <1>1, <1>3

\* A root with a longer index has room for more.
LEMMA RoomyIndex ==
    ASSUME NEW r, RootFields(r), Roomy(r), NEW at \in Seq(Places), IsInjective(at),
           Len(at) = 2 * Len(r.index), NEW s, s = [r EXCEPT !.index = at]
    PROVE  /\ Roomy(s) /\ s.index = at /\ s.shadow = r.shadow /\ s.used = r.used
           /\ s.freeList = r.freeList /\ s.rootObject = r.rootObject /\ RootFields(s)
           /\ Len(r.index) \in Nat /\ Len(r.index) >= 1
  <1>1. RootFields(s)
    BY RootWithField
  <1>2. /\ s.index = at /\ s.shadow = r.shadow /\ s.used = r.used
        /\ s.freeList = r.freeList /\ s.rootObject = r.rootObject
    BY ONLY RootFields(r), s = [r EXCEPT !.index = at] DEF RootFields
  <1>3. /\ r.index \in Seq(Places) /\ r.used \in Nat /\ FirstUserId <= r.used
        /\ r.used <= HandlesPerPage * Len(r.index)
    BY RoomyFacts
  <1>4. HandlesPerPage \in Nat \ {0} /\ FirstUserId \in Nat /\ FirstUserId >= 1
    BY Sizes
  <1>5. Len(r.index) \in Nat /\ Len(at) \in Nat
    BY <1>3
  <1> DEFINE l == Len(r.index)
             h == HandlesPerPage
             k == Len(at)
             u == r.used
             f == FirstUserId
  <1>6. l \in Nat /\ h \in Nat /\ u \in Nat /\ f \in Nat /\ k = 2 * l /\ u <= h * l /\ f <= u /\ 1 <= f
    BY <1>3, <1>4, <1>5
  <1> HIDE DEF l, h, k, u, f
  <1>7. l >= 1
    <2>1. l = 0 => h * l = 0
      BY <1>6
    <2> QED
      BY <1>6, <2>1
  <1>8. h * k = h * l + h * l /\ h * l \in Nat
    BY <1>6
  <1>9. u <= h * k /\ h * k \in Nat
    BY <1>6, <1>8
  <1>10. s.used \in FirstUserId .. HandlesPerPage * Len(s.index)
    BY <1>2, <1>6, <1>9 DEF h, k, u, f
  <1>11. Roomy(s)
    BY <1>2, <1>10 DEF Roomy, Root
  <1> QED
    BY <1>1, <1>2, <1>5, <1>7, <1>11 DEF l

\* GrowIndex: the new pages have the entries, and the old ones are free.
Grew(m, g) ==
    /\ Good(g) /\ WE(g)[0].mod /\ CE(g) = CE(m) /\ Current(g) = Current(m)
    /\ Len(Working(g).index) = 2 * Len(Working(m).index)
    /\ Working(g).used = Working(m).used /\ Working(g).freeList = Working(m).freeList
    /\ Working(g).rootObject = Working(m).rootObject
    /\ g.header.curr = m.header.curr /\ g.header.init = m.header.init
    /\ g.header.dirty = TRUE /\ g.modified = TRUE
    /\ \A q \in 1 .. Working(m).used - 1 : WE(g)[q] = WE(m)[q]
    /\ Frame(m, g, Own(m)) /\ Own(g) \subseteq Own(m)
    /\ Working(m).index \in Seq(Places)

\* The working index grows, and memory stays good.
LEMMA Growing ==
    ASSUME NEW m, Good(m), Bitmap(m) # Places,
           NEW at \in NewPlaces(m, 2 * Len(Working(m).index)), NEW g, g = GrowIndex(m, at)
    PROVE  Grew(m, g)
  <1> DEFINE w == Working(m)
             old == w.index
             n == 2 * Len(old)
             d == CloneBitmap(SetDirty(m))
             t == Take(m, at)
             pages == 0 .. PagesOf(w.used) - 1
             c == CopyIndex(t, at, old, pages)
             r == [w EXCEPT !.index = at]
             l == WithWorking(c, r)
             x == WE(d)[0].pos
  <1>1. old \in Seq(Places) /\ Roomy(w) /\ RootFields(w) /\ n \in Nat
    BY GoodFacts, RoomyFacts, WorkingFields DEF Laid
  <1>2. /\ Ready(m, d)
        /\ at \in Seq(Places) /\ Len(at) = n /\ IsInjective(at)
        /\ ToSet(at) \in SUBSET Places /\ ToSet(at) \cap Bitmap(d) = {}
        /\ Laid(t) /\ SameHeader(d, t)
        /\ Current(t) = Current(d) /\ Working(t) = Working(d)
        /\ CE(t) = CE(d) /\ WE(t) = WE(d)
        /\ Bitmap(t) = Bitmap(d) \cup ToSet(at)
        /\ Frame(d, t, {x})
    <2>1. at \in NewPlaces(m, n) /\ n \in Nat /\ d = CloneBitmap(SetDirty(m)) /\ t = Take(m, at)
      BY <1>1
    <2>2. Good(m) /\ Bitmap(m) # Places
      OBVIOUS
    <2> HIDE DEF n, d, t
    <2>3. Taken(m, n, at, d, t)
      BY ONLY <2>1, <2>2, Taking
    <2> QED
      BY <2>3 DEF Taken
  <1>3. /\ Good(d) /\ WE(d)[0].mod
        /\ \A q \in 1 .. w.used - 1 : WE(d)[q] = WE(m)[q]
        /\ Current(d) = Current(m) /\ Working(d) = w /\ CE(d) = CE(m)
        /\ d.header.curr = m.header.curr /\ d.header.init = m.header.init
        /\ d.header.dirty = TRUE /\ d.modified = TRUE
        /\ Frame(m, d, Own(m)) /\ Own(d) \subseteq Own(m)
    BY <1>2 DEF Ready
  <1>4. g = Free(l, ToSet(old))
    <2>1. t.header = d.header /\ MemFields(t)
      BY <1>2 DEF SameHeader, Laid
    <2>2. pages \in SUBSET Nat
      OBVIOUS
    <2> HIDE DEF d, t, pages
    <2>8. old \in Seq(Places) /\ at \in Seq(Places)
      BY <1>1, <1>2
    <2>3. c.header = t.header /\ MemFields(c)
      <3> HIDE DEF old
      <3> QED
        BY ONLY <2>8, <2>1, <2>2, CopyIndexPages
    <2>4. c.header = d.header /\ d.header.curr = m.header.curr
      BY <1>3, <2>1, <2>3
    <2>5. Working(c) = w
      BY <1>3, <2>4 DEF Working
    <2>6. l = [c EXCEPT !.header.root[1 - m.header.curr].index = at]
      <3> HIDE DEF c
      <3>1. c.header.curr = m.header.curr
        BY <2>4
      <3>2. c.header.root[1 - m.header.curr] = w
        BY <2>5, <3>1 DEF Working
      <3> HIDE DEF w
      <3> QED
        BY ONLY <3>1, <3>2 DEF l, r, WithWorking
    <2> HIDE DEF l
    <2>7. g = Free([c EXCEPT !.header.root[1 - m.header.curr].index = at], ToSet(old))
      BY DEF GrowIndex, t, pages
    <2> QED
      BY <2>6, <2>7
  <1> HIDE DEF d, t, n
  <1>5. /\ MemFields(c) /\ c.header = t.header /\ c.map = t.map /\ c.modified = t.modified
        /\ c.touched \subseteq t.touched \cup ToSet(at)
        /\ \A p \in Places \ ToSet(at) : c.pool[p] = t.pool[p]
        /\ \A p \in Places : PageType(c.pool[p])
    <2>1. MemFields(t) /\ \A p \in Places : PageType(t.pool[p])
      BY <1>2 DEF Laid
    <2>2. pages \in SUBSET Nat
      OBVIOUS
    <2>3. old \in Seq(Places) /\ at \in Seq(Places)
      BY <1>1, <1>2
    <2> HIDE DEF pages, old
    <2>4. \A p \in Places : PageType(c.pool[p])
      BY ONLY <2>1, <2>2, <2>3, CopyTyped
    <2>5. MemFields(c) /\ c.header = t.header /\ c.map = t.map /\ c.modified = t.modified
      BY ONLY <2>1, <2>2, <2>3, CopyIndexPages
    <2>6. c.touched \subseteq t.touched \cup ToSet(at)
      BY ONLY <2>1, <2>2, <2>3, CopyIndexPages
    <2>7. \A p \in Places \ ToSet(at) : c.pool[p] = t.pool[p]
      BY ONLY <2>1, <2>2, <2>3, CopyIndexPages
    <2> QED
      BY <2>4, <2>5, <2>6, <2>7
  <1>6. \A q \in 0 .. w.used - 1 : Lookup(c.pool, at, q) = WE(d)[q]
    <2> TAKE q \in 0 .. w.used - 1
    <2>1. q \in Nat /\ PageOf(q) < Len(old) /\ q \in Ids /\ w.used \in Nat /\ q < w.used
      BY <1>1, RoomyFacts
    <2>2. PageOf(q) \in Nat /\ PageOf(q) < PagesOf(w.used) /\ PagesOf(w.used) \in Nat
      BY <2>1, PageAndSlot, PageBelow
    <2>3. PageOf(q) \in pages
      BY <2>2
    <2>4. PageOf(q) < Len(at)
      <3>1. Len(old) \in Nat
        BY <1>1
      <3> HIDE DEF old, w
      <3> QED
        BY <1>2, <2>1, <2>2, <3>1 DEF n
    <2>5. pages \in SUBSET Nat /\ MemFields(t)
      BY <1>2 DEF Laid
    <2> HIDE DEF pages, old, w
    <2>6. Lookup(c.pool, at, q) = Lookup(t.pool, old, q)
      BY <1>1, <1>2, <2>1, <2>3, <2>4, <2>5, CopyIndexLookup
    <2>7. Lookup(t.pool, old, q) = WE(t)[q]
      BY <2>1, <1>2, <1>3 DEF WE, Ent, old
    <2> QED
      BY <2>6, <2>7, <1>2
  <1> HIDE DEF c
  <1>7. /\ Roomy(r) /\ r.index = at /\ r.shadow = w.shadow /\ r.used = w.used
        /\ r.freeList = w.freeList /\ r.rootObject = w.rootObject /\ RootFields(r)
        /\ Len(old) \in Nat /\ Len(old) >= 1
    <2>1. Len(at) = 2 * Len(w.index)
      BY <1>2 DEF n
    <2>2. r = [w EXCEPT !.index = at]
      OBVIOUS
    <2> HIDE DEF w, r
    <2> QED
      BY ONLY <1>1, <1>2, <2>1, <2>2, RoomyIndex DEF old
  <1>8. /\ MemFields(l)
        /\ l.pool = c.pool /\ l.map = c.map /\ l.touched = c.touched
        /\ l.modified = c.modified
        /\ l.header.curr = c.header.curr /\ l.header.init = c.header.init
        /\ l.header.dirty = c.header.dirty
        /\ Current(l) = Current(c) /\ Working(l) = r
    <2>1. l = WithWorking(c, r)
      OBVIOUS
    <2> HIDE DEF l, r
    <2> QED
      BY ONLY <1>5, <1>7, <2>1, RootSet
  <1> HIDE DEF l, r
  <1>9. /\ Current(l) = Current(m) /\ l.map = d.map /\ l.modified = TRUE
        /\ l.header.curr = m.header.curr /\ l.header.init = m.header.init
        /\ l.header.dirty = TRUE
    BY <1>2, <1>3, <1>5, <1>8 DEF SameHeader, Current
  <1>10. /\ Bitmap(d) \in SUBSET Places /\ CI(d) \subseteq Bitmap(d) /\ WI(d) \subseteq Bitmap(d)
         /\ x \in Places /\ x \in Bitmap(d) /\ x \notin CI(d) \cup WI(d)
         /\ CE(d)[0].pos \in Places /\ CE(d)[0].pos \in Bitmap(d)
         /\ CI(d) \cap WI(d) = {} /\ WI(d) = ToSet(old) /\ CI(d) = CI(m)
    BY <1>3, GoodPlaces, GoodFacts DEF WI, CI
  <1>11. Laid(l) /\ CI(l) = CI(d) /\ WI(l) = ToSet(at)
    <2>1. Current(l).index \in Seq(Places)
      BY <1>3, <1>9, GoodFacts DEF Laid
    <2>2. CI(l) = CI(d) /\ WI(l) = ToSet(at)
      BY <1>3, <1>7, <1>8, <1>9 DEF CI, WI
    <2>3. CI(d) \cap ToSet(at) = {}
      BY <1>2, <1>10
    <2>4. \A p \in Places : PageType(l.pool[p])
      BY <1>5, <1>8
    <2> QED
      BY <1>2, <1>7, <1>8, <2>1, <2>2, <2>3, <2>4 DEF Laid, CI, WI
  <1>12. CE(l) = CE(d)
    <2>1. Current(d).index \in Seq(Places)
      BY <1>3, GoodFacts DEF Laid
    <2>2. \A p \in CI(d) : l.pool[p] = t.pool[p]
      BY <1>2, <1>5, <1>8, <1>10
    <2>3. Ent(l.pool, Current(d).index) = Ent(t.pool, Current(d).index)
      BY <2>1, <2>2, EntSame DEF CI
    <2> QED
      BY <2>3, <1>2, <1>3, <1>9 DEF CE
  <1>13. \A q \in 0 .. w.used - 1 : WE(l)[q] = WE(d)[q]
    <2> TAKE q \in 0 .. w.used - 1
    <2>1. q \in Ids
      BY <1>1, RoomyFacts
    <2>2. WE(l)[q] = Lookup(c.pool, at, q)
      BY <2>1, <1>7, <1>8 DEF WE, Ent
    <2> QED
      BY <2>2, <1>6
  <1>14. WE(l)[0] = WE(d)[0] /\ 0 \in 0 .. w.used - 1
    BY <1>13, GoodPlaces
  <1>15. x = WE(l)[0].pos /\ x \notin CI(l) \cup WI(l)
    BY <1>2, <1>10, <1>11, <1>14
  <1>16. Bitmap(l) = Bitmap(d) \cup ToSet(at)
    <2>1. l.pool[x] = t.pool[x]
      BY <1>5, <1>8, <1>10, <1>11, <1>15
    <2>2. Bitmap(t) = t.pool[x].used
      BY <1>2, BitmapLooked
    <2>3. Bitmap(l) = l.pool[x].used
      BY <1>15, BitmapLooked
    <2> QED
      BY <1>2, <2>1, <2>2, <2>3
  <1> DEFINE u == (Bitmap(d) \cup ToSet(at)) \ WI(d)
  <1>17. u \in SUBSET Places
    BY <1>2, <1>10
  <1>18. g = SetBitmap(l, u)
    <2>1. CloneBitmap(l) = l
      BY <1>3, <1>14, BitmapLooked DEF CloneBitmap
    <2> QED
      BY <1>4, <1>10, <1>16, <2>1 DEF Free
  <1> HIDE DEF u, x
  <1>19. /\ Laid(g) /\ SameHeader(l, g)
         /\ Current(g) = Current(l) /\ Working(g) = Working(l)
         /\ CE(g) = CE(l) /\ WE(g) = WE(l)
         /\ Bitmap(g) = u
         /\ Frame(l, g, {x})
    BY ONLY <1>10, <1>11, <1>15, <1>17, <1>18, BitmapSet
  <1>20. Frame(d, g, Own(d))
    <2>1. Frame(t, l, ToSet(at))
      BY <1>5, <1>8 DEF Frame
    <2>2. Frame(d, l, {x} \cup ToSet(at))
      BY <1>2, <2>1, FrameTwice
    <2>3. Frame(d, g, ({x} \cup ToSet(at)) \cup {x})
      BY <1>19, <2>2, FrameTwice
    <2>4. ({x} \cup ToSet(at)) \cup {x} \subseteq Own(d)
      BY <1>2, <1>3, <1>10 DEF Own, x
    <2> QED
      BY <2>3, <2>4, FrameMore
  <1>21. Frame(m, g, Own(m))
    BY <1>3, <1>20 DEF Frame
  <1>22. Own(g) \subseteq Own(m)
    <2>1. WI(g) = ToSet(at) /\ WE(g)[0].pos = x
      BY <1>11, <1>15, <1>19 DEF WI
    <2>2. Own(g) \subseteq ToSet(at) \cup (Places \ u) \cup {x}
      BY <2>1, <1>19 DEF Own
    <2>3. ToSet(at) \cup (Places \ u) \cup {x} \subseteq Own(d)
      BY <1>2, <1>3, <1>10 DEF Own, u, x
    <2> QED
      BY <1>3, <2>2, <2>3
  <1>23. g.pool[CE(d)[0].pos] = d.pool[CE(d)[0].pos]
    <2>1. CE(d)[0].pos \notin Own(d)
      <3>1. 0 \in 0 .. Current(d).used - 1
        BY <1>3, GoodPlaces
      <3> QED
        BY <1>3, <3>1, OwnApart
    <2> QED
      BY <2>1, <1>10, <1>20 DEF Frame
  <1>24. /\ g.map = d.map /\ g.map \subseteq 0 .. PageOf(MaxOid)
         /\ g.header.curr = m.header.curr /\ g.header.init = m.header.init
         /\ g.header.dirty = TRUE /\ g.modified = TRUE
    BY <1>3, <1>9, <1>19 DEF SameHeader, Good
  <1>25. Working(g) = r /\ Current(g) = Current(d) /\ CE(g) = CE(d)
    BY <1>3, <1>8, <1>9, <1>12, <1>19
  <1>26. Beside(CE(d), WE(g), Current(d).used, Working(g).used, CI(d), WI(g),
                Working(g).freeList, Bitmap(g), g.map)
    <2> DEFINE ce == CE(d)
               we == WE(d)
               we2 == WE(g)
               cn == Current(d).used
               wn == w.used
               ci == CI(d)
               wi == WI(d)
               wi2 == ToSet(at)
               fr == w.freeList
               used == Bitmap(d)
               used2 == Bitmap(g)
               ms == d.map
    <2>1. /\ cn \in Nat /\ wn \in Nat /\ ci \in SUBSET Places /\ wi \in SUBSET Places
          /\ wi2 \in SUBSET Places /\ used \in SUBSET Places
          /\ Beside(ce, we, cn, wn, ci, wi, fr, used, ms) /\ cn <= wn /\ FirstUserId <= cn
      BY <1>2, <1>3, <1>10, GoodFacts
    <2>2. \A q \in 0 .. wn - 1 : we2[q] = we[q]
      BY <1>13, <1>19
    <2>3. wi2 \cap used = {} /\ wi \cap ci = {} /\ used2 = (used \cup wi2) \ wi
      BY <1>2, <1>10, <1>19 DEF u
    <2> HIDE DEF ce, we, we2, cn, wn, ci, wi, wi2, fr, used, used2, ms
    <2>4. Beside(ce, we2, cn, wn, ci, wi2, fr, used2, ms)
      BY ONLY <2>1, <2>2, <2>3, MoveIndex
    <2>5. WI(g) = ToSet(at) /\ Working(g).used = w.used /\ Working(g).freeList = w.freeList
      BY <1>7, <1>25 DEF WI
    <2> QED
      BY <2>4, <2>5, <1>24 DEF ce, we, we2, cn, wn, ci, wi, wi2, fr, used, used2, ms
  <1>27. Len(Working(g).index) > Len(Current(d).index)
    <2>1. Len(Current(d).index) \in Nat
      BY <1>3, GoodFacts DEF Laid
    <2>2. Len(old) >= Len(Current(d).index)
      <3>1. Len(Current(d).shadow) = Len(Current(d).index)
        BY <1>3, WholeFacts DEF Good
      <3>2. w.index = Current(d).shadow \/ Len(w.index) > Len(Current(d).index)
        BY <1>3, GoodFacts
      <3> QED
        BY <2>1, <1>7, <3>1, <3>2
    <2>3. Len(Working(g).index) = 2 * Len(old)
      BY <1>2, <1>7, <1>25 DEF n
    <2> HIDE DEF old
    <2> QED
      BY <1>7, <2>1, <2>2, <2>3
  <1>28. Roomy(Working(g)) /\ Current(d).used <= Working(g).used
         /\ Working(g).shadow = Current(d).index
    BY <1>3, <1>7, <1>25, GoodFacts
  <1>29. WE(g)[0].mod
    BY <1>3, <1>14, <1>19
  <1>30. Good(g)
    BY ONLY <1>3, <1>19, <1>23, <1>24, <1>25, <1>26, <1>27, <1>28, <1>29, GoodMade
  <1>31. \A q \in 1 .. w.used - 1 : WE(g)[q] = WE(m)[q]
    <2>1. \A q \in 1 .. w.used - 1 : q \in 0 .. w.used - 1
      OBVIOUS
    <2> QED
      BY ONLY <2>1, <1>3, <1>13, <1>19
  <1>32. Len(Working(g).index) = 2 * Len(old)
    BY <1>2, <1>7, <1>25 DEF n
  <1> QED
    BY <1>1, <1>3, <1>7, <1>21, <1>22, <1>24, <1>25, <1>29, <1>30, <1>31, <1>32 DEF Grew

-----------------------------------------------------------------------------
(* storeObject().                                                           *)

\* Room in the file, before and after one more place is taken.
LEMMA RoomLeft ==
    ASSUME NEW used \in SUBSET Places
    PROVE  /\ Cardinality(Places \ used) >= 1 => used # Places
           /\ Cardinality(Places \ used) >= 2 => \A x : used \cup {x} # Places
           /\ Cardinality(Places \ used) \in Nat
  <1> DEFINE S == Places \ used
  <1>1. IsFiniteSet(Places)
    BY Layout
  <1>2. IsFiniteSet(S)
    BY <1>1, FS_Difference
  <1>3. Cardinality(S) \in Nat
    BY <1>2, FS_CardinalityType
  <1>4. used = Places => S = {}
    OBVIOUS
  <1>5. S = {} => Cardinality(S) = 0
    BY FS_EmptySet
  <1>6. ASSUME NEW x, used \cup {x} = Places PROVE Cardinality(S) <= 1
    <2>1. S \subseteq {x}
      BY <1>6
    <2>2. Cardinality({x}) = 1 /\ IsFiniteSet({x})
      BY FS_Singleton
    <2> QED
      BY ONLY <2>1, <2>2, FS_Subset
  <1> HIDE DEF S
  <1>7. Cardinality(S) >= 1 => used # Places
    BY ONLY <1>3, <1>4, <1>5
  <1>8. Cardinality(S) >= 2 => \A x : used \cup {x} # Places
    <2> SUFFICES ASSUME Cardinality(S) >= 2, NEW x, used \cup {x} = Places
                 PROVE  FALSE
      OBVIOUS
    <2>1. Cardinality(S) <= 1
      BY <1>6
    <2> QED
      BY ONLY <1>3, <2>1, Cardinality(S) >= 2
  <1> QED
    BY <1>3, <1>7, <1>8 DEF S

\* The steps of the code in the order they are taken are Moved.
LEMMA MovedIs ==
    ASSUME NEW d, Good(d), WE(d)[0].mod, Bitmap(d) # Places,
           NEW o \in 0 .. Working(d).used - 1, NEW b,
           NEW a, a = SetBitmap(d, Bitmap(d) \cup {Place(Bitmap(d))}),
           NEW f, f = IF WE(d)[o].mod THEN Free(a, {WE(d)[o].pos}) ELSE a,
           NEW s, s = SetPos(f, o, At(Place(Bitmap(d)), TRUE))
    PROVE  Write(s, GetPos(s, o).pos, ObjectPage(b)) = Moved(d, o, b)
  <1> DEFINE used == Bitmap(d)
             p == Place(used)
             x == WE(d)[0].pos
             u == used \cup {p}
             v == u \ {WE(d)[o].pos}
  <1>1. used \in SUBSET Places /\ p \in Places /\ p \notin used
    BY GoodPlaces, PlaceIsFree
  <1>2. u \in SUBSET Places /\ v \in SUBSET Places
    BY <1>1
  <1>3. Laid(d) /\ x = WE(d)[0].pos /\ x \in Places /\ x \notin CI(d) \cup WI(d) /\ Roomy(Working(d))
    BY GoodPlaces, GoodFacts
  <1>4. a = SetBitmap(d, u)
    OBVIOUS
  <1> HIDE DEF x, u
  <1>5. /\ Laid(a) /\ SameHeader(d, a)
        /\ Current(a) = Current(d) /\ Working(a) = Working(d)
        /\ CE(a) = CE(d) /\ WE(a) = WE(d) /\ Bitmap(a) = u
    BY ONLY <1>2, <1>3, <1>4, BitmapSet
  <1>6. CloneBitmap(a) = a
    BY <1>5, BitmapLooked DEF CloneBitmap
  <1>7. Free(a, {WE(d)[o].pos}) = SetBitmap(a, v)
    BY <1>5, <1>6 DEF Free
  <1>8. f = IF WE(d)[o].mod THEN SetBitmap(a, v) ELSE a
    BY <1>7
  <1>9. Laid(f) /\ Working(f) = Working(d)
    <2>1. x = WE(a)[0].pos /\ x \notin CI(a) \cup WI(a)
      BY <1>3, <1>5 DEF CI, WI
    <2> DEFINE y == SetBitmap(a, v)
    <2>2. y = SetBitmap(a, v)
      OBVIOUS
    <2> HIDE DEF y, v
    <2>3. Laid(y) /\ Working(y) = Working(a)
      BY ONLY <1>2, <1>3, <1>5, <2>1, <2>2, BitmapSet
    <2> QED
      BY <1>5, <1>8, <2>3 DEF y
  <1> DEFINE e == At(p, TRUE)
  <1>10. e \in Entry /\ e.pos = p
    BY <1>1, EntryFields
  <1>11. o \in Ids /\ PageOf(o) < Len(Working(f).index)
    BY <1>3, <1>9, RoomyFacts
  <1>12. s = SetPos(f, o, e)
    OBVIOUS
  <1> HIDE DEF e
  <1>13. WE(s)[o] = e
    BY ONLY <1>9, <1>10, <1>11, <1>12, EntrySet
  <1>14. GetPos(s, o).pos = p
    BY <1>10, <1>11, <1>13, Looked
  <1>15. Moved(d, o, b) = Write(s, p, ObjectPage(b))
    <2>1. f = IF WE(d)[o].mod THEN SetBitmap(a, Bitmap(a) \ {WE(d)[o].pos}) ELSE a
      BY <1>5, <1>8
    <2>2. s = SetPos(f, o, At(p, TRUE))
      OBVIOUS
    <2>3. a = SetBitmap(d, used \cup {p})
      OBVIOUS
    <2> QED
      BY ONLY <2>1, <2>2, <2>3 DEF Moved
  <1> QED
    BY <1>14, <1>15

\* A version that this transaction stored is replaced where it is.
LEMMA Replacing ==
    ASSUME NEW m, Good(m), NEW o \in 0 .. Working(m).used - 1, o >= FirstUserId,
           WE(m)[o].mod, NEW b \in Bodies,
           NEW n, n = Write(m, WE(m)[o].pos, ObjectPage(b))
    PROVE  /\ Good(n) /\ SameHeader(m, n)
           /\ Current(n) = Current(m) /\ Working(n) = Working(m)
           /\ CE(n) = CE(m) /\ WE(n) = WE(m)
           /\ WE(n)[o].pos \in Places /\ ~WE(n)[o].free
           /\ n.pool[WE(n)[o].pos].refs = b
           /\ Frame(m, n, {WE(m)[o].pos})
           /\ \A q \in 0 .. Current(m).used - 1 : CE(m)[q].pos # WE(m)[o].pos
           /\ \A q \in 0 .. Working(m).used - 1 : q # o => WE(m)[q].pos # WE(m)[o].pos
           /\ WE(m)[o].pos \notin CI(m) \cup WI(m)
  <1> DEFINE p == WE(m)[o].pos
             page == ObjectPage(b)
  <1>1. /\ Laid(m) /\ Formed(WE(m), Working(m).used) /\ FirstUserId <= Working(m).used
        /\ Working(m).used \in Nat
        /\ Apart(CE(m), WE(m), Current(m).used, Working(m).used, CI(m), WI(m))
        /\ Beside(CE(m), WE(m), Current(m).used, Working(m).used, CI(m), WI(m),
                  Working(m).freeList, Bitmap(m), m.map)
    BY GoodFacts, RoomyFacts DEF Beside
  <1>2. p # NoPlace /\ ~WE(m)[o].free
    BY <1>1 DEF Formed
  <1>3. p \in Places
    BY <1>1, <1>2, EntryPlaces
  <1>4. p \notin CI(m) \cup WI(m)
    BY GoodPlaces
  <1>5. \A q \in 0 .. Current(m).used - 1 : CE(m)[q].pos # p
    BY <1>1 DEF Apart
  <1>6. \A q \in 0 .. Working(m).used - 1 : q # o => WE(m)[q].pos # p
    BY <1>1, <1>2 DEF Formed
  <1>7. PageType(page) /\ page.refs = b
    BY ObjectPageTyped
  <1>8. n = Write(m, p, page)
    OBVIOUS
  <1> HIDE DEF p, page
  <1>9. /\ Laid(n) /\ SameHeader(m, n)
        /\ Current(n) = Current(m) /\ Working(n) = Working(m)
        /\ CE(n) = CE(m) /\ WE(n) = WE(m)
        /\ n.pool[p] = page
        /\ Frame(m, n, {p})
    BY ONLY <1>1, <1>3, <1>4, <1>7, <1>8, PageWritten
  <1>10. /\ 0 \in 0 .. Working(m).used - 1 /\ 0 \in 0 .. Current(m).used - 1 /\ o # 0
         /\ WE(m)[0].pos \in Places /\ CE(m)[0].pos \in Places
    BY GoodPlaces, Sizes
  <1>11. Bitmap(n) = Bitmap(m)
    <2>1. WE(m)[0].pos # p
      BY <1>6, <1>10
    <2>2. n.pool[WE(m)[0].pos] = m.pool[WE(m)[0].pos]
      BY <2>1, <1>9, <1>10 DEF Frame
    <2> QED
      BY <2>2, <1>9, BitmapLooked
  <1>12. n.pool[CE(m)[0].pos] = m.pool[CE(m)[0].pos]
    <2>1. CE(m)[0].pos # p
      BY <1>5, <1>10
    <2> QED
      BY <2>1, <1>9, <1>10 DEF Frame
  <1>13. Good(n)
    <2>1. n.map = m.map /\ n.map \subseteq 0 .. PageOf(MaxOid)
      BY <1>9 DEF SameHeader, Good
    <2>2. /\ Roomy(Working(n)) /\ Current(m).used <= Working(n).used
          /\ Working(n).shadow = Current(m).index /\ WI(n) = WI(m)
      BY <1>9, GoodFacts DEF WI
    <2>3. Beside(CE(m), WE(n), Current(m).used, Working(n).used, CI(m), WI(n),
                 Working(n).freeList, Bitmap(n), n.map)
      BY ONLY <1>1, <1>9, <1>11, <2>1, <2>2
    <2>4. Working(n).index = Working(m).index /\ (WE(m)[0].mod => WE(n)[0].mod)
      BY <1>9
    <2>5. Good(m)
      OBVIOUS
    <2> QED
      BY ONLY <2>5, <1>9, <1>12, <2>1, <2>2, <2>3, <2>4, GoodMade
  <1>14. WE(n)[o].pos = p
    BY <1>9 DEF p
  <1> QED
    BY <1>2, <1>3, <1>4, <1>5, <1>6, <1>7, <1>9, <1>13, <1>14 DEF p

\* What is left of memory when the entries of G were changed: the committed
\* state, the other entries and what they lead to.
Kept(m, n, G) ==
    /\ Good(n)
    /\ Current(n) = Current(m) /\ CE(n) = CE(m)
    /\ n.header.curr = m.header.curr /\ n.header.init = m.header.init
    /\ Frame(m, n, Places \ (CI(m) \cup Spots(CE(m), Current(m).used)))
    /\ \A q \in 1 .. Working(m).used - 1 : q \notin G =>
          /\ WE(n)[q] = WE(m)[q]
          /\ WE(m)[q].pos # NoPlace => n.pool[WE(m)[q].pos] = m.pool[WE(m)[q].pos]

\* An operation that writes pages of its own keeps the committed state.
LEMMA KeptByOwn ==
    ASSUME NEW m, Good(m), NEW n, Good(n), Current(n) = Current(m), CE(n) = CE(m),
           n.header.curr = m.header.curr, n.header.init = m.header.init,
           Frame(m, n, Own(m)), NEW G,
           \A q \in 1 .. Working(m).used - 1 : q \notin G => WE(n)[q] = WE(m)[q]
    PROVE  Kept(m, n, G)
  <1>1. /\ Own(m) \in SUBSET Places
        /\ \A p \in CI(m) : p \notin Own(m)
        /\ \A q \in 0 .. Current(m).used - 1 : CE(m)[q].pos \notin Own(m)
        /\ \A q \in 1 .. Working(m).used - 1 : WE(m)[q].pos \notin Own(m)
    BY OwnApart
  <1>2. Own(m) \subseteq Places \ (CI(m) \cup Spots(CE(m), Current(m).used))
    BY <1>1 DEF Spots
  <1>3. Frame(m, n, Places \ (CI(m) \cup Spots(CE(m), Current(m).used)))
    BY <1>2, FrameMore
  <1>4. \A q \in 1 .. Working(m).used - 1 : WE(m)[q].pos # NoPlace => WE(m)[q].pos \in Places
    <2>1. \A q \in 1 .. Working(m).used - 1 : q \in 0 .. Working(m).used - 1
      OBVIOUS
    <2>2. Formed(WE(m), Working(m).used) /\ Working(m).used \in Nat /\ FirstUserId <= Working(m).used
      BY GoodPlaces, GoodFacts, RoomyFacts
    <2> QED
      BY <2>1, <2>2, EntryPlaces
  <1>5. \A q \in 1 .. Working(m).used - 1 :
           WE(m)[q].pos # NoPlace => n.pool[WE(m)[q].pos] = m.pool[WE(m)[q].pos]
    BY <1>1, <1>4 DEF Frame
  <1> QED
    BY <1>3, <1>5 DEF Kept

\* Where storeObject() leaves memory.
StoreIn(m, o, b) ==
    LET e == GetPos(m, o)
        moves == e.pos = NoPlace \/ ~e.mod
                    \/ Cardinality(m.pool[e.pos].refs) # Cardinality(b)
        c == IF e.pos # NoPlace /\ ~e.mod THEN CloneBitmap(Mark(m, o)) ELSE m
        a == Allocate(c)
        f == IF e.pos # NoPlace /\ e.mod THEN Free(a, {e.pos}) ELSE a
        s == IF moves THEN SetPos(f, o, At(Allocated(c), TRUE)) ELSE m
    IN  Write(s, GetPos(s, o).pos, ObjectPage(b))

\* The object is stored as b, and nothing else was changed.
IsStored(m, n, o, b) ==
    /\ Kept(m, n, {o})
    /\ Working(n) = Working(m)
    /\ n.header.dirty = TRUE /\ n.modified = TRUE
    /\ WE(n)[o].pos \in Places /\ ~WE(n)[o].free
    /\ n.pool[WE(n)[o].pos].refs = b

\* Working entries of its own make the transaction a modified one.
Busy(m) == \A q \in 0 .. Working(m).used - 1 :
              WE(m)[q].mod => m.header.dirty = TRUE /\ m.modified = TRUE

\* What follows once the bitmap is ready to be changed.
LEMMA StoringFrom ==
    ASSUME NEW m, Good(m), NEW c, Good(c), NEW d, Ready(c, d),
           Current(c) = Current(m), Working(c) = Working(m), CE(c) = CE(m),
           c.header.curr = m.header.curr, c.header.init = m.header.init,
           \A q \in 1 .. Working(m).used - 1 : WE(c)[q] = WE(m)[q],
           Frame(m, c, Own(m)), Own(c) \subseteq Own(m),
           Bitmap(d) # Places,
           NEW o \in 0 .. Working(m).used - 1, o >= FirstUserId, ~WE(m)[o].free,
           PageOf(o) \in c.map \/ o >= Current(m).used,
           NEW b \in Bodies, NEW n, n = Moved(d, o, b)
    PROVE  IsStored(m, n, o, b)
  <1>1. /\ Good(d) /\ WE(d)[0].mod
        /\ \A q \in 1 .. Working(c).used - 1 : WE(d)[q] = WE(c)[q]
        /\ Current(d) = Current(c) /\ Working(d) = Working(c) /\ CE(d) = CE(c)
        /\ d.header.curr = c.header.curr /\ d.header.init = c.header.init
        /\ d.header.dirty = TRUE /\ d.modified = TRUE
        /\ c.map \subseteq d.map
        /\ Frame(c, d, Own(c)) /\ Own(d) \subseteq Own(c)
    BY DEF Ready
  <1>2. o \in 1 .. Working(m).used - 1 /\ Working(m).used \in Nat
    <2>1. Working(m).used \in Nat
      BY GoodFacts
    <2> QED
      BY <2>1, Sizes
  <1>3. \A q \in 1 .. Working(m).used - 1 : WE(d)[q] = WE(m)[q]
    BY <1>1
  <1>4. /\ ~WE(d)[o].free /\ o \in 0 .. Working(d).used - 1
        /\ PageOf(o) \in d.map \/ o >= Current(d).used
    BY <1>1, <1>2, <1>3
  <1>5. /\ Good(n) /\ SameHeader(d, n) /\ WE(n)[0].mod
        /\ Current(n) = Current(d) /\ Working(n) = Working(d) /\ CE(n) = CE(d)
        /\ WE(n)[o].pos \in Places /\ ~WE(n)[o].free
        /\ n.pool[WE(n)[o].pos].refs = b
        /\ \A q \in Ids : q # o => WE(n)[q] = WE(d)[q]
        /\ Frame(d, n, Own(d))
    BY <1>1, <1>4, Moving
  <1>6. Frame(m, n, Own(m))
    <2>1. Frame(m, d, Own(m) \cup Own(c))
      BY <1>1, FrameTwice
    <2>2. Frame(m, n, (Own(m) \cup Own(c)) \cup Own(d))
      BY <1>5, <2>1, FrameTwice
    <2>3. (Own(m) \cup Own(c)) \cup Own(d) \subseteq Own(m)
      BY <1>1
    <2> QED
      BY <2>2, <2>3, FrameMore
  <1>7. \A q \in 1 .. Working(m).used - 1 : q \notin {o} => WE(n)[q] = WE(m)[q]
    <2>1. \A q \in 1 .. Working(m).used - 1 : q \in Ids
      <3>1. Roomy(Working(m))
        BY GoodFacts
      <3>2. \A q \in 0 .. Working(m).used - 1 : q \in Ids
        BY <3>1, RoomyFacts
      <3>3. \A q \in 1 .. Working(m).used - 1 : q \in 0 .. Working(m).used - 1
        OBVIOUS
      <3> QED
        BY ONLY <3>2, <3>3
    <2> QED
      BY <1>3, <1>5, <2>1
  <1>8. /\ n.header.curr = m.header.curr /\ n.header.init = m.header.init
        /\ n.header.dirty = TRUE /\ n.modified = TRUE
    BY <1>1, <1>5 DEF SameHeader
  <1>9. Kept(m, n, {o})
    <2> DEFINE G == {o}
    <2>1. \A q \in 1 .. Working(m).used - 1 : q \notin G => WE(n)[q] = WE(m)[q]
      BY <1>7
    <2>2. Good(m) /\ Good(n) /\ Current(n) = Current(m) /\ CE(n) = CE(m)
      BY <1>1, <1>5
    <2> HIDE DEF G
    <2>3. Kept(m, n, G)
      BY ONLY <2>1, <2>2, <1>6, <1>8, KeptByOwn
    <2> QED
      BY <2>3 DEF G
  <1> QED
    BY <1>1, <1>5, <1>8, <1>9 DEF IsStored

\* The object is stored elsewhere, with the bitmap as it is.
LEMMA StoringAt ==
    ASSUME NEW m, Good(m), NEW c, Good(c), Bitmap(c) # Places,
           Current(c) = Current(m), Working(c) = Working(m), CE(c) = CE(m),
           c.header.curr = m.header.curr, c.header.init = m.header.init,
           \A q \in 1 .. Working(m).used - 1 : WE(c)[q] = WE(m)[q],
           Frame(m, c, Own(m)), Own(c) \subseteq Own(m),
           \A x : Bitmap(c) \cup {x} # Places \/ WE(c)[0].mod,
           NEW o \in 0 .. Working(m).used - 1, o >= FirstUserId, ~WE(m)[o].free,
           PageOf(o) \in c.map \/ o >= Current(m).used,
           NEW b \in Bodies,
           NEW f, f = IF WE(m)[o].mod THEN Free(Allocate(c), {WE(m)[o].pos}) ELSE Allocate(c),
           NEW s, s = SetPos(f, o, At(Allocated(c), TRUE)),
           NEW n, n = Write(s, GetPos(s, o).pos, ObjectPage(b))
    PROVE  IsStored(m, n, o, b)
  <1> DEFINE d == CloneBitmap(SetDirty(c))
             a == Allocate(c)
  <1>1. Ready(c, d)
    BY Readying
  <1>2. a = SetBitmap(d, Bitmap(d) \cup {Place(Bitmap(d))}) /\ Allocated(c) = Place(Bitmap(d))
    BY DEF Allocate, Allocated
  <1> HIDE DEF d, a
  <1>3. Bitmap(d) # Places
    <2>1. WE(c)[0].mod => Bitmap(d) = Bitmap(c)
      BY <1>1 DEF Ready
    <2>2. /\ Bitmap(c) \subseteq Bitmap(d)
          /\ Bitmap(d) \subseteq Bitmap(c) \cup {Place(Bitmap(c))}
      BY <1>1 DEF Ready
    <2>3. Bitmap(c) \in SUBSET Places /\ Bitmap(d) \in SUBSET Places
      BY <1>1, GoodPlaces DEF Ready
    <2> DEFINE p == Place(Bitmap(c))
    <2>4. p \in Places
      BY <2>3, PlaceIsFree
    <2>5. Bitmap(c) \cup {p} # Places \/ WE(c)[0].mod
      OBVIOUS
    <2> HIDE DEF p
    <2>6. Bitmap(d) \subseteq Bitmap(c) \cup {p}
      BY <2>2 DEF p
    <2> QED
      BY ONLY <2>1, <2>3, <2>4, <2>5, <2>6, Bitmap(c) # Places
  <1>4. /\ Good(d) /\ WE(d)[0].mod
        /\ \A q \in 1 .. Working(c).used - 1 : WE(d)[q] = WE(c)[q]
        /\ Working(d) = Working(c)
    BY <1>1 DEF Ready
  <1>5. o \in 1 .. Working(m).used - 1
    <2>1. Working(m).used \in Nat
      BY GoodFacts
    <2> QED
      BY <2>1, Sizes
  <1>6. WE(d)[o] = WE(m)[o] /\ o \in 0 .. Working(d).used - 1
    BY <1>4, <1>5
  <1>7. f = IF WE(d)[o].mod THEN Free(a, {WE(d)[o].pos}) ELSE a
    BY <1>6 DEF a
  <1>8. s = SetPos(f, o, At(Place(Bitmap(d)), TRUE))
    BY <1>2
  <1>9. n = Moved(d, o, b)
    BY ONLY <1>2, <1>3, <1>4, <1>6, <1>7, <1>8, n = Write(s, GetPos(s, o).pos, ObjectPage(b)),
            MovedIs
  <1> QED
    BY <1>1, <1>3, <1>9, StoringFrom

\* storeObject() stores, and keeps all else.
LEMMA Storing ==
    ASSUME NEW m, Good(m), Busy(m), NEW o \in Users, o < Working(m).used, ~WE(m)[o].free,
           Cardinality(Places \ Bitmap(m)) >= 2, NEW b \in Bodies,
           NEW n, n = StoreIn(m, o, b)
    PROVE  IsStored(m, n, o, b)
  <1> DEFINE e == WE(m)[o]
             w == Working(m)
  <1>1. /\ Laid(m) /\ Roomy(w) /\ w.used \in Nat /\ MemFields(m)
        /\ Current(m).used \in Nat /\ Current(m).used <= w.used
        /\ Fixed(CE(m), Current(m).used)
        /\ Formed(WE(m), w.used)
        /\ Marked(CE(m), WE(m), Current(m).used, w.used, m.map)
        /\ Bitmap(m) \in SUBSET Places
    BY GoodFacts, GoodPlaces DEF Good, Beside
  <1>2. /\ o \in Nat /\ o >= FirstUserId /\ o \in 0 .. w.used - 1 /\ o \in 1 .. w.used - 1 /\ o \in Ids
    <2>1. o \in Nat /\ o >= FirstUserId /\ 1 <= o /\ o < w.used /\ o <= MaxOid
      BY Sizes DEF Users
    <2> HIDE DEF w
    <2> QED
      BY <2>1, <1>1, Sizes DEF Ids
  <1>3. GetPos(m, o) = e
    BY <1>2, Looked
  <1>4. /\ Bitmap(m) # Places /\ \A x : Bitmap(m) \cup {x} # Places
    <2>1. Cardinality(Places \ Bitmap(m)) \in Nat
      BY <1>1, RoomLeft
    <2>2. Cardinality(Places \ Bitmap(m)) >= 1
      BY <2>1
    <2> QED
      BY <1>1, <2>2, RoomLeft
  <1>5. Frame(m, m, Own(m))
    BY DEF Frame
  <1> HIDE DEF e
  <1>6. CASE e.pos = NoPlace
    <2>1. ~e.mod /\ ~WE(m)[o].mod
      BY <1>1, <1>2, <1>6 DEF Formed, e
    <2> DEFINE s == SetPos(Allocate(m), o, At(Allocated(m), TRUE))
    <2>2. n = Write(s, GetPos(s, o).pos, ObjectPage(b))
      BY <1>3, <1>6 DEF StoreIn
    <2>3. PageOf(o) \in m.map \/ o >= Current(m).used
      <3>1. SUFFICES ASSUME o < Current(m).used PROVE PageOf(o) \in m.map
        BY <1>1, <1>2
      <3>2. o \in 0 .. Current(m).used - 1
        BY <1>1, <1>2, <3>1
      <3>3. CE(m)[o].free \/ CE(m)[o].pos # NoPlace
        BY <1>1, <3>2 DEF Fixed
      <3>4. WE(m)[o] # CE(m)[o]
        BY <3>3, <1>6 DEF e
      <3> QED
        BY <1>1, <3>2, <3>4 DEF Marked
    <2>4. Allocate(m) = IF WE(m)[o].mod THEN Free(Allocate(m), {WE(m)[o].pos}) ELSE Allocate(m)
      BY <2>1
    <2> DEFINE f == Allocate(m)
    <2>5. s = SetPos(f, o, At(Allocated(m), TRUE))
      OBVIOUS
    <2> HIDE DEF s, f
    <2>6. f = IF WE(m)[o].mod THEN Free(Allocate(m), {WE(m)[o].pos}) ELSE Allocate(m)
      BY <2>4 DEF f
    <2> QED
      BY <1>2, <1>4, <1>5, <2>2, <2>3, <2>5, <2>6, StoringAt
  <1>7. CASE e.pos # NoPlace /\ ~e.mod
    <2> DEFINE k == Mark(m, o)
               c == CloneBitmap(k)
               f == Allocate(c)
               s == SetPos(f, o, At(Allocated(c), TRUE))
    <2>1. n = Write(s, GetPos(s, o).pos, ObjectPage(b))
      BY <1>3, <1>7 DEF StoreIn
    <2>2. /\ MemFields(k)
          /\ k.header = m.header /\ k.pool = m.pool /\ k.touched = m.touched
          /\ k.modified = m.modified /\ k.map = m.map \cup {PageOf(o)}
          /\ Current(k) = Current(m) /\ Working(k) = Working(m)
      BY <1>1, MarkedPage
    <2>3. m.map \subseteq k.map /\ k.map \subseteq 0 .. PageOf(MaxOid)
      BY <1>2, <2>2, FirstPageMarks DEF Good
    <2> HIDE DEF k
    <2>4. /\ Good(k) /\ CE(k) = CE(m) /\ WE(k) = WE(m) /\ Bitmap(k) = Bitmap(m)
          /\ Own(k) = Own(m)
      BY ONLY Good(m), <2>2, <2>3, GoodSame
    <2>5. Owned(k, c)
      <3>1. Bitmap(k) # Places
        BY <1>4, <2>4
      <3> QED
        BY <2>4, <3>1, Cloning
    <2> HIDE DEF c, f, s
    <2>6. /\ Good(c) /\ WE(c)[0].mod
          /\ \A q \in 1 .. Working(m).used - 1 : WE(c)[q] = WE(m)[q]
          /\ Current(c) = Current(m) /\ Working(c) = Working(m) /\ CE(c) = CE(m)
          /\ c.header.curr = m.header.curr /\ c.header.init = m.header.init
          /\ PageOf(o) \in c.map
          /\ Bitmap(m) \subseteq Bitmap(c)
          /\ Bitmap(c) \subseteq Bitmap(m) \cup {Place(Bitmap(m))}
          /\ Own(c) \subseteq Own(m)
      BY <2>2, <2>4, <2>5 DEF Owned
    <2>7. Frame(m, c, Own(m))
      <3>1. Frame(k, c, Own(m))
        BY <2>4, <2>5 DEF Owned
      <3> QED
        BY <2>2, <3>1 DEF Frame
    <2>8. Bitmap(c) # Places
      <3> DEFINE p == Place(Bitmap(m))
      <3>1. Bitmap(m) \cup {p} # Places /\ p \in Places
        BY <1>1, <1>4, PlaceIsFree
      <3>2. Bitmap(m) \subseteq Bitmap(c) /\ Bitmap(c) \subseteq Bitmap(m) \cup {p}
        BY <2>6
      <3> HIDE DEF p
      <3> QED
        BY ONLY <1>1, <3>1, <3>2
    <2>9. ~WE(m)[o].mod
      BY <1>7 DEF e
    <2>10. f = IF WE(m)[o].mod THEN Free(Allocate(c), {WE(m)[o].pos}) ELSE Allocate(c)
      BY <2>9 DEF f
    <2>11. s = SetPos(f, o, At(Allocated(c), TRUE))
      BY DEF s
    <2>12. \A x : Bitmap(c) \cup {x} # Places \/ WE(c)[0].mod
      BY <2>6
    <2> QED
      BY <1>2, <2>1, <2>6, <2>7, <2>8, <2>10, <2>11, <2>12, StoringAt
  <1> DEFINE same == Cardinality(m.pool[e.pos].refs) = Cardinality(b)
  <1>8. CASE e.pos # NoPlace /\ e.mod /\ ~same
    <2> DEFINE f == Free(Allocate(m), {e.pos})
               s == SetPos(f, o, At(Allocated(m), TRUE))
    <2>1. n = Write(s, GetPos(s, o).pos, ObjectPage(b))
      BY <1>3, <1>8 DEF StoreIn
    <2>2. PageOf(o) \in m.map \/ o >= Current(m).used
      BY <1>1, <1>2, <1>8 DEF Marked, e
    <2>3. f = IF WE(m)[o].mod THEN Free(Allocate(m), {WE(m)[o].pos}) ELSE Allocate(m)
      BY <1>8 DEF e
    <2>4. s = SetPos(f, o, At(Allocated(m), TRUE))
      OBVIOUS
    <2> HIDE DEF f, s
    <2> QED
      BY <1>2, <1>4, <1>5, <2>1, <2>2, <2>3, <2>4, StoringAt
  <1>9. CASE e.pos # NoPlace /\ e.mod /\ same
    <2>1. n = Write(m, WE(m)[o].pos, ObjectPage(b))
      BY <1>3, <1>9 DEF StoreIn, e
    <2>2. /\ Good(n) /\ SameHeader(m, n)
          /\ Current(n) = Current(m) /\ Working(n) = Working(m)
          /\ CE(n) = CE(m) /\ WE(n) = WE(m)
          /\ WE(n)[o].pos \in Places /\ ~WE(n)[o].free
          /\ n.pool[WE(n)[o].pos].refs = b
          /\ Frame(m, n, {WE(m)[o].pos})
          /\ \A q \in 0 .. Current(m).used - 1 : CE(m)[q].pos # WE(m)[o].pos
          /\ \A q \in 0 .. Working(m).used - 1 : q # o => WE(m)[q].pos # WE(m)[o].pos
          /\ WE(m)[o].pos \notin CI(m) \cup WI(m)
      BY <1>2, <1>9, <2>1, Replacing DEF e
    <2>3. m.header.dirty = TRUE /\ m.modified = TRUE
      BY <1>2, <1>9 DEF Busy, e
    <2>4. n.header.dirty = TRUE /\ n.modified = TRUE
          /\ n.header.curr = m.header.curr /\ n.header.init = m.header.init
      BY <2>2, <2>3 DEF SameHeader
    <2>5. Kept(m, n, {o})
      <3>1. {WE(m)[o].pos} \subseteq Places \ (CI(m) \cup Spots(CE(m), Current(m).used))
        BY <2>2 DEF Spots
      <3>2. Frame(m, n, Places \ (CI(m) \cup Spots(CE(m), Current(m).used)))
        BY <2>2, <3>1, FrameMore
      <3>3. \A q \in 1 .. w.used - 1 : q \in 0 .. w.used - 1
        BY <1>1
      <3>4. \A q \in 0 .. w.used - 1 : WE(m)[q].pos # NoPlace => WE(m)[q].pos \in Places
        <4>1. FirstUserId <= w.used
          BY <1>1, RoomyFacts
        <4> QED
          BY <1>1, <4>1, EntryPlaces
      <3>5. \A q \in 1 .. w.used - 1 : q \notin {o} =>
               /\ WE(n)[q] = WE(m)[q]
               /\ WE(m)[q].pos # NoPlace => n.pool[WE(m)[q].pos] = m.pool[WE(m)[q].pos]
        BY <2>2, <3>3, <3>4 DEF Frame
      <3> QED
        BY <2>2, <2>4, <3>2, <3>5 DEF Kept
    <2> QED
      BY <2>2, <2>4, <2>5 DEF IsStored
  <1> QED
    BY <1>6, <1>7, <1>8, <1>9

-----------------------------------------------------------------------------
(* allocateId() and setRoot().                                              *)

\* Where allocateId() leaves memory, in the three ways it goes.
PopIn(m, o) ==
    SetPos(Mark([m EXCEPT !.header.root[1 - m.header.curr].freeList = GetPos(m, o).next], o),
           o, At(NoPlace, FALSE))
AppendIn(d, o) ==
    SetPos([d EXCEPT !.header.root[1 - d.header.curr].used = @ + 1], o, At(NoPlace, FALSE))

\* The identifier o was given out.
IsAllocated(m, n, o) ==
    /\ Kept(m, n, {o})
    /\ n.header.dirty = TRUE /\ n.modified = TRUE
    /\ Working(n).rootObject = Working(m).rootObject
    /\ WE(n)[o] = At(NoPlace, FALSE)
    /\ o \in Users /\ o < Working(n).used
    /\ \/ o < Working(m).used /\ WE(m)[o].free /\ Working(n).used = Working(m).used
       \/ o = Working(m).used /\ Working(n).used = o + 1

\* allocateId() gives out the first free identifier,
LEMMA PoppingId ==
    ASSUME NEW m, Good(m), NEW d, d = SetDirty(m),
           NEW o, o = Working(d).freeList, o # 0, NEW n, n = PopIn(d, o)
    PROVE  IsAllocated(m, n, o)
  <1>1. /\ Good(d) /\ CE(d) = CE(m) /\ WE(d) = WE(m) /\ Bitmap(d) = Bitmap(m)
        /\ Own(d) = Own(m)
        /\ d.pool = m.pool /\ d.map = m.map /\ d.touched = m.touched /\ d.modified = TRUE
        /\ d.header.curr = m.header.curr /\ d.header.init = m.header.init
        /\ d.header.dirty = TRUE
        /\ Current(d) = Current(m) /\ Working(d) = Working(m)
    BY DirtiedGood
  <1> DEFINE x == GetPos(d, o).next
             none == At(NoPlace, FALSE)
  <1>2. n = SetPos(Mark(WithWorking(d, [Working(d) EXCEPT !.freeList = x]), o), o, none)
    <2> DEFINE k == 1 - d.header.curr
    <2>1. n = SetPos(Mark([d EXCEPT !.header.root[k].freeList = x], o), o, none)
      BY DEF PopIn
    <2>3. k = 1 - d.header.curr
      OBVIOUS
    <2> HIDE DEF x, none, k
    <2>2. [d EXCEPT !.header.root[k].freeList = x]
              = WithWorking(d, [Working(d) EXCEPT !.freeList = x])
      BY ONLY <2>3 DEF WithWorking, Working
    <2> QED
      BY ONLY <2>1, <2>2
  <1>3. o \in Ids
    <2>1. Linked(WE(d), Working(d).used, Working(d).freeList) /\ Roomy(Working(d))
      BY <1>1, GoodFacts DEF Beside
    <2>2. o \in 0 .. Working(d).used - 1
      BY <2>1 DEF Linked, Freed
    <2> QED
      BY <2>1, <2>2, RoomyFacts
  <1>4. x = WE(d)[o].next
    BY <1>3, Looked
  <1>5. n = SetPos(Mark(WithWorking(d, [Working(d) EXCEPT !.freeList = WE(d)[o].next]), o),
                   o, At(NoPlace, FALSE))
    BY <1>2, <1>4
  <1>6. /\ Good(n) /\ WE(n)[0] = WE(d)[0] /\ CE(n) = CE(d) /\ Current(n) = Current(d)
        /\ Working(n).used = Working(d).used
        /\ Working(n).rootObject = Working(d).rootObject
        /\ n.header.curr = d.header.curr /\ n.header.init = d.header.init
        /\ n.header.dirty = d.header.dirty /\ n.modified = d.modified
        /\ WE(n)[o] = At(NoPlace, FALSE) /\ WE(d)[o].free
        /\ o \in Users /\ o < Working(d).used
        /\ \A q \in Ids \ {o} : WE(n)[q] = WE(d)[q]
        /\ Frame(d, n, Own(d))
    <2>1. Popped(d, n, o)
      BY ONLY <1>1, <1>5, o = Working(d).freeList, o # 0, Popping
    <2> QED
      BY ONLY <2>1 DEF Popped
  <1>7. Frame(m, n, Own(m))
    BY <1>1, <1>6 DEF Frame
  <1>8. \A q \in 1 .. Working(m).used - 1 : q \notin {o} => WE(n)[q] = WE(m)[q]
    <2>1. \A q \in 0 .. Working(m).used - 1 : q \in Ids
      BY GoodFacts, RoomyFacts
    <2>2. \A q \in 1 .. Working(m).used - 1 : q \in 0 .. Working(m).used - 1
      OBVIOUS
    <2> QED
      BY ONLY <1>1, <1>6, <2>1, <2>2
  <1>9. Kept(m, n, {o})
    <2> DEFINE G == {o}
    <2>1. \A q \in 1 .. Working(m).used - 1 : q \notin G => WE(n)[q] = WE(m)[q]
      BY <1>8
    <2>2. /\ Good(m) /\ Good(n) /\ Current(n) = Current(m) /\ CE(n) = CE(m)
          /\ n.header.curr = m.header.curr /\ n.header.init = m.header.init
      BY <1>1, <1>6
    <2> HIDE DEF G
    <2>3. Kept(m, n, G)
      BY ONLY <2>1, <2>2, <1>7, KeptByOwn
    <2> QED
      BY <2>3 DEF G
  <1> QED
    BY <1>1, <1>6, <1>9 DEF IsAllocated

\* An identifier is appended, from memory d that has room for it.
LEMMA AppendingId ==
    ASSUME NEW m, Good(m), NEW d, Good(d), CE(d) = CE(m), Current(d) = Current(m),
           Working(d).used = Working(m).used, Working(d).rootObject = Working(m).rootObject,
           d.header.curr = m.header.curr, d.header.init = m.header.init,
           d.header.dirty = TRUE, d.modified = TRUE,
           \A q \in 1 .. Working(m).used - 1 : WE(d)[q] = WE(m)[q],
           Frame(m, d, Own(m)), Own(d) \subseteq Own(m),
           NEW o, o = Working(d).used, o <= MaxOid,
           o + 1 <= HandlesPerPage * Len(Working(d).index),
           NEW n, n = AppendIn(d, o)
    PROVE  IsAllocated(m, n, o)
  <1> DEFINE none == At(NoPlace, FALSE)
  <1>1. n = SetPos(WithWorking(d, [Working(d) EXCEPT !.used = o + 1]), o, none)
    <2> DEFINE k == 1 - d.header.curr
    <2>1. n = SetPos([d EXCEPT !.header.root[k].used = @ + 1], o, none)
      BY DEF AppendIn
    <2>3. k = 1 - d.header.curr
      OBVIOUS
    <2> HIDE DEF none, k
    <2>2. [d EXCEPT !.header.root[k].used = @ + 1]
              = WithWorking(d, [Working(d) EXCEPT !.used = @ + 1])
      BY ONLY <2>3 DEF WithWorking, Working
    <2>4. [Working(d) EXCEPT !.used = @ + 1] = [Working(d) EXCEPT !.used = o + 1]
      BY ONLY o = Working(d).used
    <2> QED
      BY ONLY <2>1, <2>2, <2>4
  <1>2. /\ Good(n) /\ WE(n)[0] = WE(d)[0] /\ CE(n) = CE(d) /\ Current(n) = Current(d)
        /\ Working(n).used = o + 1
        /\ Working(n).rootObject = Working(d).rootObject
        /\ n.header.curr = d.header.curr /\ n.header.init = d.header.init
        /\ n.header.dirty = d.header.dirty /\ n.modified = d.modified
        /\ WE(n)[o] = At(NoPlace, FALSE)
        /\ o \in Users
        /\ \A q \in Ids \ {o} : WE(n)[q] = WE(d)[q]
        /\ Frame(d, n, Own(d))
    <2>1. Appended(d, n, o)
      BY <1>1, Appending
    <2> QED
      BY ONLY <2>1 DEF Appended
  <1>3. Frame(m, n, Own(m))
    <2>1. Frame(m, n, Own(m) \cup Own(d))
      BY <1>2, FrameTwice
    <2>2. Own(m) \cup Own(d) \subseteq Own(m)
      OBVIOUS
    <2> QED
      BY <2>1, <2>2, FrameMore
  <1>4. \A q \in 1 .. Working(m).used - 1 : WE(n)[q] = WE(m)[q]
    <2>1. Working(m).used \in Nat /\ \A q \in 0 .. Working(m).used - 1 : q \in Ids
      BY GoodFacts, RoomyFacts
    <2>2. \A q \in 1 .. Working(m).used - 1 : q \in 0 .. Working(m).used - 1 /\ q # o
      BY <2>1
    <2>3. \A q \in 1 .. Working(m).used - 1 : WE(d)[q] = WE(m)[q]
      OBVIOUS
    <2> QED
      BY ONLY <1>2, <2>1, <2>2, <2>3
  <1>5. Kept(m, n, {o})
    <2> DEFINE G == {o}
    <2>1. \A q \in 1 .. Working(m).used - 1 : q \notin G => WE(n)[q] = WE(m)[q]
      BY <1>4
    <2>2. /\ Good(m) /\ Good(n) /\ Current(n) = Current(m) /\ CE(n) = CE(m)
          /\ n.header.curr = m.header.curr /\ n.header.init = m.header.init
      BY <1>2
    <2> HIDE DEF G
    <2>3. Kept(m, n, G)
      BY ONLY <2>1, <2>2, <1>3, KeptByOwn
    <2> QED
      BY <2>3 DEF G
  <1>6. o < Working(n).used
    <2>1. o \in Nat
      BY GoodFacts
    <2> QED
      BY ONLY <2>1, <1>2
  <1>7. /\ n.header.dirty = TRUE /\ n.modified = TRUE
        /\ Working(n).rootObject = Working(m).rootObject
        /\ o = Working(m).used /\ Working(n).used = o + 1
    BY <1>2
  <1> QED
    BY ONLY <1>2, <1>5, <1>6, <1>7 DEF IsAllocated

\* allocateId().
AllocIn(m, at) ==
    LET r == Working(m)
        full == r.used + 1 > Len(r.index) * HandlesPerPage
    IN  IF r.freeList # 0 THEN PopIn(m, r.freeList)
        ELSE AppendIn(IF full THEN GrowIndex(m, at) ELSE m, r.used)

\* or a new one, and keeps all else.
LEMMA Allocating ==
    ASSUME NEW m, Good(m), NEW d, d = SetDirty(m), NEW r, r = Working(d),
           NEW o, o = IF r.freeList # 0 THEN r.freeList ELSE r.used, o <= MaxOid,
           NEW grows, grows = (r.freeList = 0 /\ r.used + 1 > Len(r.index) * HandlesPerPage),
           grows => Cardinality(Places \ Bitmap(m)) >= 4 * Len(r.index) + 2,
           NEW at, grows => at \in NewPlaces(d, 2 * Len(r.index)),
           NEW n, n = AllocIn(d, at)
    PROVE  IsAllocated(m, n, o)
  <1>1. /\ Good(d) /\ CE(d) = CE(m) /\ WE(d) = WE(m) /\ Bitmap(d) = Bitmap(m)
        /\ Own(d) = Own(m)
        /\ d.pool = m.pool /\ d.map = m.map /\ d.touched = m.touched /\ d.modified = TRUE
        /\ d.header.curr = m.header.curr /\ d.header.init = m.header.init
        /\ d.header.dirty = TRUE
        /\ Current(d) = Current(m) /\ Working(d) = Working(m)
    BY DirtiedGood
  <1>2. /\ r.index \in Seq(Places) /\ Len(r.index) \in Nat /\ r.used \in Nat
        /\ HandlesPerPage \in Nat \ {0} /\ FirstUserId <= r.used /\ FirstUserId \in Nat
        /\ 1 <= FirstUserId /\ r.used <= HandlesPerPage * Len(r.index)
        /\ Bitmap(d) \in SUBSET Places
    BY <1>1, GoodFacts, GoodPlaces, RoomyFacts, Sizes
  <1>3. Frame(m, d, Own(m))
    BY <1>1 DEF Frame
  <1>4. CASE r.freeList # 0
    <2>1. o = Working(d).freeList /\ o # 0
      BY <1>4
    <2>2. n = PopIn(d, o)
      BY <1>4 DEF AllocIn
    <2> QED
      BY ONLY Good(m), d = SetDirty(m), <2>1, <2>2, PoppingId
  <1>5. CASE r.freeList = 0 /\ ~grows
    <2>1. o = Working(d).used
      BY <1>5
    <2>2. n = AppendIn(d, o)
      BY <1>5 DEF AllocIn
    <2>3. o + 1 <= HandlesPerPage * Len(Working(d).index)
      <3> DEFINE l == Len(r.index)
      <3>1. ~(o + 1 > l * HandlesPerPage) /\ l \in Nat /\ o \in Nat
        BY <1>2, <1>5
      <3>2. HandlesPerPage * l = l * HandlesPerPage /\ l * HandlesPerPage \in Nat
        BY <1>2, <3>1
      <3> HIDE DEF l
      <3>3. o + 1 <= HandlesPerPage * l
        BY ONLY <3>1, <3>2
      <3> QED
        BY <3>3 DEF l
    <2> QED
      BY <1>1, <1>3, <2>1, <2>2, <2>3, AppendingId
  <1>6. CASE grows
    <2> DEFINE g == GrowIndex(d, at)
    <2>1. r.freeList = 0 /\ o = r.used /\ n = AppendIn(g, o)
      BY <1>6 DEF AllocIn
    <2>2. Bitmap(d) # Places
      <3>1. Cardinality(Places \ Bitmap(d)) >= 4 * Len(r.index) + 2
        BY <1>1, <1>6
      <3>2. Cardinality(Places \ Bitmap(d)) \in Nat
        BY <1>2, RoomLeft
      <3>3. Cardinality(Places \ Bitmap(d)) >= 1
        BY ONLY <1>2, <3>1, <3>2
      <3> QED
        BY <1>2, <3>3, RoomLeft
    <2>3. /\ Good(g) /\ WE(g)[0].mod /\ CE(g) = CE(d) /\ Current(g) = Current(d)
          /\ Len(Working(g).index) = 2 * Len(Working(d).index)
          /\ Working(g).used = Working(d).used /\ Working(g).freeList = Working(d).freeList
          /\ Working(g).rootObject = Working(d).rootObject
          /\ g.header.curr = d.header.curr /\ g.header.init = d.header.init
          /\ g.header.dirty = TRUE /\ g.modified = TRUE
          /\ \A q \in 1 .. Working(d).used - 1 : WE(g)[q] = WE(d)[q]
          /\ Frame(d, g, Own(d)) /\ Own(g) \subseteq Own(d)
      <3>1. at \in NewPlaces(d, 2 * Len(Working(d).index))
        BY <1>6
      <3>2. g = GrowIndex(d, at)
        OBVIOUS
      <3> HIDE DEF g
      <3>3. Grew(d, g)
        BY ONLY <1>1, <2>2, <3>1, <3>2, Growing
      <3> QED
        BY ONLY <3>3 DEF Grew
    <2> HIDE DEF g
    <2>4. o + 1 <= HandlesPerPage * Len(Working(g).index)
      <3> DEFINE l == Len(r.index)
                 h == HandlesPerPage
                 k == Len(Working(g).index)
                 f == FirstUserId
      <3>1. k = 2 * l /\ l \in Nat /\ o \in Nat /\ h \in Nat \ {0} /\ o <= h * l
            /\ f <= o /\ 1 <= f /\ f \in Nat
        BY <1>2, <2>1, <2>3
      <3> HIDE DEF l, k, h, f
      <3>2. h * k = h * l + h * l /\ h * l \in Nat
        BY ONLY <3>1
      <3>3. o + 1 <= h * k
        BY ONLY <3>1, <3>2
      <3> QED
        BY <3>3 DEF h, k
    <2>5. o = Working(g).used
      BY <2>1, <2>3
    <2>6. Frame(m, g, Own(m)) /\ Own(g) \subseteq Own(m)
      BY <1>1, <2>3 DEF Frame
    <2>7. /\ CE(g) = CE(m) /\ Current(g) = Current(m)
          /\ Working(g).used = Working(m).used /\ Working(g).rootObject = Working(m).rootObject
          /\ g.header.curr = m.header.curr /\ g.header.init = m.header.init
          /\ \A q \in 1 .. Working(m).used - 1 : WE(g)[q] = WE(m)[q]
      BY <1>1, <2>3
    <2>8. Good(m) /\ o <= MaxOid
      OBVIOUS
    <2> QED
      BY ONLY <2>8, <2>1, <2>3, <2>4, <2>5, <2>6, <2>7, AppendingId
  <1> QED
    BY <1>4, <1>5, <1>6

\* setRoot(): memory with another root object.
RootIn(m, o) ==
    [m EXCEPT !.header.root[1 - m.header.curr].rootObject = o, !.modified = TRUE]
IsRooted(m, n, o) ==
    /\ Kept(m, n, {}) /\ WE(n) = WE(m) /\ n.modified = TRUE /\ n.map = m.map
    /\ n.header.dirty = m.header.dirty /\ n.touched = m.touched /\ n.pool = m.pool
    /\ Working(n) = [Working(m) EXCEPT !.rootObject = o]
    /\ Working(n).rootObject = o /\ Working(n).used = Working(m).used

\* setRoot() changes the root object, and nothing else.
LEMMA SettingRoot ==
    ASSUME NEW m, Good(m), NEW o \in Users \cup {0}, NEW n, n = RootIn(m, o)
    PROVE  IsRooted(m, n, o)
  <1> DEFINE w == Working(m)
             r == [w EXCEPT !.rootObject = o]
             l == WithWorking(m, r)
             yes == TRUE
  <1>1. /\ MemFields(m) /\ RootFields(w) /\ Roomy(w) /\ Laid(m) /\ m.map \subseteq 0 .. PageOf(MaxOid)
    BY GoodFacts, WorkingFields DEF Good
  <1>2. /\ RootFields(r) /\ r.index = w.index /\ r.shadow = w.shadow /\ r.used = w.used
        /\ r.freeList = w.freeList /\ r.rootObject = o
    <2>1. RootFields(r) /\ r = [w EXCEPT !.rootObject = o]
      BY <1>1, RootWithField
    <2> HIDE DEF r, w
    <2>2. /\ r.index = w.index /\ r.shadow = w.shadow /\ r.used = w.used
          /\ r.freeList = w.freeList /\ r.rootObject = o
      BY ONLY <1>1, <2>1 DEF RootFields
    <2> QED
      BY <2>1, <2>2
  <1>3. n = [l EXCEPT !.modified = yes]
    <2>1. m = [header |-> m.header, pool |-> m.pool, map |-> m.map,
               modified |-> m.modified, touched |-> m.touched]
      BY <1>1 DEF MemFields
    <2>2. n = [m EXCEPT !.header.root[1 - m.header.curr].rootObject = o, !.modified = yes]
      BY DEF RootIn
    <2> HIDE DEF yes
    <2> QED
      BY ONLY <2>1, <2>2 DEF l, r, w, WithWorking, Working
  <1>4. /\ MemFields(l)
        /\ l.pool = m.pool /\ l.map = m.map /\ l.touched = m.touched
        /\ l.modified = m.modified
        /\ l.header.curr = m.header.curr /\ l.header.init = m.header.init
        /\ l.header.dirty = m.header.dirty
        /\ Current(l) = Current(m) /\ Working(l) = r
    <2> HIDE DEF r, w
    <2> QED
      BY <1>1, <1>2, RootSet
  <1> HIDE DEF l, r, yes
  <1>5. /\ n = [header |-> l.header, pool |-> l.pool, map |-> l.map,
                modified |-> yes, touched |-> l.touched]
        /\ n.header = l.header /\ n.pool = l.pool /\ n.map = l.map /\ n.modified = yes
        /\ n.touched = l.touched
    <2>1. l = [header |-> l.header, pool |-> l.pool, map |-> l.map,
               modified |-> l.modified, touched |-> l.touched]
      BY <1>4 DEF MemFields
    <2> QED
      BY ONLY <1>3, <2>1
  <1>6. MemFields(n)
    BY ONLY <1>4, <1>5 DEF MemFields
  <1>7. /\ Current(n) = Current(m) /\ Working(n) = r
        /\ n.pool = m.pool /\ n.map = m.map /\ n.touched = m.touched
        /\ n.header.curr = m.header.curr /\ n.header.init = m.header.init
        /\ n.header.dirty = m.header.dirty
    BY <1>4, <1>5 DEF Current, Working
  <1>8. /\ Laid(n) /\ CE(n) = CE(m) /\ WE(n) = WE(m) /\ Bitmap(n) = Bitmap(m)
        /\ CI(n) = CI(m) /\ WI(n) = WI(m)
    <2>1. Working(n).index = w.index
      BY <1>2, <1>7
    <2> QED
      BY <1>1, <1>6, <1>7, <2>1, LaidSame
  <1>9. Roomy(Working(n))
    BY <1>1, <1>2, <1>7 DEF Roomy, Root
  <1>10. Good(n)
    <2>1. Beside(CE(m), WE(m), Current(m).used, w.used, CI(m), WI(m), w.freeList, Bitmap(m), m.map)
      BY GoodFacts
    <2>2. Beside(CE(m), WE(n), Current(m).used, Working(n).used, CI(m), WI(n),
                 Working(n).freeList, Bitmap(n), n.map)
      BY <2>1, <1>2, <1>7, <1>8
    <2>3. /\ Current(m).used <= Working(n).used /\ Working(n).shadow = Current(m).index
          /\ Working(n).index = Working(m).index /\ (WE(m)[0].mod => WE(n)[0].mod)
      BY <1>2, <1>7, <1>8, GoodFacts
    <2>4. n.map \subseteq 0 .. PageOf(MaxOid) /\ n.pool[CE(m)[0].pos] = m.pool[CE(m)[0].pos]
      BY <1>1, <1>7
    <2>5. Good(m)
      OBVIOUS
    <2> QED
      BY ONLY <2>5, <1>7, <1>8, <1>9, <2>2, <2>3, <2>4, GoodMade
  <1>11. Kept(m, n, {})
    <2>1. Frame(m, n, Own(m))
      BY <1>7 DEF Frame
    <2>2. \A q \in 1 .. Working(m).used - 1 : q \notin {} => WE(n)[q] = WE(m)[q]
      BY <1>8
    <2> DEFINE G == {}
    <2>3. \A q \in 1 .. Working(m).used - 1 : q \notin G => WE(n)[q] = WE(m)[q]
      BY <1>8
    <2> HIDE DEF G
    <2>4. Kept(m, n, G)
      BY <2>1, <2>3, <1>7, <1>8, <1>10, KeptByOwn
    <2> QED
      BY <2>4 DEF G
  <1> QED
    BY <1>2, <1>5, <1>7, <1>8, <1>11 DEF r, yes, IsRooted

-----------------------------------------------------------------------------
(* freeId(), of one identifier and of the garbage.                          *)

\* The identifiers of G were freed.
IsFreed(m, n, G) ==
    /\ Kept(m, n, G)
    /\ n.header.dirty = TRUE /\ n.modified = TRUE
    /\ Working(n).used = Working(m).used /\ Working(n).rootObject = Working(m).rootObject
    /\ \A q \in G : WE(n)[q].free

\* The identifiers are freed, and all else is kept.
LEMMA FreeingIds ==
    ASSUME NEW m, Good(m), Busy(m), Bitmap(m) # Places,
           NEW G \in SUBSET Users, G # {}, \A o \in G : o < Working(m).used /\ ~WE(m)[o].free,
           NEW f,
           \/ f = CloneBitmap(m) /\ \A o \in G : ~WE(m)[o].mod
           \/ \E o \in G : G = {o} /\ WE(m)[o].mod /\ f = Free(m, {WE(m)[o].pos}),
           NEW n, n = FreeIds(f, G)
    PROVE  IsFreed(m, n, G)
  <1> DEFINE d == CloneBitmap(m)
             used == Working(m).used
             x == WE(d)[0].pos
  <1>1. Owned(m, d)
    BY Cloning
  <1> HIDE DEF d
  <1>2. /\ Good(d) /\ WE(d)[0].mod
        /\ \A q \in 1 .. used - 1 : WE(d)[q] = WE(m)[q]
        /\ Current(d) = Current(m) /\ Working(d) = Working(m) /\ CE(d) = CE(m)
        /\ d.header.curr = m.header.curr /\ d.header.init = m.header.init
        /\ Frame(m, d, Own(m)) /\ Own(d) \subseteq Own(m)
    BY <1>1 DEF Owned
  <1>3. \A o \in G : o \in 1 .. used - 1 /\ o \in Ids /\ o < used
    <2>1. used \in Nat
      BY GoodFacts
    <2> HIDE DEF used
    <2>2. \A o \in Users : o \in Nat /\ 1 <= o /\ o <= MaxOid
      BY Sizes DEF Users
    <2>3. \A o \in G : o < used
      BY DEF used
    <2>4. \A o \in G : o \in 1 .. used - 1
      BY ONLY <2>1, <2>2, <2>3, G \in SUBSET Users
    <2>5. \A o \in G : o \in Ids
      BY ONLY <2>2, G \in SUBSET Users DEF Ids
    <2> QED
      BY <2>3, <2>4, <2>5
  <1>4. /\ d.header.dirty = TRUE /\ d.modified = TRUE
    <2>1. CASE WE(m)[0].mod
      <3>1. d = m
        BY <1>1, <2>1 DEF Owned
      <3>2. 0 \in 0 .. used - 1
        BY GoodPlaces
      <3> QED
        BY <2>1, <3>1, <3>2 DEF Busy
    <2>2. CASE ~WE(m)[0].mod
      BY <1>1, <2>2 DEF Owned
    <2> QED
      BY <2>1, <2>2
  <1>5. /\ Laid(d) /\ x \in Places /\ x \notin CI(d) \cup WI(d) /\ Bitmap(d) \in SUBSET Places
        /\ {x} \subseteq Own(d)
    BY <1>2, GoodFacts, GoodPlaces DEF Own
  <1>6. /\ Laid(f) /\ SameHeader(d, f) /\ Current(f) = Current(d) /\ Working(f) = Working(d)
        /\ CE(f) = CE(d) /\ WE(f) = WE(d)
        /\ Bitmap(f) = Bitmap(d) \ Left(WE(d), Working(d).used, G) /\ Frame(d, f, Own(d))
    <2>1. CASE f = d /\ \A o \in G : ~WE(m)[o].mod
      <3>1. \A o \in G : ~WE(d)[o].mod
        BY <1>2, <1>3, <2>1
      <3>2. Left(WE(d), Working(d).used, G) = {}
        BY <3>1 DEF Left
      <3> QED
        BY <1>5, <2>1, <3>2 DEF SameHeader, Frame
    <2>2. ASSUME NEW o \in G, G = {o}, WE(m)[o].mod, f = Free(m, {WE(m)[o].pos})
          PROVE  /\ Laid(f) /\ SameHeader(d, f)
                 /\ Current(f) = Current(d) /\ Working(f) = Working(d)
                 /\ CE(f) = CE(d) /\ WE(f) = WE(d)
                 /\ Bitmap(f) = Bitmap(d) \ Left(WE(d), Working(d).used, G)
                 /\ Frame(d, f, Own(d))
      <3> DEFINE y == WE(d)[o].pos
                 u == Bitmap(d) \ {y}
      <3>1. WE(d)[o] = WE(m)[o]
        BY <1>2, <1>3
      <3>2. f = SetBitmap(d, u) /\ u \in SUBSET Places
        BY <1>5, <2>2, <3>1 DEF Free, d
      <3>3. Left(WE(d), Working(d).used, G) = {y}
        <4>1. {r \in G : r < Working(d).used /\ WE(d)[r].mod} = {o}
          BY <1>2, <1>3, <2>2, <3>1
        <4> QED
          BY ONLY <4>1 DEF Left
      <3>7. x = WE(d)[0].pos
        OBVIOUS
      <3> HIDE DEF u, x
      <3>4. /\ Laid(f) /\ SameHeader(d, f)
            /\ Current(f) = Current(d) /\ Working(f) = Working(d)
            /\ CE(f) = CE(d) /\ WE(f) = WE(d)
            /\ Bitmap(f) = u
            /\ Frame(d, f, {x})
        BY ONLY <1>5, <3>2, <3>7, BitmapSet
      <3>5. Frame(d, f, Own(d))
        BY <1>5, <3>4, FrameMore
      <3> QED
        BY <3>3, <3>4, <3>5 DEF u
    <2> QED
      BY <2>1, <2>2 DEF d
  <1>7. \A o \in G : o < Working(d).used /\ ~WE(d)[o].free
    BY <1>2, <1>3
  <1>8. FreedIn(d, n, G)
    BY ONLY <1>2, <1>6, <1>7, G \in SUBSET Users, G # {}, n = FreeIds(f, G), Freeing
  <1>9. /\ Good(n) /\ WE(n)[0].mod /\ CE(n) = CE(d) /\ Current(n) = Current(d)
        /\ Working(n).used = Working(d).used
        /\ Working(n).rootObject = Working(d).rootObject
        /\ n.header.curr = d.header.curr /\ n.header.init = d.header.init
        /\ n.header.dirty = d.header.dirty /\ n.modified = d.modified
        /\ \A q \in G : WE(n)[q].free
        /\ \A q \in Ids \ G : WE(n)[q] = WE(d)[q]
        /\ Frame(d, n, Own(d))
    BY ONLY <1>8 DEF FreedIn
  <1>10. Frame(m, n, Own(m))
    <2>1. Frame(m, n, Own(m) \cup Own(d))
      BY <1>2, <1>9, FrameTwice
    <2>2. Own(m) \cup Own(d) \subseteq Own(m)
      BY <1>2
    <2> QED
      BY <2>1, <2>2, FrameMore
  <1>11. \A q \in 1 .. used - 1 : q \notin G => WE(n)[q] = WE(m)[q]
    <2>1. \A q \in 0 .. used - 1 : q \in Ids
      BY GoodFacts, RoomyFacts
    <2>2. \A q \in 1 .. used - 1 : q \in 0 .. used - 1
      OBVIOUS
    <2> QED
      BY ONLY <1>2, <1>9, <2>1, <2>2
  <1>12. Kept(m, n, G)
    <2>1. /\ Good(m) /\ Good(n) /\ Current(n) = Current(m) /\ CE(n) = CE(m)
          /\ n.header.curr = m.header.curr /\ n.header.init = m.header.init
      BY <1>2, <1>9
    <2> QED
      BY ONLY <1>10, <1>11, <2>1, KeptByOwn DEF used
  <1> QED
    BY <1>2, <1>4, <1>9, <1>12 DEF IsFreed

-----------------------------------------------------------------------------
(* The other index becomes a copy of the committed one.                     *)

\* The root beside c when nothing was changed, and an index that is a copy.
Swapped(c) == [c EXCEPT !.index = c.shadow, !.shadow = c.index]
Alike(pages, c) == \A q \in 0 .. c.used - 1 : Ent(pages, c.shadow)[q] = Ent(pages, c.index)[q]

\* It has the fields of the other but for the indexes.
LEMMA SwappedFields ==
    ASSUME NEW c, RootFields(c), Roomy(c), IsInjective(c.shadow), Len(c.shadow) = Len(c.index),
           NEW r, r = Swapped(c)
    PROVE  /\ RootFields(r) /\ Roomy(r)
           /\ r.index = c.shadow /\ r.shadow = c.index /\ r.used = c.used
           /\ r.freeList = c.freeList /\ r.rootObject = c.rootObject
  <1>1. c = [index |-> c.index, shadow |-> c.shadow, used |-> c.used,
             freeList |-> c.freeList, rootObject |-> c.rootObject]
    BY DEF RootFields
  <1>2. /\ r = [index |-> c.shadow, shadow |-> c.index, used |-> c.used,
                freeList |-> c.freeList, rootObject |-> c.rootObject]
    BY ONLY <1>1, r = Swapped(c) DEF Swapped
  <1>3. /\ RootFields(r) /\ r.index = c.shadow /\ r.shadow = c.index /\ r.used = c.used
        /\ r.freeList = c.freeList /\ r.rootObject = c.rootObject
    BY ONLY <1>2 DEF RootFields
  <1>4. Roomy(r)
    BY <1>3 DEF Roomy, Root
  <1> QED
    BY <1>3, <1>4

\* What a copy of the pages of an index leaves.
CopiedTo(m, k, c) ==
    /\ MemFields(k) /\ SameHeader(m, k)
    /\ \A p \in Places : PageType(k.pool[p])
    /\ Whole(k.pool, c) /\ Alike(k.pool, c)
    /\ Ent(k.pool, c.index) = Ent(m.pool, c.index)
    /\ Frame(m, k, ToSet(c.shadow))

\* Copying the pages that differ makes the indexes alike.
LEMMA CopyingIndex ==
    ASSUME NEW m, MemFields(m), \A p \in Places : PageType(m.pool[p]),
           NEW c, Whole(m.pool, c), NEW pages \in SUBSET Nat,
           \A q \in 0 .. c.used - 1 :
               PageOf(q) \in pages \/ Ent(m.pool, c.shadow)[q] = Ent(m.pool, c.index)[q],
           NEW k, k = CopyIndex(m, c.shadow, c.index, pages)
    PROVE  /\ CopiedTo(m, k, c)
           /\ pages = {} => k.touched = m.touched
  <1> DEFINE to == c.shadow
             from == c.index
  <1>1. /\ Roomy(c) /\ IsInjective(to) /\ Len(to) = Len(from) /\ ToSet(from) \cap ToSet(to) = {}
        /\ Fixed(Ent(m.pool, from), c.used)
        /\ \A q \in 0 .. c.used - 1 : Ent(m.pool, from)[q].pos \notin ToSet(from) \cup ToSet(to)
    BY WholeFacts
  <1>2. /\ to \in Seq(Places) /\ from \in Seq(Places)
        /\ ToSet(from) \subseteq Places
        /\ c.used \in Nat /\ FirstUserId <= c.used
        /\ \A q \in 0 .. c.used - 1 : q \in Nat /\ PageOf(q) < Len(from) /\ q \in Ids
    BY <1>1, RoomyFacts
  <1> HIDE DEF to, from
  <1>3. k = CopyIndex(m, to, from, pages)
    BY DEF to, from
  <1>4. /\ MemFields(k) /\ k.header = m.header /\ k.map = m.map /\ k.modified = m.modified
    BY ONLY <1>2, <1>3, MemFields(m), pages \in SUBSET Nat, CopyIndexPages
  <1>5. k.touched \subseteq m.touched \cup ToSet(to)
    BY ONLY <1>2, <1>3, MemFields(m), pages \in SUBSET Nat, CopyIndexPages
  <1>6. \A p \in Places \ ToSet(to) : k.pool[p] = m.pool[p]
    BY ONLY <1>2, <1>3, MemFields(m), pages \in SUBSET Nat, CopyIndexPages
  <1>7. pages = {} => k.touched = m.touched
    BY ONLY <1>2, <1>3, MemFields(m), pages \in SUBSET Nat, CopyIndexPages
  <1>8. \A p \in Places : PageType(k.pool[p])
    BY <1>2, <1>3, CopyTyped
  <1>9. \A p \in ToSet(from) : k.pool[p] = m.pool[p]
    BY <1>1, <1>2, <1>6
  <1>10. Ent(k.pool, from) = Ent(m.pool, from)
    BY <1>2, <1>9, EntSame
  <1>11. Whole(k.pool, c)
    <2> DEFINE x == Ent(m.pool, from)[0].pos
    <2>1. x \in Places /\ 0 \in 0 .. c.used - 1
      BY <1>1, <1>2, EntryPlaces DEF Fixed
    <2>2. x \notin ToSet(to)
      BY <1>1, <2>1
    <2>3. k.pool[x] = m.pool[x]
      BY <1>6, <2>1, <2>2
    <2> QED
      BY <1>9, <2>3, WholeKept DEF from
  <1>12. \A q \in 0 .. c.used - 1 : Ent(k.pool, to)[q] = Ent(k.pool, from)[q]
    <2> TAKE q \in 0 .. c.used - 1
    <2>1. q \in Nat /\ q \in Ids /\ PageOf(q) < Len(from) /\ PageOf(q) < Len(to)
      BY <1>1, <1>2
    <2>2. Lookup(k.pool, to, q)
             = IF PageOf(q) \in pages THEN Lookup(m.pool, from, q) ELSE Lookup(m.pool, to, q)
      BY ONLY <1>1, <1>2, <1>3, <2>1, MemFields(m), pages \in SUBSET Nat, CopyIndexLookup
    <2>3. \A pp, ix : Ent(pp, ix)[q] = Lookup(pp, ix, q)
      BY <2>1 DEF Ent
    <2>4. PageOf(q) \in pages \/ Ent(m.pool, to)[q] = Ent(m.pool, from)[q]
      BY DEF to, from
    <2> QED
      BY <1>10, <2>2, <2>3, <2>4
  <1>13. Alike(k.pool, c)
    BY <1>12 DEF Alike, to, from
  <1>14. Frame(m, k, ToSet(c.shadow))
    BY <1>5, <1>6 DEF Frame, to
  <1> QED
    BY <1>4, <1>7, <1>8, <1>10, <1>11, <1>13, <1>14 DEF CopiedTo, SameHeader, from

\* Memory in which the working root is a copy is one to go on from.
LEMMA TwinGood ==
    ASSUME NEW m, MemFields(m), \A p \in Places : PageType(m.pool[p]),
           m.map \subseteq 0 .. PageOf(MaxOid),
           NEW c, c = Current(m), NEW w, w = Working(m), NEW o \in Users \cup {0},
           Whole(m.pool, c), Alike(m.pool, c), w = [Swapped(c) EXCEPT !.rootObject = o]
    PROVE  Good(m)
  <1>1. /\ Roomy(c) /\ IsInjective(c.shadow) /\ Len(c.shadow) = Len(c.index)
        /\ ToSet(c.index) \cap ToSet(c.shadow) = {}
        /\ Fixed(Ent(m.pool, c.index), c.used)
        /\ Linked(Ent(m.pool, c.index), c.used, c.freeList)
        /\ \A q \in 0 .. c.used - 1 :
              Ent(m.pool, c.index)[q].pos \notin ToSet(c.index) \cup ToSet(c.shadow)
        /\ m.pool[Ent(m.pool, c.index)[0].pos].used
              = ToSet(c.index) \cup ToSet(c.shadow) \cup Spots(Ent(m.pool, c.index), c.used)
    BY WholeFacts
  <1>2. RootFields(c) /\ c.used \in Nat /\ FirstUserId <= c.used
    BY <1>1, RoomyFacts, WorkingFields
  <1> DEFINE r == Swapped(c)
  <1>3. /\ RootFields(r) /\ Roomy(r)
        /\ r.index = c.shadow /\ r.shadow = c.index /\ r.used = c.used
        /\ r.freeList = c.freeList /\ r.rootObject = c.rootObject
    BY <1>1, <1>2, SwappedFields
  <1> HIDE DEF r
  <1>4. /\ w.index = r.index /\ w.shadow = r.shadow /\ w.used = r.used
        /\ w.freeList = r.freeList /\ w.rootObject = o
    <2>1. w = [r EXCEPT !.rootObject = o]
      BY DEF r
    <2> QED
      BY ONLY <1>3, <2>1 DEF RootFields
  <1>5. Roomy(w)
    BY <1>3, <1>4 DEF Roomy, Root
  <1>6. \A q \in 0 .. c.used - 1 : Ent(m.pool, w.index)[q] = Ent(m.pool, c.index)[q]
    BY <1>3, <1>4 DEF Alike
  <1>7. 0 \in 0 .. c.used - 1
    BY <1>1, <1>2, EntryPlaces DEF Fixed
  <1> DEFINE ce == Ent(m.pool, c.index)
             we == Ent(m.pool, w.index)
             ci == ToSet(c.index)
             wi == ToSet(w.index)
             used == m.pool[we[0].pos].used
             cn == c.used
             fr == c.freeList
             ms == m.map
  <1>8. /\ cn \in Nat /\ FirstUserId <= cn /\ Fixed(ce, cn) /\ Linked(ce, cn, fr)
        /\ \A q \in 0 .. cn - 1 : we[q] = ce[q]
        /\ \A q \in 0 .. cn - 1 : ce[q].pos \notin ci \cup wi
        /\ used = ci \cup wi \cup Spots(ce, cn)
    BY <1>1, <1>2, <1>3, <1>4, <1>6, <1>7
  <1>9. Beside(ce, we, cn, cn, ci, wi, fr, used, ms)
    <2> HIDE DEF ce, we, ci, wi, used, cn, fr, ms
    <2> QED
      BY ONLY <1>8, TwinBeside
  <1>10. Under(m.pool, c, w, m.map)
    BY <1>2, <1>3, <1>4, <1>5, <1>9 DEF Under
  <1> QED
    BY <1>10 DEF Good

\* The working root, the marks and the flag are set.
AreSet(m, n, r, x, y) ==
    /\ MemFields(n)
    /\ n.pool = m.pool /\ n.map = x /\ n.touched = m.touched /\ n.modified = y
    /\ n.header.curr = m.header.curr /\ n.header.init = m.header.init
    /\ n.header.dirty = m.header.dirty
    /\ Current(n) = Current(m) /\ Working(n) = r

\* The working root, the marks and the flag are set at once.
LEMMA AllSet ==
    ASSUME NEW m, MemFields(m), NEW k, k = 1 - m.header.curr, NEW r, RootFields(r), NEW x, NEW y,
           NEW n, n = [m EXCEPT !.header.root[k] = r, !.map = x, !.modified = y]
    PROVE  AreSet(m, n, r, x, y)
  <1> DEFINE l == WithWorking(m, r)
  <1>1. /\ MemFields(l)
        /\ l.pool = m.pool /\ l.map = m.map /\ l.touched = m.touched
        /\ l.modified = m.modified
        /\ l.header.curr = m.header.curr /\ l.header.init = m.header.init
        /\ l.header.dirty = m.header.dirty
        /\ Current(l) = Current(m) /\ Working(l) = r
    BY RootSet
  <1>2. n = [l EXCEPT !.map = x, !.modified = y]
    <2>1. m = [header |-> m.header, pool |-> m.pool, map |-> m.map,
               modified |-> m.modified, touched |-> m.touched]
      BY DEF MemFields
    <2> QED
      BY ONLY <2>1, k = 1 - m.header.curr,
              n = [m EXCEPT !.header.root[k] = r, !.map = x, !.modified = y] DEF WithWorking
  <1> HIDE DEF l
  <1>3. /\ n = [header |-> l.header, pool |-> l.pool, map |-> x,
                modified |-> y, touched |-> l.touched]
        /\ n.header = l.header /\ n.pool = l.pool /\ n.map = x /\ n.modified = y
        /\ n.touched = l.touched
    <2>1. l = [header |-> l.header, pool |-> l.pool, map |-> l.map,
               modified |-> l.modified, touched |-> l.touched]
      BY <1>1 DEF MemFields
    <2> QED
      BY ONLY <1>2, <2>1
  <1>4. MemFields(n)
    BY ONLY <1>1, <1>3 DEF MemFields
  <1>5. Current(n) = Current(l) /\ Working(n) = Working(l)
    BY <1>3 DEF Current, Working
  <1> QED
    BY ONLY <1>1, <1>3, <1>4, <1>5 DEF AreSet

\* rollback().
RollIn(m, size) ==
    LET c == Current(m)
        pages == IF Working(m).index # c.shadow
                 THEN 0 .. PagesOf(size) - 1
                 ELSE {i \in m.map : i < PagesOf(size)}
        k == CopyIndex(m, c.shadow, c.index, pages)
        r == [c EXCEPT !.index = c.shadow, !.shadow = Working(m).shadow]
    IN  [k EXCEPT !.header.root[1 - m.header.curr] = r, !.map = {}, !.modified = FALSE]

\* The working root is a copy of the committed one.
IsRolled(m, n) ==
    /\ Good(n)
    /\ Current(n) = Current(m) /\ CE(n) = CE(m)
    /\ Working(n) = Swapped(Current(m)) /\ Alike(n.pool, Current(m))
    /\ n.header.curr = m.header.curr /\ n.header.init = m.header.init
    /\ n.header.dirty = m.header.dirty
    /\ Frame(m, n, ToSet(Current(m).shadow))

\* When the pages that differ are copied the working root is a copy.
LEMMA Rolling ==
    ASSUME NEW m, Good(m), NEW n, n = RollIn(m, Current(m).used)
    PROVE  /\ IsRolled(m, n) /\ n.map = {} /\ n.modified = FALSE
           /\ m.map = {} /\ Working(m).index = Current(m).shadow => n.touched = m.touched
  <1> DEFINE c == Current(m)
             w == Working(m)
             pages == IF w.index # c.shadow
                      THEN 0 .. PagesOf(c.used) - 1
                      ELSE {i \in m.map : i < PagesOf(c.used)}
             k == CopyIndex(m, c.shadow, c.index, pages)
             r == [c EXCEPT !.index = c.shadow, !.shadow = w.shadow]
             none == {}
             no == FALSE
  <1>1. /\ MemFields(m) /\ \A p \in Places : PageType(m.pool[p])
        /\ Whole(m.pool, c) /\ m.map \subseteq 0 .. PageOf(MaxOid)
        /\ w.shadow = c.index
        /\ Marked(CE(m), WE(m), c.used, w.used, m.map)
        /\ Roomy(c) /\ IsInjective(c.shadow) /\ Len(c.shadow) = Len(c.index) /\ RootFields(c)
    BY GoodFacts, WholeFacts, WorkingFields DEF Good, Beside
  <1>2. \A q \in 0 .. c.used - 1 : q \in Nat /\ q \in Ids /\ q < c.used /\ c.used \in Nat
    BY <1>1, RoomyFacts
  <1>3. pages \in SUBSET Nat
    <2>1. PageOf(MaxOid) \in Nat
      BY Sizes, PageAndSlot
    <2>2. m.map \subseteq Nat
      BY <1>1, <2>1
    <2> QED
      BY <2>2
  <1>4. \A q \in 0 .. c.used - 1 :
           PageOf(q) \in pages \/ Ent(m.pool, c.shadow)[q] = Ent(m.pool, c.index)[q]
    <2> TAKE q \in 0 .. c.used - 1
    <2>1. PageOf(q) < PagesOf(c.used) /\ PagesOf(c.used) \in Nat /\ PageOf(q) \in Nat
      BY <1>2, PageBelow, PageAndSlot
    <2>2. CASE w.index # c.shadow
      BY <2>1, <2>2
    <2>3. CASE w.index = c.shadow
      <3>1. WE(m)[q] # CE(m)[q] => PageOf(q) \in m.map
        BY <1>1 DEF Marked
      <3> QED
        BY <2>1, <2>3, <3>1 DEF WE, CE
    <2> QED
      BY <2>2, <2>3
  <1>5. m.map = {} /\ w.index = c.shadow => pages = {}
    OBVIOUS
  <1>6. n = [k EXCEPT !.header.root[1 - m.header.curr] = r, !.map = none, !.modified = no]
    BY DEF RollIn
  <1>7. r = Swapped(c)
    BY <1>1 DEF Swapped
  <1>8. k = CopyIndex(m, c.shadow, c.index, pages)
    OBVIOUS
  <1> HIDE DEF pages, k, r, c, w, none, no
  <1>9. /\ CopiedTo(m, k, c)
        /\ pages = {} => k.touched = m.touched
    BY <1>1, <1>3, <1>4, <1>8, CopyingIndex
  <1>10. /\ RootFields(r) /\ Roomy(r)
         /\ r.index = c.shadow /\ r.shadow = c.index /\ r.used = c.used
         /\ r.freeList = c.freeList /\ r.rootObject = c.rootObject
    BY ONLY <1>1, <1>7, SwappedFields
  <1>11. MemFields(k) /\ k.header = m.header
    BY <1>9 DEF CopiedTo, SameHeader
  <1>12. /\ MemFields(n)
         /\ n.pool = k.pool /\ n.map = none /\ n.touched = k.touched /\ n.modified = no
         /\ n.header.curr = k.header.curr /\ n.header.init = k.header.init
         /\ n.header.dirty = k.header.dirty
         /\ Current(n) = Current(k) /\ Working(n) = r
    <2> DEFINE j == 1 - m.header.curr
    <2>1. n = [k EXCEPT !.header.root[j] = r, !.map = none, !.modified = no]
      BY <1>6
    <2>2. j = 1 - k.header.curr
      BY <1>11
    <2> HIDE DEF j
    <2>3. AreSet(k, n, r, none, no)
      BY ONLY <1>10, <1>11, <2>1, <2>2, AllSet
    <2> QED
      BY ONLY <2>3 DEF AreSet
  <1>13. Current(n) = c /\ CE(n) = CE(m)
    <2>1. Current(n) = c
      BY <1>11, <1>12 DEF Current, c
    <2>2. Ent(k.pool, c.index) = Ent(m.pool, c.index)
      BY <1>9 DEF CopiedTo
    <2> QED
      BY <1>12, <2>1, <2>2 DEF CE, c
  <1>14. Whole(n.pool, c) /\ Alike(n.pool, c) /\ \A p \in Places : PageType(n.pool[p])
    BY <1>9, <1>12 DEF CopiedTo
  <1>15. Good(n)
    <2> DEFINE o == c.rootObject
    <2>1. o \in Users \cup {0}
      BY <1>1 DEF Roomy, Root
    <2>2. Working(n) = [Swapped(c) EXCEPT !.rootObject = o]
      <3>1. r = [index |-> r.index, shadow |-> r.shadow, used |-> r.used,
                 freeList |-> r.freeList, rootObject |-> r.rootObject]
        BY <1>10 DEF RootFields
      <3>2. r = [r EXCEPT !.rootObject = o]
        BY ONLY <3>1, <1>10
      <3> QED
        BY <3>2, <1>7, <1>12
    <2>3. n.map \subseteq 0 .. PageOf(MaxOid)
      BY <1>12 DEF none
    <2>4. c = Current(n)
      BY <1>13
    <2> HIDE DEF o
    <2> QED
      BY ONLY <1>12, <1>14, <2>1, <2>2, <2>3, <2>4, TwinGood
  <1>16. Frame(m, n, ToSet(c.shadow))
    BY <1>9, <1>12 DEF CopiedTo, Frame
  <1>17. IsRolled(m, n)
    BY <1>7, <1>11, <1>12, <1>13, <1>14, <1>15, <1>16 DEF IsRolled, c
  <1> QED
    BY <1>5, <1>9, <1>12, <1>17 DEF none, no, c, w

\* open() after a crash, and the end of a commit: the other root is replaced
\* and its index is written.
ReplacedIn(m, pages) ==
    LET c == Current(m)
    IN  CopyIndex(WithWorking(m, Swapped(c)), c.shadow, c.index, pages)

\* The same of the operation as recovery and commit write it.
LEMMA Replaced ==
    ASSUME NEW m, MemFields(m), \A p \in Places : PageType(m.pool[p]),
           m.map \subseteq 0 .. PageOf(MaxOid), Whole(m.pool, Current(m)),
           NEW pages \in SUBSET Nat,
           \A q \in 0 .. Current(m).used - 1 :
               PageOf(q) \in pages
                  \/ Ent(m.pool, Current(m).shadow)[q] = Ent(m.pool, Current(m).index)[q],
           NEW n, n = ReplacedIn(m, pages)
    PROVE  IsRolled(m, n) /\ n.map = m.map /\ n.modified = m.modified
  <1> DEFINE c == Current(m)
             r == Swapped(c)
             l == WithWorking(m, r)
  <1>1. Roomy(c) /\ IsInjective(c.shadow) /\ Len(c.shadow) = Len(c.index) /\ RootFields(c)
    BY WholeFacts, WorkingFields
  <1>2. r = Swapped(c) /\ l = WithWorking(m, r) /\ n = CopyIndex(l, c.shadow, c.index, pages)
    BY DEF ReplacedIn
  <1>6. /\ Whole(m.pool, c)
        /\ \A q \in 0 .. c.used - 1 :
              PageOf(q) \in pages \/ Ent(m.pool, c.shadow)[q] = Ent(m.pool, c.index)[q]
    OBVIOUS
  <1> HIDE DEF c, r, l
  <1>3. /\ RootFields(r) /\ Roomy(r)
        /\ r.index = c.shadow /\ r.shadow = c.index /\ r.used = c.used
        /\ r.freeList = c.freeList /\ r.rootObject = c.rootObject
    BY ONLY <1>1, <1>2, SwappedFields
  <1>4. /\ MemFields(l)
        /\ l.pool = m.pool /\ l.map = m.map /\ l.touched = m.touched
        /\ l.modified = m.modified
        /\ l.header.curr = m.header.curr /\ l.header.init = m.header.init
        /\ l.header.dirty = m.header.dirty
        /\ Current(l) = c /\ Working(l) = r
    BY <1>2, <1>3, RootSet DEF c
  <1>5. CopiedTo(l, n, c)
    <2>1. /\ Whole(l.pool, c) /\ \A p \in Places : PageType(l.pool[p])
          /\ \A q \in 0 .. c.used - 1 :
                PageOf(q) \in pages \/ Ent(l.pool, c.shadow)[q] = Ent(l.pool, c.index)[q]
      BY <1>4, <1>6
    <2> QED
      BY <1>2, <1>4, <2>1, CopyingIndex
  <1>7. MemFields(n) /\ n.header = l.header /\ n.map = m.map /\ n.modified = m.modified
    BY <1>4, <1>5 DEF CopiedTo, SameHeader
  <1>8. Current(n) = c /\ Working(n) = r /\ CE(n) = CE(m)
    <2>1. Current(n) = c /\ Working(n) = r
      BY <1>4, <1>7 DEF Current, Working
    <2>2. Ent(n.pool, c.index) = Ent(m.pool, c.index)
      BY <1>4, <1>5 DEF CopiedTo
    <2> QED
      BY <2>1, <2>2 DEF CE, c
  <1>9. Whole(n.pool, c) /\ Alike(n.pool, c) /\ \A p \in Places : PageType(n.pool[p])
    BY <1>5 DEF CopiedTo
  <1>10. Good(n)
    <2> DEFINE o == c.rootObject
    <2>1. o \in Users \cup {0}
      BY <1>1 DEF Roomy, Root
    <2>2. Working(n) = [Swapped(c) EXCEPT !.rootObject = o]
      <3>1. r = [index |-> r.index, shadow |-> r.shadow, used |-> r.used,
                 freeList |-> r.freeList, rootObject |-> r.rootObject]
        BY <1>3 DEF RootFields
      <3>2. r = [r EXCEPT !.rootObject = o]
        BY ONLY <3>1, <1>3
      <3> QED
        BY <3>2, <1>2, <1>8
    <2>3. n.map \subseteq 0 .. PageOf(MaxOid)
      BY <1>7
    <2>4. c = Current(n)
      BY <1>8
    <2> HIDE DEF o
    <2> QED
      BY ONLY <1>7, <1>9, <2>1, <2>2, <2>3, <2>4, TwinGood
  <1>11. Frame(m, n, ToSet(c.shadow))
    BY <1>4, <1>5 DEF CopiedTo, Frame
  <1>12. /\ n.header.curr = m.header.curr /\ n.header.init = m.header.init
         /\ n.header.dirty = m.header.dirty
    BY <1>4, <1>7
  <1>13. IsRolled(m, n)
    BY <1>2, <1>8, <1>9, <1>10, <1>11, <1>12 DEF IsRolled, c
  <1> QED
    BY <1>7, <1>13

-----------------------------------------------------------------------------
(* What a commit prepares.                                                  *)

\* Memory when the working root has its shadow, and before the places that
\* are given up are freed.
Given(m, g) ==
    /\ Laid(g) /\ g.map \subseteq 0 .. PageOf(MaxOid)
    /\ Current(g) = Current(m) /\ CE(g) = CE(m)
    /\ g.header.curr = m.header.curr /\ g.header.init = m.header.init
    /\ g.header.dirty = TRUE /\ g.modified = TRUE
    /\ Working(g).index = Working(m).index /\ Working(g).used = Working(m).used
    /\ Working(g).freeList = Working(m).freeList
    /\ Working(g).rootObject = Working(m).rootObject
    /\ Roomy(Working(g)) /\ IsInjective(Working(g).shadow)
    /\ Len(Working(g).shadow) = Len(Working(g).index)
    /\ WI(g) \cap ToSet(Working(g).shadow) = {}
    /\ Formed(WE(g), Working(g).used) /\ Linked(WE(g), Working(g).used, Working(g).freeList)
    /\ Apart(CE(g), WE(g), Current(g).used, Working(g).used, CI(g), WI(g))
    /\ Cloned(CE(g), WE(g), Current(g).used)
    /\ Marked(CE(g), WE(g), Current(g).used, Working(g).used, g.map)
    /\ \A q \in 0 .. Working(g).used - 1 : WE(g)[q].pos \notin ToSet(Working(g).shadow)
    /\ \A q \in 0 .. Current(g).used - 1 : CE(g)[q].pos \notin ToSet(Working(g).shadow)
    /\ Bitmap(g) = WI(g) \cup ToSet(Working(g).shadow)
                       \cup Spots(CE(g), Current(g).used) \cup Spots(WE(g), Working(g).used)
    /\ \A q \in 1 .. Working(m).used - 1 : WE(g)[q] = WE(m)[q]
    /\ Frame(m, g, Own(m))
    /\ Whole(g.pool, Current(g))
    /\ Len(Working(g).index) = Len(Current(g).index) =>
          Working(g).index = Current(g).shadow /\ Working(g).shadow = Current(g).index

\* As long as the index has not grown its shadow is the committed one.
LEMMA GivenSame ==
    ASSUME NEW m, Good(m), ~Grown(m), m.header.dirty = TRUE, m.modified = TRUE
    PROVE  Given(m, m)
  <1>1. /\ Laid(m) /\ Roomy(Current(m)) /\ Roomy(Working(m))
        /\ Beside(CE(m), WE(m), Current(m).used, Working(m).used, CI(m), WI(m),
                  Working(m).freeList, Bitmap(m), m.map)
        /\ CI(m) \cap WI(m) = {}
        /\ Working(m).shadow = Current(m).index
        /\ \/ Working(m).index = Current(m).shadow
           \/ Len(Working(m).index) > Len(Current(m).index) /\ WE(m)[0].mod
    BY GoodFacts
  <1>2. Working(m).index = Current(m).shadow
    BY <1>1 DEF Grown
  <1>3. /\ Whole(m.pool, Current(m)) /\ m.map \subseteq 0 .. PageOf(MaxOid)
    BY DEF Good
  <1>4. Len(Current(m).shadow) = Len(Current(m).index)
    BY <1>3, WholeFacts
  <1>5. IsInjective(Working(m).shadow) /\ Len(Working(m).shadow) = Len(Working(m).index)
    BY <1>1, <1>2, <1>4, RoomyFacts
  <1>6. ToSet(Working(m).shadow) = CI(m)
    BY <1>1 DEF CI
  <1>7. /\ Formed(WE(m), Working(m).used) /\ Linked(WE(m), Working(m).used, Working(m).freeList)
        /\ Apart(CE(m), WE(m), Current(m).used, Working(m).used, CI(m), WI(m))
        /\ Cloned(CE(m), WE(m), Current(m).used)
        /\ Marked(CE(m), WE(m), Current(m).used, Working(m).used, m.map)
        /\ Bitmap(m) = WI(m) \cup CI(m)
                       \cup Spots(CE(m), Current(m).used) \cup Spots(WE(m), Working(m).used)
    BY <1>1 DEF Beside
  <1>8. /\ \A q \in 0 .. Working(m).used - 1 : WE(m)[q].pos \notin ToSet(Working(m).shadow)
        /\ \A q \in 0 .. Current(m).used - 1 : CE(m)[q].pos \notin ToSet(Working(m).shadow)
    BY <1>6, <1>7 DEF Apart
  <1>9. WI(m) \cap ToSet(Working(m).shadow) = {}
    BY <1>1, <1>6
  <1>10. Frame(m, m, Own(m))
    BY DEF Frame
  <1>11. Bitmap(m) = WI(m) \cup ToSet(Working(m).shadow)
                       \cup Spots(CE(m), Current(m).used) \cup Spots(WE(m), Working(m).used)
    BY <1>6, <1>7
  <1> QED
    BY <1>1, <1>2, <1>3, <1>5, <1>7, <1>8, <1>9, <1>10, <1>11 DEF Given

\* The bitmap is set to u.
IsMarked(m, n, u) ==
    /\ Laid(n) /\ SameHeader(m, n)
    /\ Current(n) = Current(m) /\ Working(n) = Working(m)
    /\ CE(n) = CE(m) /\ WE(n) = WE(m)
    /\ Bitmap(n) = u
    /\ Frame(m, n, {WE(m)[0].pos})

\* Setting the bitmap does no more than that.
LEMMA Marking ==
    ASSUME NEW m, Laid(m), WE(m)[0].pos \in Places, WE(m)[0].pos \notin CI(m) \cup WI(m),
           NEW u \in SUBSET Places, NEW n, n = SetBitmap(m, u)
    PROVE  IsMarked(m, n, u)
  BY BitmapSet DEF IsMarked

\* A root with another shadow has the same room.
LEMMA RoomyShadow ==
    ASSUME NEW r, RootFields(r), Roomy(r), NEW at \in Seq(Places),
           NEW s, s = [r EXCEPT !.shadow = at]
    PROVE  /\ Roomy(s) /\ s.index = r.index /\ s.shadow = at /\ s.used = r.used
           /\ s.freeList = r.freeList /\ s.rootObject = r.rootObject /\ RootFields(s)
  <1>1. RootFields(s)
    BY RootWithField
  <1>2. /\ s.index = r.index /\ s.shadow = at /\ s.used = r.used
        /\ s.freeList = r.freeList /\ s.rootObject = r.rootObject
    BY ONLY RootFields(r), s = [r EXCEPT !.shadow = at] DEF RootFields
  <1>3. Roomy(s)
    BY <1>2 DEF Roomy, Root
  <1> QED
    BY <1>1, <1>2, <1>3

\* When it has, the root is given a new one, and the committed index is given up.
LEMMA GivenNew ==
    ASSUME NEW m, Good(m), Grown(m), m.header.dirty = TRUE, m.modified = TRUE,
           NEW at \in NewPlaces(m, Len(Working(m).index)),
           NEW g, g = GrowShadow(m, at)
    PROVE  Given(m, g)
  <1> DEFINE w == Working(m)
             n == Len(w.index)
             d == CloneBitmap(SetDirty(m))
             t == Take(m, at)
             r == [w EXCEPT !.shadow = at]
             l == WithWorking(t, r)
             x == WE(d)[0].pos
  <1>1. /\ Roomy(w) /\ RootFields(w) /\ n \in Nat /\ w.index \in Seq(Places)
        /\ Len(Current(m).index) \in Nat
        /\ Len(w.shadow) \in Nat /\ w.shadow = Current(m).index
    BY GoodFacts, RoomyFacts, WorkingFields DEF Laid
  <1>2. n > Len(Current(m).index) /\ n >= 1
    BY <1>1 DEF Grown
  <1>3. WE(m)[0].mod
    <2>1. Len(Current(m).shadow) = Len(Current(m).index)
      BY WholeFacts DEF Good
    <2>2. w.index # Current(m).shadow
      BY <1>1, <1>2, <2>1
    <2> QED
      BY <2>2, GoodFacts
  <1>4. Bitmap(m) # Places
    <2> DEFINE s == SetDirty(m)
    <2>1. WE(s) = WE(m) /\ Bitmap(s) = Bitmap(m)
      BY DirtiedGood
    <2> HIDE DEF s
    <2>2. CloneBitmap(s) = s
      BY <1>3, <2>1, BitmapLooked DEF CloneBitmap
    <2>3. \A i \in 1 .. n : Bitmap(CloneBitmap(s)) \cup {at[j] : j \in 1 .. i - 1} # Places
      BY DEF NewPlaces, s
    <2>4. 1 \in 1 .. n
      BY <1>1, <1>2
    <2>5. {at[j] : j \in 1 .. 1 - 1} = {}
      OBVIOUS
    <2> QED
      BY <2>1, <2>2, <2>3, <2>4, <2>5
  <1>5. Taken(m, n, at, d, t)
    <2>1. at \in NewPlaces(m, n) /\ n \in Nat /\ d = CloneBitmap(SetDirty(m)) /\ t = Take(m, at)
      BY <1>1
    <2>2. Good(m) /\ Bitmap(m) # Places
      BY <1>4
    <2> HIDE DEF n, d, t
    <2> QED
      BY ONLY <2>1, <2>2, Taking
  <1>6. /\ Ready(m, d)
        /\ at \in Seq(Places) /\ Len(at) = n /\ IsInjective(at)
        /\ ToSet(at) \in SUBSET Places /\ ToSet(at) \cap Bitmap(d) = {}
        /\ Laid(t) /\ SameHeader(d, t)
        /\ Current(t) = Current(d) /\ Working(t) = Working(d)
        /\ CE(t) = CE(d) /\ WE(t) = WE(d)
        /\ Bitmap(t) = Bitmap(d) \cup ToSet(at)
        /\ Frame(d, t, {x})
    BY <1>5 DEF Taken
  <1>7. /\ Good(d) /\ WE(d)[0].mod
        /\ \A q \in 1 .. w.used - 1 : WE(d)[q] = WE(m)[q]
        /\ Current(d) = Current(m) /\ Working(d) = w /\ CE(d) = CE(m)
        /\ d.header.curr = m.header.curr /\ d.header.init = m.header.init
        /\ d.header.dirty = TRUE /\ d.modified = TRUE
        /\ Frame(m, d, Own(m)) /\ Own(d) \subseteq Own(m)
    BY <1>6 DEF Ready
  <1>8. g = Free(l, CI(m))
    <2> DEFINE k == 1 - m.header.curr
    <2>1. t.header.curr = m.header.curr /\ Working(t) = w
      BY <1>6, <1>7 DEF SameHeader
    <2>2. g = Free([t EXCEPT !.header.root[k].shadow = at], CI(m))
      BY DEF GrowShadow, CI
    <2>3. k = 1 - t.header.curr
      BY <2>1
    <2> HIDE DEF t, k, w
    <2>4. [t EXCEPT !.header.root[k].shadow = at] = l
      BY ONLY <2>1, <2>3 DEF WithWorking, Working, l, r
    <2> QED
      BY <2>2, <2>4
  <1> HIDE DEF d, t, n
  <1>9. /\ Roomy(r) /\ r.index = w.index /\ r.shadow = at /\ r.used = w.used
        /\ r.freeList = w.freeList /\ r.rootObject = w.rootObject /\ RootFields(r)
    <2> HIDE DEF w
    <2> QED
      BY <1>1, <1>6, RoomyShadow
  <1>10. /\ MemFields(l)
         /\ l.pool = t.pool /\ l.map = t.map /\ l.touched = t.touched
         /\ l.modified = t.modified
         /\ l.header.curr = t.header.curr /\ l.header.init = t.header.init
         /\ l.header.dirty = t.header.dirty
         /\ Current(l) = Current(t) /\ Working(l) = r
    <2>1. MemFields(t)
      BY <1>6 DEF Laid
    <2> HIDE DEF r
    <2> QED
      BY <1>9, <2>1, RootSet
  <1>11. /\ Laid(l) /\ CE(l) = CE(d) /\ WE(l) = WE(d) /\ Bitmap(l) = Bitmap(d) \cup ToSet(at)
         /\ CI(l) = CI(d) /\ WI(l) = WI(d)
    <2> HIDE DEF l, r
    <2>1. Working(l).index = Working(t).index
      BY <1>6, <1>7, <1>9, <1>10
    <2>2. /\ Laid(l) /\ CE(l) = CE(t) /\ WE(l) = WE(t) /\ Bitmap(l) = Bitmap(t)
          /\ CI(l) = CI(t) /\ WI(l) = WI(t)
      BY <1>6, <1>10, <2>1, LaidSame
    <2>3. CI(t) = CI(d) /\ WI(t) = WI(d)
      BY <1>6 DEF CI, WI
    <2> QED
      BY <1>6, <2>2, <2>3
  <1> HIDE DEF l, r
  <1>12. /\ Bitmap(d) \in SUBSET Places
         /\ x \in Places /\ x \in Bitmap(d) /\ x \notin CI(d) \cup WI(d)
         /\ CI(d) = CI(m) /\ CI(d) \in SUBSET Places /\ CI(d) \cap WI(d) = {}
         /\ Beside(CE(d), WE(d), Current(d).used, w.used, CI(d), WI(d),
                   w.freeList, Bitmap(d), d.map)
         /\ \A q \in 0 .. w.used - 1 : WE(d)[q].pos # NoPlace => WE(d)[q].pos \in Bitmap(d)
         /\ \A q \in 0 .. Current(d).used - 1 : CE(d)[q].pos # NoPlace => CE(d)[q].pos \in Bitmap(d)
         /\ WI(d) \subseteq Bitmap(d)
    BY <1>7, GoodFacts, GoodPlaces DEF CI
  <1> DEFINE u == (Bitmap(d) \cup ToSet(at)) \ CI(d)
  <1>13. u \in SUBSET Places
    BY <1>6, <1>12
  <1>14. g = SetBitmap(l, u)
    <2>1. CloneBitmap(l) = l
      BY <1>7, <1>11, BitmapLooked DEF CloneBitmap
    <2> QED
      BY <1>8, <1>11, <1>12, <2>1 DEF Free
  <1>15. Laid(l) /\ WE(l)[0].pos \in Places /\ WE(l)[0].pos \notin CI(l) \cup WI(l)
         /\ x = WE(l)[0].pos
    BY <1>11, <1>12
  <1> HIDE DEF u, x
  <1>26. IsMarked(l, g, u)
    BY ONLY <1>13, <1>14, <1>15, Marking
  <1>16. /\ Laid(g) /\ SameHeader(l, g)
         /\ Current(g) = Current(l) /\ Working(g) = Working(l)
         /\ CE(g) = CE(l) /\ WE(g) = WE(l)
         /\ Bitmap(g) = u
         /\ Frame(l, g, {x})
    BY ONLY <1>15, <1>26 DEF IsMarked
  <1>17. /\ Current(g) = Current(m) /\ CE(g) = CE(m) /\ CE(g) = CE(d) /\ WE(g) = WE(d)
         /\ Working(g) = r /\ CI(g) = CI(d) /\ WI(g) = WI(d)
    BY <1>6, <1>7, <1>10, <1>11, <1>16 DEF CI, WI
  <1>18. /\ g.map = d.map /\ g.map \subseteq 0 .. PageOf(MaxOid)
         /\ g.header.curr = m.header.curr /\ g.header.init = m.header.init
         /\ g.header.dirty = TRUE /\ g.modified = TRUE
    BY <1>6, <1>7, <1>10, <1>16 DEF SameHeader, Good
  <1>19. Frame(m, g, Own(m))
    <2>1. Frame(d, l, {x})
      BY <1>6, <1>10 DEF Frame
    <2>2. Frame(d, g, {x} \cup {x})
      BY <2>1, <1>16, FrameTwice
    <2>3. {x} \cup {x} \subseteq Own(d)
      BY <1>7 DEF Own, x
    <2>4. Frame(d, g, Own(d))
      BY <2>2, <2>3, FrameMore
    <2> QED
      BY <1>7, <2>4 DEF Frame
  <1>20. Whole(g.pool, Current(g))
    <2>1. /\ CE(m)[0].pos \in Places /\ 0 \in 0 .. Current(m).used - 1 /\ CI(m) \subseteq Places
      BY GoodPlaces, GoodFacts
    <2>2. CE(m)[0].pos \notin Own(m) /\ \A p \in CI(m) : p \notin Own(m)
      BY <2>1, OwnApart
    <2>3. g.pool[CE(m)[0].pos] = m.pool[CE(m)[0].pos] /\ \A p \in CI(m) : g.pool[p] = m.pool[p]
      BY <1>19, <2>1, <2>2 DEF Frame
    <2>4. Whole(m.pool, Current(m))
      BY DEF Good
    <2>5. Whole(g.pool, Current(m))
      BY <2>3, <2>4, WholeKept DEF CI, CE
    <2> QED
      BY <1>17, <2>5
  <1> DEFINE sh == Working(g).shadow
  <1>21. /\ Working(g).index = w.index /\ Working(g).used = w.used /\ sh = at
         /\ Working(g).freeList = w.freeList /\ Working(g).rootObject = w.rootObject
         /\ Roomy(Working(g)) /\ IsInjective(sh) /\ Len(sh) = Len(Working(g).index)
         /\ Len(Working(g).index) # Len(Current(g).index)
    BY <1>1, <1>2, <1>6, <1>9, <1>17 DEF n
  <1>22. /\ Formed(WE(g), w.used) /\ Linked(WE(g), w.used, w.freeList)
         /\ Apart(CE(g), WE(g), Current(g).used, w.used, CI(g), WI(g))
         /\ Cloned(CE(g), WE(g), Current(g).used)
         /\ Marked(CE(g), WE(g), Current(g).used, w.used, g.map)
         /\ Bitmap(d) = CI(g) \cup WI(g) \cup Spots(CE(g), Current(g).used)
                           \cup Spots(WE(g), w.used)
    <2>1. Beside(CE(g), WE(g), Current(g).used, w.used, CI(g), WI(g), w.freeList, Bitmap(d), g.map)
      BY <1>7, <1>12, <1>17, <1>18
    <2> QED
      BY <2>1 DEF Beside
  <1>23. /\ \A q \in 0 .. w.used - 1 : WE(g)[q].pos \notin ToSet(at)
         /\ \A q \in 0 .. Current(g).used - 1 : CE(g)[q].pos \notin ToSet(at)
         /\ WI(g) \cap ToSet(at) = {}
    <2>1. NoPlace \notin ToSet(at)
      BY <1>6, NoPlaceIsNone
    <2> QED
      BY <1>6, <1>7, <1>12, <1>17, <2>1
  <1>24. Bitmap(g) = WI(g) \cup ToSet(at) \cup Spots(CE(g), Current(g).used)
                        \cup Spots(WE(g), w.used)
    <2>1. /\ CI(g) \cap Spots(CE(g), Current(g).used) = {}
          /\ CI(g) \cap Spots(WE(g), w.used) = {}
      BY <1>22 DEF Apart, Spots
    <2>2. CI(g) \cap WI(g) = {} /\ CI(g) \cap ToSet(at) = {}
      BY <1>6, <1>12, <1>17, <1>22
    <2>3. Bitmap(g) = (Bitmap(d) \cup ToSet(at)) \ CI(g)
      BY <1>16, <1>17 DEF u
    <2> DEFINE A == Spots(CE(g), Current(g).used)
               B == Spots(WE(g), w.used)
               I == CI(g)
               J == WI(g)
               K == ToSet(at)
               bg == Bitmap(g)
               bd == Bitmap(d)
    <2>4. I \cap A = {} /\ I \cap B = {} /\ I \cap J = {} /\ I \cap K = {} /\ bg = (bd \cup K) \ I
          /\ bd = I \cup J \cup A \cup B
      BY <1>22, <2>1, <2>2, <2>3
    <2> HIDE DEF A, B, I, J, K, bg, bd
    <2>5. bg = J \cup K \cup A \cup B
      BY ONLY <2>4
    <2> QED
      BY <2>5 DEF A, B, J, K, bg
  <1>25. \A q \in 1 .. w.used - 1 : WE(g)[q] = WE(m)[q]
    BY <1>7, <1>17
  <1> QED
    BY <1>16, <1>17, <1>18, <1>19, <1>20, <1>21, <1>22, <1>23, <1>24, <1>25 DEF Given

\* The places that the commit gives up are freed.
IsEmptied(g, f) ==
    /\ Laid(f) /\ SameHeader(g, f)
    /\ Current(f) = Current(g) /\ Working(f) = Working(g)
    /\ CE(f) = CE(g) /\ WE(f) = WE(g)
    /\ Bitmap(f) = WI(g) \cup ToSet(Working(g).shadow) \cup Spots(WE(g), Working(g).used)
    /\ Frame(g, f, IF WE(g)[0].mod THEN {WE(g)[0].pos} ELSE {})

Emptied(g) == IF OldPlaces(g) = {} THEN g ELSE Free(g, OldPlaces(g))

\* The committed state and the room in the indexes, as they are given.
LEMMA GivenFacts ==
    ASSUME NEW m, Good(m), NEW g, Given(m, g)
    PROVE  /\ Current(g).used \in Nat /\ Working(g).used \in Nat
           /\ Current(g).used <= Working(g).used /\ FirstUserId <= Current(g).used
           /\ FirstUserId \in Nat /\ FirstUserId >= 1
           /\ Working(g).used <= MaxOid + 1
           /\ Fixed(CE(g), Current(g).used) /\ Formed(WE(g), Working(g).used)
           /\ CI(g) = CI(m) /\ WI(g) = WI(m) /\ CI(g) \cap WI(g) = {}
           /\ CI(g) \in SUBSET Places /\ WI(g) \in SUBSET Places
           /\ Spots(CE(g), Current(g).used) \in SUBSET Places
           /\ Spots(WE(g), Working(g).used) \in SUBSET Places
           /\ ToSet(Working(g).shadow) \in SUBSET Places
           /\ WE(g)[0].pos \in Places /\ WE(g)[0].pos \notin CI(g) \cup WI(g)
           /\ 0 \in 0 .. Working(g).used - 1 /\ 0 \in 0 .. Current(g).used - 1
  <1>1. /\ Current(g) = Current(m) /\ Working(g).used = Working(m).used
        /\ Working(g).index = Working(m).index /\ CE(g) = CE(m)
        /\ Formed(WE(g), Working(g).used)
        /\ Apart(CE(g), WE(g), Current(g).used, Working(g).used, CI(g), WI(g))
        /\ Roomy(Working(g))
    BY DEF Given
  <1>2. /\ Current(m).used \in Nat /\ Working(m).used \in Nat
        /\ Current(m).used <= Working(m).used /\ FirstUserId <= Current(m).used
        /\ Working(m).used <= MaxOid + 1
        /\ Fixed(CE(m), Current(m).used) /\ CI(m) \cap WI(m) = {}
        /\ CI(m) \in SUBSET Places /\ WI(m) \in SUBSET Places
    BY GoodFacts
  <1>3. FirstUserId \in Nat /\ FirstUserId >= 1
    BY Sizes
  <1>4. CI(g) = CI(m) /\ WI(g) = WI(m)
    BY <1>1 DEF CI, WI
  <1>5. ToSet(Working(g).shadow) \in SUBSET Places
    BY <1>1, RoomyFacts
  <1>6. FirstUserId <= Working(g).used /\ Working(g).used \in Nat
    BY ONLY <1>1, <1>2, <1>3
  <1>7. /\ Spots(WE(g), Working(g).used) \in SUBSET Places
        /\ WE(g)[0].pos \in Places /\ 0 \in 0 .. Working(g).used - 1
    BY <1>1, <1>6, EntryPlaces
  <1>8. /\ Spots(CE(g), Current(g).used) \in SUBSET Places /\ 0 \in 0 .. Current(g).used - 1
    BY <1>1, <1>2, EntryPlaces DEF Fixed
  <1>9. WE(g)[0].pos \notin CI(g) \cup WI(g)
    BY <1>1, <1>7 DEF Apart
  <1> QED
    BY <1>1, <1>2, <1>3, <1>4, <1>5, <1>7, <1>8, <1>9

\* The places of the old versions, and no others, are given up.
LEMMA Emptying ==
    ASSUME NEW m, Good(m), NEW g, Given(m, g), committed = Current(m).used,
           NEW f, f = Emptied(g)
    PROVE  IsEmptied(g, f)
  <1> DEFINE ce == CE(g)
             we == WE(g)
             cn == Current(g).used
             wn == Working(g).used
             sh == ToSet(Working(g).shadow)
             old == OldPlaces(g)
  <1>1. /\ Laid(g) /\ Apart(ce, we, cn, wn, CI(g), WI(g)) /\ Cloned(ce, we, cn)
        /\ Marked(ce, we, cn, wn, g.map) /\ committed = cn
        /\ \A q \in 0 .. cn - 1 : ce[q].pos \notin sh
        /\ Bitmap(g) = WI(g) \cup sh \cup Spots(ce, cn) \cup Spots(we, wn)
    BY DEF Given
  <1>2. /\ cn \in Nat /\ wn \in Nat /\ cn <= wn /\ FirstUserId <= cn /\ wn <= MaxOid + 1
        /\ Fixed(ce, cn) /\ Formed(we, wn) /\ Spots(ce, cn) \in SUBSET Places
        /\ WI(g) \in SUBSET Places /\ sh \in SUBSET Places /\ Spots(we, wn) \in SUBSET Places
    BY GivenFacts
  <1>3. old = GivenPlaces(ce, we, cn, g.map)
    <2>1. \A q \in 0 .. cn - 1 : GetPos(g, q) = we[q] /\ GetGCPos(g, q) = ce[q]
      <3>1. \A q \in 0 .. cn - 1 : q \in Ids
        BY ONLY <1>2, Sizes DEF Ids
      <3> QED
        BY <3>1, Looked
    <2> QED
      BY <1>1, <2>1 DEF OldPlaces, GivenPlaces
  <1> HIDE DEF ce, we, cn, wn, old
  <1>4. \A x : x \in old <=> x \in Spots(ce, cn) /\ x \notin Spots(we, wn)
    BY ONLY <1>1, <1>2, <1>3, GivenUp
  <1>5. WI(g) \cap Spots(ce, cn) = {} /\ sh \cap Spots(ce, cn) = {}
    BY <1>1 DEF Apart, Spots
  <1> DEFINE J == WI(g)
             A == Spots(ce, cn)
             B == Spots(we, wn)
             bg == Bitmap(g)
             u == J \cup sh \cup B
  <1>6. bg = J \cup sh \cup A \cup B /\ J \cap A = {} /\ sh \cap A = {}
        /\ J \in SUBSET Places /\ sh \in SUBSET Places /\ B \in SUBSET Places
        /\ \A x : x \in old <=> x \in A /\ x \notin B
    BY <1>1, <1>2, <1>4, <1>5
  <1>7. bg \ old = u /\ u \in SUBSET Places
    <2> HIDE DEF J, A, B, bg, sh
    <2> QED
      BY ONLY <1>6
  <1>8. CASE old = {}
    <2>1. f = g
      BY <1>8 DEF Emptied, old
    <2>2. Bitmap(g) = u
      BY <1>7, <1>8
    <2>3. Frame(g, g, IF WE(g)[0].mod THEN {WE(g)[0].pos} ELSE {})
      BY DEF Frame
    <2> HIDE DEF bg, J, B
    <2> QED
      BY <1>1, <2>1, <2>2, <2>3 DEF IsEmptied, SameHeader, J, B, we, wn
  <1>9. CASE old # {}
    <2>1. \E x : x \in Spots(ce, cn) /\ x \notin Spots(we, wn)
      BY <1>4, <1>9
    <2>2. \E q \in 0 .. cn - 1 : ce[q].pos # NoPlace /\ we[q] # ce[q]
      <3>1. PICK x : x \in Spots(ce, cn) /\ x \notin Spots(we, wn)
        BY <2>1
      <3>2. PICK q \in 0 .. cn - 1 : ce[q].pos = x /\ x # NoPlace
        BY <3>1 DEF Spots
      <3>3. q \in 0 .. wn - 1
        BY ONLY <1>2
      <3>4. we[q].pos # x
        BY <3>1, <3>2, <3>3 DEF Spots
      <3> QED
        BY <3>2, <3>4
    <2>3. WE(g)[0].mod
      BY <1>1, <2>2 DEF Cloned, we
    <2>4. CloneBitmap(g) = g
      BY <2>3, BitmapLooked DEF CloneBitmap
    <2>5. f = SetBitmap(g, u)
      BY <1>7, <1>9, <2>4 DEF Emptied, Free, old
    <2>6. WE(g)[0].pos \in Places /\ WE(g)[0].pos \notin CI(g) \cup WI(g)
      BY GivenFacts
    <2>7. IsMarked(g, f, u)
      <3> HIDE DEF u
      <3> QED
        BY ONLY <1>1, <1>7, <2>5, <2>6, Marking
    <2>8. Frame(g, f, IF WE(g)[0].mod THEN {WE(g)[0].pos} ELSE {})
      BY <2>3, <2>7 DEF IsMarked
    <2> HIDE DEF J, B
    <2> QED
      BY <2>7, <2>8 DEF IsMarked, IsEmptied, J, B, we, wn
  <1> QED
    BY <1>8, <1>9

\* The modified flags of the entries below n are cleared.
IsCleared(f, p) ==
    /\ Laid(p) /\ SameHeader(f, p)
    /\ Current(p) = Current(f) /\ Working(p) = Working(f) /\ CE(p) = CE(f)
    /\ \A q \in 0 .. Working(f).used - 1 : WE(p)[q] = [WE(f)[q] EXCEPT !.mod = FALSE]
    /\ Frame(f, p, WI(f))

\* The pages that a commit clears have all the entries that were modified.
LEMMA ClearingFlags ==
    ASSUME NEW f, Laid(f), Roomy(Working(f)), f.map \subseteq 0 .. PageOf(MaxOid),
           committed \in Nat,
           Formed(WE(f), Working(f).used),
           \A q \in 0 .. Working(f).used - 1 :
               WE(f)[q].mod => PageOf(q) \in f.map \/ q >= committed,
           NEW p, p = ClearFlags(f)
    PROVE  IsCleared(f, p)
  <1> DEFINE n == Working(f).used
             len == Len(Working(f).index)
             D == {q \in 0 .. HandlesPerPage * len - 1 : PageOf(q) \in Settled(f)}
             es == [o \in D |-> [GetPos(f, o) EXCEPT !.mod = FALSE]]
  <1>1. /\ n \in Nat /\ n <= MaxOid + 1 /\ n <= HandlesPerPage * len /\ len \in Nat
        /\ Working(f).index \in Seq(Places)
        /\ \A q \in 0 .. n - 1 : q \in Nat /\ q \in Ids
    BY RoomyFacts
  <1>2. p = SetEntries(f, es)
    BY DEF ClearFlags
  <1>3. D \in SUBSET Nat /\ \A o \in D : PageOf(o) < len
    <2>1. \A o \in D : o \in Nat /\ o < HandlesPerPage * len
      BY <1>1, Sizes
    <2> QED
      BY <1>1, <2>1, PageInIndex
  <1>4. \A o \in D : GetPos(f, o) \in Entry
    BY <1>1, <1>3, LookupTyped DEF Laid, GetPos
  <1>5. \A o \in D : es[o] \in Entry
    <2> TAKE o \in D
    <2>1. GetPos(f, o) \in Entry
      BY <1>4
    <2>2. [GetPos(f, o) EXCEPT !.mod = FALSE] \in Entry
      BY <2>1, ClearedEntry
    <2> QED
      BY <2>2
  <1>6. DOMAIN es = D /\ \A o \in D : es[o] = [GetPos(f, o) EXCEPT !.mod = FALSE]
    OBVIOUS
  <1> HIDE DEF D, es
  <1>7. DOMAIN es \in SUBSET Nat
        /\ \A o \in DOMAIN es : PageOf(o) < Len(Working(f).index) /\ es[o] \in Entry
    BY <1>3, <1>5, <1>6
  <1>8. /\ Laid(p) /\ SameHeader(f, p)
        /\ Current(p) = Current(f) /\ Working(p) = Working(f)
        /\ CE(p) = CE(f)
        /\ \A q \in Ids : WE(p)[q] = IF q \in DOMAIN es THEN es[q] ELSE WE(f)[q]
        /\ Frame(f, p, WI(f))
    BY <1>2, <1>7, EntriesSet
  <1>9. ASSUME NEW q \in 0 .. n - 1
        PROVE  WE(p)[q] = [WE(f)[q] EXCEPT !.mod = FALSE]
    <2>1. q \in Ids /\ q \in Nat /\ WE(f)[q] \in Entry
      BY <1>1 DEF Formed
    <2>2. CASE q \in D
      BY <1>6, <1>8, <2>1, <2>2, Looked
    <2>3. CASE q \notin D
      <3>1. q \in 0 .. HandlesPerPage * len - 1
        BY ONLY <1>1, <2>1, Sizes
      <3>2. PageOf(q) \notin Settled(f)
        BY <2>3, <3>1 DEF D
      <3>3. PageOf(q) \notin f.map
        BY <3>2 DEF Settled
      <3>4. ~WE(f)[q].mod
        <4> SUFFICES ASSUME WE(f)[q].mod PROVE FALSE
          OBVIOUS
        <4>1. q >= committed
          BY <3>3
        <4>2. n > committed
          BY ONLY <1>1, <4>1, committed \in Nat
        <4>3. PageOf(committed) <= PageOf(q)
          BY <2>1, <4>1, PagesInOrder
        <4>4. PageOf(q) < PagesOf(n) /\ PagesOf(n) \in Nat
          BY <1>1, <2>1, PageBelow
        <4>5. PageOf(q) \in Nat /\ PageOf(committed) \in Nat
          BY <2>1, PageAndSlot
        <4>6. PageOf(q) \in PageOf(committed) .. PagesOf(n) - 1
          BY ONLY <4>3, <4>4, <4>5
        <4> QED
          BY <3>2, <4>2, <4>6 DEF Settled
      <3>5. WE(f)[q] = [WE(f)[q] EXCEPT !.mod = FALSE]
        BY ONLY <2>1, <3>4 DEF Entry
      <3>6. WE(p)[q] = WE(f)[q]
        BY <1>6, <1>8, <2>1, <2>3
      <3> QED
        BY <3>5, <3>6
    <2> QED
      BY <2>2, <2>3
  <1> QED
    BY <1>8, <1>9 DEF IsCleared

\* What the entries that the end of a commit does not copy are.
Cut(pages, c, w, marks) ==
    Len(w.index) = Len(c.index) =>
        /\ w.index = c.shadow
        /\ w.shadow = c.index
        /\ \A q \in 0 .. c.used - 1 :
              PageOf(q) \notin marks
                 => Ent(pages, w.index)[q] = Ent(pages, c.index)[q]

\* Both roots alone are states to go on from, the working one with the
\* identifiers and the objects it had.
IsPrepared(m, p) ==
    /\ MemFields(p) /\ \A q \in Places : PageType(p.pool[q])
    /\ p.map \subseteq 0 .. PageOf(MaxOid)
    /\ Current(p) = Current(m) /\ CE(p) = CE(m)
    /\ p.header.curr = m.header.curr /\ p.header.init = m.header.init
    /\ p.header.dirty = TRUE /\ p.modified = TRUE
    /\ Whole(p.pool, Current(p)) /\ Whole(p.pool, Working(p))
    /\ Cut(p.pool, Current(p), Working(p), p.map)
    /\ Current(p).used <= Working(p).used /\ Working(p).used = Working(m).used
    /\ Working(p).rootObject = Working(m).rootObject
    /\ Frame(m, p, Places \ (CI(m) \cup Spots(CE(m), Current(m).used)))
    /\ \A q \in 1 .. Working(m).used - 1 :
          /\ WE(p)[q].pos = WE(m)[q].pos /\ WE(p)[q].free = WE(m)[q].free
          /\ WE(m)[q].pos # NoPlace => p.pool[WE(m)[q].pos] = m.pool[WE(m)[q].pos]

\* What the old places being freed and the flags being cleared make of memory
\* in which the root has its shadow.
LEMMA PreparedFrom ==
    ASSUME NEW m, Good(m), NEW g, Given(m, g), committed = Current(m).used,
           \A q \in Users : q < Working(m).used /\ ~WE(m)[q].free => WE(m)[q].pos # NoPlace,
           NEW f, f = Emptied(g), NEW p, p = ClearFlags(f)
    PROVE  IsPrepared(m, p)
  <1> DEFINE ce == CE(g)
             we == WE(g)
             cn == Current(g).used
             wn == Working(g).used
             sh == ToSet(Working(g).shadow)
  <1>1. /\ Apart(ce, we, cn, wn, CI(g), WI(g))
        /\ Marked(ce, we, cn, wn, g.map) /\ committed = cn
        /\ Current(g) = Current(m) /\ CE(g) = CE(m)
        /\ wn = Working(m).used /\ Working(g).rootObject = Working(m).rootObject
        /\ g.header.curr = m.header.curr /\ g.header.init = m.header.init
        /\ g.header.dirty = TRUE /\ g.modified = TRUE
        /\ g.map \subseteq 0 .. PageOf(MaxOid)
        /\ Linked(we, wn, Working(g).freeList)
        /\ Roomy(Working(g)) /\ IsInjective(Working(g).shadow)
        /\ Len(Working(g).shadow) = Len(Working(g).index) /\ WI(g) \cap sh = {}
        /\ \A q \in 0 .. wn - 1 : we[q].pos \notin sh
        /\ \A q \in 0 .. cn - 1 : ce[q].pos \notin sh
        /\ \A q \in 1 .. wn - 1 : we[q] = WE(m)[q]
        /\ Frame(m, g, Own(m)) /\ Whole(g.pool, Current(g))
        /\ Len(Working(g).index) = Len(Current(g).index) =>
              Working(g).index = Current(g).shadow /\ Working(g).shadow = Current(g).index
    BY DEF Given
  <1>2. /\ cn \in Nat /\ wn \in Nat /\ cn <= wn /\ FirstUserId <= cn /\ wn <= MaxOid + 1
        /\ FirstUserId \in Nat /\ FirstUserId >= 1
        /\ Fixed(ce, cn) /\ Formed(we, wn) /\ Spots(ce, cn) \in SUBSET Places
        /\ WI(g) \in SUBSET Places /\ CI(g) \in SUBSET Places /\ CI(g) = CI(m) /\ WI(g) = WI(m)
        /\ CI(g) \cap WI(g) = {}
        /\ WE(g)[0].pos \in Places /\ WE(g)[0].pos \notin CI(g) \cup WI(g)
        /\ 0 \in 0 .. wn - 1 /\ 0 \in 0 .. cn - 1
    BY GivenFacts
  <1>3. IsEmptied(g, f)
    BY Emptying
  <1>4. /\ Laid(f) /\ SameHeader(g, f)
        /\ Current(f) = Current(g) /\ Working(f) = Working(g)
        /\ CE(f) = ce /\ WE(f) = we
        /\ Bitmap(f) = WI(g) \cup sh \cup Spots(we, wn)
        /\ Frame(g, f, IF we[0].mod THEN {we[0].pos} ELSE {})
        /\ WI(f) = WI(g) /\ CI(f) = CI(g) /\ f.map = g.map
    BY <1>3 DEF IsEmptied, WI, CI, SameHeader
  <1> HIDE DEF ce, we, cn, wn, sh
  <1>5. IsCleared(f, p)
    <2>1. Roomy(Working(f)) /\ f.map \subseteq 0 .. PageOf(MaxOid) /\ committed \in Nat
          /\ Formed(WE(f), Working(f).used)
      BY <1>1, <1>2, <1>4 DEF wn
    <2>2. \A q \in 0 .. Working(f).used - 1 :
               WE(f)[q].mod => PageOf(q) \in f.map \/ q >= committed
      BY <1>1, <1>4 DEF wn, Marked
    <2> QED
      BY ONLY <1>4, <2>1, <2>2, p = ClearFlags(f), ClearingFlags
  <1>6. /\ Laid(p) /\ SameHeader(f, p)
        /\ Current(p) = Current(g) /\ Working(p) = Working(g) /\ CE(p) = ce
        /\ \A q \in 0 .. wn - 1 : WE(p)[q] = [we[q] EXCEPT !.mod = FALSE]
        /\ Frame(f, p, WI(g))
    BY <1>4, <1>5 DEF IsCleared, wn
  <1>7. /\ MemFields(p) /\ \A q \in Places : PageType(p.pool[q])
        /\ p.map = g.map /\ p.map \subseteq 0 .. PageOf(MaxOid)
        /\ p.header.curr = m.header.curr /\ p.header.init = m.header.init
        /\ p.header.dirty = TRUE /\ p.modified = TRUE
    BY <1>1, <1>4, <1>6 DEF Laid, SameHeader
  <1>8. \A q \in 0 .. wn - 1 : q \in Users /\ ~we[q].free => we[q].pos # NoPlace
    <2> TAKE q \in 0 .. wn - 1
    <2>1. HAVE q \in Users /\ ~we[q].free
    <2>2. q \in 1 .. wn - 1 /\ q < wn
      BY ONLY <1>2, <2>1 DEF Users
    <2> QED
      BY <1>1, <2>1, <2>2
  <1>9. Fixed(WE(p), wn) /\ Linked(WE(p), wn, Working(g).freeList) /\ Spots(WE(p), wn) = Spots(we, wn)
    <2>1. FirstUserId <= wn
      BY ONLY <1>2
    <2>2. Formed(we, wn) /\ Linked(we, wn, Working(g).freeList)
      BY <1>1, <1>2
    <2>3. \A q \in 0 .. wn - 1 : WE(p)[q] = [we[q] EXCEPT !.mod = FALSE]
      BY <1>6
    <2>4. wn \in Nat
      BY <1>2
    <2> HIDE DEF wn, we
    <2> QED
      BY ONLY <2>1, <2>2, <2>3, <2>4, <1>8, Clearing
  <1>10. \A q \in 0 .. wn - 1 : /\ WE(p)[q].pos = we[q].pos /\ WE(p)[q].free = we[q].free
                                /\ (~we[q].mod => WE(p)[q] = we[q])
    <2> TAKE q \in 0 .. wn - 1
    <2>1. we[q] \in Entry /\ WE(p)[q] = [we[q] EXCEPT !.mod = FALSE]
      BY <1>2, <1>6 DEF Formed
    <2>2. WE(p)[q].pos = we[q].pos /\ WE(p)[q].free = we[q].free
      BY ONLY <2>1 DEF Entry
    <2>3. ~we[q].mod => WE(p)[q] = we[q]
      BY ONLY <2>1 DEF Entry
    <2> QED
      BY <2>2, <2>3
  <1>11. \A x \in Places : x # we[0].pos /\ x \notin WI(g) => p.pool[x] = g.pool[x]
    BY <1>4, <1>6 DEF Frame
  <1>12. Whole(p.pool, Current(p))
    <2>1. /\ \A q \in 0 .. cn - 1 : ce[q].pos \notin WI(g)
          /\ (we[0].mod => we[0].pos # ce[0].pos) /\ ce[0].pos \in Places
      BY <1>1, <1>2, EntryPlaces DEF Apart, Fixed
    <2>2. p.pool[ce[0].pos] = g.pool[ce[0].pos]
      BY <1>2, <1>4, <1>6, <2>1 DEF Frame
    <2>3. \A x \in CI(g) : p.pool[x] = g.pool[x]
      <3>1. \A x \in CI(g) : x \in Places /\ x # we[0].pos /\ x \notin WI(g)
        BY <1>2 DEF we
      <3> QED
        BY <1>11, <3>1
    <2>4. Whole(p.pool, Current(g))
      BY <1>1, <2>2, <2>3, WholeKept DEF CI, CE, ce
    <2> QED
      BY <1>6, <2>4
  <1>13. Whole(p.pool, Working(p))
    <2>1. p.pool[WE(p)[0].pos].used = ToSet(Working(p).index) \cup sh \cup Spots(WE(p), wn)
      <3>1. WE(p)[0].pos = we[0].pos
        BY <1>2, <1>10
      <3>2. p.pool[we[0].pos] = f.pool[we[0].pos]
        BY <1>2, <1>6 DEF Frame, we
      <3>3. Bitmap(f) = f.pool[we[0].pos].used
        BY <1>4, BitmapLooked
      <3> QED
        BY <1>4, <1>6, <1>9, <3>1, <3>2, <3>3 DEF WI
    <2>2. \A q \in 0 .. wn - 1 : WE(p)[q].pos \notin ToSet(Working(p).index) \cup sh
      BY <1>1, <1>6, <1>10 DEF Apart, WI
    <2>3. /\ Roomy(Working(p)) /\ IsInjective(Working(p).shadow)
          /\ Len(Working(p).shadow) = Len(Working(p).index)
          /\ ToSet(Working(p).index) \cap ToSet(Working(p).shadow) = {}
          /\ sh = ToSet(Working(p).shadow) /\ wn = Working(p).used
      BY <1>1, <1>6 DEF WI, sh, wn
    <2>4. WE(p) = Ent(p.pool, Working(p).index)
      BY DEF WE
    <2> QED
      BY <1>6, <1>9, <2>1, <2>2, <2>3, <2>4 DEF Whole
  <1>14. Cut(p.pool, Current(p), Working(p), p.map)
    <2>1. ASSUME NEW q \in 0 .. cn - 1, PageOf(q) \notin p.map
          PROVE  WE(p)[q] = CE(p)[q]
      <3>1. q \in 0 .. wn - 1
        BY ONLY <1>2
      <3>2. we[q] = ce[q]
        BY <1>1, <1>7, <2>1 DEF Marked
      <3>3. ~we[q].mod
        BY <1>2, <3>2 DEF Fixed
      <3> QED
        BY <1>6, <1>10, <3>1, <3>2, <3>3
    <2>2. \A q \in 0 .. Current(p).used - 1 :
              PageOf(q) \notin p.map
                 => Ent(p.pool, Working(p).index)[q] = Ent(p.pool, Current(p).index)[q]
      BY <1>6, <2>1 DEF cn, WE, CE
    <2>3. Len(Working(p).index) = Len(Current(p).index) =>
              Working(p).index = Current(p).shadow /\ Working(p).shadow = Current(p).index
      BY <1>1, <1>6
    <2> QED
      BY <2>2, <2>3 DEF Cut
  <1>15. Frame(m, p, Places \ (CI(m) \cup Spots(CE(m), Current(m).used)))
    <2> DEFINE K == CI(g) \cup Spots(ce, cn)
    <2>1. Frame(m, g, Places \ K)
      <3>1. /\ Own(m) \in SUBSET Places /\ \A x \in CI(m) : x \notin Own(m)
            /\ \A q \in 0 .. Current(m).used - 1 : CE(m)[q].pos \notin Own(m)
        BY OwnApart
      <3>2. Own(m) \subseteq Places \ K
        <4>1. CI(g) = CI(m) /\ CE(m) = ce /\ Current(m).used = cn
          BY <1>1, <1>2 DEF ce, cn
        <4>2. \A x \in Spots(ce, cn) : x \notin Own(m)
          <5>1. \A q \in 0 .. cn - 1 : ce[q].pos \notin Own(m)
            BY <3>1, <4>1
          <5> QED
            BY ONLY <5>1 DEF Spots
        <4> QED
          BY <3>1, <4>1, <4>2
      <3> QED
        BY <1>1, <3>2, FrameMore
    <2>2. Frame(g, f, Places \ K)
      <3>1. (IF we[0].mod THEN {we[0].pos} ELSE {}) \subseteq Places \ K
        BY <1>1, <1>2 DEF Apart, Spots, we
      <3> HIDE DEF K
      <3> QED
        BY <1>4, <3>1, FrameMore
    <2>3. Frame(f, p, Places \ K)
      <3>1. WI(g) \subseteq Places \ K
        BY <1>1, <1>2 DEF Apart, Spots
      <3> HIDE DEF K
      <3> QED
        BY <1>6, <3>1, FrameMore
    <2> HIDE DEF K
    <2>4. Frame(m, p, Places \ K)
      BY <2>1, <2>2, <2>3 DEF Frame
    <2> QED
      BY <1>1, <1>2, <2>4 DEF K, ce, cn
  <1>16. ASSUME NEW q \in 1 .. wn - 1
         PROVE  /\ WE(p)[q].pos = WE(m)[q].pos /\ WE(p)[q].free = WE(m)[q].free
                /\ WE(m)[q].pos # NoPlace => p.pool[WE(m)[q].pos] = m.pool[WE(m)[q].pos]
    <2>1. q \in 0 .. wn - 1 /\ q # 0
      OBVIOUS
    <2>2. we[q] = WE(m)[q]
      BY <1>1
    <2>3. ASSUME we[q].pos # NoPlace
          PROVE  p.pool[we[q].pos] = m.pool[we[q].pos]
      <3>1. we[q].pos \in Places
        BY <1>2, <2>1, <2>3, EntryPlaces
      <3>2. we[q].pos # we[0].pos
        BY <1>2, <2>1, <2>3 DEF Formed
      <3>3. we[q].pos \notin WI(g)
        BY <1>1, <2>1 DEF Apart
      <3>4. we[q].pos \notin Own(m)
        BY <1>1, <2>2, OwnApart
      <3>5. g.pool[we[q].pos] = m.pool[we[q].pos]
        BY <1>1, <3>1, <3>4 DEF Frame
      <3> QED
        BY <1>11, <3>1, <3>2, <3>3, <3>5
    <2> QED
      BY <1>10, <2>1, <2>2, <2>3
  <1>17. /\ Current(p) = Current(m) /\ CE(p) = CE(m)
         /\ Current(p).used <= Working(p).used /\ Working(p).used = Working(m).used
         /\ Working(p).rootObject = Working(m).rootObject
    BY <1>1, <1>2, <1>6 DEF cn, wn, ce
  <1>18. \A q \in 1 .. Working(m).used - 1 :
          /\ WE(p)[q].pos = WE(m)[q].pos /\ WE(p)[q].free = WE(m)[q].free
          /\ WE(m)[q].pos # NoPlace => p.pool[WE(m)[q].pos] = m.pool[WE(m)[q].pos]
    BY <1>1, <1>16
  <1> QED
    BY <1>7, <1>12, <1>13, <1>14, <1>15, <1>17, <1>18 DEF IsPrepared

\* beginning a commit.
LEMMA Preparing ==
    ASSUME NEW m, Good(m), m.header.dirty = TRUE, m.modified = TRUE,
           committed = Current(m).used,
           \A q \in Users : q < Working(m).used /\ ~WE(m)[q].free => WE(m)[q].pos # NoPlace,
           NEW at, Grown(m) => at \in NewPlaces(m, Len(Working(m).index)),
           NEW p, p = Prepared(m, at)
    PROVE  IsPrepared(m, p)
  <1>1. CASE Grown(m)
    <2> DEFINE g == GrowShadow(m, at)
    <2>1. Given(m, g)
      BY <1>1, GivenNew
    <2>2. p = ClearFlags(Emptied(g))
      BY DEF Prepared, Emptied
    <2> HIDE DEF g
    <2> QED
      BY <2>1, <2>2, PreparedFrom
  <1>2. CASE ~Grown(m)
    <2>1. Given(m, m)
      BY <1>2, GivenSame
    <2>2. p = ClearFlags(Emptied(m))
      BY <1>2 DEF Prepared, Emptied, GrowShadow
    <2> QED
      BY <2>1, <2>2, PreparedFrom
  <1> QED
    BY <1>1, <1>2

\* Where the end of a commit leaves memory, when the roots were exchanged.
EndIn(m) ==
    LET c == Current(m)
        grown == Len(c.index) # Len(Working(m).index)
        r == IF grown THEN [c EXCEPT !.index = c.shadow, !.shadow = c.index]
             ELSE [c EXCEPT !.index = Working(m).index, !.shadow = Working(m).shadow]
    IN  CopyIndex([m EXCEPT !.header.root[1 - m.header.curr] = r],
                  r.index, c.index, Copied(m, grown))

\* The entries that are not copied are the same in both indexes.
LEMMA CopiedCovers ==
    ASSUME NEW m, NEW c, c = Current(m), NEW w, w = Working(m),
           Roomy(c), Roomy(w), Cut(m.pool, w, c, m.map), committed = w.used, w.used <= c.used,
           Len(c.shadow) = Len(c.index),
           NEW grown, grown = (Len(c.index) # Len(w.index)),
           NEW q \in 0 .. c.used - 1
    PROVE  \/ PageOf(q) \in Copied(m, grown)
           \/ Ent(m.pool, c.shadow)[q] = Ent(m.pool, c.index)[q]
  <1>1. /\ c.used \in Nat /\ w.used \in Nat /\ q \in Nat
        /\ PageOf(q) \in Nat /\ PageOf(q) < PagesOf(c.used) /\ PagesOf(c.used) \in Nat
    <2>1. c.used \in Nat /\ w.used \in Nat
      BY RoomyFacts
    <2>2. q \in Nat /\ q < c.used
      BY ONLY <2>1
    <2> QED
      BY <2>1, <2>2, PageAndSlot, PageBelow
  <1>2. CASE grown
    <2>1. PageOf(q) \in 0 .. PagesOf(c.used) - 1
      BY ONLY <1>1
    <2> QED
      BY <1>2, <2>1 DEF Copied
  <1>3. CASE ~grown
    <2> DEFINE whole == committed \div HandlesPerPage
    <2>1. whole = PageOf(committed) /\ whole \in Nat
      BY <1>1, PageAndSlot DEF PageOf
    <2>2. c.index = w.shadow /\ c.shadow = w.index
          /\ \A r \in 0 .. w.used - 1 :
              PageOf(r) \notin m.map => Ent(m.pool, c.index)[r] = Ent(m.pool, w.index)[r]
      BY <1>3 DEF Cut
    <2>3. CASE PageOf(q) < whole
      <3>1. CASE PageOf(q) \in m.map
        <4>1. PageOf(q) \in {i \in m.map : i < whole}
          BY <2>3, <3>1
        <4> QED
          BY <1>3, <4>1 DEF Copied
      <3>2. CASE PageOf(q) \notin m.map
        <4>1. ~(committed <= q)
          <5> SUFFICES ASSUME committed <= q PROVE FALSE
            OBVIOUS
          <5>1. PageOf(committed) <= PageOf(q)
            BY <1>1, PagesInOrder
          <5> HIDE DEF whole
          <5> QED
            BY ONLY <5>1, <1>1, <2>1, <2>3
        <4>2. q \in 0 .. w.used - 1
          BY ONLY <4>1, <1>1, committed = w.used
        <4> QED
          BY <2>2, <3>2, <4>2
      <3> QED
        BY <3>1, <3>2
    <2>4. CASE ~(PageOf(q) < whole)
      <3>1. c.used > whole * HandlesPerPage
        <4>1. q = HandlesPerPage * PageOf(q) + Slot(q) - 1 /\ Slot(q) \in 1 .. HandlesPerPage
          BY <1>1, PageAndSlot
        <4>2. HandlesPerPage \in Nat \ {0}
          BY Sizes
        <4> DEFINE a == PageOf(q)
                   h == HandlesPerPage
        <4>3. a \in Nat /\ whole \in Nat /\ whole <= a /\ h \in Nat
          BY <1>1, <2>1, <2>4, <4>2
        <4>4. q >= h * a
          <5>1. Slot(q) \in Int /\ Slot(q) >= 1 /\ h * a \in Int
            BY ONLY <4>1, <4>2, <4>3
          <5> HIDE DEF a, h
          <5> QED
            BY <4>1, <5>1 DEF a, h
        <4> HIDE DEF a, h, whole
        <4>5. h * whole <= h * a /\ h * whole \in Int /\ h * a \in Int /\ h * whole = whole * h
          BY ONLY <4>3
        <4>6. c.used > whole * h
          <5>1. q \in Nat /\ c.used \in Nat /\ q < c.used
            BY <1>1
          <5> QED
            BY ONLY <4>4, <4>5, <5>1
        <4> QED
          BY <4>6 DEF h
      <3>2. PageOf(q) \in whole .. PagesOf(c.used) - 1
        <4> HIDE DEF whole
        <4> QED
          BY ONLY <1>1, <2>1, <2>4
      <3>3. CASE whole \in m.map \/ c.used # committed
        BY <1>3, <3>1, <3>2, <3>3 DEF Copied
      <3>4. CASE whole \notin m.map /\ c.used = committed
        <4>1. PageOf(q) <= whole
          BY <1>1, <2>1, <3>4, PagesInOrder
        <4>2. PageOf(q) = whole
          <5> HIDE DEF whole
          <5> QED
            BY ONLY <4>1, <1>1, <2>1, <2>4
        <4>3. q \in 0 .. w.used - 1
          BY ONLY <3>4, <1>1, committed = w.used
        <4> QED
          BY <2>2, <3>4, <4>2, <4>3
      <3> QED
        BY <3>3, <3>4
    <2> QED
      BY <2>3, <2>4
  <1> QED
    BY <1>2, <1>3

\* The end of a commit: the other root is a copy of the new one.
LEMMA Ending ==
    ASSUME NEW m, MemFields(m), \A p \in Places : PageType(m.pool[p]),
           m.map \subseteq 0 .. PageOf(MaxOid),
           Whole(m.pool, Current(m)), Whole(m.pool, Working(m)),
           Cut(m.pool, Working(m), Current(m), m.map),
           committed = Working(m).used, Working(m).used <= Current(m).used,
           NEW n, n = EndIn(m)
    PROVE  IsRolled(m, n)
  <1> DEFINE c == Current(m)
             w == Working(m)
             grown == Len(c.index) # Len(w.index)
             pages == Copied(m, grown)
  <1>1. Roomy(c) /\ Roomy(w) /\ Len(c.shadow) = Len(c.index) /\ RootFields(c)
    BY WholeFacts, WorkingFields
  <1>2. \A q \in 0 .. c.used - 1 :
               PageOf(q) \in pages \/ Ent(m.pool, c.shadow)[q] = Ent(m.pool, c.index)[q]
    BY <1>1, CopiedCovers
  <1>3. pages \in SUBSET Nat
    <2>1. c.used \in Nat /\ w.used \in Nat
      BY <1>1, RoomyFacts
    <2>2. PagesOf(c.used) \in Nat
      BY <2>1, Sizes DEF PagesOf
    <2>3. committed \div HandlesPerPage \in Nat
      BY <2>1, PageAndSlot DEF PageOf
    <2>4. PageOf(MaxOid) \in Nat
      BY Sizes, PageAndSlot
    <2>5. m.map \subseteq Nat
      BY ONLY <2>4, m.map \subseteq 0 .. PageOf(MaxOid)
    <2> DEFINE whole == committed \div HandlesPerPage
               e == PagesOf(c.used)
    <2>6. 0 .. e - 1 \subseteq Nat /\ whole .. e - 1 \subseteq Nat
      <3>1. e \in Nat /\ whole \in Nat
        BY <2>2, <2>3
      <3> HIDE DEF e, whole
      <3> QED
        BY ONLY <3>1
    <2> QED
      BY <2>5, <2>6 DEF Copied
  <1>4. n = ReplacedIn(m, pages)
    <2> DEFINE k == 1 - m.header.curr
               r == Swapped(c)
    <2>1. n = CopyIndex([m EXCEPT !.header.root[k] = r], r.index, c.index, pages)
      <3>1. CASE grown
        BY <3>1 DEF EndIn, Swapped
      <3>2. CASE ~grown
        <4>1. w.index = c.shadow /\ w.shadow = c.index
          BY <3>2 DEF Cut
        <4>2. r = [c EXCEPT !.index = w.index, !.shadow = w.shadow]
          BY <4>1 DEF Swapped
        <4> HIDE DEF r
        <4> QED
          BY <3>2, <4>2 DEF EndIn
      <3> QED
        BY <3>1, <3>2
    <2>2. r.index = c.shadow
      BY <1>1, WholeFacts, SwappedFields
    <2>3. [m EXCEPT !.header.root[k] = r] = WithWorking(m, r)
      BY DEF WithWorking
    <2> HIDE DEF r, k, pages, c
    <2>4. n = CopyIndex(WithWorking(m, r), c.shadow, c.index, pages)
      BY <2>1, <2>2, <2>3
    <2> QED
      BY <2>4 DEF ReplacedIn, r, c
  <1> HIDE DEF pages
  <1> QED
    BY <1>2, <1>3, <1>4, Replaced

=============================================================================
