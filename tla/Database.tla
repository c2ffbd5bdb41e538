------------------------------ MODULE Database ------------------------------
(***************************************************************************)
(* dbDatabase and dbPagePool: the storage file under the persistent        *)
(* objects of quickjs-storage.c.                                           *)
(*                                                                         *)
(* The file is a header and pages.  An index maps object identifiers to    *)
(* the places of objects; there are two indexes, that of the committed     *)
(* state (root[curr]) and that of the working state (root[1-curr]).  A     *)
(* transaction writes changed objects to free places, and the allocation   *)
(* bitmap is itself an object copied before its first change.  A commit    *)
(* flushes all pages and then writes a header that exchanges the roots.    *)
(*                                                                         *)
(* A page may be written back at any time (the pool evicts pages), and     *)
(* what was written since the last flush of the file may or may not        *)
(* survive a crash.  After one, a page that was not flushed may hold what  *)
(* it held before or after or in between: Lost stands for it, a page that  *)
(* no state can be read from.  The header is written atomically.           *)
(***************************************************************************)
EXTENDS Integers, Sequences, FiniteSets, SequencesExt

CONSTANTS
    Places,            \* the places of the file a page or an object can be at
    MaxOid,            \* bounds the object identifiers
    HandlesPerPage,    \* dbHandlesPerPage: the entries of an index page
    FirstUserId,       \* dbFirstUserId: below it are the bitmap's identifiers
    InitIndex,         \* the places of the first two indexes, page by page
    InitBitmap,        \* the place of the first bitmap page
    Bodies,            \* what an object may hold: the identifiers it refers to
    Careful,           \* whether programs commit only what SetRoot and
                       \* AllocateId leave complete (see CommitAllowed)
    MaxCalls,          \* bounds the calls that change something, and the crashes
    Place(_)           \* where the allocator puts something, given what is used

BitmapId == 0
NoPlace == 0
Users == FirstUserId .. MaxOid

ASSUME Layout ==
    /\ IsFiniteSet(Places)
    /\ NoPlace \notin Places
    /\ MaxOid \in Nat
    /\ MaxCalls \in Nat
    /\ HandlesPerPage \in Nat \ {0}
    /\ InitIndex \in [0 .. 1 -> Seq(Places)]
    /\ Len(InitIndex[0]) = Len(InitIndex[1])
    /\ FirstUserId \in 1 .. HandlesPerPage * Len(InitIndex[0])
    /\ FirstUserId <= MaxOid + 1
    /\ Bodies \subseteq SUBSET Users
    /\ Careful \in BOOLEAN

\* The pages of a new file are apart.
ASSUME InitApart ==
    /\ \A k \in 0 .. 1 : IsInjective(InitIndex[k])
    /\ ToSet(InitIndex[0]) \cap ToSet(InitIndex[1]) = {}
    /\ InitBitmap \in Places \ (ToSet(InitIndex[0]) \cup ToSet(InitIndex[1]))

\* The allocator finds a free place if there is one.
ASSUME PlaceIsFree ==
    \A used \in SUBSET Places : used # Places => Place(used) \in Places \ used

VARIABLES
    header,      \* dbDatabase::header, as in memory
    pool,        \* the pages as the pool shows them
    map,         \* dirtyPagesMap: the pages of the index that were changed
    modified,    \* dbDatabase::modified
    committed,   \* committedIndexSize
    pc,          \* "closed", "create", "open", "flush", "flip", "sync", "close",
                 \* or "torn": a crash left a file that cannot be relied on
    fileHeader,  \* the header last written to the file
    headers,     \* the headers a crash may leave: the one flushed and later ones
    calls,       \* how many calls and crashes there were
    unflushed    \* the places written, or evicted, since the last flush

vars == <<header, pool, map, modified, committed, pc, fileHeader, headers, unflushed, calls>>

-----------------------------------------------------------------------------
(* Entries of the index, and pages.  A page holds entries, an object, or    *)
(* the bitmap of used places.                                               *)

At(p, m) == [pos |-> p, mod |-> m, free |-> FALSE, next |-> 0]
FreeEntry(o) == [pos |-> NoPlace, mod |-> FALSE, free |-> TRUE, next |-> o]

Blank == [map |-> <<>>, refs |-> {}, used |-> {}]
IndexPage(es) == [Blank EXCEPT !.map = es]
ObjectPage(b) == [Blank EXCEPT !.refs = b]
BitmapPage(u) == [Blank EXCEPT !.used = u]
Lost == ObjectPage({BitmapId})

PageOf(o) == o \div HandlesPerPage
Slot(o) == (o % HandlesPerPage) + 1
PagesOf(n) == (n + HandlesPerPage - 1) \div HandlesPerPage

\* A page read as a page of an index.
Entries(page) == IF page.map # <<>> THEN page.map
                 ELSE [s \in 1 .. HandlesPerPage |-> At(NoPlace, FALSE)]

\* The entry of o in the index whose pages are at the places ix.
Lookup(pages, ix, o) ==
    IF PageOf(o) < Len(ix) THEN Entries(pages[ix[PageOf(o) + 1]])[Slot(o)]
    ELSE At(NoPlace, FALSE)

-----------------------------------------------------------------------------
(* Operations work on a record of what is in memory; touched is what they   *)
(* write through the pool, which may reach the file at any time.            *)

Memory == [header |-> header, pool |-> pool, map |-> map,
           modified |-> modified, touched |-> {}]

Working(m) == m.header.root[1 - m.header.curr]
Current(m) == m.header.root[m.header.curr]

Written(m, pages, ps) == [m EXCEPT !.pool = pages, !.touched = @ \cup ps]
Write(m, p, page) == Written(m, [m.pool EXCEPT ![p] = page], {p})

\* pool.copy of index pages, those with a number in pages.
CopyIndex(m, to, from, pages) ==
    LET ps == {i \in pages : i < Len(to) /\ i < Len(from)}
    IN  Written(m, [p \in Places |->
                       IF \E i \in ps : to[i + 1] = p
                       THEN m.pool[from[(CHOOSE i \in ps : to[i + 1] = p) + 1]]
                       ELSE m.pool[p]],
                   {to[i + 1] : i \in ps})

GetPos(m, o) == Lookup(m.pool, Working(m).index, o)
GetGCPos(m, o) == Lookup(m.pool, Current(m).index, o)

\* The working index with the entries es, a function of identifiers.
SetEntries(m, es) ==
    LET page(o) == Working(m).index[PageOf(o) + 1]
        here(p) == {o \in DOMAIN es : page(o) = p}
        entry(p, s) == IF \E o \in here(p) : Slot(o) = s
                       THEN es[CHOOSE o \in here(p) : Slot(o) = s]
                       ELSE Entries(m.pool[p])[s]
    IN  Written(m, [p \in Places |->
                       IF here(p) = {} THEN m.pool[p]
                       ELSE IndexPage([s \in 1 .. HandlesPerPage |-> entry(p, s)])],
                   {page(o) : o \in DOMAIN es})

SetPos(m, o, e) == SetEntries(m, [q \in {o} |-> e])

Mark(m, o) == [m EXCEPT !.map = @ \cup {PageOf(o)}]

SetDirty(m) == [m EXCEPT !.modified = TRUE, !.header.dirty = TRUE]

Bitmap(m) == m.pool[GetPos(m, BitmapId).pos].used
SetBitmap(m, used) == Write(m, GetPos(m, BitmapId).pos, BitmapPage(used))

\* Slip: the committed bitmap is changed in place.
SlipCloneBitmap(m) == SetDirty(m)

\* The working state gets a bitmap of its own before the first change of it.
CloneBitmap(m) ==
    IF GetPos(m, BitmapId).mod THEN m
    ELSE LET used == Bitmap(m)
             p == Place(used)
             d == Mark(SetDirty(m), BitmapId)
         IN  SetPos(Write(d, p, BitmapPage(used \cup {p})), BitmapId, At(p, TRUE))

\* The place allocate() takes, and memory when it is marked as used.
Allocated(m) == Place(Bitmap(CloneBitmap(SetDirty(m))))
Allocate(m) ==
    LET c == CloneBitmap(SetDirty(m))
    IN  SetBitmap(c, Bitmap(c) \cup {Allocated(m)})

Free(m, ps) == LET c == CloneBitmap(m) IN SetBitmap(c, Bitmap(c) \ ps)

\* The places that n pages of an index are given one after the other (there
\* is one such sequence if the file has room), and memory when they are taken.
NewPlaces(m, n) ==
    {at \in [1 .. n -> Places] :
        \A i \in 1 .. n :
            LET used == Bitmap(CloneBitmap(SetDirty(m))) \cup {at[j] : j \in 1 .. i - 1}
            IN  used # Places /\ at[i] = Place(used)}
Take(m, at) ==
    LET c == CloneBitmap(SetDirty(m))
    IN  SetBitmap(c, Bitmap(c) \cup ToSet(at))

\* freeId() of the identifiers in lost, from the first to the last: each
\* leads to the one freed before it, and the first to the list so far.
FreeIds(m, lost) ==
    LET r == Working(m)
        last(ids) == CHOOSE o \in ids : \A q \in ids : q <= o
        before(o) == {q \in lost : q < o}
        f == SetEntries(m, [o \in lost |->
                 FreeEntry(IF before(o) = {} THEN r.freeList ELSE last(before(o)))])
    IN  [f EXCEPT !.header.root[1 - m.header.curr].freeList = last(lost),
                  !.map = @ \cup {PageOf(o) : o \in lost}]

-----------------------------------------------------------------------------
(* What survives.                                                           *)

INSTANCE StoreStates

Content(pages, e) == IF e.free THEN NoObject
                     ELSE IF e.pos = NoPlace THEN Unstored
                     ELSE Stored(pages[e.pos].refs)

\* The objects an index leads to.
Objects(pages, r) ==
    [o \in Users |-> IF o < r.used THEN Content(pages, Lookup(pages, r.index, o))
                     ELSE NoObject]

\* The root that open() goes on from: after an orderly close the working
\* one, and after a crash the committed one.
Recovered(h) == IF h.dirty THEN h.root[h.curr] ELSE h.root[1 - h.curr]

\* The pages that a crash leaves.
Surviving == [p \in Places |-> IF p \in unflushed THEN Lost ELSE pool[p]]

\* The states that a crash at this point may leave.
Survivors ==
    {IF ~h.init THEN Empty
     ELSE [root |-> Recovered(h).rootObject, objs |-> Objects(Surviving, Recovered(h))] :
     h \in headers}

\* The root the program works on: dbDatabase::curr follows header->curr only
\* when the commit is complete.
WorkRoot == IF pc = "sync" THEN Current(Memory) ELSE Working(Memory)

WorkState == IF pc \in {"closed", "create", "close", "torn"} THEN Empty
             ELSE [root |-> WorkRoot.rootObject, objs |-> Objects(pool, WorkRoot)]

-----------------------------------------------------------------------------
(* Effects on the file.                                                     *)

\* The header is written, and not yet flushed.
WriteHeader(h) == /\ fileHeader' = h
                  /\ headers' = headers \cup {h}

\* The file is flushed with h as its header.
Flush(h) == /\ fileHeader' = h
            /\ headers' = {h}

\* The places that the committed or the working state uses.  What the others
\* hold is not read again, and is as good as lost.
InUse(m) == LET used(r) == m.pool[Lookup(m.pool, r.index, BitmapId).pos].used
            IN  used(Current(m)) \cup used(Working(m))

\* The pool becomes that of m; what was touched may be written back.
PoolBecomes(m, flushed) ==
    LET used == InUse(m)
    IN  /\ pool' = [p \in Places |-> IF p \in used THEN m.pool[p] ELSE Lost]
        /\ unflushed' = used \cap (m.touched \cup IF flushed THEN {} ELSE unflushed)

\* Memory becomes m.  When the header becomes dirty it is written and the
\* file is flushed before the changes.
Becomes(m) ==
    /\ header' = m.header
    /\ map' = m.map
    /\ modified' = m.modified
    /\ PoolBecomes(m, header.dirty # m.header.dirty)
    /\ IF header.dirty = m.header.dirty THEN UNCHANGED <<fileHeader, headers>>
       ELSE Flush([header EXCEPT !.dirty = TRUE])

-----------------------------------------------------------------------------
(* open() and close().                                                      *)

BlankHeader ==
    LET r == [index |-> <<>>, shadow |-> <<>>, used |-> 0, freeList |-> 0, rootObject |-> 0]
    IN  [curr |-> 0, dirty |-> FALSE, init |-> FALSE, root |-> [k \in 0 .. 1 |-> r]]

FirstHeader ==
    [curr |-> 0, dirty |-> TRUE, init |-> FALSE,
     root |-> [k \in 0 .. 1 |-> [index |-> InitIndex[k], shadow |-> InitIndex[1 - k],
                                 used |-> FirstUserId, freeList |-> 0, rootObject |-> 0]]]

InitPlaces == ToSet(InitIndex[0]) \cup ToSet(InitIndex[1]) \cup {InitBitmap}

\* The pages of a new file: both indexes lead to the bitmap, and to nothing else.
FirstPages ==
    [p \in Places |->
        IF p = InitBitmap THEN BitmapPage(InitPlaces)
        ELSE IF p \in InitPlaces
        THEN IndexPage([s \in 1 .. HandlesPerPage |->
                 IF s = Slot(BitmapId) /\ \E k \in 0 .. 1 : InitIndex[k][1] = p
                 THEN At(InitBitmap, FALSE)
                 ELSE At(NoPlace, FALSE)])
        ELSE pool[p]]

Init == /\ header = BlankHeader
        /\ fileHeader = BlankHeader
        /\ pool = [p \in Places |-> Blank]
        /\ headers = {BlankHeader}
        /\ unflushed = {}
        /\ calls = 0
        /\ map = {}
        /\ modified = FALSE
        /\ committed = 0
        /\ pc = "closed"

\* A file that was never completed is laid out, with a header that says so.
CreateFile ==
    /\ pc = "closed"
    /\ ~fileHeader.init
    /\ header' = FirstHeader
    /\ WriteHeader(FirstHeader)
    /\ pool' = FirstPages
    /\ unflushed' = InitPlaces
    /\ pc' = "create"
    /\ UNCHANGED <<map, modified, committed, calls>>

\* The pages are flushed, and the header is written once more and flushed.
CompleteFile ==
    /\ pc = "create"
    /\ header' = [header EXCEPT !.init = TRUE]
    /\ Flush(header')
    /\ unflushed' = {}
    /\ committed' = FirstUserId
    /\ pc' = "open"
    /\ UNCHANGED <<pool, map, modified, calls>>

\* The other root becomes a copy of the committed one.
Recover(m) ==
    LET c == Current(m)
        r == [c EXCEPT !.index = c.shadow, !.shadow = c.index]
    IN  CopyIndex([m EXCEPT !.header.root[1 - m.header.curr] = r],
                  r.index, c.index, 0 .. PagesOf(c.used) - 1)

Open ==
    /\ pc = "closed"
    /\ fileHeader.init
    /\ LET m == [Memory EXCEPT !.header = fileHeader]
           n == IF fileHeader.dirty THEN Recover(m) ELSE m
       IN  /\ header' = n.header
           /\ PoolBecomes(n, FALSE)
           /\ committed' = Working(n).used
    /\ pc' = "open"
    /\ UNCHANGED <<map, modified, fileHeader, headers, calls>>

\* close() commits what was modified first: see BeginCommit.
BeginClose ==
    /\ pc = "open"
    /\ ~modified
    /\ header.dirty
    /\ WriteHeader(header)
    /\ pc' = "close"
    /\ UNCHANGED <<header, pool, map, modified, committed, unflushed, calls>>

\* All is flushed, and a header that needs no recovery is written.
EndClose ==
    /\ pc = "close"
    /\ header' = [header EXCEPT !.dirty = FALSE]
    /\ fileHeader' = header'
    /\ headers' = {header, header'}
    /\ unflushed' = {}
    /\ committed' = 0
    /\ pc' = "closed"
    /\ UNCHANGED <<pool, map, modified, calls>>

\* A header that is not dirty is not written, and the pool is forgotten.
CloseClean ==
    /\ pc = "open"
    /\ ~modified
    /\ ~header.dirty
    /\ pool' = Surviving
    /\ committed' = 0
    /\ pc' = "closed"
    /\ UNCHANGED <<header, map, modified, fileHeader, headers, unflushed, calls>>

-----------------------------------------------------------------------------
(* Changes of the working state.                                            *)

\* Bounds the file: an operation starts only if n more places are free.
Room(n) == Cardinality(Places \ Bitmap(Memory)) >= n

Count == /\ calls < MaxCalls
         /\ calls' = calls + 1

Change(m) == /\ pc = "open"
             /\ Count
             /\ Becomes(m)
             /\ UNCHANGED <<committed, pc>>

\* The working index is moved to the places at, twice as many pages.
GrowIndex(m, at) ==
    LET old == Working(m).index
        c == CopyIndex(Take(m, at), at, old, 0 .. PagesOf(Working(m).used) - 1)
        g == [c EXCEPT !.header.root[1 - m.header.curr].index = at]
    IN  Free(g, ToSet(old))

AllocateId ==
    LET m == SetDirty(Memory)
        k == 1 - header.curr
        r == Working(m)
        o == IF r.freeList # 0 THEN r.freeList ELSE r.used
        full == r.used + 1 > Len(r.index) * HandlesPerPage
        grows == r.freeList = 0 /\ full
        f(at) == IF r.freeList # 0
                 THEN Mark([m EXCEPT !.header.root[k].freeList = GetPos(m, o).next], o)
                 ELSE [(IF full THEN GrowIndex(m, at) ELSE m)
                          EXCEPT !.header.root[k].used = @ + 1]
    IN  /\ pc = "open"
        /\ o <= MaxOid
        /\ grows => Room(4 * Len(r.index) + 2)
        /\ \E at \in IF grows THEN NewPlaces(m, 2 * Len(r.index)) ELSE {<<>>} :
               Change(SetPos(f(at), o, At(NoPlace, FALSE)))

\* storeObject: a first version in this transaction gets a place of its own,
\* a later one replaces it, elsewhere if its size is another.
StoreObject(o, b) ==
    LET m == Memory
        e == GetPos(m, o)
        moves == e.pos = NoPlace \/ ~e.mod
                    \/ Cardinality(pool[e.pos].refs) # Cardinality(b)
        c == IF e.pos # NoPlace /\ ~e.mod THEN CloneBitmap(Mark(m, o)) ELSE m
        a == Allocate(c)
        f == IF e.pos # NoPlace /\ e.mod THEN Free(a, {e.pos}) ELSE a
        s == IF moves THEN SetPos(f, o, At(Allocated(c), TRUE)) ELSE m
    IN  /\ pc = "open"
        /\ WorkState.objs[o] # NoObject
        /\ \A q \in b : WorkState.objs[q] # NoObject
        /\ Room(2)
        /\ Change(Write(s, GetPos(s, o).pos, ObjectPage(b)))

\* A program frees an object that it stored and that nothing refers to.
FreeObject(o) ==
    LET e == GetPos(Memory, o)
        f == IF e.mod THEN Free(Memory, {e.pos}) ELSE CloneBitmap(Memory)
    IN  /\ pc = "open"
        /\ WorkState.objs[o].is = "stored"
        /\ WorkState.root # o
        /\ \A q \in Users : o \notin WorkState.objs[q].refs
        /\ Room(1)
        /\ Change(FreeIds(f, {o}))

\* setRoot changes the header in memory, and does not make it dirty.
SetRoot(o) ==
    /\ pc = "open"
    /\ o # 0 => WorkState.objs[o] # NoObject
    /\ Change([Memory EXCEPT !.header.root[1 - header.curr].rootObject = o,
                             !.modified = TRUE])

\* What the committed root does not lead to loses its identifier; its place
\* is given up by the next commit.
Garbage ==
    LET c == Current(Memory)
        s == [root |-> c.rootObject, objs |-> Objects(pool, c)]
    IN  {o \in Users : /\ o < committed
                       /\ s.objs[o].is = "stored"
                       /\ o \notin Reachable(s)}

\* quickjs-storage.c calls gc() when it has opened a file, before any change.
GCRuns == /\ pc = "open"
          /\ ~modified
          /\ Garbage # {}
          /\ Room(1)

\* Each identifier is freed, and then the bitmap is cloned, which happens once.
\* The two change different entries and different fields of the header, so
\* that memory is the same as when the bitmap is cloned first.
StartGC == /\ GCRuns
           /\ Change(FreeIds(CloneBitmap(Memory), Garbage))

\* Freeing the first identifier changes a page of the index, and only
\* cloneBitmap() after it makes a clean header dirty and flushes the file.
\* When the machine stops before that is done, the page may be on the disk
\* and the header not: a header that asks for no recovery leads to a page
\* that was changed.  What becomes of such a file is not followed.  Whatever
\* else a crash in gc() leaves is what one before or after it leaves.
CrashInGC ==
    /\ GCRuns
    /\ ~header.dirty
    /\ Count
    /\ LET first == CHOOSE o \in Garbage : \A q \in Garbage : o <= q
           torn == FreeIds(Memory, {first}).touched
       IN  pool' = [p \in Places |-> IF p \in unflushed \cup torn THEN Lost ELSE pool[p]]
    /\ header' = fileHeader
    /\ headers' = {fileHeader}
    /\ unflushed' = {}
    /\ map' = {}
    /\ committed' = 0
    /\ pc' = "torn"
    /\ UNCHANGED <<modified, fileHeader>>

Rollback ==
    LET c == Current(Memory)
        pages == IF Working(Memory).index # c.shadow
                 THEN 0 .. PagesOf(committed) - 1
                 ELSE {i \in map : i < PagesOf(committed)}
        m == CopyIndex(Memory, c.shadow, c.index, pages)
        r == [c EXCEPT !.index = c.shadow, !.shadow = Working(Memory).shadow]
    IN  /\ modified
        /\ Change([m EXCEPT !.header.root[1 - header.curr] = r,
                            !.map = {}, !.modified = FALSE])

-----------------------------------------------------------------------------
(* commitTransaction().                                                     *)

\* Two things commitTransaction() relies on that the operations do not see
\* to: every identifier in use was stored, and the header is dirty.
CommitAllowed ==
    Careful => /\ \A o \in Users : WorkState.objs[o] # Unstored
               /\ header.dirty

\* When the index has grown the committed one is given up for a new shadow.
Grown(m) == Len(Working(m).index) > Len(Current(m).index)
GrowShadow(m, at) ==
    IF Grown(m)
    THEN Free([Take(m, at) EXCEPT !.header.root[1 - m.header.curr].shadow = at],
              ToSet(Current(m).index))
    ELSE m

\* Slip: the last page of the index, which is not full, is forgotten.
SlipOldPlaces(m) ==
    {GetGCPos(m, o).pos : o \in {q \in 0 .. HandlesPerPage * PageOf(committed) - 1 :
        /\ PageOf(q) \in m.map
        /\ GetPos(m, q) # GetGCPos(m, q)
        /\ ~GetGCPos(m, q).free}} \ {NoPlace}

\* The places of objects that were changed or freed in marked pages.
OldPlaces(m) ==
    {GetGCPos(m, o).pos : o \in {q \in 0 .. committed - 1 :
        /\ PageOf(q) \in m.map
        /\ GetPos(m, q) # GetGCPos(m, q)
        /\ ~GetGCPos(m, q).free}} \ {NoPlace}

\* The pages of the index whose entries lose their modified flags.
Settled(m) ==
    m.map \cup (IF Working(m).used > committed
                THEN PageOf(committed) .. PagesOf(Working(m).used) - 1 ELSE {})

ClearFlags(m) ==
    LET all == 0 .. HandlesPerPage * Len(Working(m).index) - 1
    IN  SetEntries(m, [o \in {q \in all : PageOf(q) \in Settled(m)} |->
                          [GetPos(m, o) EXCEPT !.mod = FALSE]])

\* Old places are freed in the new bitmap, and the header is written.
Prepared(m, at) ==
    LET g == GrowShadow(m, at)
    IN  ClearFlags(IF OldPlaces(g) = {} THEN g ELSE Free(g, OldPlaces(g)))

BeginCommit ==
    /\ pc = "open"
    /\ modified
    /\ CommitAllowed
    /\ \E at \in IF Grown(Memory) THEN NewPlaces(Memory, Len(Working(Memory).index))
                 ELSE {<<>>} :
           LET m == Prepared(Memory, at)
           IN  /\ header' = m.header
               /\ WriteHeader(m.header)
               /\ PoolBecomes(m, FALSE)
               /\ map' = m.map
    /\ pc' = "flush"
    /\ UNCHANGED <<modified, committed, calls>>

\* Slip: the header follows without a flush of the pages.
SlipFlushPages ==
    /\ pc = "flush"
    /\ pc' = "flip"
    /\ UNCHANGED <<header, pool, map, modified, committed, fileHeader, headers, unflushed, calls>>

\* pool.flush()
FlushPages ==
    /\ pc = "flush"
    /\ Flush(header)
    /\ unflushed' = {}
    /\ pc' = "flip"
    /\ UNCHANGED <<header, pool, map, modified, committed, calls>>

\* header->curr = curr ^= 1, and the header is written.
FlipRoots ==
    /\ pc = "flip"
    /\ header' = [header EXCEPT !.curr = 1 - @]
    /\ WriteHeader(header')
    /\ pc' = "sync"
    /\ UNCHANGED <<pool, map, modified, committed, unflushed, calls>>

\* The pages of the index that commitTransaction() copies to the other one.
Copied(m, grown) ==
    LET used == Current(m).used
        whole == committed \div HandlesPerPage
    IN  IF grown THEN 0 .. PagesOf(used) - 1
        ELSE {i \in m.map : i < whole}
                \cup (IF /\ used > whole * HandlesPerPage
                         /\ whole \in m.map \/ used # committed
                      THEN whole .. PagesOf(used) - 1 ELSE {})

\* The file is flushed, and the other root becomes a copy of the new one.
EndCommit ==
    LET m == Memory
        c == Current(m)
        grown == Len(c.index) # Len(Working(m).index)
        r == IF grown THEN [c EXCEPT !.index = c.shadow, !.shadow = c.index]
             ELSE [c EXCEPT !.index = Working(m).index, !.shadow = Working(m).shadow]
        n == CopyIndex([m EXCEPT !.header.root[1 - header.curr] = r],
                       r.index, c.index, Copied(m, grown))
    IN  /\ pc = "sync"
        /\ Count
        /\ header' = n.header
        /\ PoolBecomes(n, TRUE)
        /\ map' = {}
        /\ modified' = FALSE
        /\ committed' = c.used
        /\ Flush(header)
        /\ pc' = "open"

\* The process or the machine stops: memory is lost, and what was written
\* since the last flush is there or not.
Crash ==
    /\ pc # "torn"
    /\ Count
    /\ \E h \in headers :
           /\ header' = h
           /\ fileHeader' = h
           /\ headers' = {h}
    /\ pool' = Surviving
    /\ unflushed' = {}
    /\ map' = {}
    /\ modified' = FALSE
    /\ committed' = 0
    /\ pc' = "closed"

Next ==
    \/ CreateFile \/ CompleteFile \/ Open \/ BeginClose \/ EndClose \/ CloseClean
    \/ AllocateId
    \/ \E o \in Users, b \in Bodies : StoreObject(o, b)
    \/ \E o \in Users : FreeObject(o)
    \/ \E o \in Users \cup {0} : SetRoot(o)
    \/ StartGC \/ CrashInGC \/ Rollback
    \/ BeginCommit \/ FlushPages \/ FlipRoots \/ EndCommit
    \/ Crash

Spec == Init /\ [][Next]_vars

-----------------------------------------------------------------------------
(* Properties.                                                              *)

Entry == [pos : Places \cup {NoPlace}, mod : BOOLEAN, free : BOOLEAN, next : Users \cup {0}]
Root(r) == /\ r.index \in Seq(Places) /\ r.shadow \in Seq(Places)
           /\ r.used \in 0 .. MaxOid + 1
           /\ r.freeList \in Users \cup {0} /\ r.rootObject \in Users \cup {0}
Header(h) == /\ h.curr \in 0 .. 1 /\ h.dirty \in BOOLEAN /\ h.init \in BOOLEAN
             /\ \A k \in 0 .. 1 : Root(h.root[k])

\* The state has its type: in particular identifiers and free lists stay in
\* the index, and header->curr names one of the two roots.
TypeOK ==
    /\ \A h \in headers \cup {header, fileHeader} : Header(h)
    /\ \A p \in Places : /\ pool[p].map = <<>> \/ DOMAIN pool[p].map = 1 .. HandlesPerPage
                         /\ \A s \in DOMAIN pool[p].map : pool[p].map[s] \in Entry
                         /\ pool[p].refs \in Bodies \cup {{}, {BitmapId}}
                         /\ pool[p].used \subseteq Places
    /\ map \subseteq 0 .. PageOf(MaxOid)
    /\ modified \in BOOLEAN
    /\ committed \in 0 .. MaxOid + 1
    /\ pc \in {"closed", "create", "open", "flush", "flip", "sync", "close", "torn"}
    /\ unflushed \subseteq Places
    /\ calls \in 0 .. MaxCalls

\* The places a root leads to: its index, the bitmap and the objects.
Held(r) ==
    (ToSet(r.index) \cup
        {Lookup(pool, r.index, o).pos : o \in 0 .. r.used - 1})
    \ {NoPlace}

\* While a transaction runs, whatever it allocates, moves, frees and grows,
\* the places that the committed state is read from are neither written
\* (storeObject, put, cloneBitmap) nor given to anybody else (allocate).
CommittedUntouched ==
    pc = "open" => /\ Held(Current(Memory)) \cap unflushed = {}
                   /\ Held(Current(Memory)) \subseteq Bitmap(Memory)

\* Between transactions the bitmap marks exactly the places that the two
\* roots lead to: commitTransaction, rollback, recovery, the garbage
\* collector and the growth of the index neither lose a place nor free one
\* that is used.
BitmapExact ==
    /\ TypeOK
    /\ pc = "open" /\ ~modified =>
          Bitmap(Memory) = Held(Current(Memory)) \cup Held(Working(Memory))

\* The file implements an atomic store: what an open() finds after a crash at
\* any point is the state of the last commit, or during a commit that state
\* or the new one, and the program sees its own changes meanwhile.  The one
\* crash that may lose the file is one in gc() of a file that was closed in
\* order and not changed since, when there is garbage: CrashInGC.
StorePhase == CASE pc \in {"closed", "create", "close"} -> "down"
                [] pc = "open" -> "up"
                [] pc = "torn" -> "lost"
                [] OTHER -> "commit"
Store == INSTANCE AtomicStore
             WITH work <- WorkState, survivors <- Survivors, phase <- StorePhase
ImplementsStore == Store!Spec
=============================================================================
