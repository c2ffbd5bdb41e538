--------------------------- MODULE PromisesProofs ---------------------------
(***************************************************************************)
(* Proofs about Promises.tla, for any number of calls of the script.       *)
(*                                                                         *)
(* The invariant is about the record of the heap, since the operations     *)
(* are, and a table of roles: which promise an earlier finally() was asked *)
(* to keep.  It says of every place that holds a function or a pair, in a  *)
(* reaction or in a job, what may be done with it there.                   *)
(***************************************************************************)
EXTENDS Promises, FiniteSetTheorems, SequenceTheorems, TLAPS

-----------------------------------------------------------------------------
(* Types.                                                                  *)

AnyValue == [is : {"plain", "promise", "list", "thenable"}, id : Nat]
AnyFunction == [is : {"none", "script", "resolving", "element", "finally", "give"},
                of : Nat, rej : BOOLEAN, val : AnyValue]
Reaction == [on : AnyFunction \X AnyFunction, to : Nat, id : Nat]
PromiseData == [state : {"pending", "fulfilled", "rejected"}, result : AnyValue,
                reactions : Seq(Reaction), handled : BOOLEAN, known : BOOLEAN,
                told : {"nothing", "unhandled", "handled"}, adopts : Nat]
Pair == [promise : Nat, used : BOOLEAN, known : BOOLEAN]
AnyJob == [is : {"none", "main", "reaction", "thenable"}, f : AnyFunction,
           rej : BOOLEAN, arg : AnyValue, to : Nat, id : Nat]
AnyComb == [type : {"none", "all", "allSettled", "any", "race"},
            loop : {"none", "on", "done", "failed"}, elems : Seq(Nat), pair : Nat,
            remaining : Int, values : Seq([rej : BOOLEAN, val : AnyValue]),
            called : SUBSET (Nat \X BOOLEAN), given : SUBSET (Nat \X BOOLEAN \X AnyValue)]
Heaps == [promises : Seq(PromiseData), pairs : Seq(Pair), jobs : Seq(AnyJob),
          comb : AnyComb]
Attached == [on : Nat, gives : Nat, final : BOOLEAN]

\* fin: <<d, p>> when finally() of p gave d.  giv: <<e, p>> when e is the
\* promise that the function of such a finally() returned.
Roles == [fin : SUBSET (Nat \X Nat), giv : SUBSET (Nat \X Nat)]

-----------------------------------------------------------------------------
(* Promises and their pairs.                                               *)

\* v is not a promise that does not exist.
Exists(h, v) == v \in AnyValue /\ (v.is = "promise" => v.id \in DOMAIN h.promises)

Done(h, p) == h.promises[p].state # "pending"
State(rej) == IF rej THEN "rejected" ELSE "fulfilled"
HasOutcome(h, p, rej, v) == h.promises[p].state = State(rej) /\ h.promises[p].result = v

\* A promise by itself: a settled one keeps no reaction, is fulfilled with a
\* value only, and the tracker knows when nothing was attached.
Sane(h, s) ==
    /\ Exists(h, s.result)
    /\ s.adopts \in 0 .. Len(h.promises)
    /\ s.state # "pending" => s.reactions = <<>> /\ s.result.is # "thenable"
    /\ s.state = "fulfilled" => s.result.is \in {"plain", "list"}
    /\ s.told = "unhandled" <=> s.state = "rejected" /\ ~s.handled

Tracked(h) == \A p \in DOMAIN h.promises : Sane(h, h.promises[p])

\* Nobody counts on what becomes of d.
Ordinary(h, ro, d) ==
    /\ h.promises[d].adopts = 0
    /\ \A p \in Nat : <<d, p>> \notin ro.fin /\ <<d, p>> \notin ro.giv

\* Anybody may use the pair r.
Free(h, ro, r) ==
    ~h.pairs[r].used => r # h.comb.pair /\ Ordinary(h, ro, h.pairs[r].promise)

PairsSane(h, ro) ==
    \A r \in DOMAIN h.pairs :
        /\ h.pairs[r].promise \in DOMAIN h.promises
        /\ ~h.pairs[r].used => ~Done(h, h.pairs[r].promise)
        /\ h.pairs[r].known => Free(h, ro, r)
        /\ r = h.comb.pair => \A p \in Nat : /\ <<h.pairs[r].promise, p>> \notin ro.fin
                                            /\ <<h.pairs[r].promise, p>> \notin ro.giv

\* A job that will call then() of what a promise was resolved with.
ThenableSane(h, ro, j) ==
    /\ j.to \in DOMAIN h.promises
    /\ ~Done(h, j.to)
    /\ Exists(h, j.arg)
    /\ \/ j.arg.is = "promise" /\ h.promises[j.to].adopts = j.arg.id
       \/ j.arg = Thenable /\ Ordinary(h, ro, j.to)
    /\ j.id = 0

\* One decider of a promise.
Alone(h) ==
    /\ \A r, s \in DOMAIN h.pairs :
          ~h.pairs[r].used /\ ~h.pairs[s].used /\ h.pairs[r].promise = h.pairs[s].promise
            => r = s
    /\ \A i, k \in DOMAIN h.jobs :
          h.jobs[i].is = "thenable" /\ h.jobs[k].is = "thenable" /\ h.jobs[i].to = h.jobs[k].to
            => i = k
    /\ \A r \in DOMAIN h.pairs, i \in DOMAIN h.jobs :
          ~h.pairs[r].used /\ h.jobs[i].is = "thenable" => h.pairs[r].promise # h.jobs[i].to

\* A pending promise has a decider.
HasDecider(h) ==
    \A p \in DOMAIN h.promises :
        \/ Done(h, p)
        \/ \E r \in DOMAIN h.pairs : ~h.pairs[r].used /\ h.pairs[r].promise = p
        \/ \E i \in DOMAIN h.jobs : h.jobs[i].is = "thenable" /\ h.jobs[i].to = p

Adopted(h) ==
    \A p \in DOMAIN h.promises :
        LET q == h.promises[p].adopts
        IN  Done(h, p) /\ q # 0 =>
                /\ h.promises[p].state = h.promises[q].state
                /\ h.promises[p].result = h.promises[q].result

RolesKept(h, ro) ==
    /\ \A d, p \in Nat : <<d, p>> \in ro.fin =>
          /\ d \in DOMAIN h.promises /\ p \in DOMAIN h.promises
          /\ h.promises[d].adopts # 0 => <<h.promises[d].adopts, p>> \in ro.giv
          /\ h.promises[d].state = "fulfilled" => HasOutcome(h, p, FALSE, h.promises[d].result)
    /\ \A e, p \in Nat : <<e, p>> \in ro.giv =>
          /\ e \in DOMAIN h.promises /\ p \in DOMAIN h.promises
          /\ h.promises[e].adopts = 0
          /\ h.promises[e].state = "fulfilled" => HasOutcome(h, p, FALSE, h.promises[e].result)

-----------------------------------------------------------------------------
(* The combinator.                                                         *)

\* Which outcomes of an element are collected, which are passed on.
Collects(type, rej) ==
    type = "allSettled" \/ (type = "all" /\ ~rej) \/ (type = "any" /\ rej)
Passing(type, rej) ==
    type = "race" \/ (type = "all" /\ rej) \/ (type = "any" /\ ~rej)

\* Both functions of an element were called; what is not collected; whether
\* the loop counts for one.
Both(c) == \E i \in DOMAIN c.elems : {<<i, FALSE>>, <<i, TRUE>>} \subseteq c.called
Missing(c) == {i \in DOMAIN c.elems : \A rej \in BOOLEAN : <<i, rej>> \notin c.called}
Loop(c) == IF c.loop = "done" THEN 0 ELSE 1

\* What element i, or the iteration, came to.
Outcome(h, i, rej, v) ==
    \/ <<i, rej, v>> \in h.comb.given
    \/ /\ i \in DOMAIN h.comb.elems /\ h.comb.elems[i] # 0
       /\ HasOutcome(h, h.comb.elems[i], rej, v)

\* All elements were collected, by these of their functions.
AllAre(h, rejs) ==
    \/ Both(h.comb)
    \/ /\ h.comb.loop = "done"
       /\ \A i \in DOMAIN h.comb.elems : \E rej \in rejs : <<i, rej>> \in h.comb.called
SomeIs(h, rej, v) == \E i \in DOMAIN h.comb.elems : Outcome(h, i, rej, v)

\* What the promise of the combinator may be settled with.
MayBecome(h, rej, v) ==
    IF rej THEN \/ <<0, TRUE, v>> \in h.comb.given
                \/ h.comb.type = "any" /\ AllAre(h, {TRUE})
                \/ h.comb.type \in {"all", "race"} /\ SomeIs(h, TRUE, v)
    ELSE IF h.comb.type = "all" THEN AllAre(h, {FALSE})
         ELSE IF h.comb.type = "allSettled" THEN AllAre(h, BOOLEAN)
         ELSE SomeIs(h, FALSE, v)

\* The count, of the functions called.
Counted(c) ==
    /\ c.loop \in {"on", "done", "failed"}
    /\ DOMAIN c.values = DOMAIN c.elems
    /\ \A i \in Nat, rej \in BOOLEAN : <<i, rej>> \in c.called =>
          i \in DOMAIN c.elems /\ Collects(c.type, rej)
    /\ c.type # "race" /\ ~Both(c) => c.remaining = Loop(c) + Cardinality(Missing(c))

\* What was collected is what the elements came to.
Recorded(h) ==
    LET c == h.comb
    IN  /\ \A i \in DOMAIN c.elems : c.elems[i] = 0 \/ c.elems[i] \in DOMAIN h.promises
        /\ \A i \in Nat, rej \in BOOLEAN : <<i, rej>> \in c.called /\ <<i, ~rej>> \notin c.called =>
              Outcome(h, i, rej, c.values[i].val) /\ c.values[i].rej = rej

\* The promise of the combinator.
Combines(h) ==
    LET c == h.comb
        p == h.pairs[c.pair].promise
    IN  /\ c.pair \in DOMAIN h.pairs
        /\ h.promises[p].adopts = 0
        /\ h.pairs[c.pair].used => Done(h, p)
        /\ h.promises[p].state = "fulfilled" => MayBecome(h, FALSE, h.promises[p].result)
        /\ h.promises[p].state = "rejected" => MayBecome(h, TRUE, h.promises[p].result)

Combined(h) ==
    /\ h.comb.type = "none" => h.comb = NoCombinator
    /\ h.comb.type # "none" => Counted(h.comb) /\ Recorded(h) /\ Combines(h)

-----------------------------------------------------------------------------
(* Places that hold functions and pairs.                                   *)

\* A function of a pair that is not used yet passes the outcome of q on to the
\* promise that adopts it, or to that of a combinator.
Passes(h, f, rej, q) ==
    /\ f.rej = rej
    /\ \/ h.promises[h.pairs[f.of].promise].adopts = q
       \/ /\ f.of = h.comb.pair
          /\ Passing(h.comb.type, rej)
          /\ \E i \in DOMAIN h.comb.elems : h.comb.elems[i] = q

\* The pair t, not used yet, takes what f makes of the outcome of q.
Yields(h, ro, f, rej, t, q) ==
    /\ t # h.comb.pair
    /\ h.promises[h.pairs[t].promise].adopts = 0
    /\ \A p \in Nat : <<h.pairs[t].promise, p>> \in ro.fin => p = q /\ f.is = "finally"
    /\ \A p \in Nat : <<h.pairs[t].promise, p>> \in ro.giv =>
          \/ f.is = "none" /\ rej
          \/ f.is = "give" /\ (f.rej \/ HasOutcome(h, p, FALSE, f.val))

\* f may be called with the outcome of q, a rejection or not, for the pair t.
Fits(h, ro, f, rej, t, q) ==
    /\ t \in 0 .. Len(h.pairs)
    /\ t # 0 /\ ~h.pairs[t].used => Yields(h, ro, f, rej, t, q)
    /\ f.is = "resolving" => /\ t = 0
                             /\ f.of \in DOMAIN h.pairs
                             /\ ~h.pairs[f.of].used => Passes(h, f, rej, q)
    /\ f.is = "element" => /\ t = 0
                           /\ h.comb.type # "none"
                           /\ f.of \in DOMAIN h.comb.elems
                           /\ h.comb.elems[f.of] = q
                           /\ f.rej = rej
                           /\ Collects(h.comb.type, rej)
    /\ f.is = "finally" => f.rej = rej /\ t # 0
    /\ f.is = "give" => Exists(h, f.val) /\ f.val.is # "thenable"

Handler(rd, rej) == IF rej THEN rd.on[2] ELSE rd.on[1]

ReactionFits(h, ro, rd, q) ==
    \A rej \in BOOLEAN : Fits(h, ro, Handler(rd, rej), rej, rd.to, q)

JobFits(h, ro, j) ==
    \E q \in DOMAIN h.promises :
        HasOutcome(h, q, j.rej, j.arg) /\ Fits(h, ro, j.f, j.rej, j.to, q)

ReactionsFit(h, ro) ==
    \A p \in DOMAIN h.promises : \A k \in DOMAIN h.promises[p].reactions :
        ReactionFits(h, ro, h.promises[p].reactions[k], p)

JobsFit(h, ro) ==
    \A i \in DOMAIN h.jobs :
        \/ h.jobs[i].is = "reaction" /\ JobFits(h, ro, h.jobs[i])
        \/ h.jobs[i].is = "thenable" /\ ThenableSane(h, ro, h.jobs[i])

Good(h, ro) ==
    /\ h \in Heaps /\ ro \in Roles
    /\ Tracked(h) /\ PairsSane(h, ro) /\ Alone(h) /\ HasDecider(h)
    /\ Adopted(h) /\ RolesKept(h, ro) /\ Combined(h)
    /\ ReactionsFit(h, ro) /\ JobsFit(h, ro)

\* The script runs for a job that was allowed to call it.
RunFits(h, ro, j) ==
    /\ j \in AnyJob
    /\ j.is = "none" => j = NoJob
    /\ j.is = "reaction" => j.f.is \in {"script", "finally"} /\ JobFits(h, ro, j)
    /\ j.is = "thenable" => j.to \in DOMAIN h.pairs /\ Free(h, ro, j.to)

ThensKept(h, ro, th) ==
    /\ th \in Seq(Attached)
    /\ \A id \in DOMAIN th :
          /\ th[id].on \in DOMAIN h.promises
          /\ th[id].final => <<th[id].gives, th[id].on>> \in ro.fin

-----------------------------------------------------------------------------
(* Calls of then().                                                        *)

\* a comes before b when both are calls of then() of the same promise.
Before(th, a, b) == a # 0 /\ b # 0 /\ th[a].on = th[b].on => a < b

Placed(h, cl, id) ==
    \/ \E p \in DOMAIN h.promises : \E k \in DOMAIN h.promises[p].reactions :
          h.promises[p].reactions[k].id = id
    \/ \E i \in DOMAIN h.jobs : h.jobs[i].id = id
    \/ \E n \in DOMAIN cl : cl[n] = id

ReactionsOrdered(h, th) ==
    \A p \in DOMAIN h.promises : LET R == h.promises[p].reactions IN
        /\ \A k \in DOMAIN R : R[k].id \in 0 .. Len(th) /\ (R[k].id # 0 => th[R[k].id].on = p)
        /\ \A k, l \in DOMAIN R : k < l => Before(th, R[k].id, R[l].id)

JobsOrdered(h, th, cl) ==
    /\ \A i \in DOMAIN h.jobs : /\ h.jobs[i].id \in 0 .. Len(th)
                                /\ h.jobs[i].id # 0 => Done(h, th[h.jobs[i].id].on)
    /\ \A i, k \in DOMAIN h.jobs : i < k => Before(th, h.jobs[i].id, h.jobs[k].id)
    /\ cl \in Seq(Nat)
    /\ \A n \in DOMAIN cl : cl[n] \in DOMAIN th /\ Done(h, th[cl[n]].on)
    /\ \A m, n \in DOMAIN cl : m < n => Before(th, cl[m], cl[n])
    /\ \A n \in DOMAIN cl, i \in DOMAIN h.jobs : Before(th, cl[n], h.jobs[i].id)

\* Handlers are called in the order of the calls of then(), and none is lost.
Ordered(h, th, cl) ==
    /\ ReactionsOrdered(h, th)
    /\ JobsOrdered(h, th, cl)
    /\ \A id \in DOMAIN th : Placed(h, cl, id)

\* All that holds of a heap, the running job and the calls of then().
Sound(h, ro, j, th, cl) ==
    /\ Good(h, ro)
    /\ RunFits(h, ro, j)
    /\ ThensKept(h, ro, th)
    /\ Ordered(h, th, cl)

Kept(ro) == Sound(Heap, ro, running, thens, called)

IInv == \E ro \in Roles : Kept(ro)

-----------------------------------------------------------------------------
(* What the operations do to the heap.                                     *)

\* The pair r settles its promise.
IsDecide(h, g, r, rej, v) ==
    LET p == h.pairs[r].promise
        s == h.promises[p]
    IN  /\ g \in Heaps
        /\ g.comb = h.comb
        /\ Len(g.pairs) = Len(h.pairs) /\ Len(g.promises) = Len(h.promises)
        /\ \A x \in DOMAIN h.pairs \ {r} : g.pairs[x] = h.pairs[x]
        /\ g.pairs[r] = [promise |-> p, used |-> TRUE, known |-> h.pairs[r].known]
        /\ \A x \in DOMAIN h.promises \ {p} : g.promises[x] = h.promises[x]
        /\ g.promises[p].state = State(rej) /\ g.promises[p].result = v
        /\ g.promises[p].reactions = <<>> /\ g.promises[p].handled = s.handled
        /\ g.promises[p].adopts = s.adopts
        /\ g.promises[p].told = IF rej /\ ~s.handled THEN "unhandled" ELSE s.told
        /\ Len(g.jobs) = Len(h.jobs) + Len(s.reactions)
        /\ \A i \in DOMAIN h.jobs : g.jobs[i] = h.jobs[i]
        /\ \A k \in DOMAIN s.reactions :
              g.jobs[Len(h.jobs) + k] = ReactionJob(s.reactions[k], rej, v)

\* The pair r resolves its promise with a promise or a thenable.
IsAdopt(h, g, r, v) ==
    LET p == h.pairs[r].promise
    IN  /\ g \in Heaps
        /\ g.comb = h.comb
        /\ g.pairs = [h.pairs EXCEPT ![r].used = TRUE]
        /\ g.promises = [h.promises EXCEPT ![p].adopts = v.id]
        /\ g.jobs = Append(h.jobs, Job("thenable", NoFunction, FALSE, v, p, 0))

\* A call of then().
IsThen(h, g, p, on, t, id) ==
    LET s == h.promises[p]
        rd == [on |-> on, to |-> t, id |-> id]
    IN  /\ g \in Heaps
        /\ g.comb = h.comb /\ g.pairs = h.pairs
        /\ Len(g.promises) = Len(h.promises)
        /\ \A x \in DOMAIN h.promises \ {p} : g.promises[x] = h.promises[x]
        /\ g.promises[p].state = s.state /\ g.promises[p].result = s.result
        /\ g.promises[p].adopts = s.adopts /\ g.promises[p].handled
        /\ IF s.state = "pending"
           THEN /\ g.jobs = h.jobs /\ g.promises[p].told = s.told
                /\ g.promises[p].reactions = Append(s.reactions, rd)
           ELSE /\ g.jobs = Append(h.jobs, ReactionJob(rd, s.state = "rejected", s.result))
                /\ g.promises[p].reactions = s.reactions
                /\ g.promises[p].told =
                     IF s.state = "rejected" /\ ~s.handled THEN "handled" ELSE s.told

\* A new promise and its pair.
IsNew(h, g, known, k) ==
    /\ g \in Heaps
    /\ g.comb = h.comb /\ g.jobs = h.jobs
    /\ g.promises = Append(h.promises, Pending(known))
    /\ g.pairs = Append(h.pairs, [promise |-> Len(h.promises) + 1, used |-> FALSE, known |-> k])

LEMMA SeqFacts ==
    ASSUME NEW S, NEW s \in Seq(S)
    PROVE  /\ DOMAIN s = 1 .. Len(s) /\ Len(s) \in Nat
           /\ \A i \in 1 .. Len(s) : s[i] \in S
OBVIOUS

LEMMA SeqExcept ==
    ASSUME NEW S, NEW s \in Seq(S), NEW i \in DOMAIN s, NEW x \in S
    PROVE  /\ [s EXCEPT ![i] = x] \in Seq(S)
           /\ Len([s EXCEPT ![i] = x]) = Len(s)
           /\ \A k \in DOMAIN s \ {i} : [s EXCEPT ![i] = x][k] = s[k]
           /\ [s EXCEPT ![i] = x][i] = x
OBVIOUS

LEMMA Domains ==
    ASSUME NEW h \in Heaps
    PROVE  /\ DOMAIN h.promises = 1 .. Len(h.promises) /\ Len(h.promises) \in Nat
           /\ DOMAIN h.pairs = 1 .. Len(h.pairs) /\ Len(h.pairs) \in Nat
           /\ DOMAIN h.jobs = 1 .. Len(h.jobs) /\ Len(h.jobs) \in Nat
           /\ \A p \in DOMAIN h.promises :
                 /\ h.promises[p] \in PromiseData
                 /\ DOMAIN h.promises[p].reactions = 1 .. Len(h.promises[p].reactions)
                 /\ Len(h.promises[p].reactions) \in Nat
                 /\ \A k \in DOMAIN h.promises[p].reactions :
                       h.promises[p].reactions[k] \in Reaction
           /\ \A r \in DOMAIN h.pairs : h.pairs[r] \in Pair
           /\ \A i \in DOMAIN h.jobs : h.jobs[i] \in AnyJob
<1>1. h.promises \in Seq(PromiseData) /\ h.pairs \in Seq(Pair) /\ h.jobs \in Seq(AnyJob)
  BY DEF Heaps
<1>2. \A p \in DOMAIN h.promises : h.promises[p] \in PromiseData
  BY <1>1, SeqFacts
<1>3. \A p \in DOMAIN h.promises : h.promises[p].reactions \in Seq(Reaction)
  BY <1>2 DEF PromiseData
<1> QED
  BY <1>1, <1>2, <1>3, SeqFacts

LEMMA JobTypes ==
    /\ Undefined \in AnyValue /\ List \in AnyValue /\ TypeError \in AnyValue /\ Thenable \in AnyValue
    /\ NoFunction \in AnyFunction /\ Script \in AnyFunction
    /\ \A r \in Nat, rej \in BOOLEAN : /\ Resolving(r, rej) \in AnyFunction
                                       /\ Element(r, rej) \in AnyFunction
                                       /\ Finally(rej) \in AnyFunction
    /\ \A rej \in BOOLEAN, v \in AnyValue : Give(rej, v) \in AnyFunction
BY DEF Undefined, List, TypeError, Thenable, PlainValue, AnyValue, NoFunction, Script, Resolving,
       Element, Finally, Give, Function, AnyFunction

LEMMA ReactionJobType ==
    ASSUME NEW rd \in Reaction, NEW rej \in BOOLEAN, NEW v \in AnyValue
    PROVE  /\ ReactionJob(rd, rej, v) \in AnyJob
           /\ ReactionJob(rd, rej, v).is = "reaction"
           /\ ReactionJob(rd, rej, v).f = Handler(rd, rej)
           /\ ReactionJob(rd, rej, v).rej = rej
           /\ ReactionJob(rd, rej, v).arg = v
           /\ ReactionJob(rd, rej, v).to = rd.to
           /\ ReactionJob(rd, rej, v).id = rd.id
<1>1. rd.on[1] \in AnyFunction /\ rd.on[2] \in AnyFunction /\ rd.to \in Nat /\ rd.id \in Nat
  BY DEF Reaction
<1> QED
  BY <1>1 DEF ReactionJob, Job, AnyJob, Handler

\* The job for a promise that is settled.
LEMMA SettledJobType ==
    ASSUME NEW rd \in Reaction, NEW s, s.result \in AnyValue
    PROVE  LET j == ReactionJob(rd, s.state = "rejected", s.result)
           IN  /\ j \in AnyJob /\ j.is = "reaction" /\ j.f = Handler(rd, s.state = "rejected")
               /\ j.rej = (s.state = "rejected") /\ j.arg = s.result /\ j.to = rd.to /\ j.id = rd.id
<1> DEFINE b == s.state = "rejected"
<1>1. b \in BOOLEAN
  OBVIOUS
<1> HIDE DEF b
<1>2. LET j == ReactionJob(rd, b, s.result)
      IN  /\ j \in AnyJob /\ j.is = "reaction" /\ j.f = Handler(rd, b)
          /\ j.rej = b /\ j.arg = s.result /\ j.to = rd.to /\ j.id = rd.id
  BY <1>1, ReactionJobType
<1> QED
  BY <1>2, Zenon DEF b

LEMMA DecideIs ==
    ASSUME NEW h \in Heaps, NEW r \in DOMAIN h.pairs, h.pairs[r].promise \in DOMAIN h.promises,
           ~Done(h, h.pairs[r].promise), NEW rej \in BOOLEAN, NEW v \in AnyValue
    PROVE  IsDecide(h, Settle(Use(h, r), h.pairs[r].promise, v, rej), r, rej, v)
<1> DEFINE p == h.pairs[r].promise
           s == h.promises[p]
           u == Use(h, r)
           new == [s EXCEPT !.state = IF rej THEN "rejected" ELSE "fulfilled",
                            !.result = v,
                            !.reactions = <<>>,
                            !.told = IF rej /\ ~s.handled THEN "unhandled" ELSE @]
           js == [i \in DOMAIN s.reactions |-> ReactionJob(s.reactions[i], rej, v)]
           g == Settle(u, p, v, rej)
<1>1. /\ s \in PromiseData
      /\ h.pairs[r] \in Pair
      /\ s.state = "pending"
      /\ h.promises \in Seq(PromiseData) /\ h.pairs \in Seq(Pair) /\ h.jobs \in Seq(AnyJob)
  BY Domains DEF Done, Heaps
<1>2. /\ u.promises = h.promises /\ u.jobs = h.jobs /\ u.comb = h.comb
      /\ u.pairs = [h.pairs EXCEPT ![r].used = TRUE]
      /\ DOMAIN u = DOMAIN h
  BY DEF Use, Heaps
<1>3. u \in Heaps /\ u.pairs \in Seq(Pair)
  <2>1. /\ u.pairs = [h.pairs EXCEPT ![r] = [h.pairs[r] EXCEPT !.used = TRUE]]
        /\ [h.pairs[r] EXCEPT !.used = TRUE] \in Pair
    BY <1>1, <1>2 DEF Pair
  <2>2. u.pairs \in Seq(Pair)
    BY <1>1, <2>1, SeqExcept
  <2> QED
    BY <1>1, <1>2, <2>2 DEF Heaps, Use
<1>4. js \in Seq(AnyJob) /\ Len(js) = Len(s.reactions)
  <2>1. s.reactions \in Seq(Reaction)
    BY <1>1 DEF PromiseData
  <2>2. \A i \in 1 .. Len(s.reactions) : ReactionJob(s.reactions[i], rej, v) \in AnyJob
    BY <2>1, ReactionJobType
  <2>3. DOMAIN s.reactions = 1 .. Len(s.reactions) /\ Len(s.reactions) \in Nat
    BY <2>1, SeqFacts
  <2> QED
    BY <2>2, <2>3
<1>5. /\ new \in PromiseData
      /\ new.state = State(rej) /\ new.result = v
      /\ new.reactions = <<>> /\ new.handled = s.handled
      /\ new.adopts = s.adopts
      /\ new.told = IF rej /\ ~s.handled THEN "unhandled" ELSE s.told
  <2>1. <<>> \in Seq(Reaction)
    OBVIOUS
  <2> QED
    BY <1>1, <2>1 DEF PromiseData, State
<1>6. g = [u EXCEPT !.promises[p] = new, !.jobs = @ \o js]
  BY <1>1, <1>2 DEF Settle
<1> HIDE DEF u, new, js
<1>7. /\ g.promises = [h.promises EXCEPT ![p] = new]
      /\ g.jobs = h.jobs \o js
      /\ g.pairs = u.pairs /\ g.comb = h.comb
  BY <1>2, <1>3, <1>6 DEF Heaps
<1>8. g \in Heaps
  <2>1. g.promises \in Seq(PromiseData)
    <3>1. /\ h.promises \in Seq(PromiseData) /\ p \in DOMAIN h.promises
          /\ new \in PromiseData /\ g.promises = [h.promises EXCEPT ![p] = new]
      BY <1>1, <1>5, <1>7
    <3> QED
      BY ONLY <3>1, SeqExcept
  <2>2. g.jobs \in Seq(AnyJob)
    BY <1>1, <1>4, <1>7
  <2>3. g = [promises |-> g.promises, pairs |-> g.pairs, jobs |-> g.jobs, comb |-> g.comb]
    BY <1>3, <1>6 DEF Heaps
  <2> QED
    BY <1>3, <1>7, <2>1, <2>2, <2>3 DEF Heaps
<1>9. /\ Len(g.jobs) = Len(h.jobs) + Len(s.reactions)
      /\ \A i \in DOMAIN h.jobs : g.jobs[i] = h.jobs[i]
      /\ \A k \in DOMAIN s.reactions : g.jobs[Len(h.jobs) + k] = js[k]
  <2>1. s.reactions \in Seq(Reaction)
    BY <1>1 DEF PromiseData
  <2>2. /\ h.jobs \in Seq(AnyJob) /\ js \in Seq(AnyJob) /\ g.jobs = h.jobs \o js
        /\ Len(js) = Len(s.reactions)
    BY <1>1, <1>4, <1>7
  <2>3. Len(h.jobs \o js) = Len(h.jobs) + Len(js)
    BY ONLY <2>2, ConcatProperties
  <2>4. \A i \in 1 .. Len(h.jobs) : (h.jobs \o js)[i] = h.jobs[i]
    BY ONLY <2>2, ConcatProperties
  <2>5. \A k \in 1 .. Len(js) : (h.jobs \o js)[Len(h.jobs) + k] = js[k]
    BY ONLY <2>2
  <2> QED
    BY ONLY <2>1, <2>2, <2>3, <2>4, <2>5, SeqFacts
<1>10. \A k \in DOMAIN s.reactions : js[k] = ReactionJob(s.reactions[k], rej, v)
  BY DEF js
<1>11. /\ Len(g.pairs) = Len(h.pairs) /\ Len(g.promises) = Len(h.promises)
       /\ \A x \in DOMAIN h.pairs \ {r} : g.pairs[x] = h.pairs[x]
       /\ g.pairs[r] = [promise |-> p, used |-> TRUE, known |-> h.pairs[r].known]
       /\ \A x \in DOMAIN h.promises \ {p} : g.promises[x] = h.promises[x]
       /\ g.promises[p] = new
  <2>1. /\ u.pairs = [h.pairs EXCEPT ![r] = [h.pairs[r] EXCEPT !.used = TRUE]]
        /\ [h.pairs[r] EXCEPT !.used = TRUE] \in Pair
        /\ [h.pairs[r] EXCEPT !.used = TRUE]
              = [promise |-> p, used |-> TRUE, known |-> h.pairs[r].known]
    BY <1>1, <1>2 DEF Pair
  <2>2. /\ h.promises \in Seq(PromiseData) /\ p \in DOMAIN h.promises
        /\ new \in PromiseData /\ g.promises = [h.promises EXCEPT ![p] = new]
        /\ h.pairs \in Seq(Pair) /\ r \in DOMAIN h.pairs /\ g.pairs = u.pairs
    BY <1>1, <1>5, <1>7
  <2> QED
    BY ONLY <2>1, <2>2, SeqExcept
<1> HIDE DEF g, p, s
<1>12. g = Settle(Use(h, r), h.pairs[r].promise, v, rej) /\ p = h.pairs[r].promise
       /\ s = h.promises[p]
  BY DEF g, u, p, s
<1>13. p = h.pairs[r].promise /\ s = h.promises[h.pairs[r].promise]
  BY <1>12
<1>14. IsDecide(h, g, r, rej, v)
  <2>1. /\ g.promises[p].state = State(rej) /\ g.promises[p].result = v
        /\ g.promises[p].reactions = <<>> /\ g.promises[p].handled = s.handled
        /\ g.promises[p].adopts = s.adopts
        /\ g.promises[p].told = IF rej /\ ~s.handled THEN "unhandled" ELSE s.told
    BY ONLY <1>5, <1>11
  <2>2. \A k \in DOMAIN s.reactions : g.jobs[Len(h.jobs) + k] = ReactionJob(s.reactions[k], rej, v)
    BY ONLY <1>9, <1>10
  <2> QED
    BY ONLY <1>7, <1>8, <1>9, <1>11, <1>13, <2>1, <2>2, Zenon DEF IsDecide
<1> QED
  BY <1>12, <1>14

-----------------------------------------------------------------------------
(* What stays so.                                                          *)

\* The combinator goes on, with more elements while its loop does.
CombLater(b, c) ==
    /\ c.type = b.type /\ c.pair = b.pair
    /\ \A i \in DOMAIN b.elems : i \in DOMAIN c.elems /\ c.elems[i] = b.elems[i]
    /\ b.called \subseteq c.called /\ b.given \subseteq c.given
    /\ b.loop = "done" => c.loop = "done" /\ c.elems = b.elems

\* g is a later heap than h: what is settled, used or resolved stays so.
Later(h, g) ==
    /\ Len(h.promises) <= Len(g.promises) /\ Len(h.pairs) <= Len(g.pairs)
    /\ \A p \in DOMAIN h.promises : Done(h, p) =>
          /\ g.promises[p].state = h.promises[p].state
          /\ g.promises[p].result = h.promises[p].result
    /\ \A r \in DOMAIN h.pairs :
          /\ g.pairs[r].promise = h.pairs[r].promise
          /\ h.pairs[r].used => g.pairs[r].used
          /\ ~g.pairs[r].used => g.promises[h.pairs[r].promise].adopts
                                   = h.promises[h.pairs[r].promise].adopts
    /\ CombLater(h.comb, g.comb)

\* Roles are given to new promises only.
RolesGrow(h, ro, rn) ==
    \A d \in DOMAIN h.promises, p \in Nat :
        /\ <<d, p>> \in rn.fin <=> <<d, p>> \in ro.fin
        /\ <<d, p>> \in rn.giv <=> <<d, p>> \in ro.giv

LEMMA SameComb == \A b : CombLater(b, b)
BY DEF CombLater

LEMMA OutcomeLater ==
    ASSUME NEW h, NEW g, Later(h, g), NEW q \in DOMAIN h.promises, NEW rej \in BOOLEAN, NEW v,
           HasOutcome(h, q, rej, v)
    PROVE  HasOutcome(g, q, rej, v)
BY DEF Later, HasOutcome, Done, State

LEMMA ExistsLater ==
    ASSUME NEW h \in Heaps, NEW g \in Heaps, Later(h, g), NEW v, Exists(h, v)
    PROVE  Exists(g, v)
<1>1. DOMAIN h.promises \subseteq DOMAIN g.promises
  BY Domains DEF Later
<1> QED
  BY <1>1 DEF Exists

LEMMA YieldsLater ==
    ASSUME NEW h \in Heaps, NEW g \in Heaps, NEW ro, NEW rn,
           Later(h, g), RolesGrow(h, ro, rn), PairsSane(h, ro), RolesKept(h, ro),
           NEW f \in AnyFunction, NEW rej \in BOOLEAN, NEW t \in DOMAIN h.pairs,
           NEW q \in DOMAIN h.promises,
           ~g.pairs[t].used, Yields(h, ro, f, rej, t, q)
    PROVE  Yields(g, rn, f, rej, t, q)
<1>1. /\ g.pairs[t].promise = h.pairs[t].promise
      /\ h.pairs[t].promise \in DOMAIN h.promises
      /\ g.promises[h.pairs[t].promise].adopts = h.promises[h.pairs[t].promise].adopts
      /\ g.comb.pair = h.comb.pair
  BY DEF Later, PairsSane, CombLater
<1> DEFINE d == h.pairs[t].promise
<1>2. d \in Nat
  BY <1>1, Domains
<1>3. \A p \in Nat : <<d, p>> \in rn.fin => p = q /\ f.is = "finally"
  BY <1>1 DEF Yields, RolesGrow
<1>4. ASSUME NEW p \in Nat, <<d, p>> \in rn.giv
      PROVE  \/ f.is = "none" /\ rej
             \/ f.is = "give" /\ (f.rej \/ HasOutcome(g, p, FALSE, f.val))
  <2>1. <<d, p>> \in ro.giv
    BY <1>1, <1>4 DEF RolesGrow
  <2>2. p \in DOMAIN h.promises
    BY <1>2, <2>1 DEF RolesKept
  <2>3. \/ f.is = "none" /\ rej
        \/ f.is = "give" /\ (f.rej \/ HasOutcome(h, p, FALSE, f.val))
    BY <2>1 DEF Yields
  <2>4. HasOutcome(h, p, FALSE, f.val) => HasOutcome(g, p, FALSE, f.val)
    BY <2>2, OutcomeLater
  <2> QED
    BY <2>3, <2>4
<1> QED
  BY <1>1, <1>3, <1>4 DEF Yields

LEMMA PassesLater ==
    ASSUME NEW h \in Heaps, NEW g \in Heaps, NEW ro,
           Later(h, g), PairsSane(h, ro),
           NEW f \in AnyFunction, NEW rej \in BOOLEAN, f.of \in DOMAIN h.pairs,
           NEW q, ~g.pairs[f.of].used, Passes(h, f, rej, q)
    PROVE  Passes(g, f, rej, q)
BY DEF Later, Passes, PairsSane, CombLater

LEMMA FitsLater ==
    ASSUME NEW h \in Heaps, NEW g \in Heaps, NEW ro, NEW rn,
           Later(h, g), RolesGrow(h, ro, rn), PairsSane(h, ro), RolesKept(h, ro),
           NEW f \in AnyFunction, NEW rej \in BOOLEAN, NEW t, NEW q \in DOMAIN h.promises,
           Fits(h, ro, f, rej, t, q)
    PROVE  Fits(g, rn, f, rej, t, q)
<1>0. DOMAIN h.pairs \subseteq DOMAIN g.pairs /\ t \in 0 .. Len(g.pairs)
  BY Domains DEF Later, Fits
<1>1. t # 0 /\ ~g.pairs[t].used => Yields(g, rn, f, rej, t, q)
  <2> SUFFICES ASSUME t # 0, ~g.pairs[t].used
               PROVE  Yields(g, rn, f, rej, t, q)
    OBVIOUS
  <2>1. t \in DOMAIN h.pairs
    BY Domains DEF Fits
  <2>2. ~h.pairs[t].used
    BY <2>1 DEF Later
  <2>3. Yields(h, ro, f, rej, t, q)
    BY <2>2 DEF Fits
  <2> QED
    BY <2>1, <2>3, YieldsLater
<1>2. f.is = "resolving" => /\ t = 0
                            /\ f.of \in DOMAIN g.pairs
                            /\ ~g.pairs[f.of].used => Passes(g, f, rej, q)
  <2> SUFFICES ASSUME f.is = "resolving"
               PROVE  /\ t = 0
                      /\ f.of \in DOMAIN g.pairs
                      /\ ~g.pairs[f.of].used => Passes(g, f, rej, q)
    OBVIOUS
  <2>1. t = 0 /\ f.of \in DOMAIN h.pairs /\ (~h.pairs[f.of].used => Passes(h, f, rej, q))
    BY DEF Fits
  <2>2. ~g.pairs[f.of].used => ~h.pairs[f.of].used
    BY <2>1 DEF Later
  <2>3. ~g.pairs[f.of].used => Passes(g, f, rej, q)
    BY <2>1, <2>2, PassesLater
  <2> QED
    BY <1>0, <2>1, <2>3
<1>3. f.is = "element" => /\ t = 0
                          /\ g.comb.type # "none"
                          /\ f.of \in DOMAIN g.comb.elems
                          /\ g.comb.elems[f.of] = q
                          /\ f.rej = rej
                          /\ Collects(g.comb.type, rej)
  BY DEF Fits, Later, CombLater
<1>4. f.is = "finally" => f.rej = rej /\ t # 0
  BY DEF Fits
<1>5. f.is = "give" => Exists(g, f.val) /\ f.val.is # "thenable"
  BY ExistsLater DEF Fits
<1> QED
  BY <1>0, <1>1, <1>2, <1>3, <1>4, <1>5 DEF Fits

LEMMA ReactionFitsLater ==
    ASSUME NEW h \in Heaps, NEW g \in Heaps, NEW ro, NEW rn,
           Later(h, g), RolesGrow(h, ro, rn), PairsSane(h, ro), RolesKept(h, ro),
           NEW rd \in Reaction, NEW q \in DOMAIN h.promises, ReactionFits(h, ro, rd, q)
    PROVE  ReactionFits(g, rn, rd, q)
<1>1. \A rej \in BOOLEAN : Handler(rd, rej) \in AnyFunction
  BY DEF Handler, Reaction
<1> QED
  BY <1>1, FitsLater DEF ReactionFits

LEMMA JobFitsLater ==
    ASSUME NEW h \in Heaps, NEW g \in Heaps, NEW ro, NEW rn,
           Later(h, g), RolesGrow(h, ro, rn), PairsSane(h, ro), RolesKept(h, ro),
           NEW j \in AnyJob, JobFits(h, ro, j)
    PROVE  JobFits(g, rn, j)
<1>1. PICK q \in DOMAIN h.promises :
        HasOutcome(h, q, j.rej, j.arg) /\ Fits(h, ro, j.f, j.rej, j.to, q)
  BY DEF JobFits
<1>2. j.rej \in BOOLEAN /\ j.f \in AnyFunction
  BY DEF AnyJob
<1>3. q \in DOMAIN g.promises
  BY Domains DEF Later
<1>4. HasOutcome(g, q, j.rej, j.arg)
  BY <1>1, <1>2, OutcomeLater
<1>5. Fits(g, rn, j.f, j.rej, j.to, q)
  BY <1>1, <1>2, FitsLater
<1> QED
  BY <1>3, <1>4, <1>5 DEF JobFits

LEMMA ElementLater ==
    ASSUME NEW h \in Heaps, NEW g \in Heaps, Later(h, g), Recorded(h), NEW i, NEW rej \in BOOLEAN,
           NEW v, Outcome(h, i, rej, v)
    PROVE  Outcome(g, i, rej, v)
<1>1. CombLater(h.comb, g.comb)
  BY DEF Later
<1>2. CASE <<i, rej, v>> \in h.comb.given
  BY <1>1, <1>2 DEF CombLater, Outcome
<1>3. CASE /\ i \in DOMAIN h.comb.elems /\ h.comb.elems[i] # 0
           /\ HasOutcome(h, h.comb.elems[i], rej, v)
  <2>1. h.comb.elems[i] \in DOMAIN h.promises
    BY <1>3 DEF Recorded
  <2>2. HasOutcome(g, h.comb.elems[i], rej, v)
    BY <1>3, <2>1, OutcomeLater
  <2>3. i \in DOMAIN g.comb.elems /\ g.comb.elems[i] = h.comb.elems[i]
    BY <1>1, <1>3 DEF CombLater
  <2> QED
    BY <1>3, <2>2, <2>3 DEF Outcome
<1> QED
  BY <1>2, <1>3 DEF Outcome

LEMMA MayBecomeLater ==
    ASSUME NEW h \in Heaps, NEW g \in Heaps, Later(h, g), Recorded(h),
           NEW rej \in BOOLEAN, NEW v, MayBecome(h, rej, v)
    PROVE  MayBecome(g, rej, v)
<1>0. CombLater(h.comb, g.comb)
  BY DEF Later
<1>1. \A S : AllAre(h, S) => AllAre(g, S)
  <2>1. Both(h.comb) => Both(g.comb)
    BY <1>0 DEF Both, CombLater
  <2> QED
    BY <1>0, <2>1 DEF AllAre, CombLater
<1>2. ASSUME NEW r \in BOOLEAN, SomeIs(h, r, v) PROVE SomeIs(g, r, v)
  <2>1. PICK i \in DOMAIN h.comb.elems : Outcome(h, i, r, v)
    BY <1>2 DEF SomeIs
  <2>2. Outcome(g, i, r, v)
    BY <2>1, ElementLater
  <2>3. i \in DOMAIN g.comb.elems
    BY <1>0, <2>1 DEF CombLater
  <2> QED
    BY <2>2, <2>3 DEF SomeIs
<1>3. g.comb.type = h.comb.type /\ h.comb.given \subseteq g.comb.given
  BY <1>0 DEF CombLater
<1> QED
  BY <1>1, <1>2, <1>3 DEF MayBecome

\* The combinator stays right when only promises and pairs change, and its
\* promise is settled with what it may become.
LEMMA CombinedLater ==
    ASSUME NEW h \in Heaps, NEW g \in Heaps, Later(h, g), Combined(h), g.comb = h.comb,
           DOMAIN h.promises \subseteq DOMAIN g.promises, DOMAIN h.pairs \subseteq DOMAIN g.pairs,
           \A r \in DOMAIN h.pairs : h.pairs[r].promise \in DOMAIN h.promises,
           h.comb.type # "none" =>
              LET p == h.pairs[h.comb.pair].promise
              IN  /\ g.promises[p].adopts = 0
                  /\ g.pairs[h.comb.pair].used => Done(g, p)
                  /\ Done(g, p) => Done(h, p) \/ \E rej \in BOOLEAN : \E v :
                         HasOutcome(g, p, rej, v) /\ MayBecome(h, rej, v)
    PROVE  Combined(g)
<1>1. CASE h.comb.type = "none"
  BY <1>1 DEF Combined
<1>2. CASE h.comb.type # "none"
  <2> DEFINE c == h.comb
             p == h.pairs[c.pair].promise
  <2>1. Counted(c) /\ Recorded(h) /\ Combines(h)
    BY <1>2 DEF Combined
  <2>2. Recorded(g)
    <3>1. \A i \in DOMAIN c.elems : c.elems[i] = 0 \/ c.elems[i] \in DOMAIN g.promises
      BY <2>1 DEF Recorded
    <3>2. \A i, v : \A rej \in BOOLEAN : Outcome(h, i, rej, v) => Outcome(g, i, rej, v)
      BY <2>1, ElementLater
    <3> QED
      BY <2>1, <3>1, <3>2 DEF Recorded
  <2>3. /\ c.pair \in DOMAIN h.pairs /\ p \in DOMAIN h.promises
        /\ h.promises[p].state = "fulfilled" => MayBecome(h, FALSE, h.promises[p].result)
        /\ h.promises[p].state = "rejected" => MayBecome(h, TRUE, h.promises[p].result)
    BY <2>1 DEF Combines
  <2>4. /\ g.promises[p].adopts = 0
        /\ g.pairs[c.pair].used => Done(g, p)
        /\ Done(g, p) => Done(h, p) \/ \E rej \in BOOLEAN : \E v :
               HasOutcome(g, p, rej, v) /\ MayBecome(h, rej, v)
    BY <1>2
  <2>5. g.pairs[c.pair].promise = p /\ c.pair \in DOMAIN g.pairs
    BY <2>3 DEF Later
  <2>6. Done(h, p) => /\ g.promises[p].state = h.promises[p].state
                      /\ g.promises[p].result = h.promises[p].result
    BY <2>3 DEF Later
  <2>7. \A rej \in BOOLEAN : \A v : MayBecome(h, rej, v) => MayBecome(g, rej, v)
    BY <2>1, MayBecomeLater
  <2> HIDE DEF p
  <2>8. /\ g.promises[p].state = "fulfilled" => MayBecome(g, FALSE, g.promises[p].result)
        /\ g.promises[p].state = "rejected" => MayBecome(g, TRUE, g.promises[p].result)
    <3>1. CASE Done(h, p)
      BY <2>3, <2>6, <2>7, <3>1
    <3>2. CASE ~Done(h, p) /\ Done(g, p)
      <4>1. PICK rej \in BOOLEAN : \E v : HasOutcome(g, p, rej, v) /\ MayBecome(h, rej, v)
        BY <2>4, <3>2
      <4>2. PICK v : HasOutcome(g, p, rej, v) /\ MayBecome(h, rej, v)
        BY <4>1
      <4>3. MayBecome(g, rej, v)
        BY <2>7, <4>2
      <4> QED
        BY <4>2, <4>3 DEF HasOutcome, State
    <3>3. CASE ~Done(g, p)
      BY <3>3 DEF Done
    <3> QED
      BY <3>1, <3>2, <3>3
  <2>9. Combines(g)
    BY <2>4, <2>5, <2>8 DEF Combines
  <2> QED
    BY <1>2, <2>1, <2>2, <2>9 DEF Combined
<1> QED
  BY <1>1, <1>2

-----------------------------------------------------------------------------
(* A pair settles its promise.                                             *)

\* r may settle its promise with v.
MaySettle(h, ro, r, rej, v) ==
    LET d == h.pairs[r].promise
    IN  /\ Exists(h, v) /\ v.is # "thenable"
        /\ ~rej => v.is \in {"plain", "list"}
        /\ h.promises[d].adopts # 0 => HasOutcome(h, h.promises[d].adopts, rej, v)
        /\ r = h.comb.pair => MayBecome(h, rej, v)
        /\ \A p \in Nat : (<<d, p>> \in ro.fin \/ <<d, p>> \in ro.giv)
                            => rej \/ HasOutcome(h, p, FALSE, v)

LEMMA SameRoles == \A h, ro : RolesGrow(h, ro, ro)
BY DEF RolesGrow

LEMMA DecideLater ==
    ASSUME NEW h \in Heaps, NEW ro, PairsSane(h, ro), NEW r \in DOMAIN h.pairs, ~h.pairs[r].used,
           NEW g, NEW rej \in BOOLEAN, NEW v, IsDecide(h, g, r, rej, v)
    PROVE  Later(h, g)
<1> DEFINE d == h.pairs[r].promise
<1>1. d \in DOMAIN h.promises /\ ~Done(h, d)
  BY DEF PairsSane
<1>2. \A p \in DOMAIN h.promises : Done(h, p) =>
          /\ g.promises[p].state = h.promises[p].state
          /\ g.promises[p].result = h.promises[p].result
  BY <1>1 DEF IsDecide
<1>3. ASSUME NEW x \in DOMAIN h.pairs
      PROVE  g.pairs[x].promise = h.pairs[x].promise /\ (h.pairs[x].used => g.pairs[x].used)
  <2>1. CASE x = r
    <3>1. g.pairs[r] = [promise |-> d, used |-> TRUE, known |-> h.pairs[r].known]
      BY Zenon DEF IsDecide
    <3> QED
      BY ONLY <2>1, <3>1
  <2>2. CASE x # r
    BY <2>2, Zenon DEF IsDecide
  <2> QED
    BY <2>1, <2>2
<1>4. \A x \in DOMAIN h.promises : g.promises[x].adopts = h.promises[x].adopts
  BY <1>1 DEF IsDecide
<1>5. \A x \in DOMAIN h.pairs : h.pairs[x].promise \in DOMAIN h.promises
  BY DEF PairsSane
<1>6. g.comb = h.comb /\ Len(g.pairs) = Len(h.pairs) /\ Len(g.promises) = Len(h.promises)
  BY Zenon DEF IsDecide
<1> QED
  BY <1>2, <1>3, <1>4, <1>5, <1>6, SameComb, Domains DEF Later

\* What is the case before a pair settles its promise.
DecideContext(h, ro, r, g, rej, v) ==
    /\ Good(h, ro)
    /\ r \in DOMAIN h.pairs /\ ~h.pairs[r].used
    /\ rej \in BOOLEAN
    /\ IsDecide(h, g, r, rej, v)
    /\ MaySettle(h, ro, r, rej, v)
    /\ h.pairs[r].promise \in DOMAIN h.promises
    /\ ~Done(h, h.pairs[r].promise)
    /\ Later(h, g)
    /\ DOMAIN g.promises = DOMAIN h.promises
    /\ DOMAIN g.pairs = DOMAIN h.pairs

LEMMA DecideTracked ==
    ASSUME NEW h, NEW ro, NEW r, NEW g, NEW rej, NEW v, DecideContext(h, ro, r, g, rej, v)
    PROVE  Tracked(g)
<1> DEFINE d == h.pairs[r].promise
<1>1. /\ h \in Heaps /\ g \in Heaps /\ DOMAIN g.promises = DOMAIN h.promises
      /\ Len(g.promises) = Len(h.promises) /\ d \in DOMAIN h.promises
      /\ rej \in BOOLEAN /\ ~Done(h, d)
  BY Zenon DEF DecideContext, Good, IsDecide
<1>2. \A x : Exists(h, x) <=> Exists(g, x)
  BY <1>1, Zenon DEF Exists
<1>3. ASSUME NEW x \in DOMAIN h.promises, x # d PROVE Sane(g, g.promises[x])
  <2>1. g.promises[x] = h.promises[x] /\ Sane(h, h.promises[x])
    BY <1>3, Zenon DEF DecideContext, IsDecide, Good, Tracked
  <2> QED
    BY <1>1, <1>2, <2>1 DEF Sane
<1>4. Sane(g, g.promises[d])
  <2>1. Sane(h, h.promises[d])
    BY <1>1 DEF DecideContext, Good, Tracked
  <2>2. h.promises[d].told # "unhandled" /\ h.promises[d].adopts \in 0 .. Len(h.promises)
    BY <1>1, <2>1 DEF Sane, Done
  <2>3. Exists(h, v) /\ v.is # "thenable" /\ (~rej => v.is \in {"plain", "list"})
    BY DEF DecideContext, MaySettle
  <2> DEFINE s == g.promises[d]
  <2>4. /\ s.state = State(rej) /\ s.result = v
        /\ s.reactions = <<>> /\ s.handled = h.promises[d].handled
        /\ s.adopts = h.promises[d].adopts
        /\ s.told = IF rej /\ ~h.promises[d].handled THEN "unhandled" ELSE h.promises[d].told
    BY Zenon DEF DecideContext, IsDecide
  <2>5. s.told = "unhandled" <=> s.state = "rejected" /\ ~s.handled
    BY <1>1, <2>2, <2>4 DEF State
  <2>6. s.state = "fulfilled" => s.result.is \in {"plain", "list"}
    BY <1>1, <2>3, <2>4 DEF State
  <2> HIDE DEF s
  <2> QED
    BY <1>1, <1>2, <2>2, <2>3, <2>4, <2>5, <2>6 DEF Sane, s
<1> QED
  BY <1>1, <1>3, <1>4 DEF Tracked

LEMMA DecidePairs ==
    ASSUME NEW h, NEW ro, NEW r, NEW g, NEW rej, NEW v, DecideContext(h, ro, r, g, rej, v)
    PROVE  /\ PairsSane(g, ro)
           /\ \A x \in DOMAIN g.pairs : ~g.pairs[x].used =>
                 /\ x # r /\ ~h.pairs[x].used
                 /\ h.pairs[x].promise # h.pairs[r].promise
                 /\ g.pairs[x] = h.pairs[x]
<1> DEFINE d == h.pairs[r].promise
<1>1. /\ h \in Heaps /\ DOMAIN g.promises = DOMAIN h.promises /\ DOMAIN g.pairs = DOMAIN h.pairs
      /\ d \in DOMAIN h.promises /\ r \in DOMAIN h.pairs /\ ~h.pairs[r].used
      /\ PairsSane(h, ro) /\ Alone(h) /\ g.comb = h.comb
  BY Zenon DEF DecideContext, Good, IsDecide
<1>2. g.pairs[r].used /\ g.pairs[r].promise = d
  <2>1. g.pairs[r] = [promise |-> d, used |-> TRUE, known |-> h.pairs[r].known]
    BY Zenon DEF DecideContext, IsDecide
  <2> QED
    BY ONLY <2>1
<1>3. ASSUME NEW x \in DOMAIN h.pairs, ~g.pairs[x].used
      PROVE  /\ x # r /\ ~h.pairs[x].used /\ h.pairs[x].promise # d
             /\ g.pairs[x] = h.pairs[x]
  <2>1. x # r
    BY <1>2, <1>3
  <2>2. g.pairs[x] = h.pairs[x]
    BY <2>1 DEF DecideContext, IsDecide
  <2> QED
    BY <1>1, <1>3, <2>1, <2>2 DEF Alone
<1>4. ASSUME NEW x \in DOMAIN h.pairs PROVE g.pairs[x].promise = h.pairs[x].promise
  BY <1>2, Zenon DEF DecideContext, IsDecide
<1>5. ASSUME NEW x \in DOMAIN h.pairs, ~g.pairs[x].used PROVE ~Done(g, h.pairs[x].promise)
  <2>1. h.pairs[x].promise \in DOMAIN h.promises \ {d} /\ ~Done(h, h.pairs[x].promise)
    BY <1>1, <1>3, <1>5 DEF PairsSane
  <2> QED
    BY <2>1, Zenon DEF DecideContext, IsDecide, Done
<1>6. ASSUME NEW x \in DOMAIN h.pairs, g.pairs[x].known PROVE Free(g, ro, x)
  <2> SUFFICES ASSUME ~g.pairs[x].used PROVE x # g.comb.pair /\ Ordinary(g, ro, g.pairs[x].promise)
    BY DEF Free
  <2>1. /\ g.pairs[x] = h.pairs[x] /\ h.pairs[x].promise \in DOMAIN h.promises \ {d}
        /\ ~h.pairs[x].used
    BY <1>1, <1>3 DEF PairsSane
  <2>2. Free(h, ro, x)
    BY <1>1, <1>6, <2>1 DEF PairsSane
  <2>3. g.promises[h.pairs[x].promise] = h.promises[h.pairs[x].promise]
    BY <2>1, Zenon DEF DecideContext, IsDecide
  <2> QED
    BY <1>1, <2>1, <2>2, <2>3 DEF Free, Ordinary
<1>7. PairsSane(g, ro)
  BY <1>1, <1>4, <1>5, <1>6 DEF PairsSane
<1> QED
  BY <1>1, <1>3, <1>7

\* The jobs after those that were there are for the reactions.
LEMMA DecideJobs ==
    ASSUME NEW h, NEW ro, NEW r, NEW g, NEW rej, NEW v, DecideContext(h, ro, r, g, rej, v),
           NEW i \in DOMAIN g.jobs
    PROVE  \/ i \in DOMAIN h.jobs /\ g.jobs[i] = h.jobs[i]
           \/ \E k \in DOMAIN h.promises[h.pairs[r].promise].reactions :
                 /\ i = Len(h.jobs) + k
                 /\ g.jobs[i] = ReactionJob(h.promises[h.pairs[r].promise].reactions[k], rej, v)
<1> DEFINE R == h.promises[h.pairs[r].promise].reactions
<1>1. /\ h \in Heaps /\ g \in Heaps /\ h.pairs[r].promise \in DOMAIN h.promises
      /\ Len(g.jobs) = Len(h.jobs) + Len(R)
      /\ \A x \in DOMAIN h.jobs : g.jobs[x] = h.jobs[x]
      /\ \A k \in DOMAIN R : g.jobs[Len(h.jobs) + k] = ReactionJob(R[k], rej, v)
  BY Zenon DEF DecideContext, Good, IsDecide
<1>2. /\ DOMAIN g.jobs = 1 .. Len(g.jobs) /\ DOMAIN h.jobs = 1 .. Len(h.jobs)
      /\ Len(h.jobs) \in Nat /\ DOMAIN R = 1 .. Len(R) /\ Len(R) \in Nat
  BY <1>1, Domains
<1> HIDE DEF R
<1>3. CASE i \in DOMAIN h.jobs
  BY <1>1, <1>3
<1>4. CASE i \notin DOMAIN h.jobs
  <2>1. i - Len(h.jobs) \in DOMAIN R /\ i = Len(h.jobs) + (i - Len(h.jobs))
    BY <1>1, <1>2, <1>4
  <2>2. \E k \in DOMAIN R : i = Len(h.jobs) + k
    BY <2>1
  <2>3. \E k \in DOMAIN R : i = Len(h.jobs) + k /\ g.jobs[i] = ReactionJob(R[k], rej, v)
    BY <1>1, <2>2
  <2> QED
    BY <2>3 DEF R
<1> QED
  BY <1>3, <1>4

LEMMA DecideThenables ==
    ASSUME NEW h, NEW ro, NEW r, NEW g, NEW rej, NEW v, DecideContext(h, ro, r, g, rej, v)
    PROVE  /\ \A i \in DOMAIN g.jobs : g.jobs[i].is = "thenable" =>
                 /\ i \in DOMAIN h.jobs /\ g.jobs[i] = h.jobs[i]
                 /\ h.jobs[i].to # h.pairs[r].promise
           /\ \A i \in DOMAIN h.jobs : i \in DOMAIN g.jobs /\ g.jobs[i] = h.jobs[i]
<1> DEFINE d == h.pairs[r].promise
<1>1. /\ h \in Heaps /\ d \in DOMAIN h.promises /\ Alone(h) /\ r \in DOMAIN h.pairs
      /\ ~h.pairs[r].used /\ Exists(h, v) /\ rej \in BOOLEAN
  BY DEF DecideContext, MaySettle, Good
<1>2. ASSUME NEW i \in DOMAIN g.jobs, g.jobs[i].is = "thenable"
      PROVE  i \in DOMAIN h.jobs /\ g.jobs[i] = h.jobs[i]
  <2>1. \A k \in DOMAIN h.promises[d].reactions : h.promises[d].reactions[k] \in Reaction
    BY <1>1, Domains
  <2>2. v \in AnyValue
    BY <1>1 DEF Exists
  <2>3. \A k \in DOMAIN h.promises[d].reactions :
           ReactionJob(h.promises[d].reactions[k], rej, v).is = "reaction"
    BY ONLY <1>1, <2>1, <2>2, ReactionJobType
  <2>4. \A k \in DOMAIN h.promises[d].reactions :
          g.jobs[i] # ReactionJob(h.promises[d].reactions[k], rej, v)
    BY <1>2, <2>3
  <2> QED
    BY <2>4, DecideJobs
<1>3. ASSUME NEW i \in DOMAIN h.jobs PROVE i \in DOMAIN g.jobs /\ g.jobs[i] = h.jobs[i]
  <2>1. /\ g \in Heaps /\ Len(g.jobs) = Len(h.jobs) + Len(h.promises[d].reactions)
        /\ g.jobs[i] = h.jobs[i]
    BY DEF DecideContext, IsDecide
  <2>2. Len(h.promises[d].reactions) \in Nat /\ DOMAIN h.jobs = 1 .. Len(h.jobs) /\ Len(h.jobs) \in Nat
    BY <1>1, Domains
  <2>3. DOMAIN g.jobs = 1 .. Len(g.jobs)
    BY <2>1, Domains
  <2>4. Len(h.jobs) <= Len(g.jobs)
    <3>1. ASSUME NEW a \in Nat, NEW b \in Nat, NEW c, c = a + b PROVE a <= c
      BY ONLY <3>1
    <3> QED
      BY <2>1, <2>2, <3>1
  <2>5. Len(g.jobs) \in Nat
    BY <2>1, Domains
  <2>6. i \in DOMAIN g.jobs
    BY ONLY <2>2, <2>3, <2>4, <2>5, i \in DOMAIN h.jobs
  <2> QED
    BY <2>1, <2>6
<1> QED
  BY <1>1, <1>2, <1>3 DEF Alone

LEMMA DecideAlone ==
    ASSUME NEW h, NEW ro, NEW r, NEW g, NEW rej, NEW v, DecideContext(h, ro, r, g, rej, v)
    PROVE  Alone(g) /\ HasDecider(g)
<1>1. /\ Alone(h) /\ HasDecider(h)
      /\ DOMAIN g.promises = DOMAIN h.promises /\ DOMAIN g.pairs = DOMAIN h.pairs
      /\ r \in DOMAIN h.pairs
  BY DEF DecideContext, Good
<1>2. \A x \in DOMAIN g.pairs : ~g.pairs[x].used => ~h.pairs[x].used /\ g.pairs[x] = h.pairs[x]
  BY DecidePairs
<1>3. \A i \in DOMAIN g.jobs : g.jobs[i].is = "thenable" => i \in DOMAIN h.jobs /\ g.jobs[i] = h.jobs[i]
  BY DecideThenables
<1>4. Alone(g)
  BY <1>1, <1>2, <1>3 DEF Alone
<1>5. ASSUME NEW p \in DOMAIN h.promises, ~Done(g, p)
      PROVE  \/ \E x \in DOMAIN g.pairs : ~g.pairs[x].used /\ g.pairs[x].promise = p
             \/ \E i \in DOMAIN g.jobs : g.jobs[i].is = "thenable" /\ g.jobs[i].to = p
  <2>1. p # h.pairs[r].promise
    BY <1>5, Zenon DEF DecideContext, IsDecide, Done, State
  <2>2. ~Done(h, p)
    BY <1>5, <2>1, Zenon DEF DecideContext, IsDecide, Done
  <2>3. CASE \E i \in DOMAIN h.jobs : h.jobs[i].is = "thenable" /\ h.jobs[i].to = p
    BY <2>3, DecideThenables
  <2>4. ASSUME NEW x \in DOMAIN h.pairs, ~h.pairs[x].used, h.pairs[x].promise = p
        PROVE  ~g.pairs[x].used /\ g.pairs[x].promise = p
    <3>1. x # r
      BY <2>1, <2>4
    <3>2. g.pairs[x] = h.pairs[x]
      BY <3>1, Zenon DEF DecideContext, IsDecide
    <3> QED
      BY <2>4, <3>2
  <2> QED
    BY <1>1, <2>2, <2>3, <2>4 DEF HasDecider
<1> QED
  BY <1>1, <1>4, <1>5 DEF HasDecider

LEMMA DecideOutcomes ==
    ASSUME NEW h, NEW ro, NEW r, NEW g, NEW rej, NEW v, DecideContext(h, ro, r, g, rej, v)
    PROVE  Adopted(g) /\ RolesKept(g, ro) /\ HasOutcome(g, h.pairs[r].promise, rej, v)
<1> DEFINE d == h.pairs[r].promise
<1>1. /\ DOMAIN g.promises = DOMAIN h.promises /\ d \in DOMAIN h.promises /\ ~Done(h, d)
      /\ Adopted(h) /\ RolesKept(h, ro) /\ MaySettle(h, ro, r, rej, v) /\ Tracked(h)
      /\ rej \in BOOLEAN /\ Later(h, g) /\ h \in Heaps
  BY DEF DecideContext, Good
<1>2. /\ \A x \in DOMAIN h.promises \ {d} : g.promises[x] = h.promises[x]
      /\ g.promises[d].state = State(rej) /\ g.promises[d].result = v
      /\ g.promises[d].adopts = h.promises[d].adopts
  BY Zenon DEF DecideContext, IsDecide
<1>3. HasOutcome(g, d, rej, v)
  BY <1>2 DEF HasOutcome
<1> HIDE DEF d
<1>4. \A x \in DOMAIN h.promises : g.promises[x].adopts = h.promises[x].adopts
  BY <1>2
<1>5. ASSUME NEW p \in DOMAIN h.promises, Done(g, p), h.promises[p].adopts # 0
      PROVE  /\ g.promises[p].state = g.promises[h.promises[p].adopts].state
             /\ g.promises[p].result = g.promises[h.promises[p].adopts].result
  <2> DEFINE q == h.promises[p].adopts
  <2>0. q \in DOMAIN h.promises
    <3>1. Sane(h, h.promises[p])
      BY <1>1 DEF Tracked
    <3> QED
      BY <1>1, <1>5, <3>1, Domains DEF Sane
  <2>1. CASE p = d
    <3>1. HasOutcome(h, q, rej, v)
      BY <1>1, <1>5, <2>1 DEF MaySettle, d
    <3>2. HasOutcome(g, q, rej, v)
      BY <1>1, <2>0, <3>1, OutcomeLater
    <3> QED
      BY <1>3, <2>1, <3>2 DEF HasOutcome
  <2>2. CASE p # d
    <3>1. g.promises[p] = h.promises[p] /\ Done(h, p)
      BY <1>2, <1>5, <2>2 DEF Done
    <3>2. h.promises[p].state = h.promises[q].state /\ h.promises[p].result = h.promises[q].result
      BY <1>1, <1>5, <3>1 DEF Adopted
    <3>3. q # d
      BY <1>1, <3>1, <3>2 DEF Done
    <3> QED
      BY <1>2, <2>0, <3>1, <3>2, <3>3
  <2> QED
    BY <2>1, <2>2
<1>6. Adopted(g)
  BY <1>1, <1>4, <1>5 DEF Adopted
<1>7. ASSUME NEW x \in Nat, NEW p \in Nat, <<x, p>> \in ro.fin \/ <<x, p>> \in ro.giv,
             x \in DOMAIN h.promises, p \in DOMAIN h.promises,
             h.promises[x].state = "fulfilled" => HasOutcome(h, p, FALSE, h.promises[x].result),
             g.promises[x].state = "fulfilled"
      PROVE  HasOutcome(g, p, FALSE, g.promises[x].result)
  <2>1. CASE x = d
    <3>1. ~rej
      BY <1>1, <1>2, <1>7, <2>1 DEF State
    <3>2. HasOutcome(h, p, FALSE, v)
      BY <1>1, <1>7, <2>1, <3>1 DEF MaySettle, d
    <3> QED
      BY <1>1, <1>2, <1>7, <2>1, <3>2, OutcomeLater
  <2>2. CASE x # d
    BY <1>1, <1>2, <1>7, <2>2, OutcomeLater
  <2> QED
    BY <2>1, <2>2
<1>8. RolesKept(g, ro)
  BY <1>1, <1>4, <1>7 DEF RolesKept
<1> QED
  BY <1>3, <1>6, <1>8 DEF d

LEMMA DecideCombined ==
    ASSUME NEW h, NEW ro, NEW r, NEW g, NEW rej, NEW v, DecideContext(h, ro, r, g, rej, v)
    PROVE  Combined(g)
<1> DEFINE d == h.pairs[r].promise
           c == h.comb
           p == h.pairs[c.pair].promise
<1>1. /\ DOMAIN g.promises = DOMAIN h.promises /\ DOMAIN g.pairs = DOMAIN h.pairs
      /\ Combined(h) /\ PairsSane(h, ro) /\ MaySettle(h, ro, r, rej, v) /\ Alone(h)
      /\ rej \in BOOLEAN /\ Later(h, g) /\ h \in Heaps /\ g \in Heaps /\ g.comb = c
      /\ r \in DOMAIN h.pairs /\ ~h.pairs[r].used
  BY Zenon DEF DecideContext, Good, IsDecide
<1>2. /\ \A x \in DOMAIN h.promises \ {d} : g.promises[x] = h.promises[x]
      /\ g.promises[d].state = State(rej) /\ g.promises[d].result = v
      /\ g.promises[d].adopts = h.promises[d].adopts
      /\ \A x \in DOMAIN h.pairs \ {r} : g.pairs[x] = h.pairs[x]
  BY Zenon DEF DecideContext, IsDecide
<1>3. ASSUME c.type # "none"
      PROVE  /\ g.promises[p].adopts = 0
             /\ g.pairs[c.pair].used => Done(g, p)
             /\ Done(g, p) => Done(h, p) \/ \E b \in BOOLEAN : \E x :
                    HasOutcome(g, p, b, x) /\ MayBecome(h, b, x)
  <2>1. /\ c.pair \in DOMAIN h.pairs /\ h.promises[p].adopts = 0
        /\ h.pairs[c.pair].used => Done(h, p)
    BY <1>1, <1>3, Zenon DEF Combined, Combines
  <2>2. p \in DOMAIN h.promises
    BY <1>1, <2>1 DEF PairsSane
  <2>3. ~h.pairs[c.pair].used /\ p = d => r = c.pair
    BY <1>1, <2>1 DEF Alone
  <2>4. r = c.pair => p = d /\ MayBecome(h, rej, v)
    BY <1>1 DEF MaySettle
  <2>5. ~Done(h, d)
    BY DEF DecideContext
  <2> HIDE DEF d, p
  <2>6. CASE p = d
    <3>1. HasOutcome(g, p, rej, v) /\ MayBecome(h, rej, v) /\ Done(g, p)
      BY <1>1, <1>2, <2>1, <2>3, <2>4, <2>5, <2>6 DEF HasOutcome, Done, State
    <3> QED
      BY <1>1, <1>2, <2>1, <2>6, <3>1
  <2>7. CASE p # d
    <3>1. g.promises[p] = h.promises[p] /\ g.pairs[c.pair] = h.pairs[c.pair]
      BY <1>2, <2>1, <2>2, <2>4, <2>7
    <3> QED
      BY <2>1, <3>1 DEF Done
  <2> QED
    BY <2>6, <2>7
<1>4. \A x \in DOMAIN h.pairs : h.pairs[x].promise \in DOMAIN h.promises
  BY <1>1 DEF PairsSane
<1> QED
  BY <1>1, <1>3, <1>4, CombinedLater

LEMMA DecideFits ==
    ASSUME NEW h, NEW ro, NEW r, NEW g, NEW rej, NEW v, DecideContext(h, ro, r, g, rej, v)
    PROVE  ReactionsFit(g, ro) /\ JobsFit(g, ro)
<1> DEFINE d == h.pairs[r].promise
<1>1. /\ h \in Heaps /\ g \in Heaps /\ DOMAIN g.promises = DOMAIN h.promises
      /\ d \in DOMAIN h.promises /\ Later(h, g) /\ RolesGrow(h, ro, ro)
      /\ PairsSane(h, ro) /\ RolesKept(h, ro) /\ ReactionsFit(h, ro) /\ JobsFit(h, ro)
      /\ rej \in BOOLEAN /\ v \in AnyValue
  BY SameRoles, Zenon DEF DecideContext, Good, IsDecide, MaySettle, Exists
<1>2. /\ \A x \in DOMAIN h.promises \ {d} : g.promises[x] = h.promises[x]
      /\ g.promises[d].reactions = <<>>
      /\ \A x \in DOMAIN h.promises : g.promises[x].adopts = h.promises[x].adopts
  BY Zenon DEF DecideContext, IsDecide
<1>3. \A x \in DOMAIN h.promises : \A k \in DOMAIN h.promises[x].reactions :
         ReactionFits(g, ro, h.promises[x].reactions[k], x)
  <2> TAKE x \in DOMAIN h.promises
  <2> TAKE k \in DOMAIN h.promises[x].reactions
  <2>1. ReactionFits(h, ro, h.promises[x].reactions[k], x)
    BY <1>1 DEF ReactionsFit
  <2>2. h.promises[x].reactions[k] \in Reaction
    BY <1>1, Domains
  <2> QED
    BY ONLY <1>1, <2>1, <2>2, x \in DOMAIN h.promises, ReactionFitsLater
<1>4. ReactionsFit(g, ro)
  <2> SUFFICES ASSUME NEW x \in DOMAIN h.promises, NEW k \in DOMAIN g.promises[x].reactions
               PROVE  ReactionFits(g, ro, g.promises[x].reactions[k], x)
    BY <1>1 DEF ReactionsFit
  <2>1. x # d
    BY <1>2
  <2> QED
    BY <1>2, <1>3, <2>1
<1>5. ASSUME NEW i \in DOMAIN h.jobs
      PROVE  \/ h.jobs[i].is = "reaction" /\ JobFits(g, ro, h.jobs[i])
             \/ h.jobs[i].is = "thenable" /\ h.jobs[i].to # d /\ ThenableSane(g, ro, h.jobs[i])
  <2>0. h.jobs[i] \in AnyJob
    BY <1>1, Domains
  <2>1. CASE h.jobs[i].is = "reaction" /\ JobFits(h, ro, h.jobs[i])
    BY <1>1, <2>0, <2>1, JobFitsLater
  <2>2. CASE h.jobs[i].is = "thenable" /\ ThenableSane(h, ro, h.jobs[i])
    <3>1. h.jobs[i].to # d
      <4>1. i \in DOMAIN g.jobs /\ g.jobs[i] = h.jobs[i]
        BY DecideThenables
      <4> QED
        BY <2>2, <4>1, DecideThenables
    <3>2. /\ h.jobs[i].to \in DOMAIN h.promises
          /\ g.promises[h.jobs[i].to] = h.promises[h.jobs[i].to]
      BY <1>2, <2>2, <3>1 DEF ThenableSane
    <3>3. Exists(g, h.jobs[i].arg)
      BY <1>1, <2>2, ExistsLater DEF ThenableSane
    <3> QED
      BY <1>1, <2>2, <3>1, <3>2, <3>3 DEF ThenableSane, Done, Ordinary
  <2> QED
    BY <1>1, <2>1, <2>2 DEF JobsFit
<1>6. ASSUME NEW k \in DOMAIN h.promises[d].reactions
      PROVE  /\ ReactionJob(h.promises[d].reactions[k], rej, v).is = "reaction"
             /\ JobFits(g, ro, ReactionJob(h.promises[d].reactions[k], rej, v))
  <2> DEFINE rd == h.promises[d].reactions[k]
             j == ReactionJob(rd, rej, v)
  <2>1. rd \in Reaction
    BY <1>1, Domains
  <2> HIDE DEF rd
  <2>2. /\ j.is = "reaction" /\ j.f = Handler(rd, rej) /\ j.rej = rej /\ j.arg = v /\ j.to = rd.to
    BY <1>1, <2>1, ReactionJobType
  <2> HIDE DEF j
  <2>3. Fits(g, ro, j.f, j.rej, j.to, d)
    <3>1. ReactionFits(g, ro, rd, d)
      BY <1>1, <1>3 DEF rd
    <3>2. Fits(g, ro, Handler(rd, rej), rej, rd.to, d)
      BY <1>1, <3>1 DEF ReactionFits
    <3> QED
      BY <2>2, <3>2
  <2>4. HasOutcome(g, d, j.rej, j.arg)
    BY <2>2, DecideOutcomes
  <2>5. JobFits(g, ro, j)
    BY ONLY <1>1, <2>3, <2>4 DEF JobFits
  <2> QED
    BY <2>2, <2>5, Zenon DEF j, rd
<1>7. JobsFit(g, ro)
  <2> SUFFICES ASSUME NEW i \in DOMAIN g.jobs
               PROVE  \/ g.jobs[i].is = "reaction" /\ JobFits(g, ro, g.jobs[i])
                      \/ g.jobs[i].is = "thenable" /\ ThenableSane(g, ro, g.jobs[i])
    BY DEF JobsFit
  <2>1. CASE i \in DOMAIN h.jobs /\ g.jobs[i] = h.jobs[i]
    BY <1>5, <2>1
  <2>2. CASE \E k \in DOMAIN h.promises[d].reactions :
                g.jobs[i] = ReactionJob(h.promises[d].reactions[k], rej, v)
    BY <1>6, <2>2
  <2> QED
    BY <2>1, <2>2, DecideJobs
<1> QED
  BY <1>4, <1>7

\* A pair that is not used yet and may settle its promise keeps the invariant.
LEMMA DecideKept ==
    ASSUME NEW h, NEW ro, Good(h, ro), NEW r \in DOMAIN h.pairs, ~h.pairs[r].used,
           NEW rej \in BOOLEAN, NEW v, MaySettle(h, ro, r, rej, v)
    PROVE  LET g == Settle(Use(h, r), h.pairs[r].promise, v, rej)
           IN  Good(g, ro) /\ Later(h, g) /\ IsDecide(h, g, r, rej, v)
<1> DEFINE d == h.pairs[r].promise
           g == Settle(Use(h, r), d, v, rej)
<1>1. d \in DOMAIN h.promises /\ ~Done(h, d) /\ h \in Heaps /\ PairsSane(h, ro)
  BY DEF Good, PairsSane
<1>2. v \in AnyValue
  BY DEF MaySettle, Exists
<1>3. IsDecide(h, g, r, rej, v)
  BY <1>1, <1>2, DecideIs
<1> HIDE DEF g
<1>4. Later(h, g)
  BY <1>1, <1>3, DecideLater
<1>5. DOMAIN g.promises = DOMAIN h.promises /\ DOMAIN g.pairs = DOMAIN h.pairs /\ g \in Heaps
  BY <1>1, <1>3, Domains, Zenon DEF IsDecide
<1>6. DecideContext(h, ro, r, g, rej, v)
  BY <1>1, <1>3, <1>4, <1>5 DEF DecideContext
<1>7. Good(g, ro)
  BY <1>5, <1>6, DecideTracked, DecidePairs, DecideAlone, DecideOutcomes, DecideCombined, DecideFits
  DEF Good
<1> QED
  BY <1>3, <1>4, <1>7 DEF g

-----------------------------------------------------------------------------
(* A call of then().                                                       *)

LEMMA ThenIs ==
    ASSUME NEW h \in Heaps, NEW p \in DOMAIN h.promises,
           NEW on \in AnyFunction \X AnyFunction, NEW t \in Nat, NEW id \in Nat
    PROVE  IsThen(h, PerformThen(h, p, on, t, id), p, on, t, id)
<1> DEFINE s == h.promises[p]
           rd == [on |-> on, to |-> t, id |-> id]
           rej == s.state = "rejected"
           j == ReactionJob(rd, rej, s.result)
           a == IF s.state = "pending"
                THEN [h EXCEPT !.promises[p].reactions = Append(@, rd)]
                ELSE [h EXCEPT !.jobs = Append(@, j),
                               !.promises[p].told = IF rej /\ ~s.handled THEN "handled" ELSE @]
           g == PerformThen(h, p, on, t, id)
<1>1. /\ s \in PromiseData /\ h.promises \in Seq(PromiseData) /\ h.jobs \in Seq(AnyJob)
      /\ s.reactions \in Seq(Reaction) /\ rd \in Reaction /\ s.result \in AnyValue
      /\ rej \in BOOLEAN
  BY Domains DEF Heaps, PromiseData, Reaction
<1>2. j \in AnyJob
  BY <1>1, ReactionJobType
<1>3. g = [a EXCEPT !.promises[p].handled = TRUE]
  BY DEF PerformThen
<1> HIDE DEF g, j, rej
<1>4. ASSUME s.state = "pending" PROVE IsThen(h, g, p, on, t, id)
  <2> DEFINE m == [s EXCEPT !.reactions = Append(@, rd)]
             n == [m EXCEPT !.handled = TRUE]
  <2>1. m \in PromiseData /\ n \in PromiseData
    <3>1. Append(s.reactions, rd) \in Seq(Reaction)
      BY <1>1
    <3> QED
      BY <1>1, <3>1 DEF PromiseData
  <2>2. /\ n.state = s.state /\ n.result = s.result /\ n.adopts = s.adopts /\ n.handled
        /\ n.told = s.told /\ n.reactions = Append(s.reactions, rd)
    BY <1>1 DEF PromiseData
  <2>3. a = [h EXCEPT !.promises[p] = m] /\ a \in Heaps /\ a.promises[p] = m
        /\ a.promises = [h.promises EXCEPT ![p] = m]
        /\ a.jobs = h.jobs /\ a.comb = h.comb /\ a.pairs = h.pairs
    <3>1. a = [h EXCEPT !.promises[p] = m]
      BY <1>4
    <3>2. [h.promises EXCEPT ![p] = m] \in Seq(PromiseData)
      BY <1>1, <2>1, SeqExcept
    <3> HIDE DEF m, a, s
    <3>3. /\ a.promises = [h.promises EXCEPT ![p] = m]
          /\ a.jobs = h.jobs /\ a.comb = h.comb /\ a.pairs = h.pairs
      BY <3>1 DEF Heaps
    <3>4. a \in Heaps
      BY <3>1, <3>2 DEF Heaps
    <3>5. a.promises[p] = m
      BY <1>1, <2>1, <3>3, SeqExcept
    <3> QED
      BY <3>1, <3>3, <3>4, <3>5
  <2> HIDE DEF a
  <2>4. g = [a EXCEPT !.promises[p] = n]
    BY <1>3, <2>3
  <2> HIDE DEF n, m, s, rd
  <2>5. [a.promises EXCEPT ![p] = n] = [h.promises EXCEPT ![p] = n]
    BY <2>3
  <2>6. [h.promises EXCEPT ![p] = n] \in Seq(PromiseData)
    BY <1>1, <2>1, SeqExcept
  <2>7. /\ g \in Heaps /\ g.promises = [h.promises EXCEPT ![p] = n]
        /\ g.jobs = h.jobs /\ g.comb = h.comb /\ g.pairs = h.pairs
    BY <2>3, <2>4, <2>5, <2>6 DEF Heaps
  <2>8. /\ Len(g.promises) = Len(h.promises)
        /\ \A x \in DOMAIN h.promises \ {p} : g.promises[x] = h.promises[x]
        /\ g.promises[p] = n
    BY <1>1, <2>1, <2>7, SeqExcept
  <2> QED
    <3>1. s = h.promises[p] /\ rd = [on |-> on, to |-> t, id |-> id]
      BY DEF s, rd
    <3> QED
      BY ONLY <1>4, <2>2, <2>7, <2>8, <3>1 DEF IsThen
<1>5. ASSUME s.state # "pending" PROVE IsThen(h, g, p, on, t, id)
  <2> DEFINE told == IF rej /\ ~s.handled THEN "handled" ELSE s.told
             m == [s EXCEPT !.told = told]
             n == [m EXCEPT !.handled = TRUE]
  <2>0. told \in {"nothing", "unhandled", "handled"}
    BY <1>1 DEF PromiseData
  <2>00. a = [h EXCEPT !.jobs = Append(@, j), !.promises[p] = m]
    BY <1>5
  <2> HIDE DEF a, told
  <2>1. m \in PromiseData /\ n \in PromiseData
    BY <1>1, <2>0 DEF PromiseData
  <2>2. /\ n.state = s.state /\ n.result = s.result /\ n.adopts = s.adopts /\ n.handled
        /\ n.told = told /\ n.reactions = s.reactions
    BY <1>1 DEF PromiseData
  <2>3. a \in Heaps /\ a.promises[p] = m
        /\ a.promises = [h.promises EXCEPT ![p] = m]
        /\ a.jobs = Append(h.jobs, j) /\ a.comb = h.comb /\ a.pairs = h.pairs
    <3>1. Append(h.jobs, j) \in Seq(AnyJob)
      BY <1>1, <1>2
    <3>2. [h.promises EXCEPT ![p] = m] \in Seq(PromiseData)
      BY <1>1, <2>1, SeqExcept
    <3> HIDE DEF m, s
    <3>3. /\ a.promises = [h.promises EXCEPT ![p] = m]
          /\ a.jobs = Append(h.jobs, j) /\ a.comb = h.comb /\ a.pairs = h.pairs
      BY <2>00 DEF Heaps
    <3>4. a \in Heaps
      BY <2>00, <3>1, <3>2 DEF Heaps
    <3>5. a.promises[p] = m
      BY <1>1, <2>1, <3>3, SeqExcept
    <3> QED
      BY <3>3, <3>4, <3>5
  <2>4. g = [a EXCEPT !.promises[p] = n]
    BY <1>3, <2>3
  <2> HIDE DEF n, m, s, rd
  <2>5. [a.promises EXCEPT ![p] = n] = [h.promises EXCEPT ![p] = n]
    BY <2>3
  <2>6. [h.promises EXCEPT ![p] = n] \in Seq(PromiseData)
    BY <1>1, <2>1, SeqExcept
  <2>7. /\ g \in Heaps /\ g.promises = [h.promises EXCEPT ![p] = n]
        /\ g.jobs = Append(h.jobs, j) /\ g.comb = h.comb /\ g.pairs = h.pairs
    BY <2>3, <2>4, <2>5, <2>6 DEF Heaps
  <2>8. /\ Len(g.promises) = Len(h.promises)
        /\ \A x \in DOMAIN h.promises \ {p} : g.promises[x] = h.promises[x]
        /\ g.promises[p] = n
    BY <1>1, <2>1, <2>7, SeqExcept
  <2> QED
    <3>1. s = h.promises[p] /\ rd = [on |-> on, to |-> t, id |-> id]
      BY DEF s, rd
    <3>2. /\ told = IF s.state = "rejected" /\ ~s.handled THEN "handled" ELSE s.told
          /\ j = ReactionJob(rd, s.state = "rejected", s.result)
      BY DEF told, j, rej
    <3> QED
      BY ONLY <1>5, <2>2, <2>7, <2>8, <3>1, <3>2 DEF IsThen
<1> QED
  BY <1>4, <1>5 DEF g

\* Two heaps with the same pairs and combinator, and promises that differ in
\* their reactions and in what is known of them only.
SameFaces(h, g) ==
    /\ g.pairs = h.pairs /\ g.comb = h.comb
    /\ DOMAIN g.promises = DOMAIN h.promises /\ Len(g.promises) = Len(h.promises)
    /\ \A x \in DOMAIN h.promises :
          /\ g.promises[x].state = h.promises[x].state
          /\ g.promises[x].result = h.promises[x].result
          /\ g.promises[x].adopts = h.promises[x].adopts

LEMMA FacesOutcome ==
    ASSUME NEW h, NEW g, SameFaces(h, g), NEW p \in DOMAIN h.promises, NEW rej, NEW v
    PROVE  HasOutcome(g, p, rej, v) <=> HasOutcome(h, p, rej, v)
BY DEF HasOutcome, SameFaces

LEMMA FacesKept ==
    ASSUME NEW h \in Heaps, NEW g \in Heaps, NEW ro, SameFaces(h, g),
           Tracked(h), PairsSane(h, ro), Adopted(h), RolesKept(h, ro), Combined(h)
    PROVE  PairsSane(g, ro) /\ Adopted(g) /\ RolesKept(g, ro) /\ Combined(g) /\ Later(h, g)
<1>0. \A r \in DOMAIN h.pairs : h.pairs[r].promise \in DOMAIN h.promises
  BY DEF PairsSane
<1>1. PairsSane(g, ro)
  BY DEF PairsSane, SameFaces, Done, Free, Ordinary
<1>2. Adopted(g)
  <2>1. \A p \in DOMAIN h.promises :
           h.promises[p].adopts # 0 => h.promises[p].adopts \in DOMAIN h.promises
    BY Domains DEF Tracked, Sane
  <2> QED
    BY <2>1 DEF Adopted, SameFaces, Done
<1>3. RolesKept(g, ro)
  <2>1. \A p \in DOMAIN h.promises : \A v : HasOutcome(g, p, FALSE, v) <=> HasOutcome(h, p, FALSE, v)
    BY FacesOutcome
  <2>2. \A d, p \in Nat : <<d, p>> \in ro.fin =>
          /\ d \in DOMAIN g.promises /\ p \in DOMAIN g.promises
          /\ g.promises[d].adopts # 0 => <<g.promises[d].adopts, p>> \in ro.giv
          /\ g.promises[d].state = "fulfilled" => HasOutcome(g, p, FALSE, g.promises[d].result)
    BY <2>1 DEF RolesKept, SameFaces
  <2>3. \A e, p \in Nat : <<e, p>> \in ro.giv =>
          /\ e \in DOMAIN g.promises /\ p \in DOMAIN g.promises
          /\ g.promises[e].adopts = 0
          /\ g.promises[e].state = "fulfilled" => HasOutcome(g, p, FALSE, g.promises[e].result)
    BY <2>1 DEF RolesKept, SameFaces
  <2> QED
    BY <2>2, <2>3 DEF RolesKept
<1>4. Later(h, g)
  BY <1>0, SameComb, Domains DEF Later, SameFaces
<1>5. Combined(g)
  <2>1. g.comb = h.comb /\ g.pairs = h.pairs /\ DOMAIN g.promises = DOMAIN h.promises
    BY Zenon DEF SameFaces
  <2>2. ASSUME h.comb.type # "none"
        PROVE  LET p == h.pairs[h.comb.pair].promise
               IN  /\ g.promises[p].adopts = 0
                   /\ g.pairs[h.comb.pair].used => Done(g, p)
                   /\ Done(g, p) => Done(h, p)
    <3> DEFINE p == h.pairs[h.comb.pair].promise
    <3>1. /\ h.comb.pair \in DOMAIN h.pairs /\ h.promises[p].adopts = 0
          /\ h.pairs[h.comb.pair].used => Done(h, p)
      BY <2>2, Zenon DEF Combined, Combines
    <3>2. p \in DOMAIN h.promises
      BY <1>0, <3>1
    <3>3. g.promises[p].adopts = h.promises[p].adopts /\ g.promises[p].state = h.promises[p].state
      BY <3>2, Zenon DEF SameFaces
    <3> QED
      BY <2>1, <3>1, <3>3, Zenon DEF Done
  <2> QED
    BY <1>0, <1>4, <2>1, <2>2, CombinedLater
<1> QED
  BY <1>1, <1>2, <1>3, <1>4, <1>5

LEMMA AppendFacts ==
    ASSUME NEW S, NEW s \in Seq(S), NEW x \in S
    PROVE  /\ Append(s, x) \in Seq(S) /\ Len(Append(s, x)) = Len(s) + 1
           /\ DOMAIN Append(s, x) = 1 .. Len(s) + 1
           /\ DOMAIN s = 1 .. Len(s) /\ Len(s) \in Nat
           /\ \A i \in DOMAIN s : Append(s, x)[i] = s[i]
           /\ Append(s, x)[Len(s) + 1] = x
OBVIOUS

\* Jobs of g: those of h, and others that are for reactions.
MoreJobs(h, g) ==
    /\ \A i \in DOMAIN h.jobs : i \in DOMAIN g.jobs /\ g.jobs[i] = h.jobs[i]
    /\ \A i \in DOMAIN g.jobs : i \in DOMAIN h.jobs \/ g.jobs[i].is = "reaction"

LEMMA MoreAlone ==
    ASSUME NEW h, NEW g, NEW ro, SameFaces(h, g), MoreJobs(h, g), Alone(h), HasDecider(h)
    PROVE  Alone(g) /\ HasDecider(g)
<1>1. \A i \in DOMAIN g.jobs : g.jobs[i].is = "thenable" => i \in DOMAIN h.jobs /\ g.jobs[i] = h.jobs[i]
  BY DEF MoreJobs
<1>2. Alone(g)
  BY <1>1 DEF Alone, SameFaces
<1>3. \A p \in DOMAIN h.promises : Done(g, p) <=> Done(h, p)
  BY DEF SameFaces, Done
<1>4. \A i \in DOMAIN h.jobs : i \in DOMAIN g.jobs /\ g.jobs[i] = h.jobs[i]
  BY DEF MoreJobs
<1> QED
  BY <1>2, <1>3, <1>4 DEF HasDecider, SameFaces

\* Handlers that fit the promise they are attached to keep the invariant.
LEMMA ThenKept ==
    ASSUME NEW h, NEW ro, Good(h, ro), NEW p \in DOMAIN h.promises,
           NEW on \in AnyFunction \X AnyFunction, NEW t \in Nat, NEW id \in Nat,
           ReactionFits(h, ro, [on |-> on, to |-> t, id |-> id], p)
    PROVE  LET g == PerformThen(h, p, on, t, id)
           IN  Good(g, ro) /\ SameFaces(h, g) /\ Later(h, g) /\ IsThen(h, g, p, on, t, id)
<1> DEFINE s == h.promises[p]
           rd == [on |-> on, to |-> t, id |-> id]
           g == PerformThen(h, p, on, t, id)
           j == ReactionJob(rd, s.state = "rejected", s.result)
<1>0. /\ h \in Heaps /\ ro \in Roles /\ Tracked(h) /\ PairsSane(h, ro) /\ Alone(h) /\ HasDecider(h)
      /\ Adopted(h) /\ RolesKept(h, ro) /\ Combined(h) /\ ReactionsFit(h, ro) /\ JobsFit(h, ro)
  BY DEF Good
<1>1. IsThen(h, g, p, on, t, id)
  BY <1>0, ThenIs
<1> HIDE DEF g
<1>2. /\ g \in Heaps /\ SameFaces(h, g)
      /\ \A x \in DOMAIN h.promises \ {p} : g.promises[x] = h.promises[x]
      /\ g.promises[p].state = s.state /\ g.promises[p].result = s.result
      /\ g.promises[p].adopts = s.adopts /\ g.promises[p].handled
  BY <1>0, <1>1, Domains DEF IsThen, SameFaces
<1>3. /\ s.state = "pending" =>
            /\ g.jobs = h.jobs /\ g.promises[p].told = s.told
            /\ g.promises[p].reactions = Append(s.reactions, rd)
      /\ s.state # "pending" =>
            /\ g.jobs = Append(h.jobs, j)
            /\ g.promises[p].reactions = s.reactions
            /\ g.promises[p].told = IF s.state = "rejected" /\ ~s.handled THEN "handled" ELSE s.told
  BY <1>1 DEF IsThen
<1>4. PairsSane(g, ro) /\ Adopted(g) /\ RolesKept(g, ro) /\ Combined(g) /\ Later(h, g)
  BY <1>0, <1>2, FacesKept
<1>5. /\ s \in PromiseData /\ rd \in Reaction /\ s.result \in AnyValue
      /\ s.reactions \in Seq(Reaction) /\ h.jobs \in Seq(AnyJob)
  BY <1>0, Domains DEF PromiseData, Reaction, Heaps
<1>6. /\ j \in AnyJob /\ j.is = "reaction" /\ j.f = Handler(rd, s.state = "rejected")
      /\ j.rej = (s.state = "rejected") /\ j.arg = s.result /\ j.to = rd.to
  BY <1>5, SettledJobType, Zenon
<1>7. Sane(h, s)
  BY <1>0 DEF Tracked
<1> HIDE DEF j
<1>8. MoreJobs(h, g)
  <2>1. CASE s.state = "pending"
    BY <1>3, <2>1 DEF MoreJobs
  <2>2. CASE s.state # "pending"
    <3>1. g.jobs = Append(h.jobs, j)
      BY <1>3, <2>2
    <3>2. /\ DOMAIN g.jobs = 1 .. Len(h.jobs) + 1 /\ DOMAIN h.jobs = 1 .. Len(h.jobs)
          /\ Len(h.jobs) \in Nat
          /\ \A i \in DOMAIN h.jobs : g.jobs[i] = h.jobs[i]
          /\ g.jobs[Len(h.jobs) + 1] = j
      BY <1>5, <1>6, <3>1, AppendFacts
    <3> QED
      BY <1>6, <3>2 DEF MoreJobs
  <2> QED
    BY <2>1, <2>2
<1>9. Alone(g) /\ HasDecider(g)
  BY <1>0, <1>2, <1>8, MoreAlone
<1>10. Tracked(g)
  <2>1. \A v : Exists(g, v) <=> Exists(h, v)
    BY <1>2 DEF Exists, SameFaces
  <2>2. Sane(g, g.promises[p])
    <3>1. CASE s.state = "pending"
      BY <1>2, <1>3, <1>7, <2>1, <3>1 DEF Sane, SameFaces
    <3>2. CASE s.state # "pending"
      BY <1>2, <1>3, <1>7, <2>1, <3>2 DEF Sane, SameFaces
    <3> QED
      BY <3>1, <3>2
  <2>3. \A x \in DOMAIN h.promises : x # p => Sane(g, g.promises[x])
    BY <1>0, <1>2, <2>1 DEF Sane, SameFaces, Tracked
  <2> QED
    BY <1>2, <2>2, <2>3 DEF Tracked, SameFaces
<1>11. \A x \in DOMAIN h.promises : \A rx \in Reaction :
          ReactionFits(h, ro, rx, x) => ReactionFits(g, ro, rx, x)
  BY <1>0, <1>2, <1>4, SameRoles, ReactionFitsLater
<1>12. ReactionsFit(g, ro)
  <2> SUFFICES ASSUME NEW x \in DOMAIN h.promises, NEW k \in DOMAIN g.promises[x].reactions
               PROVE  ReactionFits(g, ro, g.promises[x].reactions[k], x)
    BY <1>2 DEF ReactionsFit, SameFaces
  <2>1. ASSUME k \in DOMAIN h.promises[x].reactions,
               g.promises[x].reactions[k] = h.promises[x].reactions[k]
        PROVE  ReactionFits(g, ro, g.promises[x].reactions[k], x)
    <3>1. ReactionFits(h, ro, h.promises[x].reactions[k], x)
      BY <1>0, <2>1 DEF ReactionsFit
    <3>2. h.promises[x].reactions[k] \in Reaction
      BY <1>0, <2>1, Domains
    <3> QED
      BY <1>11, <2>1, <3>1, <3>2
  <2>2. CASE x # p
    BY <1>2, <2>1, <2>2
  <2>3. CASE x = p /\ s.state # "pending"
    BY <1>3, <2>1, <2>3
  <2>4. CASE x = p /\ s.state = "pending"
    <3>1. g.promises[x].reactions = Append(s.reactions, rd)
      BY <1>3, <2>4
    <3>2. /\ DOMAIN g.promises[x].reactions = 1 .. Len(s.reactions) + 1
          /\ DOMAIN s.reactions = 1 .. Len(s.reactions) /\ Len(s.reactions) \in Nat
          /\ \A i \in DOMAIN s.reactions : g.promises[x].reactions[i] = s.reactions[i]
          /\ g.promises[x].reactions[Len(s.reactions) + 1] = rd
      BY <1>5, <3>1, AppendFacts
    <3>3. CASE k \in DOMAIN s.reactions
      BY <2>1, <2>4, <3>2, <3>3
    <3>4. CASE k \notin DOMAIN s.reactions
      <4>1. g.promises[x].reactions[k] = rd
        <5>1. k \in 1 .. Len(s.reactions) + 1 /\ k \notin 1 .. Len(s.reactions)
          BY <3>2, <3>4
        <5>2. k = Len(s.reactions) + 1
          <6> DEFINE m == Len(s.reactions)
          <6>1. m \in Nat /\ k \in 1 .. m + 1 /\ k \notin 1 .. m
            BY ONLY <3>2, <5>1
          <6> HIDE DEF m
          <6>2. k = m + 1
            BY ONLY <6>1
          <6> QED
            BY <6>2 DEF m
        <5> QED
          BY <3>2, <5>2
      <4> QED
        BY <1>5, <1>11, <2>4, <4>1
    <3> QED
      BY <3>3, <3>4
  <2> QED
    BY <2>2, <2>3, <2>4
<1>13. \A i \in DOMAIN h.jobs :
          \/ h.jobs[i].is = "reaction" /\ JobFits(g, ro, h.jobs[i])
          \/ h.jobs[i].is = "thenable" /\ ThenableSane(g, ro, h.jobs[i])
  <2> TAKE i \in DOMAIN h.jobs
  <2>1. h.jobs[i] \in AnyJob
    BY <1>0, Domains
  <2>2. CASE h.jobs[i].is = "reaction" /\ JobFits(h, ro, h.jobs[i])
    BY <1>0, <1>2, <1>4, <2>1, <2>2, SameRoles, JobFitsLater
  <2>3. CASE h.jobs[i].is = "thenable" /\ ThenableSane(h, ro, h.jobs[i])
    BY <1>2, <2>3 DEF ThenableSane, SameFaces, Done, Exists, Ordinary
  <2> QED
    BY <1>0, <2>2, <2>3 DEF JobsFit
<1>14. JobsFit(g, ro)
  <2>1. CASE s.state = "pending"
    BY <1>3, <1>13, <2>1 DEF JobsFit
  <2>2. CASE s.state # "pending"
    <3>1. g.jobs = Append(h.jobs, j)
      BY <1>3, <2>2
    <3>2. /\ DOMAIN g.jobs = 1 .. Len(h.jobs) + 1 /\ DOMAIN h.jobs = 1 .. Len(h.jobs)
          /\ Len(h.jobs) \in Nat
          /\ \A i \in DOMAIN h.jobs : g.jobs[i] = h.jobs[i]
          /\ g.jobs[Len(h.jobs) + 1] = j
      BY <1>5, <1>6, <3>1, AppendFacts
    <3>3. JobFits(g, ro, j)
      <4>1. HasOutcome(g, p, j.rej, j.arg)
        <5>1. s.state = State(j.rej)
          BY <1>5, <1>6, <2>2 DEF State, PromiseData
        <5> QED
          BY <1>2, <1>6, <5>1 DEF HasOutcome
      <4>2. Fits(g, ro, j.f, j.rej, j.to, p)
        <5>1. ReactionFits(g, ro, rd, p)
          BY <1>5, <1>11
        <5>2. j.rej \in BOOLEAN /\ j.f = Handler(rd, j.rej)
          BY <1>6
        <5> QED
          BY <1>6, <5>1, <5>2 DEF ReactionFits
      <4> QED
        BY <1>2, <4>1, <4>2 DEF JobFits, SameFaces
    <3>4. ASSUME NEW i \in DOMAIN g.jobs
          PROVE  \/ g.jobs[i].is = "reaction" /\ JobFits(g, ro, g.jobs[i])
                 \/ g.jobs[i].is = "thenable" /\ ThenableSane(g, ro, g.jobs[i])
      <4> HIDE DEF j
      <4>1. CASE i \in DOMAIN h.jobs
        BY <1>13, <3>2, <4>1
      <4>2. CASE i \notin DOMAIN h.jobs
        <5>1. i = Len(h.jobs) + 1
          BY ONLY <3>2, <4>2, i \in DOMAIN g.jobs
        <5> QED
          BY <1>6, <3>2, <3>3, <5>1
      <4> QED
        BY <4>1, <4>2
    <3> QED
      BY <3>4 DEF JobsFit
  <2> QED
    BY <2>1, <2>2
<1>15. Good(g, ro)
  BY <1>0, <1>2, <1>4, <1>9, <1>10, <1>12, <1>14 DEF Good
<1> QED
  BY <1>1, <1>2, <1>4, <1>15 DEF g

-----------------------------------------------------------------------------
(* New promises and pairs.                                                 *)

LEMMA NewIs ==
    ASSUME NEW h \in Heaps, NEW known \in BOOLEAN, NEW k \in BOOLEAN
    PROVE  IsNew(h, NewPair([h EXCEPT !.promises = Append(@, Pending(known))],
                            Len(h.promises) + 1, k), known, k)
<1> DEFINE a == [h EXCEPT !.promises = Append(@, Pending(known))]
           d == Len(h.promises) + 1
           P == [promise |-> d, used |-> FALSE, known |-> k]
           n == NewPair(a, d, k)
<1>1. h.promises \in Seq(PromiseData) /\ h.pairs \in Seq(Pair) /\ d \in Nat
  BY Domains DEF Heaps
<1>2. Pending(known) \in PromiseData /\ P \in Pair
  <2>1. <<>> \in Seq(Reaction)
    OBVIOUS
  <2> QED
    BY <1>1, <2>1, JobTypes DEF Pending, PromiseData, Pair
<1>3. Append(h.promises, Pending(known)) \in Seq(PromiseData)
  BY <1>1, <1>2
<1>4. /\ a \in Heaps /\ a.pairs = h.pairs /\ a.comb = h.comb /\ a.jobs = h.jobs
      /\ a.promises = Append(h.promises, Pending(known))
  BY <1>3 DEF Heaps
<1>5. n = [a EXCEPT !.pairs = Append(@, P)]
  BY DEF NewPair
<1> HIDE DEF a, n, P, d
<1>6. Append(h.pairs, P) \in Seq(Pair)
  BY <1>1, <1>2
<1>7. /\ n \in Heaps /\ n.pairs = Append(h.pairs, P) /\ n.comb = h.comb /\ n.jobs = h.jobs
      /\ n.promises = Append(h.promises, Pending(known))
  BY <1>4, <1>5, <1>6 DEF Heaps
<1>8. IsNew(h, n, known, k)
  BY <1>7 DEF IsNew, P, d
<1> QED
  BY <1>8 DEF n, a, d

\* What a new promise means for the rest, known to the script with its pair or
\* given a role.
NewContext(h, ro, g, rn, known, k) ==
    /\ Good(h, ro) /\ rn \in Roles
    /\ IsNew(h, g, known, k)
    /\ DOMAIN g.promises = 1 .. Len(h.promises) + 1 /\ Len(g.promises) = Len(h.promises) + 1
    /\ DOMAIN g.pairs = 1 .. Len(h.pairs) + 1 /\ Len(g.pairs) = Len(h.pairs) + 1
    /\ \A x \in DOMAIN h.promises : x \in DOMAIN g.promises /\ g.promises[x] = h.promises[x]
    /\ \A r \in DOMAIN h.pairs : r \in DOMAIN g.pairs /\ g.pairs[r] = h.pairs[r]
    /\ g.promises[Len(h.promises) + 1] = Pending(known)
    /\ g.pairs[Len(h.pairs) + 1] = [promise |-> Len(h.promises) + 1, used |-> FALSE, known |-> k]
    /\ DOMAIN h.promises = 1 .. Len(h.promises) /\ Len(h.promises) \in Nat
    /\ DOMAIN h.pairs = 1 .. Len(h.pairs) /\ Len(h.pairs) \in Nat
    /\ RolesGrow(h, ro, rn)
    /\ k => rn = ro
    /\ \A d, p \in Nat : /\ <<d, p>> \in rn.fin /\ <<d, p>> \notin ro.fin
                            => d = Len(h.promises) + 1 /\ p \in DOMAIN h.promises
                         /\ <<d, p>> \in rn.giv /\ <<d, p>> \notin ro.giv
                            => d = Len(h.promises) + 1 /\ p \in DOMAIN h.promises
                         /\ <<d, p>> \in ro.fin => <<d, p>> \in rn.fin
                         /\ <<d, p>> \in ro.giv => <<d, p>> \in rn.giv

LEMMA NewLater ==
    ASSUME NEW h, NEW ro, NEW g, NEW rn, NEW known, NEW k, NewContext(h, ro, g, rn, known, k)
    PROVE  Later(h, g)
<1>1. \A r \in DOMAIN h.pairs : h.pairs[r].promise \in DOMAIN h.promises
  BY DEF NewContext, Good, PairsSane
<1>2. g.comb = h.comb
  BY DEF NewContext, IsNew
<1>3. /\ Len(h.promises) <= Len(g.promises) /\ Len(h.pairs) <= Len(g.pairs)
      /\ \A x \in DOMAIN h.promises : g.promises[x] = h.promises[x]
      /\ \A r \in DOMAIN h.pairs : g.pairs[r] = h.pairs[r]
  BY DEF NewContext
<1> QED
  BY ONLY <1>1, <1>2, <1>3, SameComb DEF Later

LEMMA NewExists ==
    ASSUME NEW h, NEW ro, NEW g, NEW rn, NEW known, NEW k, NewContext(h, ro, g, rn, known, k)
    PROVE  /\ Tracked(g)
           /\ PairsSane(g, rn)
           /\ Alone(g) /\ HasDecider(g)
<1> DEFINE d == Len(h.promises) + 1
           r == Len(h.pairs) + 1
<1>1. /\ Tracked(h) /\ PairsSane(h, ro) /\ Alone(h) /\ HasDecider(h) /\ RolesKept(h, ro)
      /\ JobsFit(h, ro) /\ Combined(h) /\ g.comb = h.comb /\ g.jobs = h.jobs
  BY DEF NewContext, Good, IsNew
<1>2. /\ g.promises[d].state = "pending" /\ g.promises[d].result = Undefined
      /\ g.promises[d].adopts = 0 /\ g.promises[d].told = "nothing"
  BY DEF NewContext, Pending
<1>3. g.pairs[r].promise = d /\ ~g.pairs[r].used /\ g.pairs[r].known = k
  <2>1. g.pairs[r] = [promise |-> d, used |-> FALSE, known |-> k]
    BY DEF NewContext
  <2> QED
    BY ONLY <2>1
<1>4. Tracked(g)
  <2>1. \A v : Exists(h, v) => Exists(g, v)
    BY DEF Exists, NewContext
  <2>2. \A x \in DOMAIN h.promises : Sane(g, g.promises[x])
    <3> SUFFICES ASSUME NEW x \in DOMAIN h.promises PROVE Sane(g, g.promises[x])
      OBVIOUS
    <3>1. g.promises[x] = h.promises[x] /\ Sane(h, h.promises[x])
      BY <1>1 DEF Tracked, NewContext
    <3>2. Len(g.promises) = Len(h.promises) + 1 /\ Len(h.promises) \in Nat
      BY DEF NewContext
    <3> DEFINE s == h.promises[x]
    <3> HIDE DEF s
    <3>3. Sane(h, s) => Sane(g, s)
      BY <2>1, <3>2 DEF Sane
    <3> QED
      BY <3>1, <3>3 DEF s
  <2>3. Sane(g, g.promises[d])
    <3>1. Exists(g, Undefined)
      BY JobTypes DEF Exists, Undefined, PlainValue
    <3>2. 0 \in 0 .. Len(g.promises)
      BY DEF NewContext
    <3> QED
      BY <1>2, <3>1, <3>2 DEF Sane
  <2>4. \A x \in DOMAIN g.promises : x \in DOMAIN h.promises \/ x = d
    BY DEF NewContext
  <2> QED
    BY <2>2, <2>3, <2>4 DEF Tracked
<1>5. \A x \in DOMAIN g.pairs : x \in DOMAIN h.pairs \/ x = r
  BY DEF NewContext
<1>6. /\ \A x \in DOMAIN h.pairs : x \in DOMAIN g.pairs /\ g.pairs[x] = h.pairs[x]
      /\ r \in DOMAIN g.pairs /\ r \notin DOMAIN h.pairs
      /\ \A x \in DOMAIN h.promises : x \in DOMAIN g.promises /\ g.promises[x] = h.promises[x]
      /\ d \in DOMAIN g.promises /\ d \notin DOMAIN h.promises /\ d \in Nat
      /\ \A x \in DOMAIN g.promises : x \in DOMAIN h.promises \/ x = d
  BY DEF NewContext
<1>7. \A x \in DOMAIN h.promises, p \in Nat : /\ <<x, p>> \in rn.fin <=> <<x, p>> \in ro.fin
                                              /\ <<x, p>> \in rn.giv <=> <<x, p>> \in ro.giv
  BY DEF NewContext, RolesGrow
<1>8. /\ r # h.comb.pair
      /\ k => \A p \in Nat : <<d, p>> \notin rn.fin /\ <<d, p>> \notin rn.giv
  <2>1. k => rn = ro
    BY DEF NewContext
  <2>2. \A p \in Nat : <<d, p>> \notin ro.fin /\ <<d, p>> \notin ro.giv
    BY <1>1, <1>6 DEF RolesKept
  <2>3. r # h.comb.pair
    <3>1. h.comb.pair = 0 \/ h.comb.pair \in DOMAIN h.pairs
      <4>1. CASE h.comb.type = "none"
        <5>1. h.comb = NoCombinator
          BY <1>1, <4>1 DEF Combined
        <5> QED
          BY ONLY <5>1 DEF NoCombinator
      <4>2. CASE h.comb.type # "none"
        BY <1>1, <4>2 DEF Combined, Combines
      <4> QED
        BY <4>1, <4>2
    <3>2. r # 0
      BY DEF NewContext
    <3> QED
      BY <1>6, <3>1, <3>2
  <2> QED
    BY <2>1, <2>2, <2>3
<1> HIDE DEF d, r
<1>9. PairsSane(g, rn)
  <2>1. ASSUME NEW x \in DOMAIN h.pairs
        PROVE  /\ g.pairs[x].promise \in DOMAIN g.promises
               /\ ~g.pairs[x].used => ~Done(g, g.pairs[x].promise)
               /\ g.pairs[x].known => Free(g, rn, x)
               /\ x = g.comb.pair => \A p \in Nat : /\ <<g.pairs[x].promise, p>> \notin rn.fin
                                                    /\ <<g.pairs[x].promise, p>> \notin rn.giv
    <3>1. g.pairs[x] = h.pairs[x] /\ x \in DOMAIN g.pairs /\ g.comb = h.comb
      BY <1>1, <1>6
    <3>2. /\ h.pairs[x].promise \in DOMAIN h.promises
          /\ ~h.pairs[x].used => ~Done(h, h.pairs[x].promise)
          /\ h.pairs[x].known => Free(h, ro, x)
          /\ x = h.comb.pair => \A p \in Nat : /\ <<h.pairs[x].promise, p>> \notin ro.fin
                                               /\ <<h.pairs[x].promise, p>> \notin ro.giv
      BY <1>1 DEF PairsSane
    <3>3. /\ h.pairs[x].promise \in DOMAIN g.promises
          /\ g.promises[h.pairs[x].promise] = h.promises[h.pairs[x].promise]
      BY <1>6, <3>2
    <3>4. Free(h, ro, x) => Free(g, rn, x)
      BY <1>7, <3>1, <3>2, <3>3 DEF Free, Ordinary
    <3> QED
      BY <1>7, <3>1, <3>2, <3>3, <3>4 DEF Done
  <2>2. /\ g.pairs[r].promise \in DOMAIN g.promises
        /\ ~g.pairs[r].used => ~Done(g, g.pairs[r].promise)
        /\ g.pairs[r].known => Free(g, rn, r)
        /\ r # g.comb.pair
    BY <1>1, <1>2, <1>3, <1>6, <1>8 DEF Done, Free, Ordinary
  <2> QED
    BY <1>5, <2>1, <2>2 DEF PairsSane
<1>10. Alone(g)
  <2>1. \A x \in DOMAIN h.pairs : h.pairs[x].promise # d
    BY <1>1, <1>6 DEF PairsSane
  <2>2. \A i \in DOMAIN h.jobs : h.jobs[i].is = "thenable" => h.jobs[i].to # d
    BY <1>1, <1>6 DEF JobsFit, ThenableSane
  <2> QED
    BY <1>1, <1>3, <1>5, <1>6, <2>1, <2>2 DEF Alone
<1>11. HasDecider(g)
  BY <1>1, <1>3, <1>6 DEF HasDecider, Done
<1> QED
  BY <1>4, <1>9, <1>10, <1>11

LEMMA NewOutcomes ==
    ASSUME NEW h, NEW ro, NEW g, NEW rn, NEW known, NEW k, NewContext(h, ro, g, rn, known, k)
    PROVE  Adopted(g) /\ RolesKept(g, rn)
<1> DEFINE d == Len(h.promises) + 1
<1>1. /\ Tracked(h) /\ Adopted(h) /\ RolesKept(h, ro)
      /\ \A x \in DOMAIN h.promises : x \in DOMAIN g.promises /\ g.promises[x] = h.promises[x]
      /\ d \in DOMAIN g.promises /\ d \notin DOMAIN h.promises
      /\ \A x \in DOMAIN g.promises : x \in DOMAIN h.promises \/ x = d
      /\ h \in Heaps
  BY DEF NewContext, Good
<1>2. g.promises[d].state = "pending" /\ g.promises[d].adopts = 0
  BY DEF NewContext, Pending
<1>3. \A a, p \in Nat :
        /\ <<a, p>> \in rn.fin => <<a, p>> \in ro.fin \/ (a = d /\ p \in DOMAIN h.promises)
        /\ <<a, p>> \in rn.giv => <<a, p>> \in ro.giv \/ (a = d /\ p \in DOMAIN h.promises)
        /\ <<a, p>> \in ro.giv => <<a, p>> \in rn.giv
  BY DEF NewContext
<1> HIDE DEF d
<1>4. Adopted(g)
  <2>1. \A p \in DOMAIN h.promises :
           h.promises[p].adopts # 0 => h.promises[p].adopts \in DOMAIN h.promises
    BY <1>1, Domains DEF Tracked, Sane
  <2> QED
    BY <1>1, <1>2, <2>1 DEF Adopted, Done
<1>5. ASSUME NEW a \in Nat, NEW p \in Nat, <<a, p>> \in rn.fin
      PROVE  /\ a \in DOMAIN g.promises /\ p \in DOMAIN g.promises
             /\ g.promises[a].adopts # 0 => <<g.promises[a].adopts, p>> \in rn.giv
             /\ g.promises[a].state = "fulfilled" => HasOutcome(g, p, FALSE, g.promises[a].result)
  <2>1. CASE <<a, p>> \in ro.fin
    <3>1. /\ a \in DOMAIN h.promises /\ p \in DOMAIN h.promises
          /\ h.promises[a].adopts # 0 => <<h.promises[a].adopts, p>> \in ro.giv
          /\ h.promises[a].state = "fulfilled" => HasOutcome(h, p, FALSE, h.promises[a].result)
      BY <1>1, <2>1 DEF RolesKept
    <3>2. h.promises[a].adopts \in Nat
      BY <1>1, <3>1, Domains DEF PromiseData
    <3> QED
      BY <1>1, <1>3, <3>1, <3>2 DEF HasOutcome
  <2>2. CASE a = d /\ p \in DOMAIN h.promises
    BY <1>1, <1>2, <2>2
  <2> QED
    BY <1>3, <1>5, <2>1, <2>2
<1>6. ASSUME NEW a \in Nat, NEW p \in Nat, <<a, p>> \in rn.giv
      PROVE  /\ a \in DOMAIN g.promises /\ p \in DOMAIN g.promises
             /\ g.promises[a].adopts = 0
             /\ g.promises[a].state = "fulfilled" => HasOutcome(g, p, FALSE, g.promises[a].result)
  <2>1. CASE <<a, p>> \in ro.giv
    <3>1. /\ a \in DOMAIN h.promises /\ p \in DOMAIN h.promises
          /\ h.promises[a].adopts = 0
          /\ h.promises[a].state = "fulfilled" => HasOutcome(h, p, FALSE, h.promises[a].result)
      BY <1>1, <2>1 DEF RolesKept
    <3> QED
      BY <1>1, <3>1 DEF HasOutcome
  <2>2. CASE a = d /\ p \in DOMAIN h.promises
    BY <1>1, <1>2, <2>2
  <2> QED
    BY <1>3, <1>6, <2>1, <2>2
<1> QED
  BY <1>4, <1>5, <1>6 DEF RolesKept

LEMMA NewCombined ==
    ASSUME NEW h, NEW ro, NEW g, NEW rn, NEW known, NEW k, NewContext(h, ro, g, rn, known, k)
    PROVE  Combined(g)
<1>0. Later(h, g)
  BY NewLater
<1>1. /\ Combined(h) /\ PairsSane(h, ro) /\ g.comb = h.comb /\ h \in Heaps /\ g \in Heaps
      /\ \A x \in DOMAIN h.promises : x \in DOMAIN g.promises /\ g.promises[x] = h.promises[x]
      /\ \A x \in DOMAIN h.pairs : x \in DOMAIN g.pairs /\ g.pairs[x] = h.pairs[x]
  BY DEF NewContext, Good, IsNew
<1>2. \A x \in DOMAIN h.pairs : h.pairs[x].promise \in DOMAIN h.promises
  BY <1>1 DEF PairsSane
<1>3. ASSUME h.comb.type # "none"
      PROVE  LET p == h.pairs[h.comb.pair].promise
             IN  /\ g.promises[p].adopts = 0
                 /\ g.pairs[h.comb.pair].used => Done(g, p)
                 /\ Done(g, p) => Done(h, p)
  <2> DEFINE p == h.pairs[h.comb.pair].promise
  <2>1. /\ h.comb.pair \in DOMAIN h.pairs /\ h.promises[p].adopts = 0
        /\ h.pairs[h.comb.pair].used => Done(h, p)
    BY <1>1, <1>3, Zenon DEF Combined, Combines
  <2>2. g.promises[p] = h.promises[p] /\ g.pairs[h.comb.pair] = h.pairs[h.comb.pair]
    BY <1>1, <1>2, <2>1
  <2> HIDE DEF p
  <2>3. /\ g.promises[p].adopts = 0
        /\ g.pairs[h.comb.pair].used => Done(g, p)
        /\ Done(g, p) => Done(h, p)
    BY <2>1, <2>2 DEF Done
  <2> QED
    BY <2>3 DEF p
<1> QED
  BY <1>0, <1>1, <1>2, <1>3, CombinedLater

LEMMA NewFits ==
    ASSUME NEW h, NEW ro, NEW g, NEW rn, NEW known, NEW k, NewContext(h, ro, g, rn, known, k)
    PROVE  ReactionsFit(g, rn) /\ JobsFit(g, rn)
<1> DEFINE d == Len(h.promises) + 1
<1>0. Later(h, g)
  BY NewLater
<1>1. /\ h \in Heaps /\ g \in Heaps /\ RolesGrow(h, ro, rn)
      /\ PairsSane(h, ro) /\ RolesKept(h, ro) /\ ReactionsFit(h, ro) /\ JobsFit(h, ro)
      /\ g.jobs = h.jobs
      /\ \A x \in DOMAIN h.promises : x \in DOMAIN g.promises /\ g.promises[x] = h.promises[x]
      /\ \A x \in DOMAIN g.promises : x \in DOMAIN h.promises \/ x = d
  BY DEF NewContext, Good, IsNew
<1>2. g.promises[d].reactions = <<>>
  BY DEF NewContext, Pending
<1> HIDE DEF d
<1>3. ReactionsFit(g, rn)
  <2> SUFFICES ASSUME NEW x \in DOMAIN g.promises, NEW i \in DOMAIN g.promises[x].reactions
               PROVE  ReactionFits(g, rn, g.promises[x].reactions[i], x)
    BY DEF ReactionsFit
  <2>1. x \in DOMAIN h.promises /\ g.promises[x] = h.promises[x]
    BY <1>1, <1>2
  <2>2. ReactionFits(h, ro, h.promises[x].reactions[i], x) /\ h.promises[x].reactions[i] \in Reaction
    BY <1>1, <2>1, Domains DEF ReactionsFit
  <2>3. ReactionFits(g, rn, h.promises[x].reactions[i], x)
    BY <1>0, <1>1, <2>1, <2>2, ReactionFitsLater
  <2> QED
    BY <2>1, <2>3
<1>4. JobsFit(g, rn)
  <2> SUFFICES ASSUME NEW i \in DOMAIN h.jobs
               PROVE  \/ h.jobs[i].is = "reaction" /\ JobFits(g, rn, h.jobs[i])
                      \/ h.jobs[i].is = "thenable" /\ ThenableSane(g, rn, h.jobs[i])
    BY <1>1 DEF JobsFit
  <2>0. h.jobs[i] \in AnyJob
    BY <1>1, Domains
  <2>1. CASE h.jobs[i].is = "reaction" /\ JobFits(h, ro, h.jobs[i])
    BY <1>0, <1>1, <2>0, <2>1, JobFitsLater
  <2>2. CASE h.jobs[i].is = "thenable" /\ ThenableSane(h, ro, h.jobs[i])
    <3>1. Exists(g, h.jobs[i].arg)
      BY <1>0, <1>1, <2>2, ExistsLater DEF ThenableSane
    <3> QED
      BY <1>1, <2>2, <3>1 DEF ThenableSane, Done, Ordinary, RolesGrow
  <2> QED
    BY <1>1, <2>1, <2>2 DEF JobsFit
<1> QED
  BY <1>3, <1>4

\* A new promise keeps the invariant, with a role or a known pair.
LEMMA NewKept ==
    ASSUME NEW h, NEW ro, Good(h, ro), NEW known \in BOOLEAN, NEW k \in BOOLEAN, NEW rn \in Roles,
           RolesGrow(h, ro, rn), k => rn = ro,
           \A d, p \in Nat : /\ <<d, p>> \in rn.fin /\ <<d, p>> \notin ro.fin
                               => d = Len(h.promises) + 1 /\ p \in DOMAIN h.promises
                             /\ <<d, p>> \in rn.giv /\ <<d, p>> \notin ro.giv
                               => d = Len(h.promises) + 1 /\ p \in DOMAIN h.promises
                             /\ <<d, p>> \in ro.fin => <<d, p>> \in rn.fin
                             /\ <<d, p>> \in ro.giv => <<d, p>> \in rn.giv
    PROVE  LET g == NewPair([h EXCEPT !.promises = Append(@, Pending(known))],
                            Len(h.promises) + 1, k)
           IN  /\ Good(g, rn) /\ Later(h, g) /\ IsNew(h, g, known, k)
               /\ NewContext(h, ro, g, rn, known, k)
<1> DEFINE g == NewPair([h EXCEPT !.promises = Append(@, Pending(known))], Len(h.promises) + 1, k)
           P == [promise |-> Len(h.promises) + 1, used |-> FALSE, known |-> k]
<1>0. h \in Heaps
  BY DEF Good
<1>1. IsNew(h, g, known, k)
  BY <1>0, NewIs
<1> HIDE DEF g
<1>2. /\ g.promises = Append(h.promises, Pending(known)) /\ g.pairs = Append(h.pairs, P)
      /\ g \in Heaps /\ Pending(known) \in PromiseData /\ P \in Pair
  <2>1. <<>> \in Seq(Reaction)
    OBVIOUS
  <2> QED
    BY <1>0, <1>1, <2>1, Domains, JobTypes DEF IsNew, Pending, PromiseData, Pair
<1>3. h.promises \in Seq(PromiseData) /\ h.pairs \in Seq(Pair)
  BY <1>0 DEF Heaps
<1> HIDE DEF P
<1>4. /\ DOMAIN g.promises = 1 .. Len(h.promises) + 1 /\ Len(g.promises) = Len(h.promises) + 1
      /\ DOMAIN h.promises = 1 .. Len(h.promises) /\ Len(h.promises) \in Nat
      /\ \A x \in DOMAIN h.promises : g.promises[x] = h.promises[x]
      /\ g.promises[Len(h.promises) + 1] = Pending(known)
  BY <1>2, <1>3, AppendFacts
<1>5. /\ DOMAIN g.pairs = 1 .. Len(h.pairs) + 1 /\ Len(g.pairs) = Len(h.pairs) + 1
      /\ DOMAIN h.pairs = 1 .. Len(h.pairs) /\ Len(h.pairs) \in Nat
      /\ \A x \in DOMAIN h.pairs : g.pairs[x] = h.pairs[x]
      /\ g.pairs[Len(h.pairs) + 1] = P
  BY <1>2, <1>3, AppendFacts
<1>6. /\ \A x \in DOMAIN h.promises : x \in DOMAIN g.promises
      /\ \A x \in DOMAIN h.pairs : x \in DOMAIN g.pairs
  BY <1>4, <1>5
<1>7. NewContext(h, ro, g, rn, known, k)
  BY <1>1, <1>4, <1>5, <1>6 DEF NewContext, P
<1>8. Good(g, rn)
  BY <1>2, <1>7, NewExists, NewOutcomes, NewCombined, NewFits DEF Good
<1> QED
  BY <1>1, <1>7, <1>8, NewLater DEF g

-----------------------------------------------------------------------------
(* A pair resolves its promise with a promise or a thenable.               *)

MayAdopt(h, ro, r, v) ==
    LET d == h.pairs[r].promise
    IN  /\ Exists(h, v)
        /\ h.promises[d].adopts = 0
        /\ r # h.comb.pair
        /\ \A p \in Nat : <<d, p>> \notin ro.giv
        /\ \/ /\ v.is = "promise" /\ v.id # d
              /\ \A p \in Nat : <<d, p>> \in ro.fin => <<v.id, p>> \in ro.giv
           \/ /\ v = Thenable
              /\ \A p \in Nat : <<d, p>> \notin ro.fin

AdoptJob(h, r, v) == Job("thenable", NoFunction, FALSE, v, h.pairs[r].promise, 0)

LEMMA AdoptIs ==
    ASSUME NEW h \in Heaps, NEW r \in DOMAIN h.pairs, h.pairs[r].promise \in DOMAIN h.promises,
           NEW v \in AnyValue
    PROVE  /\ IsAdopt(h, [Use(h, r) EXCEPT !.jobs = Append(@, AdoptJob(h, r, v)),
                                           !.promises[h.pairs[r].promise].adopts = v.id], r, v)
           /\ AdoptJob(h, r, v) \in AnyJob
<1> DEFINE p == h.pairs[r].promise
           s == h.promises[p]
           u == Use(h, r)
           j == AdoptJob(h, r, v)
           n == [s EXCEPT !.adopts = v.id]
           g == [u EXCEPT !.jobs = Append(@, j), !.promises[p].adopts = v.id]
<1>1. /\ s \in PromiseData /\ h.pairs[r] \in Pair
      /\ h.promises \in Seq(PromiseData) /\ h.pairs \in Seq(Pair) /\ h.jobs \in Seq(AnyJob)
      /\ p \in Nat
  BY Domains DEF Heaps
<1>2. /\ u.promises = h.promises /\ u.jobs = h.jobs /\ u.comb = h.comb
      /\ u.pairs = [h.pairs EXCEPT ![r].used = TRUE]
  BY DEF Use, Heaps
<1>3. u \in Heaps
  <2>1. /\ u.pairs = [h.pairs EXCEPT ![r] = [h.pairs[r] EXCEPT !.used = TRUE]]
        /\ [h.pairs[r] EXCEPT !.used = TRUE] \in Pair
    BY <1>1, <1>2 DEF Pair
  <2>2. u.pairs \in Seq(Pair)
    BY <1>1, <2>1, SeqExcept
  <2> QED
    BY <1>1, <1>2, <2>2 DEF Heaps, Use
<1>4. j \in AnyJob
  BY <1>1, JobTypes DEF AdoptJob, Job, AnyJob
<1>5. n \in PromiseData
  BY <1>1 DEF PromiseData, AnyValue
<1>6. g = [u EXCEPT !.jobs = Append(@, j), !.promises[p] = n]
  BY <1>2
<1> HIDE DEF u, j, n, g
<1>7. /\ [h.promises EXCEPT ![p] = n] \in Seq(PromiseData)
      /\ Append(h.jobs, j) \in Seq(AnyJob)
  <2>1. p \in DOMAIN h.promises
    OBVIOUS
  <2> HIDE DEF p
  <2> QED
    BY ONLY <1>1, <1>4, <1>5, <2>1, SeqExcept, AppendFacts
<1>8. /\ g \in Heaps /\ g.comb = h.comb /\ g.pairs = u.pairs
      /\ g.promises = [h.promises EXCEPT ![p] = n]
      /\ g.jobs = Append(h.jobs, j)
  BY <1>2, <1>3, <1>6, <1>7 DEF Heaps
<1>9. IsAdopt(h, g, r, v)
  BY <1>2, <1>8 DEF IsAdopt, n, j, AdoptJob
<1> QED
  BY <1>4, <1>9 DEF g, u, j

AdoptContext(h, ro, r, g, v) ==
    LET d == h.pairs[r].promise
    IN  /\ Good(h, ro)
        /\ r \in DOMAIN h.pairs /\ ~h.pairs[r].used
        /\ MayAdopt(h, ro, r, v)
        /\ d \in DOMAIN h.promises /\ ~Done(h, d)
        /\ g \in Heaps /\ g.comb = h.comb
        /\ DOMAIN g.promises = DOMAIN h.promises /\ Len(g.promises) = Len(h.promises)
        /\ DOMAIN g.pairs = DOMAIN h.pairs /\ Len(g.pairs) = Len(h.pairs)
        /\ \A x \in DOMAIN h.promises : x # d => g.promises[x] = h.promises[x]
        /\ g.promises[d] = [h.promises[d] EXCEPT !.adopts = v.id]
        /\ \A x \in DOMAIN h.pairs : x # r => g.pairs[x] = h.pairs[x]
        /\ g.pairs[r] = [h.pairs[r] EXCEPT !.used = TRUE]
        /\ DOMAIN h.jobs = 1 .. Len(h.jobs) /\ Len(h.jobs) \in Nat
        /\ DOMAIN g.jobs = 1 .. Len(h.jobs) + 1
        /\ \A i \in DOMAIN h.jobs : g.jobs[i] = h.jobs[i]
        /\ g.jobs[Len(h.jobs) + 1] = AdoptJob(h, r, v)

\* What the context says of the promise and of pairs and jobs that are left.
LEMMA AdoptFacts ==
    ASSUME NEW h, NEW ro, NEW r, NEW g, NEW v, AdoptContext(h, ro, r, g, v)
    PROVE  LET d == h.pairs[r].promise IN
           /\ g.promises[d].adopts = v.id
           /\ g.promises[d].state = "pending" /\ g.promises[d].result = h.promises[d].result
           /\ g.promises[d].reactions = h.promises[d].reactions
           /\ g.promises[d].handled = h.promises[d].handled
           /\ g.promises[d].told = h.promises[d].told
           /\ g.pairs[r].used /\ g.pairs[r].promise = d /\ g.pairs[r].known = h.pairs[r].known
           /\ \A x \in DOMAIN h.pairs : ~g.pairs[x].used =>
                 /\ x # r /\ g.pairs[x] = h.pairs[x]
                 /\ h.pairs[x].promise \in DOMAIN h.promises \ {d}
           /\ \A i \in DOMAIN h.jobs : h.jobs[i].is = "thenable" => h.jobs[i].to # d
           /\ \A i \in DOMAIN g.jobs : i \in DOMAIN h.jobs \/ i = Len(h.jobs) + 1
           /\ Later(h, g)
           /\ AdoptJob(h, r, v).is = "thenable" /\ AdoptJob(h, r, v).to = d
           /\ AdoptJob(h, r, v).arg = v /\ AdoptJob(h, r, v).id = 0
<1> DEFINE d == h.pairs[r].promise
<1>1. /\ h \in Heaps /\ r \in DOMAIN h.pairs /\ d \in DOMAIN h.promises /\ Alone(h)
      /\ PairsSane(h, ro) /\ ~h.pairs[r].used /\ ~Done(h, d)
  BY DEF AdoptContext, Good
<1>2. h.promises[d] \in PromiseData /\ h.pairs[r] \in Pair
  BY <1>1, Domains
<1>3. /\ g.promises[d] = [h.promises[d] EXCEPT !.adopts = v.id]
      /\ g.pairs[r] = [h.pairs[r] EXCEPT !.used = TRUE]
      /\ \A x \in DOMAIN h.pairs : x # r => g.pairs[x] = h.pairs[x]
      /\ \A x \in DOMAIN h.promises : x # d => g.promises[x] = h.promises[x]
      /\ g.comb = h.comb /\ Len(g.promises) = Len(h.promises) /\ Len(g.pairs) = Len(h.pairs)
  BY DEF AdoptContext
<1>4. /\ g.promises[d].adopts = v.id
      /\ g.promises[d].state = "pending" /\ g.promises[d].result = h.promises[d].result
      /\ g.promises[d].reactions = h.promises[d].reactions
      /\ g.promises[d].handled = h.promises[d].handled
      /\ g.promises[d].told = h.promises[d].told
  BY <1>1, <1>2, <1>3 DEF PromiseData, Done
<1>5. g.pairs[r].used /\ g.pairs[r].promise = d /\ g.pairs[r].known = h.pairs[r].known
  BY <1>2, <1>3 DEF Pair
<1>6. ASSUME NEW x \in DOMAIN h.pairs, ~g.pairs[x].used
      PROVE  /\ x # r /\ g.pairs[x] = h.pairs[x]
             /\ h.pairs[x].promise \in DOMAIN h.promises \ {d}
  <2>1. x # r
    BY <1>5, <1>6
  <2>2. g.pairs[x] = h.pairs[x]
    BY <1>3, <2>1
  <2>3. h.pairs[x].promise # d
    BY <1>1, <1>6, <2>1, <2>2 DEF Alone
  <2> QED
    BY <1>1, <2>1, <2>2, <2>3 DEF PairsSane
<1>7. \A i \in DOMAIN h.jobs : h.jobs[i].is = "thenable" => h.jobs[i].to # d
  BY <1>1 DEF Alone
<1>8. \A i \in DOMAIN g.jobs : i \in DOMAIN h.jobs \/ i = Len(h.jobs) + 1
  BY DEF AdoptContext
<1>9. Later(h, g)
  <2>1. \A p \in DOMAIN h.promises : Done(h, p) =>
          /\ g.promises[p].state = h.promises[p].state
          /\ g.promises[p].result = h.promises[p].result
    BY <1>1, <1>3
  <2>2. \A x \in DOMAIN h.pairs :
          /\ g.pairs[x].promise = h.pairs[x].promise
          /\ h.pairs[x].used => g.pairs[x].used
    BY <1>3, <1>5
  <2>3. \A x \in DOMAIN h.pairs : ~g.pairs[x].used =>
          g.promises[h.pairs[x].promise].adopts = h.promises[h.pairs[x].promise].adopts
    BY <1>3, <1>6
  <2>4. Len(h.promises) <= Len(g.promises) /\ Len(h.pairs) <= Len(g.pairs)
    BY <1>1, <1>3, Domains
  <2> QED
    BY <1>3, <2>1, <2>2, <2>3, <2>4, SameComb DEF Later
<1>10. /\ AdoptJob(h, r, v).is = "thenable" /\ AdoptJob(h, r, v).to = d
       /\ AdoptJob(h, r, v).arg = v /\ AdoptJob(h, r, v).id = 0
  BY DEF AdoptJob, Job
<1> QED
  BY <1>4, <1>5, <1>6, <1>7, <1>8, <1>9, <1>10

LEMMA AdoptParts ==
    ASSUME NEW h, NEW ro, NEW r, NEW g, NEW v, AdoptContext(h, ro, r, g, v)
    PROVE  Tracked(g) /\ PairsSane(g, ro) /\ Alone(g) /\ HasDecider(g)
<1> DEFINE d == h.pairs[r].promise
           j == AdoptJob(h, r, v)
<1>1. /\ h \in Heaps /\ d \in DOMAIN h.promises /\ r \in DOMAIN h.pairs
      /\ Tracked(h) /\ PairsSane(h, ro) /\ Alone(h) /\ HasDecider(h) /\ MayAdopt(h, ro, r, v)
      /\ DOMAIN g.promises = DOMAIN h.promises /\ Len(g.promises) = Len(h.promises)
      /\ DOMAIN g.pairs = DOMAIN h.pairs /\ g.comb = h.comb
      /\ \A x \in DOMAIN h.promises : x # d => g.promises[x] = h.promises[x]
      /\ \A x \in DOMAIN h.pairs : x # r => g.pairs[x] = h.pairs[x]
      /\ \A i \in DOMAIN h.jobs : i \in DOMAIN g.jobs /\ g.jobs[i] = h.jobs[i]
      /\ Len(h.jobs) + 1 \in DOMAIN g.jobs /\ Len(h.jobs) + 1 \notin DOMAIN h.jobs
      /\ g.jobs[Len(h.jobs) + 1] = j
  BY DEF AdoptContext, Good
<1>2. /\ g.promises[d].adopts = v.id
      /\ g.promises[d].state = "pending" /\ g.promises[d].result = h.promises[d].result
      /\ g.promises[d].reactions = h.promises[d].reactions
      /\ g.promises[d].handled = h.promises[d].handled
      /\ g.promises[d].told = h.promises[d].told
      /\ g.pairs[r].used /\ g.pairs[r].promise = d
      /\ \A x \in DOMAIN h.pairs : ~g.pairs[x].used =>
            /\ x # r /\ g.pairs[x] = h.pairs[x]
            /\ h.pairs[x].promise \in DOMAIN h.promises \ {d}
      /\ \A i \in DOMAIN h.jobs : h.jobs[i].is = "thenable" => h.jobs[i].to # d
      /\ \A i \in DOMAIN g.jobs : i \in DOMAIN h.jobs \/ i = Len(h.jobs) + 1
      /\ j.is = "thenable" /\ j.to = d
  BY AdoptFacts
<1> HIDE DEF d, j
<1>3. Tracked(g)
  <2>1. \A x : Exists(g, x) <=> Exists(h, x)
    BY <1>1 DEF Exists
  <2>2. \A x \in DOMAIN h.promises : x # d => Sane(g, g.promises[x])
    BY <1>1, <2>1 DEF Tracked, Sane
  <2>3. v.id \in 0 .. Len(h.promises)
    <3>1. v = Thenable \/ v.id \in DOMAIN h.promises
      BY <1>1 DEF MayAdopt, Exists
    <3> QED
      BY <1>1, <3>1, Domains DEF Thenable
  <2>4. Sane(h, h.promises[d])
    BY <1>1 DEF Tracked
  <2>5. h.promises[d].told # "unhandled" /\ Exists(h, h.promises[d].result)
    <3>1. ~Done(h, d)
      BY DEF AdoptContext, d
    <3> QED
      BY <2>4, <3>1 DEF Sane, Done
  <2>6. Sane(g, g.promises[d])
    BY <1>1, <1>2, <2>1, <2>3, <2>5 DEF Sane
  <2> QED
    BY <1>1, <2>2, <2>6 DEF Tracked
<1>4. PairsSane(g, ro)
  <2>1. ASSUME NEW x \in DOMAIN h.pairs
        PROVE  g.pairs[x].promise \in DOMAIN h.promises
    BY <1>1, <1>2 DEF PairsSane
  <2>2. ASSUME NEW x \in DOMAIN h.pairs, ~g.pairs[x].used
        PROVE  ~Done(g, g.pairs[x].promise)
    BY <1>1, <1>2, <2>2 DEF PairsSane, Done
  <2>3. ASSUME NEW x \in DOMAIN h.pairs, g.pairs[x].known
        PROVE  Free(g, ro, x)
    BY <1>1, <1>2, <2>3 DEF PairsSane, Free, Ordinary
  <2>4. \A x \in DOMAIN h.pairs : g.pairs[x].promise = h.pairs[x].promise
    BY <1>1, <1>2 DEF d
  <2>5. ASSUME NEW x \in DOMAIN h.pairs, x = g.comb.pair
        PROVE  \A p \in Nat : /\ <<g.pairs[x].promise, p>> \notin ro.fin
                              /\ <<g.pairs[x].promise, p>> \notin ro.giv
    BY <1>1, <2>4, <2>5 DEF PairsSane
  <2> QED
    BY <1>1, <2>1, <2>2, <2>3, <2>5 DEF PairsSane
<1>5. Alone(g)
  <2>1. \A x, y \in DOMAIN g.pairs :
          ~g.pairs[x].used /\ ~g.pairs[y].used /\ g.pairs[x].promise = g.pairs[y].promise
            => x = y
    BY <1>1, <1>2 DEF Alone
  <2>2. \A i, k \in DOMAIN g.jobs :
          g.jobs[i].is = "thenable" /\ g.jobs[k].is = "thenable" /\ g.jobs[i].to = g.jobs[k].to
            => i = k
    BY <1>1, <1>2 DEF Alone
  <2>3. \A x \in DOMAIN g.pairs, i \in DOMAIN g.jobs :
          ~g.pairs[x].used /\ g.jobs[i].is = "thenable" => g.pairs[x].promise # g.jobs[i].to
    BY <1>1, <1>2 DEF Alone
  <2> QED
    BY <2>1, <2>2, <2>3 DEF Alone
<1>6. HasDecider(g)
  <2>1. ASSUME NEW p \in DOMAIN h.promises, p # d
        PROVE  \/ Done(g, p)
               \/ \E x \in DOMAIN g.pairs : ~g.pairs[x].used /\ g.pairs[x].promise = p
               \/ \E i \in DOMAIN g.jobs : g.jobs[i].is = "thenable" /\ g.jobs[i].to = p
    <3>1. CASE Done(h, p)
      BY <1>1, <2>1, <3>1 DEF Done
    <3>2. ASSUME NEW x \in DOMAIN h.pairs, ~h.pairs[x].used, h.pairs[x].promise = p
          PROVE  ~g.pairs[x].used /\ g.pairs[x].promise = p
      <4>1. x # r
        BY <2>1, <3>2 DEF d
      <4> QED
        BY <1>1, <3>2, <4>1
    <3>3. CASE \E i \in DOMAIN h.jobs : h.jobs[i].is = "thenable" /\ h.jobs[i].to = p
      BY <1>1, <3>3
    <3> QED
      BY <1>1, <3>1, <3>2, <3>3 DEF HasDecider
  <2> QED
    BY <1>1, <1>2, <2>1 DEF HasDecider
<1> QED
  BY <1>3, <1>4, <1>5, <1>6

LEMMA AdoptOutcomes ==
    ASSUME NEW h, NEW ro, NEW r, NEW g, NEW v, AdoptContext(h, ro, r, g, v)
    PROVE  Adopted(g) /\ RolesKept(g, ro)
<1> DEFINE d == h.pairs[r].promise
<1>1. /\ h \in Heaps /\ d \in DOMAIN h.promises /\ ~Done(h, d)
      /\ Adopted(h) /\ RolesKept(h, ro) /\ Tracked(h) /\ MayAdopt(h, ro, r, v)
      /\ DOMAIN g.promises = DOMAIN h.promises
      /\ \A x \in DOMAIN h.promises : x # d => g.promises[x] = h.promises[x]
  BY DEF AdoptContext, Good
<1>2. /\ g.promises[d].adopts = v.id /\ g.promises[d].state = "pending" /\ Later(h, g)
  BY AdoptFacts
<1>3. /\ \A p \in Nat : <<d, p>> \notin ro.giv
      /\ \A p \in Nat : <<d, p>> \in ro.fin => (v.id # 0 => <<v.id, p>> \in ro.giv)
  BY <1>1 DEF MayAdopt
<1> HIDE DEF d
<1>4. Adopted(g)
  <2>1. \A p \in DOMAIN h.promises :
           h.promises[p].adopts # 0 => h.promises[p].adopts \in DOMAIN h.promises
    BY <1>1, Domains DEF Tracked, Sane
  <2>2. ASSUME NEW p \in DOMAIN h.promises, Done(g, p), g.promises[p].adopts # 0
        PROVE  /\ g.promises[p].state = g.promises[g.promises[p].adopts].state
               /\ g.promises[p].result = g.promises[g.promises[p].adopts].result
    <3>1. p # d /\ g.promises[p] = h.promises[p] /\ Done(h, p)
      BY <1>1, <1>2, <2>2 DEF Done
    <3>2. /\ h.promises[p].state = h.promises[h.promises[p].adopts].state
          /\ h.promises[p].result = h.promises[h.promises[p].adopts].result
      BY <1>1, <2>2, <3>1 DEF Adopted
    <3>3. h.promises[p].adopts # d /\ h.promises[p].adopts \in DOMAIN h.promises
      BY <1>1, <2>1, <2>2, <3>1, <3>2 DEF Done
    <3> QED
      BY <1>1, <3>1, <3>2, <3>3
  <2> QED
    BY <1>1, <2>2 DEF Adopted
<1>5. ASSUME NEW a \in Nat, NEW p \in Nat, <<a, p>> \in ro.fin
      PROVE  /\ a \in DOMAIN g.promises /\ p \in DOMAIN g.promises
             /\ g.promises[a].adopts # 0 => <<g.promises[a].adopts, p>> \in ro.giv
             /\ g.promises[a].state = "fulfilled" => HasOutcome(g, p, FALSE, g.promises[a].result)
  <2>1. /\ a \in DOMAIN h.promises /\ p \in DOMAIN h.promises
        /\ h.promises[a].adopts # 0 => <<h.promises[a].adopts, p>> \in ro.giv
        /\ h.promises[a].state = "fulfilled" => HasOutcome(h, p, FALSE, h.promises[a].result)
    BY <1>1, <1>5 DEF RolesKept
  <2>2. CASE a = d
    BY <1>1, <1>2, <1>3, <1>5, <2>1, <2>2
  <2>3. CASE a # d
    BY <1>1, <1>2, <2>1, <2>3, OutcomeLater
  <2> QED
    BY <2>2, <2>3
<1>6. ASSUME NEW a \in Nat, NEW p \in Nat, <<a, p>> \in ro.giv
      PROVE  /\ a \in DOMAIN g.promises /\ p \in DOMAIN g.promises
             /\ g.promises[a].adopts = 0
             /\ g.promises[a].state = "fulfilled" => HasOutcome(g, p, FALSE, g.promises[a].result)
  <2>1. /\ a \in DOMAIN h.promises /\ p \in DOMAIN h.promises
        /\ h.promises[a].adopts = 0
        /\ h.promises[a].state = "fulfilled" => HasOutcome(h, p, FALSE, h.promises[a].result)
    BY <1>1, <1>6 DEF RolesKept
  <2>2. a # d
    BY <1>3, <1>6
  <2> QED
    BY <1>1, <1>2, <2>1, <2>2, OutcomeLater
<1> QED
  BY <1>4, <1>5, <1>6 DEF RolesKept

LEMMA AdoptCombined ==
    ASSUME NEW h, NEW ro, NEW r, NEW g, NEW v, AdoptContext(h, ro, r, g, v)
    PROVE  Combined(g)
<1> DEFINE d == h.pairs[r].promise
<1>1. /\ h \in Heaps /\ g \in Heaps /\ d \in DOMAIN h.promises /\ ~Done(h, d)
      /\ r \in DOMAIN h.pairs /\ ~h.pairs[r].used
      /\ Combined(h) /\ PairsSane(h, ro) /\ Alone(h) /\ MayAdopt(h, ro, r, v)
      /\ DOMAIN g.promises = DOMAIN h.promises /\ DOMAIN g.pairs = DOMAIN h.pairs
      /\ g.comb = h.comb
      /\ \A x \in DOMAIN h.promises : x # d => g.promises[x] = h.promises[x]
      /\ \A x \in DOMAIN h.pairs : x # r => g.pairs[x] = h.pairs[x]
  BY DEF AdoptContext, Good
<1>2. Later(h, g)
  BY AdoptFacts
<1>3. \A x \in DOMAIN h.pairs : h.pairs[x].promise \in DOMAIN h.promises
  BY <1>1 DEF PairsSane
<1>4. ASSUME h.comb.type # "none"
      PROVE  LET p == h.pairs[h.comb.pair].promise
             IN  /\ g.promises[p].adopts = 0
                 /\ g.pairs[h.comb.pair].used => Done(g, p)
                 /\ Done(g, p) => Done(h, p)
  <2> DEFINE c == h.comb
             p == h.pairs[c.pair].promise
  <2>1. /\ c.pair \in DOMAIN h.pairs /\ h.promises[p].adopts = 0
        /\ h.pairs[c.pair].used => Done(h, p)
    BY <1>1, <1>4, Zenon DEF Combined, Combines
  <2>2. c.pair # r
    BY <1>1 DEF MayAdopt
  <2>3. p # d
    <3>1. p = d => ~h.pairs[c.pair].used
      BY <1>1, <2>1
    <3> QED
      BY <1>1, <2>1, <2>2, <3>1 DEF Alone
  <2>4. g.promises[p] = h.promises[p] /\ g.pairs[c.pair] = h.pairs[c.pair]
    BY <1>1, <1>3, <2>1, <2>2, <2>3
  <2> HIDE DEF p
  <2>5. /\ g.promises[p].adopts = 0
        /\ g.pairs[h.comb.pair].used => Done(g, p)
        /\ Done(g, p) => Done(h, p)
    BY <2>1, <2>4 DEF Done
  <2> QED
    BY <2>5 DEF p
<1> QED
  BY <1>1, <1>2, <1>3, <1>4, CombinedLater

LEMMA AdoptFits ==
    ASSUME NEW h, NEW ro, NEW r, NEW g, NEW v, AdoptContext(h, ro, r, g, v)
    PROVE  ReactionsFit(g, ro) /\ JobsFit(g, ro)
<1> DEFINE d == h.pairs[r].promise
           j == AdoptJob(h, r, v)
<1>1. /\ h \in Heaps /\ g \in Heaps /\ d \in DOMAIN h.promises
      /\ PairsSane(h, ro) /\ RolesKept(h, ro) /\ ReactionsFit(h, ro) /\ JobsFit(h, ro)
      /\ MayAdopt(h, ro, r, v)
      /\ DOMAIN g.promises = DOMAIN h.promises
      /\ \A x \in DOMAIN h.promises : x # d => g.promises[x] = h.promises[x]
      /\ \A i \in DOMAIN h.jobs : g.jobs[i] = h.jobs[i]
      /\ g.jobs[Len(h.jobs) + 1] = j
  BY DEF AdoptContext, Good
<1>2. /\ Later(h, g) /\ RolesGrow(h, ro, ro)
      /\ g.promises[d].reactions = h.promises[d].reactions
      /\ g.promises[d].adopts = v.id /\ g.promises[d].state = "pending"
      /\ \A i \in DOMAIN h.jobs : h.jobs[i].is = "thenable" => h.jobs[i].to # d
      /\ \A i \in DOMAIN g.jobs : i \in DOMAIN h.jobs \/ i = Len(h.jobs) + 1
      /\ j.is = "thenable" /\ j.to = d /\ j.arg = v /\ j.id = 0
  BY AdoptFacts, SameRoles
<1> HIDE DEF d, j
<1>3. ReactionsFit(g, ro)
  <2> SUFFICES ASSUME NEW x \in DOMAIN h.promises, NEW i \in DOMAIN g.promises[x].reactions
               PROVE  ReactionFits(g, ro, g.promises[x].reactions[i], x)
    BY <1>1 DEF ReactionsFit
  <2>1. g.promises[x].reactions = h.promises[x].reactions
    BY <1>1, <1>2
  <2>2. ReactionFits(h, ro, h.promises[x].reactions[i], x) /\ h.promises[x].reactions[i] \in Reaction
    BY <1>1, <2>1, Domains DEF ReactionsFit
  <2>3. ReactionFits(g, ro, h.promises[x].reactions[i], x)
    BY <1>1, <1>2, <2>2, ReactionFitsLater
  <2> QED
    BY <2>1, <2>3
<1>4. ASSUME NEW i \in DOMAIN h.jobs
      PROVE  \/ h.jobs[i].is = "reaction" /\ JobFits(g, ro, h.jobs[i])
             \/ h.jobs[i].is = "thenable" /\ ThenableSane(g, ro, h.jobs[i])
  <2>0. h.jobs[i] \in AnyJob
    BY <1>1, Domains
  <2>1. CASE h.jobs[i].is = "reaction" /\ JobFits(h, ro, h.jobs[i])
    BY <1>1, <1>2, <2>0, <2>1, JobFitsLater
  <2>2. CASE h.jobs[i].is = "thenable" /\ ThenableSane(h, ro, h.jobs[i])
    <3>1. Exists(g, h.jobs[i].arg)
      BY <1>1, <1>2, <2>2, ExistsLater DEF ThenableSane
    <3>2. h.jobs[i].to # d
      BY <1>2, <2>2
    <3> QED
      BY <1>1, <2>2, <3>1, <3>2 DEF ThenableSane, Done, Ordinary
  <2> QED
    BY <1>1, <2>1, <2>2 DEF JobsFit
<1>5. ThenableSane(g, ro, j)
  <2>1. Exists(g, v)
    BY <1>1, <1>2, ExistsLater DEF MayAdopt
  <2>2. CASE v.is = "promise"
    BY <1>1, <1>2, <2>1, <2>2 DEF ThenableSane, Done
  <2>3. CASE v = Thenable
    <3>1. v.id = 0
      BY <2>3 DEF Thenable
    <3>2. \A p \in Nat : <<d, p>> \notin ro.fin /\ <<d, p>> \notin ro.giv
      BY <1>1, <2>3 DEF MayAdopt, d, Thenable
    <3> QED
      BY <1>1, <1>2, <2>1, <2>3, <3>1, <3>2 DEF ThenableSane, Done, Ordinary
  <2> QED
    BY <1>1, <2>2, <2>3 DEF MayAdopt
<1>6. JobsFit(g, ro)
  BY <1>1, <1>2, <1>4, <1>5 DEF JobsFit
<1> QED
  BY <1>3, <1>6

\* A pair that resolves its promise with another keeps the invariant.
LEMMA AdoptKept ==
    ASSUME NEW h, NEW ro, Good(h, ro), NEW r \in DOMAIN h.pairs, ~h.pairs[r].used,
           NEW v, MayAdopt(h, ro, r, v)
    PROVE  LET g == [Use(h, r) EXCEPT !.jobs = Append(@, AdoptJob(h, r, v)),
                                      !.promises[h.pairs[r].promise].adopts = v.id]
           IN  Good(g, ro) /\ Later(h, g) /\ IsAdopt(h, g, r, v)
<1> DEFINE d == h.pairs[r].promise
           j == AdoptJob(h, r, v)
           g == [Use(h, r) EXCEPT !.jobs = Append(@, j), !.promises[d].adopts = v.id]
<1>1. /\ d \in DOMAIN h.promises /\ ~Done(h, d) /\ h \in Heaps /\ ro \in Roles
  BY DEF Good, PairsSane
<1>2. v \in AnyValue
  BY DEF MayAdopt, Exists
<1>3. IsAdopt(h, g, r, v) /\ j \in AnyJob
  BY <1>1, <1>2, AdoptIs
<1> HIDE DEF g
<1>4. /\ g \in Heaps /\ g.comb = h.comb
      /\ g.pairs = [h.pairs EXCEPT ![r].used = TRUE]
      /\ g.promises = [h.promises EXCEPT ![d].adopts = v.id]
      /\ g.jobs = Append(h.jobs, j)
  BY <1>3 DEF IsAdopt, AdoptJob
<1> HIDE DEF j
<1>5. /\ h.promises \in Seq(PromiseData) /\ h.pairs \in Seq(Pair) /\ h.jobs \in Seq(AnyJob)
      /\ h.promises[d] \in PromiseData /\ h.pairs[r] \in Pair
  BY <1>1, Domains DEF Heaps
<1>6. /\ [h.promises[d] EXCEPT !.adopts = v.id] \in PromiseData
      /\ [h.pairs[r] EXCEPT !.used = TRUE] \in Pair
  BY <1>2, <1>5 DEF PromiseData, Pair, AnyValue
<1>7. /\ g.pairs = [h.pairs EXCEPT ![r] = [h.pairs[r] EXCEPT !.used = TRUE]]
      /\ g.promises = [h.promises EXCEPT ![d] = [h.promises[d] EXCEPT !.adopts = v.id]]
  BY <1>4
<1> HIDE DEF d
<1>8. /\ Len(g.promises) = Len(h.promises) /\ Len(g.pairs) = Len(h.pairs)
      /\ \A x \in DOMAIN h.promises \ {d} : g.promises[x] = h.promises[x]
      /\ g.promises[d] = [h.promises[d] EXCEPT !.adopts = v.id]
      /\ \A x \in DOMAIN h.pairs \ {r} : g.pairs[x] = h.pairs[x]
      /\ g.pairs[r] = [h.pairs[r] EXCEPT !.used = TRUE]
  BY ONLY <1>1, <1>5, <1>6, <1>7, r \in DOMAIN h.pairs, SeqExcept
<1>9. DOMAIN g.promises = DOMAIN h.promises /\ DOMAIN g.pairs = DOMAIN h.pairs
  BY <1>1, <1>4, <1>8, Domains
<1>10. /\ DOMAIN h.jobs = 1 .. Len(h.jobs) /\ Len(h.jobs) \in Nat
       /\ DOMAIN g.jobs = 1 .. Len(h.jobs) + 1
       /\ \A i \in DOMAIN h.jobs : g.jobs[i] = h.jobs[i]
       /\ g.jobs[Len(h.jobs) + 1] = j
  BY <1>3, <1>4, <1>5, AppendFacts
<1>11. AdoptContext(h, ro, r, g, v)
  BY <1>1, <1>4, <1>8, <1>9, <1>10 DEF AdoptContext, d, j
<1>12. Good(g, ro)
  BY <1>1, <1>4, <1>11, AdoptParts, AdoptOutcomes, AdoptCombined, AdoptFits DEF Good
<1>13. Later(h, g)
  BY <1>11, AdoptFacts
<1> QED
  BY <1>3, <1>12, <1>13 DEF g, d, j

-----------------------------------------------------------------------------
(* A call of a resolving function.                                         *)

\* The pair r, when it is not used yet, may be called with v.
CanCall(h, ro, r, rej, v) ==
    LET d == h.pairs[r].promise
        a == h.promises[d].adopts
    IN  ~h.pairs[r].used =>
          /\ Exists(h, v)
          /\ v.is = "thenable" => v = Thenable /\ ~rej /\ r # h.comb.pair /\ Ordinary(h, ro, d)
          /\ a # 0 => HasOutcome(h, a, rej, v)
          /\ r = h.comb.pair => MayBecome(h, rej, v) /\ (rej \/ v.is \in {"plain", "list"})
          /\ \A p \in Nat : <<d, p>> \in ro.fin /\ a = 0
                              => rej \/ (v.is = "promise" /\ <<v.id, p>> \in ro.giv)
          /\ \A p \in Nat : <<d, p>> \in ro.giv => rej \/ HasOutcome(h, p, FALSE, v)

\* What it does.
IsCall(h, g, r) ==
    \/ g = h
    \/ /\ ~h.pairs[r].used
       /\ \/ \E rej \in BOOLEAN, v \in AnyValue : IsDecide(h, g, r, rej, v)
          \/ \E v \in AnyValue : IsAdopt(h, g, r, v)

LEMMA CallMaySettle ==
    ASSUME NEW h, NEW ro, Good(h, ro), NEW r \in DOMAIN h.pairs, ~h.pairs[r].used,
           NEW rej \in BOOLEAN, NEW v, CanCall(h, ro, r, rej, v), rej \/ v.is \in {"plain", "list"}
    PROVE  MaySettle(h, ro, r, rej, v)
<1> DEFINE d == h.pairs[r].promise
           a == h.promises[d].adopts
<1>1. /\ Exists(h, v)
      /\ v.is = "thenable" => ~rej
      /\ a # 0 => HasOutcome(h, a, rej, v)
      /\ r = h.comb.pair => MayBecome(h, rej, v)
      /\ \A p \in Nat : <<d, p>> \in ro.fin /\ a = 0 => rej \/ v.is = "promise"
      /\ \A p \in Nat : <<d, p>> \in ro.giv => rej \/ HasOutcome(h, p, FALSE, v)
  BY DEF CanCall
<1>2. /\ v.is # "thenable"
      /\ ~rej => v.is \in {"plain", "list"}
  BY <1>1
<1>3. /\ d \in DOMAIN h.promises /\ RolesKept(h, ro) /\ h \in Heaps
      /\ d \in Nat /\ a \in Nat
  BY Domains DEF Good, PairsSane, PromiseData
<1>4. ASSUME NEW p \in Nat, <<d, p>> \in ro.fin, ~rej PROVE HasOutcome(h, p, FALSE, v)
  <2>1. a # 0
    BY <1>1, <1>2, <1>4
  <2>2. <<a, p>> \in ro.giv
    BY <1>3, <1>4, <2>1 DEF RolesKept
  <2>3. h.promises[a].state = "fulfilled" /\ h.promises[a].result = v
    BY <1>1, <1>4, <2>1 DEF HasOutcome, State
  <2>4. HasOutcome(h, p, FALSE, h.promises[a].result)
    BY <1>3, <2>2, <2>3 DEF RolesKept
  <2> QED
    BY <2>3, <2>4
<1> QED
  BY <1>1, <1>2, <1>4 DEF MaySettle

\* A pair that is called with a promise is nobody's whose outcome is known.
LEMMA CallNotDue ==
    ASSUME NEW h, NEW ro, Good(h, ro), NEW r \in DOMAIN h.pairs, ~h.pairs[r].used,
           NEW v, CanCall(h, ro, r, FALSE, v), v.is \notin {"plain", "list"}
    PROVE  /\ h.promises[h.pairs[r].promise].adopts = 0
           /\ r # h.comb.pair
           /\ \A p \in Nat : <<h.pairs[r].promise, p>> \notin ro.giv
<1> DEFINE d == h.pairs[r].promise
           a == h.promises[d].adopts
<1>1. /\ a # 0 => HasOutcome(h, a, FALSE, v)
      /\ r # h.comb.pair
      /\ \A p \in Nat : <<d, p>> \in ro.giv => HasOutcome(h, p, FALSE, v)
  BY DEF CanCall
<1>2. /\ d \in DOMAIN h.promises /\ RolesKept(h, ro) /\ h \in Heaps /\ Tracked(h)
      /\ d \in Nat /\ a \in 0 .. Len(h.promises)
  BY Domains DEF Good, PairsSane, Tracked, Sane
<1>3. \A p \in DOMAIN h.promises : ~HasOutcome(h, p, FALSE, v)
  BY <1>2 DEF HasOutcome, State, Tracked, Sane
<1>4. a # 0 => a \in DOMAIN h.promises
  BY <1>2, Domains
<1>5. \A p \in Nat : <<d, p>> \in ro.giv => p \in DOMAIN h.promises
  BY <1>2 DEF RolesKept
<1> QED
  BY <1>1, <1>3, <1>4, <1>5

LEMMA CallKept ==
    ASSUME NEW h, NEW ro, Good(h, ro), NEW r \in DOMAIN h.pairs,
           NEW rej \in BOOLEAN, NEW v, CanCall(h, ro, r, rej, v)
    PROVE  LET g == CallResolving(h, r, rej, v)
           IN  Good(g, ro) /\ Later(h, g) /\ IsCall(h, g, r)
<1> DEFINE d == h.pairs[r].promise
           g == CallResolving(h, r, rej, v)
<1>0. Later(h, h)
  BY Domains, SameComb DEF Later, Good
<1>1. CASE h.pairs[r].used
  <2>1. g = h
    BY <1>1 DEF CallResolving
  <2> HIDE DEF g
  <2> QED
    BY <1>0, <2>1 DEF IsCall, g
<1>2. CASE ~h.pairs[r].used /\ (rej \/ v.is \in {"plain", "list"})
  <2>1. g = Settle(Use(h, r), d, v, rej)
    BY <1>2 DEF CallResolving
  <2>2. MaySettle(h, ro, r, rej, v)
    BY <1>2, CallMaySettle
  <2>3. v \in AnyValue
    BY <2>2 DEF MaySettle, Exists
  <2>4. Good(g, ro) /\ Later(h, g) /\ IsDecide(h, g, r, rej, v)
    BY <1>2, <2>1, <2>2, DecideKept
  <2> HIDE DEF g
  <2> QED
    BY <1>2, <2>3, <2>4 DEF IsCall, g
<1>3. CASE ~h.pairs[r].used /\ ~rej /\ v.is \notin {"plain", "list"}
  <2>1. CanCall(h, ro, r, FALSE, v)
    BY <1>3
  <2>2. /\ h.promises[d].adopts = 0 /\ r # h.comb.pair
        /\ \A p \in Nat : <<d, p>> \notin ro.giv
    BY <1>3, <2>1, CallNotDue
  <2>3. /\ Exists(h, v) /\ v \in AnyValue
        /\ v.is = "thenable" => v = Thenable /\ Ordinary(h, ro, d)
        /\ \A p \in Nat : <<d, p>> \in ro.fin => v.is = "promise" /\ <<v.id, p>> \in ro.giv
    BY <1>3, <2>1, <2>2 DEF CanCall, Exists
  <2>4. CASE v = PromiseValue(d)
    <3>1. g = Settle(Use(h, r), d, TypeError, TRUE)
      BY <1>3, <2>4 DEF CallResolving
    <3>2. TypeError \in AnyValue /\ TypeError.is = "plain"
      BY JobTypes DEF TypeError, PlainValue
    <3>3. MaySettle(h, ro, r, TRUE, TypeError)
      BY <2>2, <3>2 DEF MaySettle, Exists
    <3>4. Good(g, ro) /\ Later(h, g) /\ IsDecide(h, g, r, TRUE, TypeError)
      BY <1>3, <3>1, <3>3, DecideKept
    <3> HIDE DEF g
    <3> QED
      BY <1>3, <3>2, <3>4 DEF IsCall, g
  <2>5. CASE v # PromiseValue(d)
    <3>1. g = [Use(h, r) EXCEPT !.jobs = Append(@, AdoptJob(h, r, v)), !.promises[d].adopts = v.id]
      BY <1>3, <2>5 DEF CallResolving, AdoptJob
    <3>2. \/ v.is = "promise" /\ v.id # d
          \/ v = Thenable
      BY <1>3, <2>3, <2>5 DEF AnyValue, PromiseValue
    <3>3. Thenable.is = "thenable"
      BY DEF Thenable
    <3>4. MayAdopt(h, ro, r, v)
      <4>1. CASE v.is = "promise" /\ v.id # d
        BY <2>2, <2>3, <4>1 DEF MayAdopt
      <4>2. CASE v = Thenable
        <5>1. \A p \in Nat : <<d, p>> \notin ro.fin
          BY <2>3, <3>3, <4>2 DEF Ordinary
        <5> QED
          BY <2>2, <2>3, <4>2, <5>1 DEF MayAdopt
      <4> QED
        BY <3>2, <4>1, <4>2
    <3> DEFINE b == [Use(h, r) EXCEPT !.jobs = Append(@, AdoptJob(h, r, v)),
                                      !.promises[h.pairs[r].promise].adopts = v.id]
    <3>6. Good(b, ro) /\ Later(h, b) /\ IsAdopt(h, b, r, v)
      BY <1>3, <3>4, AdoptKept
    <3>7. g = b
      BY <3>1
    <3> HIDE DEF g, b
    <3>5. Good(g, ro) /\ Later(h, g) /\ IsAdopt(h, g, r, v)
      BY <3>6, <3>7
    <3> QED
      BY <1>3, <2>3, <3>5 DEF IsCall, g
  <2> QED
    BY <2>4, <2>5
<1> QED
  BY <1>1, <1>2, <1>3

-----------------------------------------------------------------------------
(* The order of the calls of then().                                       *)

\* The numbers of the jobs of g are those of h, then those of R.
MoreNumbers(h, g, R) ==
    /\ \A i \in DOMAIN h.jobs : i \in DOMAIN g.jobs /\ g.jobs[i].id = h.jobs[i].id
    /\ \A k \in DOMAIN R : Len(h.jobs) + k \in DOMAIN g.jobs /\ g.jobs[Len(h.jobs) + k].id = R[k].id
    /\ \A i \in DOMAIN g.jobs : \/ i \in DOMAIN h.jobs
                                \/ \E k \in DOMAIN R : i = Len(h.jobs) + k
    /\ DOMAIN h.jobs = 1 .. Len(h.jobs) /\ Len(h.jobs) \in Nat
    /\ DOMAIN R = 1 .. Len(R) /\ Len(R) \in Nat

\* These numbers come after the earlier ones.
FollowOn(h, g, R, th, cl) ==
    /\ \A k \in DOMAIN R :
          /\ R[k].id \in 0 .. Len(th)
          /\ R[k].id # 0 => Done(g, th[R[k].id].on)
          /\ \A i \in DOMAIN h.jobs : Before(th, h.jobs[i].id, R[k].id)
          /\ \A n \in DOMAIN cl : Before(th, cl[n], R[k].id)
    /\ \A k, l \in DOMAIN R : k < l => Before(th, R[k].id, R[l].id)

\* What the calls of then() were for stays settled.
DoneLater(h, g, th) == \A id \in DOMAIN th : Done(h, th[id].on) => Done(g, th[id].on)

LEMMA MoreOrdered ==
    ASSUME NEW h, NEW g, NEW th, NEW cl, NEW R, JobsOrdered(h, th, cl), MoreNumbers(h, g, R),
           FollowOn(h, g, R, th, cl), DoneLater(h, g, th), DOMAIN th = 1 .. Len(th)
    PROVE  JobsOrdered(g, th, cl)
<1>0. /\ DOMAIN h.jobs = 1 .. Len(h.jobs) /\ Len(h.jobs) \in Nat
      /\ DOMAIN R = 1 .. Len(R) /\ Len(R) \in Nat
  BY DEF MoreNumbers
<1>1. ASSUME NEW i \in DOMAIN g.jobs
      PROVE  \/ i \in DOMAIN h.jobs /\ g.jobs[i].id = h.jobs[i].id
             \/ \E k \in DOMAIN R : i = Len(h.jobs) + k /\ g.jobs[i].id = R[k].id
  BY DEF MoreNumbers
<1>2. ASSUME NEW i \in DOMAIN g.jobs
      PROVE  /\ g.jobs[i].id \in 0 .. Len(th)
             /\ g.jobs[i].id # 0 => Done(g, th[g.jobs[i].id].on)
             /\ \A n \in DOMAIN cl : Before(th, cl[n], g.jobs[i].id)
  <2>1. CASE i \in DOMAIN h.jobs /\ g.jobs[i].id = h.jobs[i].id
    <3>1. /\ h.jobs[i].id \in 0 .. Len(th)
          /\ h.jobs[i].id # 0 => Done(h, th[h.jobs[i].id].on)
          /\ \A n \in DOMAIN cl : Before(th, cl[n], h.jobs[i].id)
      BY <2>1 DEF JobsOrdered
    <3>2. h.jobs[i].id # 0 => h.jobs[i].id \in DOMAIN th
      BY <3>1
    <3> QED
      BY <2>1, <3>1, <3>2 DEF DoneLater
  <2>2. CASE \E k \in DOMAIN R : i = Len(h.jobs) + k /\ g.jobs[i].id = R[k].id
    BY <2>2 DEF FollowOn
  <2> QED
    BY <1>1, <2>1, <2>2
<1>3. ASSUME NEW i \in DOMAIN g.jobs, NEW l \in DOMAIN g.jobs, i < l
      PROVE  Before(th, g.jobs[i].id, g.jobs[l].id)
  <2>1. CASE i \in DOMAIN h.jobs /\ g.jobs[i].id = h.jobs[i].id
    <3>1. CASE l \in DOMAIN h.jobs /\ g.jobs[l].id = h.jobs[l].id
      BY <1>3, <2>1, <3>1 DEF JobsOrdered
    <3>2. CASE \E k \in DOMAIN R : l = Len(h.jobs) + k /\ g.jobs[l].id = R[k].id
      BY <2>1, <3>2 DEF FollowOn
    <3> QED
      BY <1>1, <3>1, <3>2
  <2>2. CASE \E k \in DOMAIN R : i = Len(h.jobs) + k /\ g.jobs[i].id = R[k].id
    <3>1. PICK k \in DOMAIN R : i = Len(h.jobs) + k /\ g.jobs[i].id = R[k].id
      BY <2>2
    <3>2. l \notin DOMAIN h.jobs
      BY <1>0, <1>3, <3>1
    <3>3. PICK m \in DOMAIN R : l = Len(h.jobs) + m /\ g.jobs[l].id = R[m].id
      BY <1>1, <3>2
    <3>4. k < m
      BY <1>0, <1>3, <3>1, <3>3
    <3> QED
      BY <3>1, <3>3, <3>4 DEF FollowOn
  <2> QED
    BY <1>1, <2>1, <2>2
<1>4. /\ cl \in Seq(Nat)
      /\ \A n \in DOMAIN cl : cl[n] \in DOMAIN th /\ Done(h, th[cl[n]].on)
      /\ \A m, n \in DOMAIN cl : m < n => Before(th, cl[m], cl[n])
  BY DEF JobsOrdered
<1>5. \A n \in DOMAIN cl : Done(g, th[cl[n]].on)
  BY <1>4 DEF DoneLater
<1> QED
  BY <1>2, <1>3, <1>4, <1>5 DEF JobsOrdered

LEMMA DecideNumbers ==
    ASSUME NEW h \in Heaps, NEW r \in DOMAIN h.pairs, h.pairs[r].promise \in DOMAIN h.promises,
           NEW g, NEW rej \in BOOLEAN, NEW v \in AnyValue, IsDecide(h, g, r, rej, v)
    PROVE  MoreNumbers(h, g, h.promises[h.pairs[r].promise].reactions)
<1> DEFINE R == h.promises[h.pairs[r].promise].reactions
<1>1. /\ DOMAIN R = 1 .. Len(R) /\ Len(R) \in Nat
      /\ \A k \in DOMAIN R : R[k] \in Reaction
      /\ DOMAIN h.jobs = 1 .. Len(h.jobs) /\ Len(h.jobs) \in Nat
  BY Domains
<1>2. /\ g \in Heaps /\ Len(g.jobs) = Len(h.jobs) + Len(R)
      /\ \A i \in DOMAIN h.jobs : g.jobs[i] = h.jobs[i]
      /\ \A k \in DOMAIN R : g.jobs[Len(h.jobs) + k] = ReactionJob(R[k], rej, v)
  BY Zenon DEF IsDecide
<1>3. DOMAIN g.jobs = 1 .. Len(h.jobs) + Len(R)
  BY <1>2, Domains
<1> HIDE DEF R
<1>4. ASSUME NEW k \in DOMAIN R PROVE g.jobs[Len(h.jobs) + k].id = R[k].id
  <2>1. R[k] \in Reaction /\ g.jobs[Len(h.jobs) + k] = ReactionJob(R[k], rej, v)
    BY <1>1, <1>2
  <2>2. ReactionJob(R[k], rej, v).id = R[k].id
    BY <2>1, ReactionJobType
  <2> QED
    BY <2>1, <2>2
<1>5. \A i \in DOMAIN h.jobs : i \in DOMAIN g.jobs
  BY <1>1, <1>3
<1>6. \A k \in DOMAIN R : Len(h.jobs) + k \in DOMAIN g.jobs
  BY <1>1, <1>3
<1>7. ASSUME NEW i \in DOMAIN g.jobs, i \notin DOMAIN h.jobs
      PROVE  \E k \in DOMAIN R : i = Len(h.jobs) + k
  <2>1. i - Len(h.jobs) \in 1 .. Len(R) /\ i = Len(h.jobs) + (i - Len(h.jobs))
    BY <1>1, <1>3, <1>7
  <2> QED
    BY <1>1, <2>1
<1>8. MoreNumbers(h, g, R)
  BY <1>1, <1>2, <1>4, <1>5, <1>6, <1>7 DEF MoreNumbers
<1> QED
  BY <1>8 DEF R

LEMMA ThensDomain ==
    ASSUME NEW h, NEW ro, NEW th, ThensKept(h, ro, th)
    PROVE  DOMAIN th = 1 .. Len(th) /\ Len(th) \in Nat
BY DEF ThensKept

LEMMA LaterDone ==
    ASSUME NEW h, NEW ro, NEW g, NEW th, ThensKept(h, ro, th), Later(h, g)
    PROVE  DoneLater(h, g, th)
BY DEF ThensKept, Later, DoneLater, Done

\* The order is kept when a promise is settled.
LEMMA DecideOrdered ==
    ASSUME NEW h, NEW ro, Good(h, ro), NEW r \in DOMAIN h.pairs, ~h.pairs[r].used,
           NEW g, NEW rej \in BOOLEAN, NEW v \in AnyValue, IsDecide(h, g, r, rej, v), Later(h, g),
           NEW th, NEW cl, ThensKept(h, ro, th), Ordered(h, th, cl)
    PROVE  Ordered(g, th, cl)
<1> DEFINE d == h.pairs[r].promise
           R == h.promises[d].reactions
<1>1. /\ d \in DOMAIN h.promises /\ ~Done(h, d) /\ h \in Heaps
  BY DEF Good, PairsSane
<1>2. MoreNumbers(h, g, R)
  BY <1>1, DecideNumbers
<1>3. /\ DOMAIN g.promises = DOMAIN h.promises
      /\ g.promises[d].reactions = <<>> /\ Done(g, d)
      /\ \A x \in DOMAIN h.promises \ {d} : g.promises[x] = h.promises[x]
  <2>1. g \in Heaps /\ Len(g.promises) = Len(h.promises) /\ g.promises[d].state = State(rej)
    BY DEF IsDecide
  <2> QED
    BY <1>1, <2>1, Domains, Zenon DEF IsDecide, Done, State
<1>4. /\ DoneLater(h, g, th) /\ DOMAIN th = 1 .. Len(th)
      /\ ReactionsOrdered(h, th) /\ JobsOrdered(h, th, cl)
  BY LaterDone, ThensDomain DEF Ordered
<1>5. \A k \in DOMAIN R : R[k].id \in 0 .. Len(th) /\ (R[k].id # 0 => th[R[k].id].on = d)
  BY <1>1, <1>4, Zenon DEF ReactionsOrdered
<1>6. \A k, l \in DOMAIN R : k < l => Before(th, R[k].id, R[l].id)
  BY <1>1, <1>4 DEF ReactionsOrdered
<1>7. \A x \in DOMAIN h.promises \ {d} : g.promises[x].reactions = h.promises[x].reactions
  BY <1>3
<1> HIDE DEF d, R
<1>8. ReactionsOrdered(g, th)
  BY <1>3, <1>4, <1>7 DEF ReactionsOrdered
<1>9. JobsOrdered(g, th, cl)
  <2>1. \A i \in DOMAIN h.jobs : h.jobs[i].id # 0 => th[h.jobs[i].id].on # d
    BY <1>1, <1>4 DEF JobsOrdered
  <2>2. \A n \in DOMAIN cl : th[cl[n]].on # d
    BY <1>1, <1>4 DEF JobsOrdered
  <2>3. FollowOn(h, g, R, th, cl)
    BY <1>3, <1>5, <1>6, <2>1, <2>2 DEF FollowOn, Before
  <2> QED
    BY <1>2, <1>4, <2>3, MoreOrdered
<1>10. ASSUME NEW id \in DOMAIN th PROVE Placed(g, cl, id)
  <2>1. Placed(h, cl, id)
    BY DEF Ordered
  <2>2. CASE \E p \in DOMAIN h.promises : \E k \in DOMAIN h.promises[p].reactions :
                h.promises[p].reactions[k].id = id
    <3>0. PICK p \in DOMAIN h.promises : \E k \in DOMAIN h.promises[p].reactions :
             h.promises[p].reactions[k].id = id
      BY <2>2
    <3>1. PICK k \in DOMAIN h.promises[p].reactions : h.promises[p].reactions[k].id = id
      BY <3>0
    <3>2. CASE p = d
      <4>1. k \in DOMAIN R /\ R[k].id = id
        BY <3>1, <3>2 DEF R
      <4> QED
        BY <1>2, <4>1 DEF MoreNumbers, Placed
    <3>3. CASE p # d
      BY <1>3, <1>7, <3>1, <3>3 DEF Placed
    <3> QED
      BY <3>2, <3>3
  <2>3. CASE \E i \in DOMAIN h.jobs : h.jobs[i].id = id
    BY <1>2, <2>3 DEF MoreNumbers, Placed
  <2>4. CASE \E n \in DOMAIN cl : cl[n] = id
    BY <2>4 DEF Placed
  <2> QED
    BY <2>1, <2>2, <2>3, <2>4 DEF Placed
<1> QED
  BY <1>8, <1>9, <1>10 DEF Ordered

\* The order when only the pairs or the combinator change, or promises without
\* reactions are new.
LEMMA SameOrdered ==
    ASSUME NEW h, NEW g, NEW ro, NEW th, NEW cl, ThensKept(h, ro, th), Ordered(h, th, cl),
           g.jobs = h.jobs,
           \A p \in DOMAIN h.promises : p \in DOMAIN g.promises /\ Done(g, p) = Done(h, p)
                                        /\ g.promises[p].reactions = h.promises[p].reactions,
           \A p \in DOMAIN g.promises : p \in DOMAIN h.promises \/ g.promises[p].reactions = <<>>
    PROVE  Ordered(g, th, cl)
<1>1. ReactionsOrdered(h, th) /\ JobsOrdered(h, th, cl) /\ \A id \in DOMAIN th : Placed(h, cl, id)
  BY DEF Ordered
<1>2. ReactionsOrdered(g, th)
  BY <1>1 DEF ReactionsOrdered
<1>3. \A id \in DOMAIN th : Done(h, th[id].on) => Done(g, th[id].on)
  BY DEF ThensKept
<1>4. JobsOrdered(g, th, cl)
  <2>1. DOMAIN th = 1 .. Len(th)
    BY ThensDomain
  <2>2. \A i \in DOMAIN h.jobs : h.jobs[i].id # 0 => h.jobs[i].id \in DOMAIN th
    BY <1>1, <2>1 DEF JobsOrdered
  <2> QED
    BY <1>1, <1>3, <2>2 DEF JobsOrdered
<1>5. \A id \in DOMAIN th : Placed(g, cl, id)
  BY <1>1 DEF Placed
<1> QED
  BY <1>2, <1>4, <1>5 DEF Ordered

LEMMA OneMore ==
    ASSUME NEW h \in Heaps, NEW g, NEW j \in AnyJob, g.jobs = Append(h.jobs, j)
    PROVE  MoreNumbers(h, g, <<j>>)
<1>1. h.jobs \in Seq(AnyJob)
  BY DEF Heaps
<1>2. /\ DOMAIN g.jobs = 1 .. Len(h.jobs) + 1
      /\ DOMAIN h.jobs = 1 .. Len(h.jobs) /\ Len(h.jobs) \in Nat
      /\ \A i \in DOMAIN h.jobs : g.jobs[i] = h.jobs[i]
      /\ g.jobs[Len(h.jobs) + 1] = j
  BY <1>1, AppendFacts
<1>3. DOMAIN <<j>> = {1} /\ Len(<<j>>) = 1 /\ <<j>>[1] = j /\ DOMAIN <<j>> = 1 .. 1
  OBVIOUS
<1> QED
  BY <1>2, <1>3 DEF MoreNumbers

LEMMA AdoptOrdered ==
    ASSUME NEW h, NEW ro, Good(h, ro), NEW r \in DOMAIN h.pairs,
           NEW g, NEW v \in AnyValue, IsAdopt(h, g, r, v), Later(h, g),
           NEW th, NEW cl, ThensKept(h, ro, th), Ordered(h, th, cl)
    PROVE  Ordered(g, th, cl)
<1> DEFINE d == h.pairs[r].promise
           j == Job("thenable", NoFunction, FALSE, v, d, 0)
<1>1. /\ d \in DOMAIN h.promises /\ h \in Heaps
  BY DEF Good, PairsSane
<1>2. /\ g.promises = [h.promises EXCEPT ![d].adopts = v.id]
      /\ g.jobs = Append(h.jobs, j) /\ g \in Heaps
  BY DEF IsAdopt
<1>3. j \in AnyJob /\ j.id = 0
  <2>1. d \in Nat
    BY <1>1, Domains
  <2> QED
    BY <2>1, JobTypes DEF AnyJob, Job
<1>4. /\ DOMAIN g.promises = DOMAIN h.promises
      /\ \A x \in DOMAIN h.promises : g.promises[x].reactions = h.promises[x].reactions
  <2>1. h.promises[d] \in PromiseData
    BY <1>1, Domains
  <2> QED
    BY <1>1, <1>2, <2>1 DEF PromiseData
<1> HIDE DEF j, d
<1>5. MoreNumbers(h, g, <<j>>)
  BY <1>1, <1>2, <1>3, OneMore
<1>6. /\ DoneLater(h, g, th) /\ DOMAIN th = 1 .. Len(th) /\ Len(th) \in Nat
      /\ ReactionsOrdered(h, th) /\ JobsOrdered(h, th, cl)
      /\ \A id \in DOMAIN th : Placed(h, cl, id)
  BY LaterDone, ThensDomain DEF Ordered
<1>7. FollowOn(h, g, <<j>>, th, cl)
  <2>1. \A k \in DOMAIN <<j>> : <<j>>[k].id = 0
    BY <1>3
  <2> QED
    BY <1>6, <2>1 DEF FollowOn, Before
<1>8. JobsOrdered(g, th, cl)
  BY <1>5, <1>6, <1>7, MoreOrdered
<1>9. ReactionsOrdered(g, th)
  BY <1>4, <1>6 DEF ReactionsOrdered
<1>10. \A id \in DOMAIN th : Placed(g, cl, id)
  BY <1>4, <1>5, <1>6 DEF Placed, MoreNumbers
<1> QED
  BY <1>8, <1>9, <1>10 DEF Ordered

\* n is the number of a new call of then() of p, or no number.
NumberFree(h, th, cl, p, n) ==
    n # 0 => /\ n = Len(th) /\ th[n].on = p
             /\ \A k \in DOMAIN h.promises[p].reactions : h.promises[p].reactions[k].id # n
             /\ \A i \in DOMAIN h.jobs : h.jobs[i].id # n
             /\ \A m \in DOMAIN cl : cl[m] # n

LEMMA ReactionsUnchanged ==
    ASSUME NEW h, NEW g, NEW th, ReactionsOrdered(h, th), DOMAIN g.promises = DOMAIN h.promises,
           \A x \in DOMAIN h.promises : g.promises[x].reactions = h.promises[x].reactions
    PROVE  ReactionsOrdered(g, th)
BY DEF ReactionsOrdered

LEMMA ReactionsChanged ==
    ASSUME NEW h, NEW g, NEW th, ReactionsOrdered(h, th), DOMAIN g.promises = DOMAIN h.promises,
           NEW p, \A x \in DOMAIN h.promises \ {p} : g.promises[x] = h.promises[x],
           \A k \in DOMAIN g.promises[p].reactions :
                /\ g.promises[p].reactions[k].id \in 0 .. Len(th)
                /\ g.promises[p].reactions[k].id # 0 => th[g.promises[p].reactions[k].id].on = p,
           \A k, l \in DOMAIN g.promises[p].reactions :
                k < l => Before(th, g.promises[p].reactions[k].id, g.promises[p].reactions[l].id)
    PROVE  ReactionsOrdered(g, th)
<1>1. ASSUME NEW x \in DOMAIN g.promises, x # p
      PROVE  /\ \A k \in DOMAIN g.promises[x].reactions :
                   /\ g.promises[x].reactions[k].id \in 0 .. Len(th)
                   /\ g.promises[x].reactions[k].id # 0 => th[g.promises[x].reactions[k].id].on = x
             /\ \A k, l \in DOMAIN g.promises[x].reactions :
                   k < l => Before(th, g.promises[x].reactions[k].id, g.promises[x].reactions[l].id)
  BY <1>1 DEF ReactionsOrdered
<1> QED
  BY <1>1, Zenon DEF ReactionsOrdered

LEMMA ThenOrdered ==
    ASSUME NEW h \in Heaps, NEW ro, NEW p \in DOMAIN h.promises,
           NEW on \in AnyFunction \X AnyFunction, NEW t \in Nat, NEW n \in Nat,
           NEW g, IsThen(h, g, p, on, t, n), Later(h, g),
           NEW th, NEW cl, ThensKept(h, ro, th), ReactionsOrdered(h, th), JobsOrdered(h, th, cl),
           NumberFree(h, th, cl, p, n)
    PROVE  /\ ReactionsOrdered(g, th) /\ JobsOrdered(g, th, cl)
           /\ \A id : Placed(h, cl, id) \/ (id = n /\ n # 0) => Placed(g, cl, id)
<1> DEFINE s == h.promises[p]
           rd == [on |-> on, to |-> t, id |-> n]
<1>1. /\ DoneLater(h, g, th) /\ DOMAIN th = 1 .. Len(th) /\ Len(th) \in Nat
  BY LaterDone, ThensDomain
<1>2. /\ s \in PromiseData /\ s.reactions \in Seq(Reaction)
      /\ rd \in Reaction /\ rd.id = n /\ s.result \in AnyValue
      /\ n \in 0 .. Len(th) /\ (n # 0 => th[n].on = p)
  <2>1. s \in PromiseData
    BY Domains
  <2>2. s.reactions \in Seq(Reaction) /\ s.result \in AnyValue
    BY <2>1 DEF PromiseData
  <2>3. rd \in Reaction /\ rd.id = n
    BY DEF Reaction
  <2>4. n \in 0 .. Len(th) /\ (n # 0 => th[n].on = p)
    <3>1. n # 0 => n = Len(th) /\ th[n].on = p
      BY DEF NumberFree
    <3>2. n \in Nat
      OBVIOUS
    <3>3. CASE n = 0
      BY ONLY <1>1, <3>3
    <3>4. CASE n # 0
      BY ONLY <1>1, <3>1, <3>2, <3>4
    <3> QED
      BY <3>3, <3>4
  <2> QED
    BY <2>1, <2>2, <2>3, <2>4
<1>3. /\ DOMAIN g.promises = DOMAIN h.promises
      /\ \A x \in DOMAIN h.promises \ {p} : g.promises[x] = h.promises[x]
      /\ g.promises[p].state = s.state
  <2>1. g \in Heaps /\ Len(g.promises) = Len(h.promises)
    BY DEF IsThen
  <2> QED
    BY <2>1, Domains DEF IsThen
<1>4. CASE s.state = "pending"
  <2>1. g.jobs = h.jobs /\ g.promises[p].reactions = Append(s.reactions, rd)
    BY <1>4 DEF IsThen
  <2> DEFINE R == s.reactions
             Q == g.promises[p].reactions
  <2>2. /\ DOMAIN Q = 1 .. Len(R) + 1 /\ DOMAIN R = 1 .. Len(R) /\ Len(R) \in Nat
        /\ \A k \in DOMAIN R : Q[k] = R[k]
        /\ Q[Len(R) + 1].id = n
    <3>1. R \in Seq(Reaction) /\ rd \in Reaction /\ rd.id = n /\ Q = Append(R, rd)
      BY <1>2, <2>1
    <3> HIDE DEF R, Q, rd
    <3> QED
      BY ONLY <3>1, AppendFacts
  <2>3. \A k \in DOMAIN R : /\ R[k].id \in 0 .. Len(th) /\ (R[k].id # 0 => th[R[k].id].on = p)
                            /\ n # 0 => R[k].id < n
    <3>1. \A k \in DOMAIN R : R[k].id \in 0 .. Len(th) /\ (R[k].id # 0 => th[R[k].id].on = p)
      BY DEF ReactionsOrdered
    <3>2. n # 0 => n = Len(th) /\ \A k \in DOMAIN R : R[k].id # n
      BY DEF NumberFree
    <3> HIDE DEF R
    <3>3. ASSUME NEW k \in DOMAIN R, n # 0 PROVE R[k].id < n
      <4>1. R[k].id \in 0 .. Len(th) /\ R[k].id # n /\ n = Len(th)
        BY <3>1, <3>2, <3>3
      <4> QED
        BY ONLY <1>1, <4>1
    <3> QED
      BY ONLY <3>1, <3>3
  <2>4. \A k, l \in DOMAIN R : k < l => Before(th, R[k].id, R[l].id)
    BY DEF ReactionsOrdered
  <2> HIDE DEF R, Q
  <2>5. \A k \in DOMAIN Q : Q[k].id \in 0 .. Len(th) /\ (Q[k].id # 0 => th[Q[k].id].on = p)
    BY <1>2, <2>2, <2>3
  <2>6. \A k, l \in DOMAIN Q : k < l => Before(th, Q[k].id, Q[l].id)
    <3> SUFFICES ASSUME NEW k \in DOMAIN Q, NEW l \in DOMAIN Q, k < l
                 PROVE  Before(th, Q[k].id, Q[l].id)
      OBVIOUS
    <3>1. k \in DOMAIN R
      BY <2>2
    <3>2. CASE l \in DOMAIN R
      BY <2>2, <2>4, <3>1, <3>2
    <3>3. CASE l = Len(R) + 1
      BY <2>2, <2>3, <3>1, <3>3 DEF Before
    <3> QED
      BY <2>2, <3>2, <3>3
  <2>7. ReactionsOrdered(g, th)
    <3>1. /\ \A k \in DOMAIN g.promises[p].reactions :
                /\ g.promises[p].reactions[k].id \in 0 .. Len(th)
                /\ g.promises[p].reactions[k].id # 0 => th[g.promises[p].reactions[k].id].on = p
          /\ \A k, l \in DOMAIN g.promises[p].reactions :
                k < l => Before(th, g.promises[p].reactions[k].id, g.promises[p].reactions[l].id)
      BY ONLY <2>5, <2>6 DEF Q
    <3> QED
      BY ONLY <1>3, <3>1, ReactionsOrdered(h, th), ReactionsChanged
  <2>8. JobsOrdered(g, th, cl)
    BY <1>1, <2>1 DEF JobsOrdered, DoneLater
  <2>9. ASSUME NEW id, Placed(h, cl, id) \/ (id = n /\ n # 0) PROVE Placed(g, cl, id)
    <3>1. CASE id = n
      BY <1>3, <2>2, <3>1 DEF Placed, Q
    <3>2. CASE Placed(h, cl, id)
      <4>1. ASSUME NEW x \in DOMAIN h.promises, NEW k \in DOMAIN h.promises[x].reactions,
                   h.promises[x].reactions[k].id = id
            PROVE  k \in DOMAIN g.promises[x].reactions /\ g.promises[x].reactions[k].id = id
        <5>1. CASE x = p
          <6>1. k \in DOMAIN R /\ R[k].id = id
            BY <4>1, <5>1 DEF R
          <6>2. k \in DOMAIN Q /\ Q[k].id = id
            BY <2>2, <6>1
          <6> QED
            BY <5>1, <6>2 DEF Q
        <5>2. CASE x # p
          BY <1>3, <4>1, <5>2
        <5> QED
          BY <5>1, <5>2
      <4> QED
        BY <1>3, <2>1, <3>2, <4>1 DEF Placed
    <3> QED
      BY <2>9, <3>1, <3>2
  <2> QED
    BY <2>7, <2>8, <2>9
<1>5. CASE s.state # "pending"
  <2> DEFINE j == ReactionJob(rd, s.state = "rejected", s.result)
  <2>1. g.jobs = Append(h.jobs, j) /\ g.promises[p].reactions = s.reactions
    BY <1>5 DEF IsThen
  <2>2. j \in AnyJob /\ j.id = n
    BY <1>2, SettledJobType, Zenon
  <2> HIDE DEF j, rd
  <2>3. MoreNumbers(h, g, <<j>>)
    BY <2>1, <2>2, OneMore
  <2>4. FollowOn(h, g, <<j>>, th, cl)
    <3>1. \A k \in DOMAIN <<j>> : <<j>>[k].id = n
      BY <2>2
    <3>2. n # 0 => Done(g, th[n].on)
      BY <1>2, <1>3, <1>5 DEF Done
    <3>3. \A i \in DOMAIN h.jobs : n # 0 => h.jobs[i].id < n
      BY <1>1 DEF JobsOrdered, NumberFree
    <3>4. \A m \in DOMAIN cl : n # 0 => cl[m] < n
      BY <1>1 DEF JobsOrdered, NumberFree
    <3>5. \A k, l \in DOMAIN <<j>> : ~(k < l)
      OBVIOUS
    <3> QED
      BY <1>2, <3>1, <3>2, <3>3, <3>4, <3>5 DEF FollowOn, Before
  <2>5. JobsOrdered(g, th, cl)
    BY <1>1, <2>3, <2>4, MoreOrdered
  <2>6. \A x \in DOMAIN h.promises : g.promises[x].reactions = h.promises[x].reactions
    BY <1>3, <2>1
  <2>7. ReactionsOrdered(g, th)
    BY <1>3, <2>6, ReactionsUnchanged
  <2>8. ASSUME NEW id, Placed(h, cl, id) \/ (id = n /\ n # 0) PROVE Placed(g, cl, id)
    <3>1. CASE id = n
      <4>1. 1 \in DOMAIN <<j>> /\ <<j>>[1].id = n
        BY <2>2
      <4> QED
        BY <2>3, <3>1, <4>1 DEF Placed, MoreNumbers
    <3>2. CASE Placed(h, cl, id)
      BY <1>3, <2>3, <2>6, <3>2 DEF Placed, MoreNumbers
    <3> QED
      BY <2>8, <3>1, <3>2
  <2> QED
    BY <2>5, <2>7, <2>8
<1> QED
  BY <1>4, <1>5

LEMMA ThensGrow ==
    ASSUME NEW h, NEW ro, NEW th, NEW cl, ThensKept(h, ro, th), Ordered(h, th, cl),
           NEW a \in Attached, a.on \in DOMAIN h.promises, a.final => <<a.gives, a.on>> \in ro.fin
    PROVE  LET tn == Append(th, a)
           IN  /\ ThensKept(h, ro, tn) /\ ReactionsOrdered(h, tn) /\ JobsOrdered(h, tn, cl)
               /\ NumberFree(h, tn, cl, a.on, Len(th) + 1)
               /\ \A id \in DOMAIN tn : id = Len(th) + 1 \/ id \in DOMAIN th
<1> DEFINE tn == Append(th, a)
           n == Len(th) + 1
<1>1. /\ th \in Seq(Attached)
      /\ \A id \in DOMAIN th : /\ th[id].on \in DOMAIN h.promises
                               /\ th[id].final => <<th[id].gives, th[id].on>> \in ro.fin
  BY DEF ThensKept
<1>2. /\ tn \in Seq(Attached) /\ Len(tn) = n /\ DOMAIN tn = 1 .. n
      /\ DOMAIN th = 1 .. Len(th) /\ Len(th) \in Nat
      /\ \A id \in DOMAIN th : tn[id] = th[id]
      /\ tn[n] = a
  BY <1>1, AppendFacts
<1>3. ReactionsOrdered(h, th) /\ JobsOrdered(h, th, cl)
  BY DEF Ordered
<1> HIDE DEF tn
<1>4. \A id \in DOMAIN tn : id = n \/ id \in DOMAIN th
  BY <1>2
<1> HIDE DEF n
<1>5. ThensKept(h, ro, tn)
  BY <1>1, <1>2, <1>4 DEF ThensKept
<1>6. ASSUME NEW x \in 0 .. Len(th) PROVE x \in 0 .. Len(tn) /\ (x # 0 => tn[x] = th[x]) /\ x # n
  BY <1>2, <1>6 DEF n
<1>7. ASSUME NEW x \in 0 .. Len(th), NEW y \in 0 .. Len(th), Before(th, x, y) PROVE Before(tn, x, y)
  BY <1>6, <1>7 DEF Before
<1>8. \A p \in DOMAIN h.promises : \A k \in DOMAIN h.promises[p].reactions :
        /\ h.promises[p].reactions[k].id \in 0 .. Len(th)
        /\ h.promises[p].reactions[k].id # 0 => th[h.promises[p].reactions[k].id].on = p
  BY <1>3 DEF ReactionsOrdered
<1>9. ReactionsOrdered(h, tn)
  <2> SUFFICES ASSUME NEW p \in DOMAIN h.promises
               PROVE  LET R == h.promises[p].reactions IN
                      /\ \A k \in DOMAIN R : R[k].id \in 0 .. Len(tn)
                                              /\ (R[k].id # 0 => tn[R[k].id].on = p)
                      /\ \A k, l \in DOMAIN R : k < l => Before(tn, R[k].id, R[l].id)
    BY DEF ReactionsOrdered
  <2> DEFINE R == h.promises[p].reactions
  <2>1. \A k \in DOMAIN R : R[k].id \in 0 .. Len(th) /\ (R[k].id # 0 => th[R[k].id].on = p)
    BY <1>8
  <2>2. \A k, l \in DOMAIN R : k < l => Before(th, R[k].id, R[l].id)
    BY <1>3 DEF ReactionsOrdered
  <2> HIDE DEF R
  <2>3. \A k, l \in DOMAIN R : k < l => Before(tn, R[k].id, R[l].id)
    BY <1>7, <2>1, <2>2
  <2>4. \A k \in DOMAIN R : R[k].id \in 0 .. Len(tn) /\ (R[k].id # 0 => tn[R[k].id].on = p)
    BY <1>6, <2>1
  <2> QED
    BY <2>3, <2>4 DEF R
<1>10. \A i \in DOMAIN h.jobs : /\ h.jobs[i].id \in 0 .. Len(th)
                                /\ h.jobs[i].id # 0 => Done(h, th[h.jobs[i].id].on)
  BY <1>3 DEF JobsOrdered
<1>11. \A i \in DOMAIN cl : cl[i] \in DOMAIN th /\ cl[i] \in 0 .. Len(th) /\ Done(h, th[cl[i]].on)
  BY <1>2, <1>3 DEF JobsOrdered
<1>12. JobsOrdered(h, tn, cl)
  <2>1. \A i, k \in DOMAIN h.jobs : i < k => Before(tn, h.jobs[i].id, h.jobs[k].id)
    BY <1>3, <1>7, <1>10 DEF JobsOrdered
  <2>2. \A i, k \in DOMAIN cl : i < k => Before(tn, cl[i], cl[k])
    BY <1>3, <1>7, <1>11 DEF JobsOrdered
  <2>3. \A i \in DOMAIN cl, k \in DOMAIN h.jobs : Before(tn, cl[i], h.jobs[k].id)
    BY <1>3, <1>7, <1>10, <1>11 DEF JobsOrdered
  <2>4. \A i \in DOMAIN h.jobs : /\ h.jobs[i].id \in 0 .. Len(tn)
                                 /\ h.jobs[i].id # 0 => Done(h, tn[h.jobs[i].id].on)
    BY <1>6, <1>10
  <2>5. \A i \in DOMAIN cl : cl[i] \in DOMAIN tn /\ Done(h, tn[cl[i]].on)
    <3>1. \A x \in DOMAIN th : x \in DOMAIN tn
      BY <1>2 DEF n
    <3> QED
      BY <1>2, <1>11, <3>1
  <2>6. cl \in Seq(Nat)
    BY <1>3 DEF JobsOrdered
  <2> QED
    BY <2>1, <2>2, <2>3, <2>4, <2>5, <2>6 DEF JobsOrdered
<1>13. NumberFree(h, tn, cl, a.on, n)
  BY <1>2, <1>6, <1>8, <1>10, <1>11 DEF NumberFree
<1> QED
  BY <1>4, <1>5, <1>9, <1>12, <1>13 DEF tn, n

-----------------------------------------------------------------------------
(* The operations keep all of it.                                          *)

LEMMA RunFitsLater ==
    ASSUME NEW h, NEW ro, Good(h, ro), NEW g \in Heaps, NEW rn, Later(h, g), RolesGrow(h, ro, rn),
           NEW j, RunFits(h, ro, j)
    PROVE  RunFits(g, rn, j)
<1>1. /\ h \in Heaps /\ PairsSane(h, ro) /\ RolesKept(h, ro) /\ j \in AnyJob
  BY DEF Good, RunFits
<1>2. JobFits(h, ro, j) => JobFits(g, rn, j)
  BY <1>1, JobFitsLater
<1>3. ASSUME j.to \in DOMAIN h.pairs, Free(h, ro, j.to)
      PROVE  j.to \in DOMAIN g.pairs /\ Free(g, rn, j.to)
  <2> DEFINE d == h.pairs[j.to].promise
  <2>1. DOMAIN h.pairs \subseteq DOMAIN g.pairs
    BY <1>1, Domains DEF Later
  <2>2. d \in DOMAIN h.promises
    BY <1>1, <1>3 DEF PairsSane
  <2>3. ASSUME ~g.pairs[j.to].used
        PROVE  j.to # g.comb.pair /\ Ordinary(g, rn, g.pairs[j.to].promise)
    <3>1. ~h.pairs[j.to].used /\ g.pairs[j.to].promise = d /\ g.comb.pair = h.comb.pair
          /\ g.promises[d].adopts = h.promises[d].adopts
      BY <1>3, <2>3 DEF Later, CombLater
    <3>2. j.to # h.comb.pair /\ Ordinary(h, ro, d)
      BY <1>3, <3>1 DEF Free
    <3> QED
      BY <2>2, <3>1, <3>2 DEF Ordinary, RolesGrow
  <2> QED
    BY <1>3, <2>1, <2>3 DEF Free
<1> QED
  BY <1>1, <1>2, <1>3 DEF RunFits

LEMMA ThensKeptLater ==
    ASSUME NEW h \in Heaps, NEW g \in Heaps, NEW ro, NEW rn, Later(h, g), NEW th,
           ThensKept(h, ro, th), \A x : x \in ro.fin => x \in rn.fin
    PROVE  ThensKept(g, rn, th)
<1>1. DOMAIN h.promises \subseteq DOMAIN g.promises
  BY Domains DEF Later
<1> QED
  BY <1>1 DEF ThensKept

LEMMA CallSound ==
    ASSUME NEW h, NEW ro, NEW j, NEW th, NEW cl, Sound(h, ro, j, th, cl), NEW r \in DOMAIN h.pairs,
           NEW rej \in BOOLEAN, NEW v, CanCall(h, ro, r, rej, v)
    PROVE  LET g == CallResolving(h, r, rej, v)
           IN  Sound(g, ro, j, th, cl) /\ Later(h, g) /\ IsCall(h, g, r)
<1> DEFINE g == CallResolving(h, r, rej, v)
<1>1. /\ Good(h, ro) /\ RunFits(h, ro, j) /\ ThensKept(h, ro, th) /\ Ordered(h, th, cl)
      /\ h \in Heaps
  BY DEF Sound, Good
<1>2. Good(g, ro) /\ Later(h, g) /\ IsCall(h, g, r)
  BY <1>1, CallKept
<1> HIDE DEF g
<1>3. g \in Heaps /\ RolesGrow(h, ro, ro)
  BY <1>2, SameRoles DEF Good
<1>4. RunFits(g, ro, j) /\ ThensKept(g, ro, th)
  BY <1>1, <1>2, <1>3, RunFitsLater, ThensKeptLater
<1>5. Ordered(g, th, cl)
  <2>1. CASE g = h
    BY <1>1, <2>1
  <2>2. CASE ~h.pairs[r].used /\ \E x \in BOOLEAN, w \in AnyValue : IsDecide(h, g, r, x, w)
    BY <1>1, <1>2, <2>2, DecideOrdered
  <2>3. CASE \E w \in AnyValue : IsAdopt(h, g, r, w)
    BY <1>1, <1>2, <2>3, AdoptOrdered
  <2> QED
    BY <1>2, <2>1, <2>2, <2>3 DEF IsCall
<1>6. Sound(g, ro, j, th, cl)
  BY <1>2, <1>4, <1>5 DEF Sound
<1> QED
  BY <1>2, <1>6 DEF g

LEMMA ThenSound ==
    ASSUME NEW h, NEW ro, NEW j, NEW th, NEW cl, Sound(h, ro, j, th, cl),
           NEW p \in DOMAIN h.promises, NEW on \in AnyFunction \X AnyFunction, NEW t \in Nat,
           ReactionFits(h, ro, [on |-> on, to |-> t, id |-> 0], p)
    PROVE  LET g == PerformThen(h, p, on, t, 0)
           IN  Sound(g, ro, j, th, cl) /\ Later(h, g) /\ SameFaces(h, g)
<1> DEFINE g == PerformThen(h, p, on, t, 0)
<1>1. /\ Good(h, ro) /\ RunFits(h, ro, j) /\ ThensKept(h, ro, th) /\ Ordered(h, th, cl)
      /\ h \in Heaps /\ ReactionsOrdered(h, th) /\ JobsOrdered(h, th, cl)
  BY DEF Sound, Good, Ordered
<1>2. Good(g, ro) /\ Later(h, g) /\ SameFaces(h, g) /\ IsThen(h, g, p, on, t, 0)
  BY <1>1, ThenKept
<1> HIDE DEF g
<1>3. g \in Heaps /\ RolesGrow(h, ro, ro)
  BY <1>2, SameRoles DEF Good
<1>4. RunFits(g, ro, j) /\ ThensKept(g, ro, th)
  BY <1>1, <1>2, <1>3, RunFitsLater, ThensKeptLater
<1>5. NumberFree(h, th, cl, p, 0)
  BY DEF NumberFree
<1>6. /\ ReactionsOrdered(g, th) /\ JobsOrdered(g, th, cl)
      /\ \A id : Placed(h, cl, id) => Placed(g, cl, id)
  BY <1>1, <1>2, <1>5, ThenOrdered
<1>7. Sound(g, ro, j, th, cl)
  BY <1>1, <1>2, <1>4, <1>6 DEF Sound, Ordered
<1> QED
  BY <1>2, <1>7 DEF g

LEMMA CountedThenSound ==
    ASSUME NEW h, NEW ro, NEW j, NEW th, NEW cl, Sound(h, ro, j, th, cl),
           NEW a \in Attached, a.on \in DOMAIN h.promises, a.final => <<a.gives, a.on>> \in ro.fin,
           NEW on \in AnyFunction \X AnyFunction, NEW t \in Nat,
           ReactionFits(h, ro, [on |-> on, to |-> t, id |-> Len(th) + 1], a.on)
    PROVE  Sound(PerformThen(h, a.on, on, t, Len(th) + 1), ro, j, Append(th, a), cl)
<1> DEFINE tn == Append(th, a)
           n == Len(th) + 1
           p == a.on
           g == PerformThen(h, p, on, t, n)
<1>1. /\ Good(h, ro) /\ RunFits(h, ro, j) /\ ThensKept(h, ro, th) /\ Ordered(h, th, cl)
      /\ h \in Heaps
  BY DEF Sound, Good
<1>2. n \in Nat /\ n # 0
  BY <1>1, ThensDomain
<1>3. /\ ThensKept(h, ro, tn) /\ ReactionsOrdered(h, tn) /\ JobsOrdered(h, tn, cl)
      /\ NumberFree(h, tn, cl, p, n)
      /\ \A id \in DOMAIN tn : id = n \/ id \in DOMAIN th
  BY <1>1, ThensGrow
<1>4. Good(g, ro) /\ Later(h, g) /\ IsThen(h, g, p, on, t, n)
  BY <1>1, <1>2, ThenKept
<1> HIDE DEF g, tn, n, p
<1>5. g \in Heaps /\ RolesGrow(h, ro, ro) /\ p \in DOMAIN h.promises
  BY <1>4, SameRoles DEF Good, p
<1>6. RunFits(g, ro, j) /\ ThensKept(g, ro, tn)
  BY <1>1, <1>3, <1>4, <1>5, RunFitsLater, ThensKeptLater
<1>7. /\ ReactionsOrdered(g, tn) /\ JobsOrdered(g, tn, cl)
      /\ \A id : Placed(h, cl, id) \/ (id = n /\ n # 0) => Placed(g, cl, id)
  <2>1. /\ h \in Heaps /\ p \in DOMAIN h.promises /\ on \in AnyFunction \X AnyFunction
        /\ t \in Nat /\ n \in Nat /\ IsThen(h, g, p, on, t, n) /\ Later(h, g)
        /\ ThensKept(h, ro, tn) /\ ReactionsOrdered(h, tn) /\ JobsOrdered(h, tn, cl)
        /\ NumberFree(h, tn, cl, p, n)
    BY <1>1, <1>2, <1>3, <1>4, <1>5
  <2> QED
    BY ONLY <2>1, ThenOrdered
<1>8. \A id \in DOMAIN tn : Placed(g, cl, id)
  BY <1>1, <1>2, <1>3, <1>7 DEF Ordered
<1>9. Sound(g, ro, j, tn, cl)
  BY <1>4, <1>6, <1>7, <1>8 DEF Sound, Ordered
<1> QED
  BY <1>9 DEF g, tn, n, p

\* rn gives roles to the next promise at most.
NewRoles(h, ro, rn) ==
    /\ rn \in Roles
    /\ \A d, p \in Nat :
          /\ <<d, p>> \in rn.fin /\ <<d, p>> \notin ro.fin
               => d = Len(h.promises) + 1 /\ p \in DOMAIN h.promises
          /\ <<d, p>> \in rn.giv /\ <<d, p>> \notin ro.giv
               => d = Len(h.promises) + 1 /\ p \in DOMAIN h.promises
          /\ <<d, p>> \in ro.fin => <<d, p>> \in rn.fin
          /\ <<d, p>> \in ro.giv => <<d, p>> \in rn.giv

\* r is the new pair of the new promise d, and nothing is known of them.
Fresh(g, ro, r, d, known) ==
    /\ r = Len(g.pairs) /\ d = Len(g.promises)
    /\ r \in DOMAIN g.pairs /\ r # g.comb.pair /\ r # 0
    /\ d \in DOMAIN g.promises /\ d \in Nat
    /\ g.pairs[r].promise = d /\ ~g.pairs[r].used
    /\ g.promises[d] = Pending(known)
    /\ \A p \in Nat : <<d, p>> \notin ro.fin /\ <<d, p>> \notin ro.giv

LEMMA NewFresh ==
    ASSUME NEW h, NEW ro, NEW g, NEW rn, NEW known, NEW k, NewContext(h, ro, g, rn, known, k)
    PROVE  /\ Fresh(g, ro, Len(h.pairs) + 1, Len(h.promises) + 1, known)
           /\ Len(h.pairs) + 1 = Len(g.pairs) /\ Len(h.promises) + 1 = Len(g.promises)
<1> DEFINE d == Len(h.promises) + 1
           r == Len(h.pairs) + 1
<1>1. /\ RolesKept(h, ro) /\ Combined(h) /\ g.comb = h.comb
  BY DEF NewContext, Good, IsNew
<1>2. /\ Len(g.promises) = d /\ Len(g.pairs) = r
      /\ d \in DOMAIN g.promises /\ d \notin DOMAIN h.promises /\ d \in Nat
      /\ r \in DOMAIN g.pairs /\ r \notin DOMAIN h.pairs /\ r # 0
  BY DEF NewContext
<1>3. g.promises[d] = Pending(known) /\ g.pairs[r] = [promise |-> d, used |-> FALSE, known |-> k]
  BY DEF NewContext
<1>4. \A p \in Nat : <<d, p>> \notin ro.fin /\ <<d, p>> \notin ro.giv
  BY <1>1, <1>2 DEF RolesKept
<1>5. h.comb.pair = 0 \/ h.comb.pair \in DOMAIN h.pairs
  <2>1. CASE h.comb.type = "none"
    <3>1. h.comb = NoCombinator
      BY <1>1, <2>1 DEF Combined
    <3> QED
      BY ONLY <3>1 DEF NoCombinator
  <2>2. CASE h.comb.type # "none"
    BY <1>1, <2>2 DEF Combined, Combines
  <2> QED
    BY <2>1, <2>2
<1> HIDE DEF d, r
<1>6. g.pairs[r].promise = d /\ ~g.pairs[r].used
  BY ONLY <1>3
<1>7. r # g.comb.pair
  BY <1>1, <1>2, <1>5
<1>8. Fresh(g, ro, r, d, known)
  BY <1>2, <1>3, <1>4, <1>6, <1>7 DEF Fresh
<1> QED
  BY <1>2, <1>8 DEF d, r

LEMMA NewSound ==
    ASSUME NEW h, NEW ro, NEW j, NEW th, NEW cl, Sound(h, ro, j, th, cl),
           NEW known \in BOOLEAN, NEW k \in BOOLEAN, NEW rn, NewRoles(h, ro, rn), k => rn = ro
    PROVE  LET g == NewPair([h EXCEPT !.promises = Append(@, Pending(known))],
                            Len(h.promises) + 1, k)
           IN  /\ Sound(g, rn, j, th, cl) /\ Later(h, g) /\ RolesGrow(h, ro, rn)
               /\ NewContext(h, ro, g, rn, known, k)
               /\ Fresh(g, ro, Len(h.pairs) + 1, Len(h.promises) + 1, known)
<1> DEFINE g == NewPair([h EXCEPT !.promises = Append(@, Pending(known))],
                        Len(h.promises) + 1, k)
<1>1. /\ Good(h, ro) /\ RunFits(h, ro, j) /\ ThensKept(h, ro, th) /\ Ordered(h, th, cl)
      /\ h \in Heaps /\ ro \in Roles
  BY DEF Sound, Good
<1>2. rn \in Roles /\ RolesGrow(h, ro, rn)
  <2>1. \A d \in DOMAIN h.promises : d \in Nat /\ d # Len(h.promises) + 1
    BY ONLY <1>1, Domains
  <2> HIDE DEF g
  <2>2. ASSUME NEW d \in DOMAIN h.promises, NEW p \in Nat
        PROVE  /\ <<d, p>> \in rn.fin <=> <<d, p>> \in ro.fin
               /\ <<d, p>> \in rn.giv <=> <<d, p>> \in ro.giv
    BY <2>1 DEF NewRoles
  <2> QED
    BY <2>2 DEF NewRoles, RolesGrow
<1>3. \A d, p \in Nat : /\ <<d, p>> \in rn.fin /\ <<d, p>> \notin ro.fin
                               => d = Len(h.promises) + 1 /\ p \in DOMAIN h.promises
                        /\ <<d, p>> \in rn.giv /\ <<d, p>> \notin ro.giv
                               => d = Len(h.promises) + 1 /\ p \in DOMAIN h.promises
                        /\ <<d, p>> \in ro.fin => <<d, p>> \in rn.fin
                        /\ <<d, p>> \in ro.giv => <<d, p>> \in rn.giv
  BY DEF NewRoles
<1>4. /\ Good(g, rn) /\ Later(h, g) /\ IsNew(h, g, known, k)
      /\ NewContext(h, ro, g, rn, known, k)
  BY <1>1, <1>2, <1>3, NewKept
<1> HIDE DEF g
<1>5. g \in Heaps /\ \A x : x \in ro.fin => x \in rn.fin
  BY <1>1, <1>3, <1>4 DEF Good, Roles
<1>6. RunFits(g, rn, j) /\ ThensKept(g, rn, th)
  BY <1>1, <1>2, <1>4, <1>5, RunFitsLater, ThensKeptLater
<1>7. Ordered(g, th, cl)
  <2> DEFINE d == Len(h.promises) + 1
  <2>1. /\ g.jobs = h.jobs /\ g.promises[d] = Pending(known)
        /\ \A p \in DOMAIN h.promises : p \in DOMAIN g.promises /\ g.promises[p] = h.promises[p]
        /\ \A p \in DOMAIN g.promises : p \in DOMAIN h.promises \/ p = d
    BY <1>4 DEF NewContext, IsNew
  <2>2. Pending(known).reactions = <<>>
    BY DEF Pending
  <2> HIDE DEF d
  <2> QED
    BY <1>1, <2>1, <2>2, SameOrdered DEF Done
<1>8. Sound(g, rn, j, th, cl)
  BY <1>4, <1>6, <1>7 DEF Sound
<1>9. Fresh(g, ro, Len(h.pairs) + 1, Len(h.promises) + 1, known)
  BY <1>4, NewFresh
<1> QED
  BY <1>2, <1>4, <1>8, <1>9 DEF g

\* A new promise without a role.
LEMMA PlainSound ==
    ASSUME NEW h, NEW ro, NEW j, NEW th, NEW cl, Sound(h, ro, j, th, cl), NEW known \in BOOLEAN
    PROVE  LET g == NewPromise(h, known)
           IN  /\ Sound(g, ro, j, th, cl) /\ Later(h, g)
               /\ NewContext(h, ro, g, ro, known, FALSE)
               /\ Fresh(g, ro, Len(g.pairs), Len(g.promises), known)
<1> DEFINE g == NewPair([h EXCEPT !.promises = Append(@, Pending(known))], Len(h.promises) + 1, FALSE)
<1>1. NewRoles(h, ro, ro)
  BY DEF NewRoles, Sound, Good
<1>2. /\ Sound(g, ro, j, th, cl) /\ Later(h, g) /\ NewContext(h, ro, g, ro, known, FALSE)
      /\ Fresh(g, ro, Len(h.pairs) + 1, Len(h.promises) + 1, known)
  BY <1>1, NewSound
<1>3. NewPromise(h, known) = g
  BY DEF NewPromise
<1> HIDE DEF g
<1>4. Len(h.pairs) + 1 = Len(g.pairs) /\ Len(h.promises) + 1 = Len(g.promises)
  BY <1>2 DEF Fresh
<1> QED
  BY <1>2, <1>3, <1>4

LEMMA FreshFree ==
    ASSUME NEW g, NEW ro, NEW r, NEW d, NEW known, Fresh(g, ro, r, d, known)
    PROVE  Free(g, ro, r)
<1>1. g.promises[d].adopts = 0
  BY DEF Fresh, Pending
<1> QED
  BY <1>1 DEF Fresh, Free, Ordinary

\* Anybody may call the functions of a free pair.
LEMMA FreeCall ==
    ASSUME NEW h, NEW ro, NEW r, Free(h, ro, r), NEW rej \in BOOLEAN, NEW v, Exists(h, v),
           v.is = "thenable" => v = Thenable /\ ~rej
    PROVE  CanCall(h, ro, r, rej, v)
BY DEF CanCall, Free, Ordinary

-----------------------------------------------------------------------------
(* The functions of a combinator for its elements.                         *)

\* The outcome of element i, a rejection or not, is collected.
IsCollect(h, n, i, rej, v) ==
    /\ n \in Heaps
    /\ n.promises = h.promises /\ n.pairs = h.pairs /\ n.jobs = h.jobs
    /\ n.comb.type = h.comb.type /\ n.comb.elems = h.comb.elems /\ n.comb.pair = h.comb.pair
    /\ n.comb.loop = h.comb.loop /\ n.comb.given = h.comb.given
    /\ n.comb.called = h.comb.called \cup {<<i, rej>>}
    /\ DOMAIN n.comb.values = DOMAIN h.comb.values
    /\ n.comb.values[i] = [rej |-> rej, val |-> v]
    /\ \A k \in DOMAIN h.comb.values \ {i} : n.comb.values[k] = h.comb.values[k]
    /\ n.comb.remaining = h.comb.remaining - 1

\* What is known then.
MayCollect(h, i, rej, v) ==
    /\ h.comb.type # "none" /\ i \in DOMAIN h.comb.elems /\ rej \in BOOLEAN
    /\ v \in AnyValue
    /\ Collects(h.comb.type, rej)
    /\ Outcome(h, i, rej, v)

LEMMA CollectIs ==
    ASSUME NEW h \in Heaps, NEW i \in DOMAIN h.comb.values, i \in Nat, NEW rej \in BOOLEAN,
           NEW v \in AnyValue
    PROVE  IsCollect(h, [h EXCEPT !.comb = [h.comb EXCEPT !.called = @ \cup {<<i, rej>>},
                                                          !.values[i] = [rej |-> rej, val |-> v],
                                                          !.remaining = @ - 1]], i, rej, v)
<1> DEFINE V == [rej : BOOLEAN, val : AnyValue]
           b == h.comb
           w == [b.values EXCEPT ![i] = [rej |-> rej, val |-> v]]
           c == [b EXCEPT !.called = @ \cup {<<i, rej>>},
                          !.values[i] = [rej |-> rej, val |-> v],
                          !.remaining = @ - 1]
           C == AnyComb
           n == [h EXCEPT !.comb = c]
<1>1. b \in C /\ b.values \in Seq(V) /\ i \in DOMAIN b.values /\ [rej |-> rej, val |-> v] \in V
  BY DEF Heaps, AnyComb
<1>2. /\ w \in Seq(V) /\ Len(w) = Len(b.values)
      /\ \A k \in DOMAIN b.values \ {i} : w[k] = b.values[k]
      /\ w[i] = [rej |-> rej, val |-> v]
  <2> HIDE DEF V
  <2> QED
    BY ONLY <1>1, SeqExcept
<1>3. /\ c.type = b.type /\ c.elems = b.elems /\ c.pair = b.pair
      /\ c.loop = b.loop /\ c.given = b.given
      /\ c.called = b.called \cup {<<i, rej>>} /\ c.values = w
      /\ c.remaining = b.remaining - 1
  BY <1>1 DEF AnyComb
<1>4. c \in C
  <2>2. b.called \cup {<<i, rej>>} \in SUBSET (Nat \X BOOLEAN)
    BY <1>1 DEF AnyComb
  <2>3. b.remaining - 1 \in Int
    BY <1>1 DEF AnyComb
  <2> DEFINE c1 == [b EXCEPT !.called = @ \cup {<<i, rej>>}]
             c2 == [c1 EXCEPT !.values = w]
             c3 == [c2 EXCEPT !.remaining = b.remaining - 1]
  <2>4. c = c3
    BY <1>1 DEF AnyComb
  <2> HIDE DEF V, w
  <2>5. c1 \in C
    BY <1>1, <2>2 DEF AnyComb
  <2> HIDE DEF c1
  <2>6. c2 \in C
    BY <1>2, <2>5 DEF AnyComb, V
  <2> HIDE DEF c2
  <2>7. c3 \in C
    BY <2>3, <2>6 DEF AnyComb
  <2> QED
    BY <2>4, <2>7
<1>5. /\ n.promises = h.promises /\ n.pairs = h.pairs /\ n.jobs = h.jobs /\ n.comb = c
      /\ n \in Heaps
  <2> HIDE DEF c
  <2> QED
    BY <1>4 DEF Heaps
<1>6. DOMAIN w = DOMAIN b.values
  OBVIOUS
<1> HIDE DEF c, w, n
<1>7. IsCollect(h, n, i, rej, v)
  BY <1>2, <1>3, <1>5, <1>6 DEF IsCollect, b
<1> QED
  BY <1>7 DEF n, c, b

\* What is not collected can be counted.
LEMMA MissingFinite ==
    ASSUME NEW c \in AnyComb
    PROVE  IsFiniteSet(Missing(c)) /\ Cardinality(Missing(c)) \in Nat
<1>1. DOMAIN c.elems = 1 .. Len(c.elems) /\ Len(c.elems) \in Nat
  BY DEF AnyComb
<1>2. IsFiniteSet(DOMAIN c.elems)
  BY <1>1, FS_Interval
<1>3. IsFiniteSet(Missing(c))
  BY <1>2, FS_Subset DEF Missing
<1> QED
  BY <1>3, FS_CardinalityType

LEMMA CollectCounted ==
    ASSUME NEW h \in Heaps, Counted(h.comb), NEW i, NEW rej, NEW v, MayCollect(h, i, rej, v),
           <<i, rej>> \notin h.comb.called, NEW n, IsCollect(h, n, i, rej, v)
    PROVE  Counted(n.comb)
<1> DEFINE c == n.comb
           b == h.comb
<1>1. /\ c.type = b.type /\ c.elems = b.elems /\ c.loop = b.loop
      /\ c.called = b.called \cup {<<i, rej>>}
      /\ DOMAIN c.values = DOMAIN b.values
      /\ c.remaining = b.remaining - 1
      /\ i \in DOMAIN b.elems /\ rej \in BOOLEAN /\ Collects(b.type, rej)
      /\ b \in AnyComb
  BY DEF IsCollect, MayCollect, Heaps
<1>2. <<i, rej>> \notin b.called
  OBVIOUS
<1>3. /\ b.loop \in {"on", "done", "failed"} /\ DOMAIN b.values = DOMAIN b.elems
      /\ \A x \in Nat, s \in BOOLEAN : <<x, s>> \in b.called =>
            x \in DOMAIN b.elems /\ Collects(b.type, s)
      /\ b.type # "race" /\ ~Both(b) => b.remaining = Loop(b) + Cardinality(Missing(b))
  BY DEF Counted
<1> HIDE DEF b, c
<1>4. ASSUME c.type # "race", ~Both(c)
      PROVE  c.remaining = Loop(c) + Cardinality(Missing(c))
  <2>1. ~Both(b)
    BY <1>1, <1>4 DEF Both
  <2>2. <<i, ~rej>> \notin b.called
    BY <1>1, <1>4 DEF Both
  <2>3. \A s \in BOOLEAN : s = rej \/ s = ~rej
    BY <1>1
  <2>4. i \in Missing(b)
    BY <1>1, <1>2, <2>2, <2>3 DEF Missing
  <2>5. Missing(c) = Missing(b) \ {i}
    BY <1>1 DEF Missing
  <2>6. Cardinality(Missing(c)) = Cardinality(Missing(b)) - 1
    BY <1>1, <2>4, <2>5, MissingFinite, FS_RemoveElement
  <2>7. b.remaining = Loop(b) + Cardinality(Missing(b)) /\ Cardinality(Missing(b)) \in Nat
    BY <1>1, <1>3, <1>4, <2>1, MissingFinite
  <2>8. Loop(c) = Loop(b) /\ Loop(b) \in Int
    BY <1>1 DEF Loop
  <2>9. c.remaining = b.remaining - 1
    BY <1>1
  <2> QED
    BY ONLY <2>6, <2>7, <2>8, <2>9
<1> QED
  BY <1>1, <1>3, <1>4 DEF Counted, c

LEMMA CollectCombined ==
    ASSUME NEW h, NEW ro, Good(h, ro), NEW i, NEW rej, NEW v, MayCollect(h, i, rej, v),
           <<i, rej>> \notin h.comb.called, NEW n, IsCollect(h, n, i, rej, v)
    PROVE  Combined(n) /\ CombLater(h.comb, n.comb)
<1> DEFINE c == n.comb
           b == h.comb
           p == h.pairs[b.pair].promise
<1>1. /\ h \in Heaps /\ n \in Heaps /\ b.type # "none"
      /\ rej \in BOOLEAN /\ i \in DOMAIN b.elems /\ Outcome(h, i, rej, v)
      /\ Counted(b) /\ Recorded(h) /\ Combines(h)
  BY DEF Good, MayCollect, IsCollect, Combined
<1>2. /\ n.promises = h.promises /\ n.pairs = h.pairs
      /\ c.type = b.type /\ c.elems = b.elems /\ c.pair = b.pair
      /\ c.loop = b.loop /\ c.given = b.given
      /\ c.called = b.called \cup {<<i, rej>>}
      /\ c.values[i] = [rej |-> rej, val |-> v]
      /\ \A k \in DOMAIN b.values \ {i} : c.values[k] = b.values[k]
  BY DEF IsCollect
<1>3. CombLater(b, c)
  BY <1>2 DEF CombLater
<1>4. Later(h, n)
  BY <1>1, <1>2, <1>3, Domains DEF Later
<1>5. Counted(c)
  BY <1>1, CollectCounted
<1>6. \A x, w : \A s \in BOOLEAN : Outcome(h, x, s, w) => Outcome(n, x, s, w)
  BY <1>1, <1>4, ElementLater
<1>7. \A s \in BOOLEAN : \A w : MayBecome(h, s, w) => MayBecome(n, s, w)
  BY <1>1, <1>4, MayBecomeLater
<1>8. Recorded(n)
  <2>1. \A x \in DOMAIN c.elems : c.elems[x] = 0 \/ c.elems[x] \in DOMAIN n.promises
    BY <1>1, <1>2 DEF Recorded
  <2>2. ASSUME NEW x \in Nat, NEW s \in BOOLEAN, <<x, s>> \in c.called, <<x, ~s>> \notin c.called
        PROVE  Outcome(n, x, s, c.values[x].val) /\ c.values[x].rej = s
    <3>1. CASE x = i
      <4>1. s = rej
        BY <1>1, <1>2, <2>2, <3>1
      <4>2. c.values[i].val = v /\ c.values[i].rej = rej
        BY <1>2
      <4> QED
        BY <1>1, <1>6, <3>1, <4>1, <4>2
    <3>2. CASE x # i
      <4>1. <<x, s>> \in b.called /\ <<x, ~s>> \notin b.called
        BY <1>2, <2>2, <3>2
      <4>2. Outcome(h, x, s, b.values[x].val) /\ b.values[x].rej = s
        BY <1>1, <4>1 DEF Recorded
      <4>3. x \in DOMAIN b.values
        BY <1>1, <4>1 DEF Counted
      <4>4. c.values[x] = b.values[x]
        BY <1>2, <3>2, <4>3
      <4> QED
        BY <1>6, <4>2, <4>4
    <3> QED
      BY <3>1, <3>2
  <2> QED
    BY <2>1, <2>2 DEF Recorded
<1>9. Combines(n)
  BY <1>1, <1>2, <1>7 DEF Combines, Done
<1>10. Combined(n)
  BY <1>1, <1>2, <1>5, <1>8, <1>9 DEF Combined
<1> QED
  BY <1>3, <1>10

\* Only the data of the combinator changes.
OnlyComb(h, n) ==
    /\ n \in Heaps
    /\ n.promises = h.promises /\ n.pairs = h.pairs /\ n.jobs = h.jobs
    /\ CombLater(h.comb, n.comb)

LEMMA CombSound ==
    ASSUME NEW h, NEW ro, NEW j, NEW th, NEW cl, Sound(h, ro, j, th, cl),
           NEW n, OnlyComb(h, n), Combined(n)
    PROVE  Sound(n, ro, j, th, cl) /\ Later(h, n)
<1>1. /\ Good(h, ro) /\ RunFits(h, ro, j) /\ ThensKept(h, ro, th) /\ Ordered(h, th, cl)
      /\ h \in Heaps /\ ro \in Roles /\ Tracked(h) /\ PairsSane(h, ro) /\ Alone(h) /\ HasDecider(h)
      /\ Adopted(h) /\ RolesKept(h, ro) /\ ReactionsFit(h, ro) /\ JobsFit(h, ro)
  BY DEF Sound, Good
<1>2. /\ n.promises = h.promises /\ n.pairs = h.pairs /\ n.jobs = h.jobs
      /\ n.comb.pair = h.comb.pair /\ n \in Heaps
  BY DEF OnlyComb, CombLater
<1>3. Combined(n) /\ Later(h, n) /\ RolesGrow(h, ro, ro)
  BY <1>1, SameRoles, Domains DEF Later, OnlyComb
<1>4. Tracked(n) /\ Alone(n) /\ HasDecider(n) /\ Adopted(n) /\ RolesKept(n, ro)
  <2>1. \A s : Sane(h, s) => Sane(n, s)
    BY <1>2 DEF Sane, Exists
  <2>2. Tracked(n)
    BY <1>1, <1>2, <2>1 DEF Tracked
  <2>3. Alone(n)
    BY <1>1, <1>2 DEF Alone
  <2>4. HasDecider(n)
    BY <1>1, <1>2 DEF HasDecider, Done
  <2>5. Adopted(n)
    BY <1>1, <1>2 DEF Adopted, Done
  <2>6. RolesKept(n, ro)
    <3>1. \A p, v1 : HasOutcome(n, p, FALSE, v1) <=> HasOutcome(h, p, FALSE, v1)
      BY <1>2 DEF HasOutcome
    <3> QED
      BY ONLY <1>1, <1>2, <3>1 DEF RolesKept
  <2> QED
    BY <2>2, <2>3, <2>4, <2>5, <2>6
<1>5. PairsSane(n, ro)
  BY <1>1, <1>2 DEF PairsSane, Free, Ordinary, Done
<1>6. ReactionsFit(n, ro)
  <2> SUFFICES ASSUME NEW x \in DOMAIN h.promises, NEW k \in DOMAIN h.promises[x].reactions
               PROVE  ReactionFits(n, ro, h.promises[x].reactions[k], x)
    BY <1>2 DEF ReactionsFit
  <2>1. ReactionFits(h, ro, h.promises[x].reactions[k], x) /\ h.promises[x].reactions[k] \in Reaction
    BY <1>1, Domains DEF ReactionsFit
  <2> QED
    BY <1>1, <1>2, <1>3, <2>1, ReactionFitsLater
<1>7. JobsFit(n, ro)
  <2> SUFFICES ASSUME NEW x \in DOMAIN h.jobs
               PROVE  \/ h.jobs[x].is = "reaction" /\ JobFits(n, ro, h.jobs[x])
                      \/ h.jobs[x].is = "thenable" /\ ThenableSane(n, ro, h.jobs[x])
    BY <1>2 DEF JobsFit
  <2>1. h.jobs[x] \in AnyJob
    BY <1>1, Domains
  <2>2. ThenableSane(h, ro, h.jobs[x]) => ThenableSane(n, ro, h.jobs[x])
    BY <1>2 DEF ThenableSane, Exists, Done, Ordinary
  <2>3. JobFits(h, ro, h.jobs[x]) => JobFits(n, ro, h.jobs[x])
    BY <1>1, <1>2, <1>3, <2>1, JobFitsLater
  <2> QED
    BY <1>1, <2>2, <2>3 DEF JobsFit
<1>8. Good(n, ro)
  BY <1>1, <1>2, <1>3, <1>4, <1>5, <1>6, <1>7 DEF Good
<1>9. RunFits(n, ro, j) /\ ThensKept(n, ro, th)
  BY <1>1, <1>2, <1>3, RunFitsLater, ThensKeptLater
<1>10. Ordered(n, th, cl)
  BY <1>1, <1>2, SameOrdered DEF Done
<1> QED
  BY <1>3, <1>8, <1>9, <1>10 DEF Sound

LEMMA CollectSound ==
    ASSUME NEW h, NEW ro, NEW j, NEW th, NEW cl, Sound(h, ro, j, th, cl),
           NEW i, NEW rej, NEW v, MayCollect(h, i, rej, v),
           <<i, rej>> \notin h.comb.called, NEW n, IsCollect(h, n, i, rej, v)
    PROVE  Sound(n, ro, j, th, cl)
<1>1. Good(h, ro)
  BY DEF Sound
<1>2. Combined(n) /\ CombLater(h.comb, n.comb)
  BY <1>1, CollectCombined
<1>3. OnlyComb(h, n)
  BY <1>2 DEF OnlyComb, IsCollect
<1> QED
  BY <1>2, <1>3, CombSound

\* When nothing is left to collect, the promise of the combinator may be
\* settled with the list.
LEMMA AllCollected ==
    ASSUME NEW h, NEW ro, Good(h, ro), h.comb.type \notin {"none", "race"}, h.comb.remaining = 0
    PROVE  /\ h.comb.pair \in DOMAIN h.pairs
           /\ CanCall(h, ro, h.comb.pair, h.comb.type = "any", List)
<1> DEFINE c == h.comb
           b == c.type = "any"
           d == h.pairs[c.pair].promise
<1>1. /\ PairsSane(h, ro) /\ h \in Heaps /\ c \in AnyComb
      /\ c.type \in {"all", "allSettled", "any"}
      /\ Counted(c) /\ Combines(h)
  <2>1. c \in AnyComb /\ c.type \in {"none", "all", "allSettled", "any", "race"}
    BY DEF Good, Heaps, AnyComb
  <2> QED
    BY <2>1 DEF Good, Combined
<1>2. /\ c.pair \in DOMAIN h.pairs
      /\ h.promises[d].adopts = 0
  BY <1>1, Zenon DEF Combines
<1>3. \A p \in Nat : <<d, p>> \notin ro.fin /\ <<d, p>> \notin ro.giv
  BY <1>1, <1>2 DEF PairsSane
<1>4. ASSUME ~Both(c)
      PROVE  c.loop = "done" /\ Missing(c) = {}
  <2>1. Cardinality(Missing(c)) \in Nat /\ IsFiniteSet(Missing(c))
    BY <1>1, MissingFinite
  <2>2. 0 = Loop(c) + Cardinality(Missing(c))
    BY <1>1, <1>4 DEF Counted
  <2>3. Loop(c) \in {0, 1} /\ (c.loop # "done" => Loop(c) = 1)
    BY DEF Loop
  <2>4. Loop(c) = 0 /\ Cardinality(Missing(c)) = 0
    BY ONLY <2>1, <2>2, <2>3
  <2> QED
    BY <2>1, <2>3, <2>4, FS_EmptySet
<1>5. ASSUME ~Both(c), NEW x \in DOMAIN c.elems
      PROVE  \E s \in BOOLEAN : <<x, s>> \in c.called /\ Collects(c.type, s)
  <2>1. x \in Nat
    BY <1>1 DEF AnyComb
  <2>2. PICK s \in BOOLEAN : <<x, s>> \in c.called
    BY <1>4, <1>5 DEF Missing
  <2> QED
    BY <1>1, <2>1, <2>2 DEF Counted
<1>6. /\ c.type = "all" => AllAre(h, {FALSE})
      /\ c.type = "any" => AllAre(h, {TRUE})
      /\ c.type = "allSettled" => AllAre(h, BOOLEAN)
  BY <1>4, <1>5 DEF AllAre, Collects
<1>7. List \in AnyValue /\ List.is = "list"
  BY JobTypes DEF List
<1>8. b \in BOOLEAN /\ (b <=> c.type = "any")
  OBVIOUS
<1>9. MayBecome(h, b, List)
  <2>1. CASE c.type = "any"
    BY <1>6, <2>1 DEF MayBecome
  <2>2. CASE c.type # "any"
    BY <1>1, <1>6, <2>2 DEF MayBecome
  <2> QED
    BY <2>1, <2>2
<1> HIDE DEF b, c, d
<1>10. CanCall(h, ro, c.pair, b, List)
  BY <1>2, <1>3, <1>7, <1>9 DEF CanCall, Exists, d
<1> QED
  BY <1>2, <1>10 DEF b, c

LEMMA ElementSound ==
    ASSUME NEW h, NEW ro, NEW j, NEW th, NEW cl, Sound(h, ro, j, th, cl),
           NEW i, NEW rej, NEW v, MayCollect(h, i, rej, v)
    PROVE  Sound(CallElement(h, i, rej, v), ro, j, th, cl)
<1> DEFINE c == [h.comb EXCEPT !.called = @ \cup {<<i, rej>>},
                               !.values[i] = [rej |-> rej, val |-> v],
                               !.remaining = @ - 1]
           n == [h EXCEPT !.comb = c]
           b == c.type = "any"
<1>1. CASE <<i, rej>> \in h.comb.called
  BY <1>1 DEF CallElement
<1>2. CASE <<i, rej>> \notin h.comb.called
  <2>1. /\ h \in Heaps /\ h.comb.type # "none" /\ i \in DOMAIN h.comb.elems /\ rej \in BOOLEAN
        /\ v \in AnyValue /\ Collects(h.comb.type, rej) /\ Combined(h)
    BY DEF Sound, Good, MayCollect
  <2>2. i \in DOMAIN h.comb.values /\ i \in Nat
    <3>1. DOMAIN h.comb.values = DOMAIN h.comb.elems
      BY <2>1 DEF Combined, Counted
    <3>2. DOMAIN h.comb.elems = 1 .. Len(h.comb.elems)
      BY <2>1 DEF Heaps, AnyComb
    <3> QED
      BY <2>1, <3>1, <3>2
  <2>3. IsCollect(h, n, i, rej, v)
    BY <2>1, <2>2, CollectIs
  <2>4. n.comb = c
    BY <2>1 DEF Heaps
  <2>5. CallElement(h, i, rej, v) = IF c.remaining = 0 THEN CallResolving(n, c.pair, b, List) ELSE n
    BY <1>2 DEF CallElement
  <2> HIDE DEF c, n
  <2>6. Sound(n, ro, j, th, cl)
    BY <1>2, <2>3, CollectSound
  <2>7. CASE c.remaining = 0
    <3>1. c.type \notin {"none", "race"}
      BY <2>1, <2>3, <2>4 DEF IsCollect, Collects
    <3>2. Good(n, ro)
      BY <2>6 DEF Sound
    <3>3. c.pair \in DOMAIN n.pairs /\ CanCall(n, ro, c.pair, b, List)
      BY <2>4, <2>7, <3>1, <3>2, AllCollected
    <3>4. b \in BOOLEAN
      OBVIOUS
    <3> HIDE DEF b
    <3>5. Sound(CallResolving(n, c.pair, b, List), ro, j, th, cl)
      BY <2>6, <3>3, <3>4, CallSound
    <3> QED
      BY <2>5, <2>7, <3>5
  <2>8. CASE c.remaining # 0
    BY <2>5, <2>6, <2>8
  <2> QED
    BY <2>7, <2>8
<1> QED
  BY <1>1, <1>2

LEMMA LaterAgain ==
    ASSUME NEW h, NEW ro, Good(h, ro), NEW g \in Heaps, NEW e \in Heaps, Later(h, g), Later(g, e)
    PROVE  Later(h, e)
<1>1. /\ h \in Heaps /\ PairsSane(h, ro)
  BY DEF Good
<1>2. DOMAIN h.promises \subseteq DOMAIN g.promises /\ DOMAIN h.pairs \subseteq DOMAIN g.pairs
  BY <1>1, Domains DEF Later
<1>3. Len(h.promises) <= Len(e.promises) /\ Len(h.pairs) <= Len(e.pairs)
  BY <1>1, Domains DEF Later
<1>4. \A p \in DOMAIN h.promises : Done(h, p) =>
          /\ e.promises[p].state = h.promises[p].state
          /\ e.promises[p].result = h.promises[p].result
  BY <1>2 DEF Later, Done
<1>5. ASSUME NEW r \in DOMAIN h.pairs
      PROVE  /\ e.pairs[r].promise = h.pairs[r].promise
             /\ h.pairs[r].used => e.pairs[r].used
             /\ ~e.pairs[r].used => e.promises[h.pairs[r].promise].adopts
                                      = h.promises[h.pairs[r].promise].adopts
  <2>1. /\ r \in DOMAIN g.pairs
        /\ g.pairs[r].promise = h.pairs[r].promise
        /\ h.pairs[r].used => g.pairs[r].used
        /\ ~g.pairs[r].used => g.promises[h.pairs[r].promise].adopts
                                 = h.promises[h.pairs[r].promise].adopts
    BY <1>2 DEF Later
  <2>2. /\ e.pairs[r].promise = g.pairs[r].promise
        /\ g.pairs[r].used => e.pairs[r].used
        /\ ~e.pairs[r].used => e.promises[g.pairs[r].promise].adopts
                                 = g.promises[g.pairs[r].promise].adopts
    BY <2>1 DEF Later
  <2> QED
    BY <2>1, <2>2
<1>6. CombLater(h.comb, e.comb)
  BY DEF Later, CombLater
<1> QED
  BY <1>3, <1>4, <1>5, <1>6 DEF Later

-----------------------------------------------------------------------------
(* The end of a reaction.                                                  *)

LEMMA IdleSound ==
    ASSUME NEW h, NEW ro, NEW j, NEW th, NEW cl, Sound(h, ro, j, th, cl)
    PROVE  Sound(h, ro, NoJob, th, cl)
<1>1. NoJob \in AnyJob /\ NoJob.is = "none"
  BY JobTypes DEF NoJob, Job, AnyJob
<1>2. RunFits(h, ro, NoJob)
  BY <1>1 DEF RunFits
<1> QED
  BY <1>2 DEF Sound

LEMMA ResolvedSound ==
    ASSUME NEW h, NEW ro, NEW j, NEW th, NEW cl, Sound(h, ro, j, th, cl),
           NEW v, Exists(h, v), v.is = "thenable" => v = Thenable
    PROVE  LET r == ResolvedPromise(h, v)
           IN  /\ Sound(r.heap, ro, j, th, cl) /\ Later(h, r.heap)
               /\ r.p \in DOMAIN r.heap.promises /\ r.heap.comb = h.comb
<1> DEFINE r == ResolvedPromise(h, v)
<1>0. h \in Heaps /\ Later(h, h)
  BY Domains, SameComb DEF Sound, Good, Later
<1>1. CASE v.is = "promise"
  <2>1. r.heap = h /\ r.p = v.id
    BY <1>1 DEF ResolvedPromise
  <2> HIDE DEF r
  <2> QED
    BY <1>0, <1>1, <2>1 DEF Exists, r
<1>2. CASE v.is # "promise"
  <2> DEFINE n == NewPromise(h, FALSE)
             g == CallResolving(n, Len(n.pairs), FALSE, v)
  <2>1. r.heap = g /\ r.p = Len(n.promises)
    BY <1>2 DEF ResolvedPromise
  <2>2. Sound(n, ro, j, th, cl) /\ Later(h, n) /\ Fresh(n, ro, Len(n.pairs), Len(n.promises), FALSE)
    BY PlainSound
  <2> HIDE DEF n, r
  <2>3. n \in Heaps
    BY <2>2 DEF Sound, Good
  <2>4. Free(n, ro, Len(n.pairs)) /\ Len(n.pairs) \in DOMAIN n.pairs
        /\ Len(n.promises) \in DOMAIN n.promises
    BY <2>2, FreshFree DEF Fresh
  <2>5. Exists(n, v)
    BY <1>0, <2>2, <2>3, ExistsLater
  <2>6. CanCall(n, ro, Len(n.pairs), FALSE, v)
    BY <2>4, <2>5, FreeCall
  <2>7. Sound(g, ro, j, th, cl) /\ Later(n, g) /\ IsCall(n, g, Len(n.pairs))
    BY <2>2, <2>4, <2>6, CallSound
  <2> HIDE DEF g
  <2>8. g \in Heaps
    BY <2>7 DEF Sound, Good
  <2>9. Len(n.promises) \in DOMAIN g.promises
    BY <2>3, <2>4, <2>7, <2>8, Domains DEF Later
  <2>10. Later(h, g)
    BY <1>0, <2>2, <2>3, <2>7, <2>8, LaterAgain DEF Sound, Good
  <2>11. n.comb = h.comb
    <3>1. NewContext(h, ro, n, ro, FALSE, FALSE)
      BY PlainSound DEF n
    <3> QED
      BY <3>1 DEF NewContext, IsNew
  <2>12. g.comb = n.comb
    BY <2>7 DEF IsCall, IsDecide, IsAdopt
  <2> QED
    BY <2>1, <2>7, <2>9, <2>10, <2>11, <2>12 DEF r
<1> QED
  BY <1>1, <1>2

LEMMA EndSound ==
    ASSUME NEW h, NEW ro, NEW j, NEW th, NEW cl, Sound(h, ro, j, th, cl),
           NEW t \in 0 .. Len(h.pairs), NEW rej \in BOOLEAN, NEW v,
           t # 0 => CanCall(h, ro, t, rej, v)
    PROVE  Sound(EndReaction(h, t, rej, v), ro, j, th, cl)
<1>1. CASE t = 0
  BY <1>1 DEF EndReaction
<1>2. CASE t # 0
  <2>1. t \in DOMAIN h.pairs
    <3>1. h \in Heaps
      BY DEF Sound, Good
    <3> QED
      BY <1>2, <3>1, Domains
  <2> DEFINE g == CallResolving(h, t, rej, v)
  <2>2. Sound(g, ro, j, th, cl)
    BY <1>2, <2>1, CallSound
  <2>3. EndReaction(h, t, rej, v) = g
    BY <1>2 DEF EndReaction
  <2> HIDE DEF g
  <2> QED
    BY <2>2, <2>3
<1> QED
  BY <1>1, <1>2

\* Which outcomes a pair without a special task takes.
LEMMA TakesValue ==
    ASSUME NEW h, NEW ro, NEW f, NEW s, NEW t, NEW q, Yields(h, ro, f, s, t, q),
           NEW rej \in BOOLEAN, NEW v, Exists(h, v), v.is # "thenable",
           f.is # "finally" \/ rej,
           \/ f.is \notin {"none", "give"}
           \/ f.is = "none" /\ (s => rej)
           \/ f.is = "give" /\ rej = f.rej /\ v = f.val
    PROVE  CanCall(h, ro, t, rej, v)
<1> DEFINE d == h.pairs[t].promise
<1>1. /\ t # h.comb.pair
      /\ h.promises[d].adopts = 0
      /\ \A p \in Nat : <<d, p>> \in ro.fin => f.is = "finally"
      /\ \A p \in Nat : <<d, p>> \in ro.giv =>
            \/ f.is = "none" /\ s
            \/ f.is = "give" /\ (f.rej \/ HasOutcome(h, p, FALSE, f.val))
  BY DEF Yields
<1>2. \A p \in Nat : <<d, p>> \in ro.giv => rej \/ HasOutcome(h, p, FALSE, v)
  BY <1>1
<1> QED
  BY <1>1, <1>2 DEF CanCall

\* The outcome that a function of a pair passes on is what the pair waits for.
LEMMA PassedOn ==
    ASSUME NEW h, NEW ro, Good(h, ro), NEW f, NEW rej \in BOOLEAN, NEW q \in DOMAIN h.promises,
           NEW v, HasOutcome(h, q, rej, v), f.of \in DOMAIN h.pairs,
           ~h.pairs[f.of].used => Passes(h, f, rej, q)
    PROVE  CanCall(h, ro, f.of, rej, v)
<1> SUFFICES ASSUME ~h.pairs[f.of].used PROVE CanCall(h, ro, f.of, rej, v)
  BY DEF CanCall
<1> DEFINE r == f.of
           d == h.pairs[r].promise
           a == h.promises[d].adopts
<1>1. /\ h \in Heaps /\ Tracked(h) /\ PairsSane(h, ro) /\ RolesKept(h, ro) /\ Combined(h)
      /\ Passes(h, f, rej, q) /\ r \in DOMAIN h.pairs
  BY DEF Good
<1>2. Sane(h, h.promises[q])
  BY <1>1 DEF Tracked
<1>3. Exists(h, v) /\ v.is # "thenable" /\ (rej \/ v.is \in {"plain", "list"})
  BY <1>2 DEF Sane, HasOutcome, State
<1>4. q # 0 /\ d \in DOMAIN h.promises /\ d \in Nat
  BY <1>1, Domains DEF PairsSane
<1>5. CASE a = q
  <2>1. r # h.comb.pair
    <3>1. CASE h.comb.type = "none"
      <4>1. h.comb = NoCombinator
        BY <1>1, <3>1 DEF Combined
      <4>2. h.comb.pair = 0
        BY ONLY <4>1 DEF NoCombinator
      <4> QED
        BY <1>1, <4>2, Domains
    <3>2. CASE h.comb.type # "none"
      BY <1>1, <1>4, <1>5, <3>2 DEF Combined, Combines
    <3> QED
      BY <3>1, <3>2
  <2>2. \A p \in Nat : <<d, p>> \notin ro.giv
    BY <1>1, <1>4, <1>5 DEF RolesKept
  <2> QED
    BY <1>3, <1>4, <1>5, <2>1, <2>2 DEF CanCall
<1>6. CASE a # q
  <2>1. /\ r = h.comb.pair
        /\ Passing(h.comb.type, rej)
        /\ \E i \in DOMAIN h.comb.elems : h.comb.elems[i] = q
    BY <1>1, <1>6 DEF Passes
  <2>2. a = 0
    BY <1>1, <2>1 DEF Combined, Combines, Passing
  <2>3. SomeIs(h, rej, v)
    BY <1>4, <2>1 DEF SomeIs, Outcome
  <2>4. MayBecome(h, rej, v)
    <3>1. CASE rej
      BY <2>1, <2>3, <3>1 DEF MayBecome, Passing
    <3>2. CASE ~rej
      BY <2>1, <2>3, <3>2 DEF MayBecome, Passing
    <3> QED
      BY <3>1, <3>2
  <2>5. \A p \in Nat : <<d, p>> \notin ro.fin /\ <<d, p>> \notin ro.giv
    BY <1>1, <2>1 DEF PairsSane
  <2> QED
    BY <1>3, <2>2, <2>4, <2>5 DEF CanCall
<1> QED
  BY <1>5, <1>6

\* A reaction that does not call the script.
LEMMA CallFits ==
    ASSUME NEW h, NEW ro, NEW k, NEW th, NEW cl, Sound(h, ro, k, th, cl),
           NEW j \in AnyJob, JobFits(h, ro, j),
           j.f.is \in {"none", "give", "resolving", "element"}
    PROVE  LET r == Call(h, j.f, j.rej, j.arg)
           IN  Sound(EndReaction(r.heap, j.to, r.throws, r.val), ro, k, th, cl)
<1> DEFINE f == j.f
           r == Call(h, f, j.rej, j.arg)
<1>1. /\ Good(h, ro) /\ Tracked(h) /\ h \in Heaps
      /\ j.rej \in BOOLEAN /\ f \in AnyFunction /\ f.rej \in BOOLEAN
  BY DEF Sound, Good, AnyJob, AnyFunction
<1>2. PICK q \in DOMAIN h.promises :
         HasOutcome(h, q, j.rej, j.arg) /\ Fits(h, ro, f, j.rej, j.to, q)
  BY DEF JobFits
<1>3. Exists(h, j.arg) /\ j.arg.is # "thenable" /\ j.arg \in AnyValue
  BY <1>1, <1>2 DEF Tracked, Sane, HasOutcome, State, Exists
<1>4. /\ j.to \in 0 .. Len(h.pairs)
      /\ j.to # 0 /\ ~h.pairs[j.to].used => Yields(h, ro, f, j.rej, j.to, q)
  BY <1>2 DEF Fits
<1>5. CASE f.is = "none"
  <2>1. r = [heap |-> h, throws |-> j.rej, val |-> j.arg]
    BY <1>5 DEF Call
  <2>2. j.to # 0 => CanCall(h, ro, j.to, j.rej, j.arg)
    <3>1. CASE h.pairs[j.to].used
      BY <3>1 DEF CanCall
    <3>2. CASE ~h.pairs[j.to].used
      BY <1>1, <1>3, <1>4, <1>5, <3>2, TakesValue
    <3> QED
      BY <3>1, <3>2
  <2>3. r.heap = h /\ r.throws = j.rej /\ r.val = j.arg
    BY ONLY <2>1
  <2> HIDE DEF r
  <2>4. Sound(EndReaction(h, j.to, j.rej, j.arg), ro, k, th, cl)
    BY <1>1, <1>4, <2>2, EndSound
  <2> QED
    BY <2>3, <2>4 DEF r, f
<1>6. CASE f.is = "give"
  <2>1. r = [heap |-> h, throws |-> f.rej, val |-> f.val]
    BY <1>6 DEF Call
  <2>2. Exists(h, f.val) /\ f.val.is # "thenable"
    BY <1>2, <1>6 DEF Fits
  <2>3. j.to # 0 => CanCall(h, ro, j.to, f.rej, f.val)
    <3>1. CASE h.pairs[j.to].used
      BY <3>1 DEF CanCall
    <3>2. CASE ~h.pairs[j.to].used
      BY <1>1, <1>4, <1>6, <2>2, <3>2, TakesValue
    <3> QED
      BY <3>1, <3>2
  <2>4. r.heap = h /\ r.throws = f.rej /\ r.val = f.val
    BY ONLY <2>1
  <2> HIDE DEF r, f
  <2>5. Sound(EndReaction(h, j.to, f.rej, f.val), ro, k, th, cl)
    BY <1>1, <1>4, <2>3, EndSound
  <2> QED
    BY <2>4, <2>5 DEF r, f
<1>7. CASE f.is = "resolving"
  <2> DEFINE g == CallResolving(h, f.of, f.rej, j.arg)
  <2>1. r = [heap |-> g, throws |-> FALSE, val |-> Undefined]
    BY <1>7 DEF Call
  <2>2. j.to = 0 /\ f.of \in DOMAIN h.pairs /\ (~h.pairs[f.of].used => Passes(h, f, j.rej, q))
    BY <1>2, <1>7 DEF Fits
  <2>3. CanCall(h, ro, f.of, j.rej, j.arg)
    BY <1>1, <1>2, <2>2, PassedOn
  <2>4. CanCall(h, ro, f.of, f.rej, j.arg)
    <3>1. CASE h.pairs[f.of].used
      BY <3>1 DEF CanCall
    <3>2. CASE ~h.pairs[f.of].used
      BY <2>2, <2>3, <3>2 DEF Passes
    <3> QED
      BY <3>1, <3>2
  <2> HIDE DEF f
  <2>5. Sound(g, ro, k, th, cl)
    BY <1>1, <2>2, <2>4, CallSound
  <2> HIDE DEF g
  <2>6. r.heap = g
    BY ONLY <2>1
  <2>7. EndReaction(r.heap, j.to, r.throws, r.val) = g
    BY <2>2, <2>6 DEF EndReaction
  <2> QED
    BY <2>5, <2>7 DEF f
<1>8. CASE f.is = "element"
  <2> DEFINE g == CallElement(h, f.of, f.rej, j.arg)
  <2>1. r = [heap |-> g, throws |-> FALSE, val |-> Undefined]
    BY <1>8 DEF Call
  <2>2. /\ j.to = 0 /\ h.comb.type # "none" /\ f.of \in DOMAIN h.comb.elems
        /\ h.comb.elems[f.of] = q /\ f.rej = j.rej /\ Collects(h.comb.type, j.rej)
    BY <1>2, <1>8 DEF Fits
  <2>3. MayCollect(h, f.of, f.rej, j.arg)
    <3>1. q # 0
      BY <1>1, Domains
    <3>2. Outcome(h, f.of, f.rej, j.arg)
      BY <1>2, <2>2, <3>1 DEF Outcome
    <3> QED
      BY <1>1, <1>3, <2>2, <3>2 DEF MayCollect
  <2> HIDE DEF f
  <2>4. Sound(g, ro, k, th, cl)
    BY <2>3, ElementSound
  <2> HIDE DEF g
  <2>5. r.heap = g
    BY ONLY <2>1
  <2>6. EndReaction(r.heap, j.to, r.throws, r.val) = g
    BY <2>2, <2>5 DEF EndReaction
  <2> QED
    BY <2>4, <2>6 DEF f
<1> QED
  BY <1>5, <1>6, <1>7, <1>8

\* The script's function returned or threw, other than one of finally() that
\* returned.
LEMMA ScriptEnds ==
    ASSUME NEW h, NEW ro, NEW k, NEW th, NEW cl, Sound(h, ro, k, th, cl),
           NEW j \in AnyJob, JobFits(h, ro, j), j.f.is \in {"script", "finally"},
           NEW throws \in BOOLEAN, j.f.is = "finally" => throws,
           NEW v, Exists(h, v), v.is # "thenable"
    PROVE  Sound(EndReaction(h, j.to, throws, v), ro, k, th, cl)
<1>1. PICK q \in DOMAIN h.promises : Fits(h, ro, j.f, j.rej, j.to, q)
  BY DEF JobFits
<1>2. /\ j.to \in 0 .. Len(h.pairs)
      /\ j.to # 0 /\ ~h.pairs[j.to].used => Yields(h, ro, j.f, j.rej, j.to, q)
  BY <1>1 DEF Fits
<1>3. j.to # 0 => CanCall(h, ro, j.to, throws, v)
  <2>1. CASE h.pairs[j.to].used
    BY <2>1 DEF CanCall
  <2>2. CASE ~h.pairs[j.to].used
    BY <1>2, <2>2, TakesValue
  <2> QED
    BY <2>1, <2>2
<1> QED
  BY <1>2, <1>3, EndSound

\* What finally() makes when the script's function returned: the promise that
\* gives what finally() was called with keeps the promise of finally().
LEMMA FinallyEnds ==
    ASSUME NEW h, NEW ro, NEW k, NEW th, NEW cl, Sound(h, ro, k, th, cl),
           NEW j \in AnyJob, JobFits(h, ro, j), j.f.is = "finally",
           NEW v, Exists(h, v), v.is # "thenable"
    PROVE  \E rn \in Roles : Sound(AfterFinally(h, j, v), rn, k, th, cl)
<1> DEFINE r == ResolvedPromise(h, v)
           g == r.heap
           d == NewPromise(g, FALSE)
           new == Len(g.promises) + 1
           pr == Len(g.pairs) + 1
           on == <<Give(j.f.rej, j.arg), NoFunction>>
           t == PerformThen(d, r.p, on, pr, 0)
<1>1. /\ Good(h, ro) /\ Tracked(h) /\ PairsSane(h, ro) /\ RolesKept(h, ro) /\ h \in Heaps
      /\ j.rej \in BOOLEAN /\ j.f \in AnyFunction /\ j.f.rej \in BOOLEAN /\ j.to \in Nat
      /\ ro \in Roles
  BY DEF Sound, Good, AnyJob, AnyFunction
<1>2. PICK q \in DOMAIN h.promises :
         HasOutcome(h, q, j.rej, j.arg) /\ Fits(h, ro, j.f, j.rej, j.to, q)
  BY DEF JobFits
<1>3. Exists(h, j.arg) /\ j.arg.is # "thenable" /\ j.arg \in AnyValue
  BY <1>1, <1>2 DEF Tracked, Sane, HasOutcome, State, Exists
<1>4. /\ j.to \in 0 .. Len(h.pairs) /\ j.to # 0 /\ j.to \in DOMAIN h.pairs
      /\ ~h.pairs[j.to].used => Yields(h, ro, j.f, j.rej, j.to, q)
      /\ j.f.rej = j.rej
  BY <1>1, <1>2, Domains DEF Fits
<1>5. Sound(g, ro, k, th, cl) /\ Later(h, g) /\ r.p \in DOMAIN g.promises
  BY ResolvedSound
<1> DEFINE p0 == r.p
<1> HIDE DEF p0, r, g
<1>6. g \in Heaps /\ Good(g, ro) /\ p0 \in DOMAIN g.promises
  BY <1>5 DEF Sound, Good, p0
<1>7. q \in DOMAIN g.promises /\ q \in Nat
  BY <1>1, <1>5, <1>6, Domains DEF Later
<1> DEFINE rn == [ro EXCEPT !.giv = @ \cup {<<new, q>>}]
<1>8. /\ rn \in Roles /\ rn.fin = ro.fin /\ rn.giv = ro.giv \cup {<<new, q>>}
  <2>1. new \in Nat
    BY <1>6, Domains
  <2> QED
    BY <1>1, <1>7, <2>1 DEF Roles
<1> HIDE DEF rn
<1>9. NewRoles(g, ro, rn)
  BY <1>7, <1>8 DEF NewRoles
<1>10. /\ Sound(d, rn, k, th, cl) /\ Later(g, d) /\ RolesGrow(g, ro, rn)
       /\ NewContext(g, ro, d, rn, FALSE, FALSE)
       /\ Fresh(d, ro, pr, new, FALSE)
  BY <1>5, <1>9, NewSound DEF NewPromise
<1> HIDE DEF d
<1>11. d \in Heaps /\ Good(d, rn) /\ Len(d.pairs) = pr /\ Len(d.promises) = new
       /\ p0 \in DOMAIN d.promises /\ pr \in Nat /\ pr \in DOMAIN d.pairs /\ new \in DOMAIN d.promises
  BY <1>6, <1>10 DEF Sound, Good, Fresh, NewContext
<1>12. Later(h, d)
  BY <1>1, <1>5, <1>6, <1>10, <1>11, LaterAgain
<1> HIDE DEF pr, new
<1>13. on \in AnyFunction \X AnyFunction
  <2>1. Give(j.f.rej, j.arg) \in AnyFunction /\ NoFunction \in AnyFunction
    BY <1>1, <1>3, JobTypes
  <2> QED
    BY <2>1
<1> DEFINE rd == [on |-> on, to |-> pr, id |-> 0]
<1>14. /\ pr # d.comb.pair /\ d.pairs[pr].promise = new
       /\ d.promises[new].adopts = 0
       /\ \A p \in Nat : <<new, p>> \notin rn.fin
       /\ \A p \in Nat : <<new, p>> \in rn.giv => p = q
  BY <1>8, <1>10 DEF Fresh, Pending
<1>15. ReactionFits(d, rn, rd, p0)
  <2>1. /\ Handler(rd, FALSE) = Give(j.f.rej, j.arg) /\ Handler(rd, TRUE) = NoFunction
        /\ rd.to = pr
    BY DEF Handler
  <2>2. /\ Give(j.f.rej, j.arg).is = "give" /\ Give(j.f.rej, j.arg).rej = j.f.rej
        /\ Give(j.f.rej, j.arg).val = j.arg /\ NoFunction.is = "none"
    BY DEF Give, NoFunction, Function
  <2>3. ~j.rej => HasOutcome(d, q, FALSE, j.arg)
    <3>1. ~j.rej => HasOutcome(h, q, FALSE, j.arg)
      BY <1>2 DEF HasOutcome, State
    <3> QED
      BY <1>12, <3>1, OutcomeLater
  <2>4. Exists(d, j.arg)
    BY <1>1, <1>3, <1>11, <1>12, ExistsLater
  <2>5. pr \in 0 .. Len(d.pairs)
    BY <1>11
  <2> DEFINE f == Give(j.f.rej, j.arg)
  <2> HIDE DEF f, rd
  <2>6. Fits(d, rn, f, FALSE, pr, p0)
    <3>1. Yields(d, rn, f, FALSE, pr, p0)
      BY <1>4, <1>14, <2>2, <2>3 DEF Yields, f
    <3> QED
      BY <1>3, <2>2, <2>4, <2>5, <3>1 DEF Fits, f
  <2>7. Fits(d, rn, NoFunction, TRUE, pr, p0)
    <3>1. Yields(d, rn, NoFunction, TRUE, pr, p0)
      BY <1>14, <2>2 DEF Yields
    <3> QED
      BY <2>2, <2>5, <3>1 DEF Fits
  <2> QED
    BY <2>1, <2>6, <2>7 DEF ReactionFits, f
<1>16. Sound(t, rn, k, th, cl) /\ Later(d, t) /\ SameFaces(d, t)
  <2>1. /\ Sound(d, rn, k, th, cl) /\ p0 \in DOMAIN d.promises /\ on \in AnyFunction \X AnyFunction
        /\ pr \in Nat /\ ReactionFits(d, rn, [on |-> on, to |-> pr, id |-> 0], p0)
    BY <1>10, <1>11, <1>13, <1>15
  <2> HIDE DEF on, rd
  <2>2. t = PerformThen(d, p0, on, pr, 0)
    BY DEF p0
  <2> DEFINE u == PerformThen(d, p0, on, pr, 0)
  <2>3. Sound(u, rn, k, th, cl) /\ Later(d, u) /\ SameFaces(d, u)
    BY <2>1, ThenSound
  <2> HIDE DEF u, t
  <2> QED
    BY <2>2, <2>3 DEF u
<1> HIDE DEF t
<1>17. t \in Heaps /\ Later(h, t)
  BY <1>1, <1>11, <1>12, <1>16, LaterAgain DEF Sound, Good
<1> DEFINE w == PromiseValue(new)
<1>18. w \in AnyValue /\ w.is = "promise" /\ w.id = new /\ Exists(t, w)
  <2>1. new \in Nat
    BY <1>11, Domains
  <2>2. new \in DOMAIN t.promises
    BY <1>11, <1>16 DEF SameFaces
  <2>3. w = [is |-> "promise", id |-> new]
    BY DEF PromiseValue
  <2> HIDE DEF w
  <2>4. w.is = "promise" /\ w.id = new /\ w \in AnyValue
    BY <2>1, <2>3 DEF AnyValue
  <2> QED
    BY <2>2, <2>4 DEF Exists
<1> HIDE DEF w
<1>19. CanCall(t, rn, j.to, FALSE, w)
  <2> SUFFICES ASSUME ~t.pairs[j.to].used PROVE CanCall(t, rn, j.to, FALSE, w)
    BY DEF CanCall
  <2> DEFINE e == h.pairs[j.to].promise
  <2>1. /\ ~h.pairs[j.to].used /\ t.pairs[j.to].promise = e
        /\ t.promises[e].adopts = h.promises[e].adopts /\ t.comb.pair = h.comb.pair
    BY <1>4, <1>17 DEF Later, CombLater
  <2>2. Yields(h, ro, j.f, j.rej, j.to, q)
    BY <1>4, <2>1
  <2>3. e \in DOMAIN h.promises /\ e \in DOMAIN g.promises
    <3>1. e \in DOMAIN h.promises
      BY <1>1, <1>4 DEF PairsSane
    <3> QED
      BY <1>1, <1>5, <1>6, <3>1, Domains DEF Later
  <2>4. \A p \in Nat : /\ <<e, p>> \in rn.fin => <<e, p>> \in ro.fin
                       /\ <<e, p>> \in rn.giv => <<e, p>> \in ro.giv
    BY <1>10, <2>3 DEF RolesGrow
  <2>5. /\ j.to # h.comb.pair /\ h.promises[e].adopts = 0
        /\ \A p \in Nat : <<e, p>> \in ro.fin => p = q
        /\ \A p \in Nat : <<e, p>> \notin ro.giv
    BY <2>2 DEF Yields
  <2>6. \A p \in Nat : <<e, p>> \in rn.fin => <<w.id, p>> \in rn.giv
    BY <1>8, <1>18, <2>4, <2>5
  <2> HIDE DEF e
  <2> QED
    BY <1>18, <2>1, <2>4, <2>5, <2>6 DEF CanCall
<1>20. Sound(CallResolving(t, j.to, FALSE, w), rn, k, th, cl)
  <2>1. j.to \in DOMAIN t.pairs
    BY <1>1, <1>4, <1>17, Domains DEF Later
  <2> QED
    BY <1>16, <1>19, <2>1, CallSound
<1>21. AfterFinally(h, j, v) = CallResolving(t, j.to, FALSE, w)
  <2>1. d = NewPromise(ResolvedPromise(h, v).heap, FALSE) /\ r = ResolvedPromise(h, v)
    BY DEF d, g, r
  <2>2. t = PerformThen(d, r.p, on, Len(d.pairs), 0)
    BY <1>11 DEF t
  <2>3. w = PromiseValue(Len(d.promises))
    BY <1>11 DEF w
  <2> HIDE DEF on
  <2> QED
    BY <2>1, <2>2, <2>3 DEF AfterFinally, on
<1> QED
  BY <1>8, <1>20, <1>21

-----------------------------------------------------------------------------
(* A call of a combinator.                                                 *)

Combiners == {"all", "allSettled", "any", "race"}

\* n is h with the new promise of the combinator, g says what it combines.
CombineContext(h, ro, n, g, type) ==
    /\ Good(h, ro) /\ h.comb = NoCombinator
    /\ NewContext(h, ro, n, ro, TRUE, FALSE)
    /\ Fresh(n, ro, Len(n.pairs), Len(n.promises), TRUE)
    /\ Good(n, ro)
    /\ g \in Heaps
    /\ g.promises = n.promises /\ g.pairs = n.pairs /\ g.jobs = n.jobs
    /\ type \in Combiners
    /\ g.comb = [NoCombinator EXCEPT !.type = type, !.loop = "on", !.pair = Len(n.pairs),
                                     !.remaining = 1]
    /\ g.comb.type = type /\ g.comb.loop = "on" /\ g.comb.pair = Len(n.pairs)
    /\ g.comb.remaining = 1 /\ g.comb.elems = <<>> /\ g.comb.values = <<>>
    /\ g.comb.called = {} /\ g.comb.given = {}

LEMMA CombineFits ==
    ASSUME NEW h, NEW ro, NEW n, NEW g, NEW type, CombineContext(h, ro, n, g, type),
           NEW f \in AnyFunction, NEW rej \in BOOLEAN, NEW t, NEW q \in DOMAIN h.promises,
           Fits(h, ro, f, rej, t, q)
    PROVE  Fits(g, ro, f, rej, t, q)
<1>1. /\ h \in Heaps /\ PairsSane(h, ro) /\ RolesKept(h, ro)
      /\ g.promises = n.promises /\ g.pairs = n.pairs /\ g.comb.pair = Len(n.pairs)
      /\ h.comb = NoCombinator
  BY DEF CombineContext, Good
<1>2. /\ Len(n.pairs) = Len(h.pairs) + 1 /\ Len(h.pairs) \in Nat /\ DOMAIN h.pairs = 1 .. Len(h.pairs)
      /\ \A x \in DOMAIN h.promises : x \in DOMAIN n.promises /\ n.promises[x] = h.promises[x]
      /\ \A x \in DOMAIN h.pairs : x \in DOMAIN n.pairs /\ n.pairs[x] = h.pairs[x]
  BY DEF CombineContext, NewContext
<1>3. h.comb.pair = 0 /\ h.comb.type = "none" /\ h.comb.elems = <<>>
  BY <1>1 DEF NoCombinator
<1>4. /\ t \in 0 .. Len(h.pairs)
      /\ t # 0 /\ ~h.pairs[t].used => Yields(h, ro, f, rej, t, q)
      /\ f.is = "resolving" => /\ t = 0
                               /\ f.of \in DOMAIN h.pairs
                               /\ ~h.pairs[f.of].used => Passes(h, f, rej, q)
      /\ f.is # "element"
      /\ f.is = "finally" => f.rej = rej /\ t # 0
      /\ f.is = "give" => Exists(h, f.val) /\ f.val.is # "thenable"
  BY <1>3 DEF Fits
<1>5. ASSUME t # 0, ~g.pairs[t].used PROVE Yields(g, ro, f, rej, t, q)
  <2> DEFINE d == h.pairs[t].promise
  <2>1. t \in DOMAIN h.pairs /\ t # g.comb.pair
    BY <1>1, <1>2, <1>4, <1>5
  <2>2. g.pairs[t] = h.pairs[t] /\ d \in DOMAIN h.promises /\ g.promises[d] = h.promises[d]
    BY <1>1, <1>2, <2>1 DEF PairsSane
  <2>3. Yields(h, ro, f, rej, t, q)
    BY <1>4, <1>5, <2>2
  <2>4. d \in Nat
    BY <1>1, <2>2, Domains
  <2>5. ASSUME NEW p \in Nat, <<d, p>> \in ro.giv
        PROVE  \/ f.is = "none" /\ rej
               \/ f.is = "give" /\ (f.rej \/ HasOutcome(g, p, FALSE, f.val))
    <3>1. p \in DOMAIN h.promises
      BY <1>1, <2>4, <2>5 DEF RolesKept
    <3>2. HasOutcome(h, p, FALSE, f.val) => HasOutcome(g, p, FALSE, f.val)
      BY <1>1, <1>2, <3>1 DEF HasOutcome
    <3> QED
      BY <2>3, <2>5, <3>2 DEF Yields
  <2> HIDE DEF d
  <2>6. /\ h.promises[d].adopts = 0
        /\ \A p \in Nat : <<d, p>> \in ro.fin => p = q /\ f.is = "finally"
    BY <2>3 DEF Yields, d
  <2>7. g.pairs[t].promise = d
    BY <2>2 DEF d
  <2> QED
    BY <2>1, <2>2, <2>5, <2>6, <2>7 DEF Yields
<1>6. ASSUME f.is = "resolving", ~g.pairs[f.of].used PROVE Passes(g, f, rej, q)
  <2>1. g.pairs[f.of] = h.pairs[f.of] /\ f.of \in DOMAIN h.pairs /\ f.of # 0
    BY <1>1, <1>2, <1>4, <1>6
  <2>2. Passes(h, f, rej, q)
    BY <1>4, <1>6, <2>1
  <2>3. h.pairs[f.of].promise \in DOMAIN h.promises
    BY <1>1, <2>1 DEF PairsSane
  <2> QED
    BY <1>1, <1>2, <1>3, <2>1, <2>2, <2>3 DEF Passes
<1>7. t \in 0 .. Len(g.pairs)
  BY <1>1, <1>2, <1>4
<1>8. f.of \in DOMAIN h.pairs => f.of \in DOMAIN g.pairs
  BY <1>1, <1>2
<1>9. Exists(h, f.val) => Exists(g, f.val)
  BY <1>1, <1>2 DEF Exists
<1> QED
  BY <1>4, <1>5, <1>6, <1>7, <1>8, <1>9 DEF Fits

LEMMA CombineJob ==
    ASSUME NEW h, NEW ro, NEW n, NEW g, NEW type, CombineContext(h, ro, n, g, type),
           NEW j \in AnyJob, JobFits(h, ro, j)
    PROVE  JobFits(g, ro, j)
<1>1. PICK q \in DOMAIN h.promises :
         HasOutcome(h, q, j.rej, j.arg) /\ Fits(h, ro, j.f, j.rej, j.to, q)
  BY DEF JobFits
<1>2. j.rej \in BOOLEAN /\ j.f \in AnyFunction
  BY DEF AnyJob
<1>3. q \in DOMAIN g.promises /\ g.promises[q] = h.promises[q]
  BY DEF CombineContext, NewContext
<1>4. HasOutcome(g, q, j.rej, j.arg)
  BY <1>1, <1>3 DEF HasOutcome
<1>5. Fits(g, ro, j.f, j.rej, j.to, q)
  BY <1>1, <1>2, CombineFits
<1> QED
  BY <1>3, <1>4, <1>5 DEF JobFits

LEMMA CombineParts ==
    ASSUME NEW h, NEW ro, NEW n, NEW g, NEW type, CombineContext(h, ro, n, g, type)
    PROVE  /\ Tracked(g) /\ PairsSane(g, ro) /\ Alone(g) /\ HasDecider(g)
           /\ Adopted(g) /\ RolesKept(g, ro)
<1>1. /\ Tracked(n) /\ PairsSane(n, ro) /\ Alone(n) /\ HasDecider(n)
      /\ Adopted(n) /\ RolesKept(n, ro)
      /\ g.promises = n.promises /\ g.pairs = n.pairs /\ g.jobs = n.jobs
      /\ g.comb.pair = Len(n.pairs)
  BY DEF CombineContext, Good
<1>2. Tracked(g)
  <2>1. \A s : Sane(n, s) => Sane(g, s)
    BY <1>1 DEF Sane, Exists
  <2> QED
    BY <1>1, <2>1 DEF Tracked
<1>3. Alone(g)
  BY <1>1 DEF Alone
<1>4. HasDecider(g)
  BY <1>1 DEF HasDecider, Done
<1>5. Adopted(g)
  BY <1>1 DEF Adopted, Done
<1>6. RolesKept(g, ro)
  <2>1. \A p, v : HasOutcome(g, p, FALSE, v) <=> HasOutcome(n, p, FALSE, v)
    BY <1>1 DEF HasOutcome
  <2> QED
    BY ONLY <1>1, <2>1 DEF RolesKept
<1>7. PairsSane(g, ro)
  <2>1. ~n.pairs[Len(n.pairs)].known
    <3>1. /\ n.pairs[Len(h.pairs) + 1]
               = [promise |-> Len(h.promises) + 1, used |-> FALSE, known |-> FALSE]
          /\ Len(n.pairs) = Len(h.pairs) + 1
      BY DEF CombineContext, NewContext
    <3> QED
      BY ONLY <3>1
  <2>2. \A p \in Nat : /\ <<n.pairs[Len(n.pairs)].promise, p>> \notin ro.fin
                       /\ <<n.pairs[Len(n.pairs)].promise, p>> \notin ro.giv
    BY DEF CombineContext, Fresh
  <2>3. ASSUME NEW x \in DOMAIN n.pairs, Free(n, ro, x), x # Len(n.pairs) PROVE Free(g, ro, x)
    BY <1>1, <2>3 DEF Free, Ordinary
  <2>4. ASSUME NEW x \in DOMAIN n.pairs
        PROVE  /\ n.pairs[x].promise \in DOMAIN n.promises
               /\ ~n.pairs[x].used => ~Done(n, n.pairs[x].promise)
               /\ n.pairs[x].known => Free(g, ro, x)
    BY <1>1, <2>1, <2>3 DEF PairsSane
  <2> QED
    BY <1>1, <2>2, <2>4 DEF PairsSane, Done
<1> QED
  BY <1>2, <1>3, <1>4, <1>5, <1>6, <1>7

LEMMA CombineSound ==
    ASSUME NEW h, NEW ro, NEW n, NEW g, NEW type, CombineContext(h, ro, n, g, type),
           NEW j, NEW th, NEW cl, Sound(h, ro, j, th, cl), Sound(n, ro, j, th, cl)
    PROVE  Sound(g, ro, j, th, cl)
<1>1. /\ h \in Heaps /\ n \in Heaps /\ g \in Heaps /\ ro \in Roles
      /\ ReactionsFit(h, ro) /\ JobsFit(h, ro) /\ RunFits(h, ro, j) /\ PairsSane(h, ro)
      /\ ThensKept(n, ro, th) /\ Ordered(n, th, cl)
  BY DEF CombineContext, Sound, Good
<1>2. /\ g.promises = n.promises /\ g.pairs = n.pairs /\ g.jobs = h.jobs
      /\ g.comb.pair = Len(h.pairs) + 1 /\ g.jobs = n.jobs
      /\ DOMAIN h.pairs = 1 .. Len(h.pairs) /\ Len(h.pairs) \in Nat
      /\ \A x \in DOMAIN h.promises : x \in DOMAIN n.promises /\ n.promises[x] = h.promises[x]
      /\ \A x \in DOMAIN h.pairs : x \in DOMAIN n.pairs /\ n.pairs[x] = h.pairs[x]
      /\ \A x \in DOMAIN n.promises : x \in DOMAIN h.promises \/ n.promises[x] = Pending(TRUE)
  <2>1. NewContext(h, ro, n, ro, TRUE, FALSE)
    BY DEF CombineContext
  <2>2. /\ n.jobs = h.jobs /\ Len(n.pairs) = Len(h.pairs) + 1
        /\ DOMAIN h.pairs = 1 .. Len(h.pairs) /\ Len(h.pairs) \in Nat
        /\ \A x \in DOMAIN h.promises : x \in DOMAIN n.promises /\ n.promises[x] = h.promises[x]
        /\ \A x \in DOMAIN h.pairs : x \in DOMAIN n.pairs /\ n.pairs[x] = h.pairs[x]
    BY ONLY <2>1 DEF NewContext, IsNew
  <2>3. \A x \in DOMAIN n.promises : x \in DOMAIN h.promises \/ n.promises[x] = Pending(TRUE)
    <3> DEFINE P == Pending(TRUE)
    <3>1. /\ DOMAIN n.promises = 1 .. Len(h.promises) + 1 /\ Len(h.promises) \in Nat
          /\ DOMAIN h.promises = 1 .. Len(h.promises)
          /\ n.promises[Len(h.promises) + 1] = P
      BY ONLY <2>1 DEF NewContext
    <3> HIDE DEF P
    <3>2. \A x \in DOMAIN n.promises : x \in DOMAIN h.promises \/ n.promises[x] = P
      BY ONLY <3>1
    <3> QED
      BY ONLY <3>2 DEF P
  <2> QED
    BY <2>2, <2>3 DEF CombineContext
<1>3. ReactionsFit(g, ro)
  <2> SUFFICES ASSUME NEW x \in DOMAIN g.promises, NEW k \in DOMAIN g.promises[x].reactions
               PROVE  ReactionFits(g, ro, g.promises[x].reactions[k], x)
    BY DEF ReactionsFit
  <2>1. x \in DOMAIN h.promises /\ g.promises[x] = h.promises[x]
    <3>1. Pending(TRUE).reactions = <<>>
      BY DEF Pending
    <3>2. x \in DOMAIN n.promises /\ n.promises[x].reactions # <<>>
      BY <1>2
    <3> QED
      BY <1>2, <3>1, <3>2
  <2> DEFINE rd == h.promises[x].reactions[k]
  <2>2. ReactionFits(h, ro, rd, x) /\ rd \in Reaction
    BY <1>1, <2>1, Domains DEF ReactionsFit
  <2>3. \A rej \in BOOLEAN : Handler(rd, rej) \in AnyFunction
    BY <2>2 DEF Handler, Reaction
  <2> HIDE DEF rd
  <2>4. ReactionFits(g, ro, rd, x)
    BY <2>1, <2>2, <2>3, CombineFits DEF ReactionFits
  <2> QED
    BY <2>1, <2>4 DEF rd
<1>4. JobsFit(g, ro)
  <2> SUFFICES ASSUME NEW x \in DOMAIN h.jobs
               PROVE  \/ h.jobs[x].is = "reaction" /\ JobFits(g, ro, h.jobs[x])
                      \/ h.jobs[x].is = "thenable" /\ ThenableSane(g, ro, h.jobs[x])
    BY <1>2 DEF JobsFit
  <2>1. h.jobs[x] \in AnyJob
    BY <1>1, Domains
  <2>2. ThenableSane(h, ro, h.jobs[x]) => ThenableSane(g, ro, h.jobs[x])
    BY <1>2 DEF ThenableSane, Exists, Done, Ordinary
  <2>3. JobFits(h, ro, h.jobs[x]) => JobFits(g, ro, h.jobs[x])
    BY <2>1, CombineJob
  <2> QED
    BY <1>1, <2>2, <2>3 DEF JobsFit
<1>5. RunFits(g, ro, j)
  <2>1. j \in AnyJob /\ (JobFits(h, ro, j) => JobFits(g, ro, j))
    BY <1>1, CombineJob DEF RunFits
  <2>2. ASSUME j.to \in DOMAIN h.pairs, Free(h, ro, j.to)
        PROVE  j.to \in DOMAIN g.pairs /\ Free(g, ro, j.to)
    <3>1. /\ g.pairs[j.to] = h.pairs[j.to] /\ j.to \in DOMAIN g.pairs
          /\ j.to # g.comb.pair
      BY <1>2, <2>2
    <3>2. h.pairs[j.to].promise \in DOMAIN h.promises
      BY <1>1, <2>2 DEF PairsSane
    <3> QED
      BY <1>2, <2>2, <3>1, <3>2 DEF Free, Ordinary
  <2> QED
    BY <1>1, <2>1, <2>2 DEF RunFits
<1>6. Combined(g)
  <2> DEFINE c == g.comb
             r == Len(n.pairs)
             d == Len(n.promises)
  <2>1. /\ c.type = type /\ c.elems = <<>> /\ c.pair = r /\ c.remaining = 1 /\ c.loop = "on"
        /\ c.values = <<>> /\ c.called = {}
        /\ type # "none"
    BY DEF CombineContext, Combiners
  <2>2. /\ r \in DOMAIN g.pairs /\ g.pairs[r].promise = d /\ ~g.pairs[r].used
        /\ g.promises[d] = Pending(TRUE)
    BY <1>2 DEF CombineContext, Fresh
  <2>3. g.promises[d].adopts = 0 /\ g.promises[d].state = "pending"
    BY <2>2 DEF Pending
  <2>4. Combines(g)
    BY <2>1, <2>2, <2>3 DEF Combines
  <2>5. Recorded(g)
    BY <2>1 DEF Recorded
  <2> HIDE DEF c
  <2>6. Counted(c)
    <3>1. Missing(c) = {} /\ Loop(c) = 1
      BY <2>1 DEF Missing, Loop
    <3>2. c.remaining = Loop(c) + Cardinality(Missing(c))
      BY <2>1, <3>1, FS_EmptySet
    <3> QED
      BY <2>1, <3>2 DEF Counted
  <2> QED
    BY <2>1, <2>4, <2>5, <2>6 DEF Combined, c
<1>7. Ordered(g, th, cl)
  BY <1>1, <1>2, SameOrdered DEF Done
<1>8. ThensKept(g, ro, th)
  BY <1>1, <1>2 DEF ThensKept
<1>9. Good(g, ro)
  BY <1>1, <1>3, <1>4, <1>6, CombineParts DEF Good
<1> QED
  BY <1>5, <1>7, <1>8, <1>9 DEF Sound


-----------------------------------------------------------------------------
(* The call of a combinator.                                               *)

LEMMA CombineIs ==
    ASSUME NEW h, NEW ro, NEW j, NEW th, NEW cl, Sound(h, ro, j, th, cl), h.comb.type = "none",
           NEW type \in Combiners
    PROVE  LET n == NewPromise(h, TRUE)
               g == [n EXCEPT !.comb = [NoCombinator EXCEPT !.type = type, !.loop = "on",
                                                            !.pair = Len(n.pairs),
                                                            !.remaining = 1]]
           IN  Sound(g, ro, j, th, cl)
<1> DEFINE n == NewPromise(h, TRUE)
           c == [NoCombinator EXCEPT !.type = type, !.loop = "on", !.pair = Len(n.pairs),
                                     !.remaining = 1]
           g == [n EXCEPT !.comb = c]
<1>1. /\ Sound(n, ro, j, th, cl)
      /\ NewContext(h, ro, n, ro, TRUE, FALSE)
      /\ Fresh(n, ro, Len(n.pairs), Len(n.promises), TRUE)
  BY PlainSound
<1>2. Good(h, ro) /\ Good(n, ro) /\ n \in Heaps
  BY <1>1 DEF Sound, Good
<1>3. h.comb = NoCombinator
  BY <1>2, Zenon DEF Good, Combined
<1> HIDE DEF n
<1>4. Len(n.pairs) \in Nat
  BY <1>2, Domains
<1>5. c \in AnyComb
  <2>1. NoCombinator \in AnyComb
    BY DEF NoCombinator, AnyComb
  <2>2. type \in {"none", "all", "allSettled", "any", "race"}
    BY DEF Combiners
  <2>3. \A x \in AnyComb, y \in {"none", "all", "allSettled", "any", "race"} :
           [x EXCEPT !.type = y] \in AnyComb
    BY DEF AnyComb
  <2>4. \A x \in AnyComb, y \in {"none", "on", "done", "failed"} : [x EXCEPT !.loop = y] \in AnyComb
    BY DEF AnyComb
  <2>5. \A x \in AnyComb, y \in Nat : [x EXCEPT !.pair = y] \in AnyComb
    <3> DEFINE V == Seq([rej : BOOLEAN, val : AnyValue])
               C == SUBSET (Nat \X BOOLEAN)
               G == SUBSET (Nat \X BOOLEAN \X AnyValue)
               E == Seq(Nat)
    <3>1. AnyComb = [type : {"none", "all", "allSettled", "any", "race"},
                     loop : {"none", "on", "done", "failed"}, elems : E, pair : Nat,
                     remaining : Int, values : V, called : C, given : G]
      BY DEF AnyComb
    <3> DEFINE A == {"none", "all", "allSettled", "any", "race"}
               B == {"none", "on", "done", "failed"}
               D == Nat
               I == Int
    <3>2. AnyComb = [type : A, loop : B, elems : E, pair : D, remaining : I, values : V,
                     called : C, given : G]
      BY <3>1
    <3> HIDE DEF A, B, D, I, V, C, G, E
    <3>3. \A x \in AnyComb, y \in D : [x EXCEPT !.pair = y] \in AnyComb
      BY ONLY <3>2
    <3> QED
      BY <3>3 DEF D
  <2>6. \A x \in AnyComb, y \in Int : [x EXCEPT !.remaining = y] \in AnyComb
    BY DEF AnyComb
  <2> DEFINE c1 == [NoCombinator EXCEPT !.type = type]
             c2 == [c1 EXCEPT !.loop = "on"]
             c3 == [c2 EXCEPT !.pair = Len(n.pairs)]
             c4 == [c3 EXCEPT !.remaining = 1]
  <2>7. c4 \in AnyComb
    <3>1. c1 \in AnyComb
      BY <2>1, <2>2, <2>3
    <3>2. c2 \in AnyComb
      <4> HIDE DEF c1
      <4> QED
        BY <2>4, <3>1
    <3>3. c3 \in AnyComb
      <4> HIDE DEF c2
      <4> QED
        BY <1>4, <2>5, <3>2
    <3> HIDE DEF c3
    <3> QED
      BY <2>6, <3>3
  <2> QED
    BY <2>7
<1>6. /\ c.type = type /\ c.loop = "on" /\ c.pair = Len(n.pairs) /\ c.remaining = 1
      /\ c.elems = <<>> /\ c.values = <<>> /\ c.called = {} /\ c.given = {}
  BY DEF NoCombinator
<1>7. c = [NoCombinator EXCEPT !.type = type, !.loop = "on", !.pair = Len(n.pairs), !.remaining = 1]
  OBVIOUS
<1> HIDE DEF c
<1>8. /\ g \in Heaps /\ g.promises = n.promises /\ g.pairs = n.pairs /\ g.jobs = n.jobs
      /\ g.comb = c
  BY <1>2, <1>5 DEF Heaps
<1> HIDE DEF g
<1>9. CombineContext(h, ro, n, g, type)
  BY <1>1, <1>2, <1>3, <1>6, <1>7, <1>8 DEF CombineContext
<1>10. Sound(g, ro, j, th, cl)
  BY <1>9, <1>1, CombineSound
<1> QED
  BY <1>10 DEF g, c, n

\* The functions that are attached to an element.
LEMMA ElementFits ==
    ASSUME NEW g, NEW ro, Good(g, ro), NEW type \in Combiners, g.comb.type = type,
           NEW i \in DOMAIN g.comb.elems, g.comb.elems[i] # 0
    PROVE  LET on == ElementHandlers(type, g.comb.pair, i)
           IN  /\ on \in AnyFunction \X AnyFunction
               /\ ReactionFits(g, ro, [on |-> on, to |-> 0, id |-> 0], g.comb.elems[i])
<1> DEFINE r == g.comb.pair
           q == g.comb.elems[i]
           on == ElementHandlers(type, r, i)
           rd == [on |-> on, to |-> 0, id |-> 0]
<1>1. /\ r \in DOMAIN g.pairs /\ r \in Nat /\ i \in Nat /\ type # "none"
      /\ g \in Heaps /\ DOMAIN g.pairs = 1 .. Len(g.pairs) /\ Len(g.pairs) \in Nat
  <2>1. type # "none" /\ Combined(g) /\ g \in Heaps
    BY DEF Combiners, Good
  <2>2. r \in DOMAIN g.pairs
    BY <2>1 DEF Combined, Combines
  <2>3. r \in Nat /\ g.comb.elems \in Seq(Nat)
    BY <2>1 DEF Heaps, AnyComb
  <2> QED
    BY <2>1, <2>2, <2>3, Domains
<1>2. \A rej \in BOOLEAN : /\ Resolving(r, rej).is = "resolving" /\ Resolving(r, rej).of = r
                           /\ Resolving(r, rej).rej = rej
                           /\ Element(i, rej).is = "element" /\ Element(i, rej).of = i
                           /\ Element(i, rej).rej = rej
  BY DEF Resolving, Element, Function
<1>3. \A rej \in BOOLEAN : Collects(type, rej) => Fits(g, ro, Element(i, rej), rej, 0, q)
  BY <1>1, <1>2 DEF Fits
<1>4. \A rej \in BOOLEAN : Passing(type, rej) => Fits(g, ro, Resolving(r, rej), rej, 0, q)
  <2> SUFFICES ASSUME NEW rej \in BOOLEAN, Passing(type, rej)
               PROVE  Fits(g, ro, Resolving(r, rej), rej, 0, q)
    OBVIOUS
  <2>1. Passes(g, Resolving(r, rej), rej, q)
    BY <1>2 DEF Passes
  <2> QED
    BY <2>1, <1>1, <1>2 DEF Fits
<1>5. /\ type = "all" => on = <<Element(i, FALSE), Resolving(r, TRUE)>>
      /\ type = "allSettled" => on = <<Element(i, FALSE), Element(i, TRUE)>>
      /\ type = "any" => on = <<Resolving(r, FALSE), Element(i, TRUE)>>
      /\ type = "race" => on = <<Resolving(r, FALSE), Resolving(r, TRUE)>>
  BY DEF ElementHandlers
<1>6. /\ Collects("all", FALSE) /\ Passing("all", TRUE)
      /\ Collects("allSettled", FALSE) /\ Collects("allSettled", TRUE)
      /\ Passing("any", FALSE) /\ Collects("any", TRUE)
      /\ Passing("race", FALSE) /\ Passing("race", TRUE)
  BY DEF Collects, Passing
<1> DEFINE E(rej) == Element(i, rej)
           R(rej) == Resolving(r, rej)
           Fit(f, rej) == f \in AnyFunction /\ Fits(g, ro, f, rej, 0, q)
<1>7. /\ Collects(type, FALSE) => Fit(E(FALSE), FALSE)
      /\ Collects(type, TRUE) => Fit(E(TRUE), TRUE)
      /\ Passing(type, FALSE) => Fit(R(FALSE), FALSE)
      /\ Passing(type, TRUE) => Fit(R(TRUE), TRUE)
  BY <1>1, <1>3, <1>4, JobTypes
<1>8. \E f, s : on = <<f, s>> /\ Fit(f, FALSE) /\ Fit(s, TRUE)
  <2> HIDE DEF Fit, on, E, R
  <2>0. /\ type = "all" => on = <<E(FALSE), R(TRUE)>>
        /\ type = "allSettled" => on = <<E(FALSE), E(TRUE)>>
        /\ type = "any" => on = <<R(FALSE), E(TRUE)>>
        /\ type = "race" => on = <<R(FALSE), R(TRUE)>>
    BY <1>5 DEF E, R
  <2>1. CASE type = "all"
    BY ONLY <2>0, <2>1, <1>6, <1>7
  <2>2. CASE type = "allSettled"
    BY ONLY <2>0, <2>2, <1>6, <1>7
  <2>3. CASE type = "any"
    BY ONLY <2>0, <2>3, <1>6, <1>7
  <2>4. CASE type = "race"
    BY ONLY <2>0, <2>4, <1>6, <1>7
  <2> QED
    BY <2>1, <2>2, <2>3, <2>4 DEF Combiners
<1>9. /\ on \in AnyFunction \X AnyFunction
       /\ Fits(g, ro, on[1], FALSE, 0, q) /\ Fits(g, ro, on[2], TRUE, 0, q)
  <2> HIDE DEF on
  <2>1. PICK f, s : on = <<f, s>> /\ Fit(f, FALSE) /\ Fit(s, TRUE)
    BY <1>8
  <2>2. f \in AnyFunction /\ s \in AnyFunction /\ on[1] = f /\ on[2] = s
    BY <2>1
  <2> QED
    BY <2>1, <2>2
<1> HIDE DEF on
<1>10. /\ Handler(rd, FALSE) = on[1] /\ Handler(rd, TRUE) = on[2] /\ rd.to = 0
  BY DEF Handler
<1>11. ReactionFits(g, ro, rd, q)
  BY <1>9, <1>10 DEF ReactionFits
<1> QED
  BY <1>9, <1>11 DEF on

\* Where an element was only added, or said what it came to, or the loop went on.
LEMMA CombKept ==
    ASSUME NEW h, NEW ro, Good(h, ro), h.comb.type # "none", NEW n, OnlyComb(h, n),
           Counted(n.comb), n.comb.called = h.comb.called,
           \A i \in DOMAIN h.comb.values : n.comb.values[i] = h.comb.values[i],
           \A i \in DOMAIN n.comb.elems : n.comb.elems[i] = 0 \/ n.comb.elems[i] \in DOMAIN h.promises
    PROVE  Combined(n)
<1>1. /\ h \in Heaps /\ n \in Heaps /\ Counted(h.comb) /\ Recorded(h) /\ Combines(h)
      /\ n.promises = h.promises /\ n.pairs = h.pairs /\ CombLater(h.comb, n.comb)
  BY DEF Good, Combined, OnlyComb
<1>2. Later(h, n)
  BY <1>1, Domains DEF Later
<1>3. \A x, w : \A s \in BOOLEAN : Outcome(h, x, s, w) => Outcome(n, x, s, w)
  BY <1>1, <1>2, ElementLater
<1>4. \A s \in BOOLEAN : \A w : MayBecome(h, s, w) => MayBecome(n, s, w)
  BY <1>1, <1>2, MayBecomeLater
<1>5. n.comb.pair = h.comb.pair /\ n.comb.type = h.comb.type
  BY <1>1 DEF CombLater
<1>6. Recorded(n)
  <2>1. ASSUME NEW x \in Nat, NEW s \in BOOLEAN, <<x, s>> \in n.comb.called,
               <<x, ~s>> \notin n.comb.called
        PROVE  Outcome(n, x, s, n.comb.values[x].val) /\ n.comb.values[x].rej = s
    <3>1. <<x, s>> \in h.comb.called /\ <<x, ~s>> \notin h.comb.called
      BY <2>1
    <3>2. x \in DOMAIN h.comb.values
      BY <1>1, <3>1 DEF Counted
    <3>3. n.comb.values[x] = h.comb.values[x]
      BY <3>2
    <3>4. Outcome(h, x, s, h.comb.values[x].val) /\ h.comb.values[x].rej = s
      BY <1>1, <3>1 DEF Recorded
    <3> QED
      BY <1>3, <3>3, <3>4
  <2> QED
    BY <1>1, <2>1 DEF Recorded
<1>7. Combines(n)
  BY <1>1, <1>4, <1>5 DEF Combines, Done
<1> QED
  BY <1>5, <1>6, <1>7 DEF Combined

LEMMA AddIs ==
    ASSUME NEW h \in Heaps, NEW p \in Nat
    PROVE  LET n == AddElement(h, p)
           IN  /\ n \in Heaps
               /\ n.promises = h.promises /\ n.pairs = h.pairs /\ n.jobs = h.jobs
               /\ n.comb.type = h.comb.type /\ n.comb.pair = h.comb.pair
               /\ n.comb.loop = h.comb.loop
               /\ n.comb.called = h.comb.called /\ n.comb.given = h.comb.given
               /\ n.comb.elems = Append(h.comb.elems, p)
               /\ n.comb.values = Append(h.comb.values, [rej |-> FALSE, val |-> Undefined])
               /\ h.comb.type # "race" => n.comb.remaining = h.comb.remaining + 1
<1> DEFINE b == h.comb
           V == [rej : BOOLEAN, val : AnyValue]
           es == Append(b.elems, p)
           vs == Append(b.values, [rej |-> FALSE, val |-> Undefined])
           m == IF b.type = "race" THEN b.remaining ELSE b.remaining + 1
           c == [b EXCEPT !.elems = es, !.values = vs, !.remaining = m]
           n == [h EXCEPT !.comb = c]
<1>1. b \in AnyComb
  BY DEF Heaps
<1>2. es \in Seq(Nat)
  BY <1>1, AppendFacts DEF AnyComb
<1>3. vs \in Seq(V)
  <2>1. b.values \in Seq(V) /\ [rej |-> FALSE, val |-> Undefined] \in V
    BY <1>1, JobTypes DEF AnyComb
  <2> HIDE DEF V
  <2> QED
    BY <2>1, AppendFacts
<1>4. m \in Int
  BY <1>1 DEF AnyComb
<1>5. AddElement(h, p) = n
  BY DEF AddElement, Heaps, AnyComb
<1> HIDE DEF es, vs, m
<1>6. c \in AnyComb
  BY <1>1, <1>2, <1>3, <1>4 DEF AnyComb, V
<1>7. /\ c.type = b.type /\ c.pair = b.pair /\ c.loop = b.loop /\ c.called = b.called
      /\ c.given = b.given /\ c.elems = es /\ c.values = vs /\ c.remaining = m
  BY <1>1 DEF AnyComb
<1> HIDE DEF c
<1>8. n \in Heaps /\ n.promises = h.promises /\ n.pairs = h.pairs /\ n.jobs = h.jobs /\ n.comb = c
  BY <1>6 DEF Heaps
<1> QED
  BY <1>5, <1>7, <1>8 DEF es, vs, m

\* One more element is one more to be collected.
LEMMA AddSound ==
    ASSUME NEW h, NEW ro, NEW j, NEW th, NEW cl, Sound(h, ro, j, th, cl),
           h.comb.type # "none", h.comb.loop = "on", NEW p, p = 0 \/ p \in DOMAIN h.promises
    PROVE  LET n == AddElement(h, p)
               k == Len(h.comb.elems) + 1
           IN  /\ Sound(n, ro, j, th, cl) /\ n.promises = h.promises
               /\ n.comb.type = h.comb.type /\ n.comb.pair = h.comb.pair
               /\ k \in DOMAIN n.comb.elems /\ n.comb.elems[k] = p
<1> DEFINE n == AddElement(h, p)
           b == h.comb
           c == n.comb
           k == Len(b.elems) + 1
<1>1. /\ Good(h, ro) /\ h \in Heaps /\ Counted(b) /\ Recorded(h) /\ b \in AnyComb
  BY DEF Sound, Good, Combined, Heaps
<1>2. p \in Nat
  BY <1>1, Domains
<1>3. /\ n \in Heaps
      /\ n.promises = h.promises /\ n.pairs = h.pairs /\ n.jobs = h.jobs
      /\ c.type = b.type /\ c.pair = b.pair /\ c.loop = b.loop
      /\ c.called = b.called /\ c.given = b.given
      /\ c.elems = Append(b.elems, p)
      /\ c.values = Append(b.values, [rej |-> FALSE, val |-> Undefined])
      /\ b.type # "race" => c.remaining = b.remaining + 1
  BY <1>1, <1>2, AddIs
<1> HIDE DEF n, c
<1>4. /\ DOMAIN c.elems = 1 .. Len(b.elems) + 1 /\ Len(b.elems) \in Nat
      /\ DOMAIN b.elems = 1 .. Len(b.elems)
      /\ \A i \in DOMAIN b.elems : c.elems[i] = b.elems[i]
      /\ c.elems[Len(b.elems) + 1] = p
  <2>1. b.elems \in Seq(Nat)
    BY <1>1 DEF AnyComb
  <2> QED
    BY <1>2, <1>3, <2>1, AppendFacts
<1>5. /\ DOMAIN c.values = 1 .. Len(b.values) + 1 /\ Len(b.values) \in Nat
      /\ DOMAIN b.values = 1 .. Len(b.values)
      /\ \A i \in DOMAIN b.values : c.values[i] = b.values[i]
  <2> DEFINE V == [rej : BOOLEAN, val : AnyValue]
  <2>1. b.values \in Seq(V) /\ [rej |-> FALSE, val |-> Undefined] \in V
    BY <1>1, JobTypes DEF AnyComb
  <2> HIDE DEF V
  <2> QED
    BY <1>3, <2>1, AppendFacts
<1>6. DOMAIN b.values = DOMAIN b.elems
  BY <1>1 DEF Counted
<1>7. Len(b.values) = Len(b.elems)
  <2>1. ASSUME NEW x \in Nat, NEW y \in Nat, 1 .. x = 1 .. y PROVE x = y
    <3>1. x \in 1 .. x \/ x = 0
      OBVIOUS
    <3>2. y \in 1 .. y \/ y = 0
      OBVIOUS
    <3> QED
      BY <2>1, <3>1, <3>2
  <2> QED
    BY <1>4, <1>5, <1>6, <2>1
<1>8. k \in DOMAIN c.elems /\ k \notin DOMAIN b.elems /\ DOMAIN c.elems = DOMAIN b.elems \cup {k}
  BY <1>4
<1>9. CombLater(b, c)
  BY <1>3, <1>4, <1>8 DEF CombLater
<1>10. Counted(c)
  <2>1. \A i \in Nat, rej \in BOOLEAN : <<i, rej>> \in c.called =>
           i \in DOMAIN c.elems /\ Collects(c.type, rej)
    BY <1>1, <1>3, <1>8 DEF Counted
  <2>2. ASSUME c.type # "race", ~Both(c) PROVE c.remaining = Loop(c) + Cardinality(Missing(c))
    <3>1. ~Both(b)
      BY <1>3, <1>8, <2>2 DEF Both
    <3>2. b.remaining = Loop(b) + Cardinality(Missing(b))
      BY <1>1, <1>3, <2>2, <3>1 DEF Counted
    <3>3. k \in Nat
      BY <1>4
    <3>4. \A rej \in BOOLEAN : <<k, rej>> \notin b.called
      BY <1>1, <1>8, <3>3 DEF Counted
    <3> HIDE DEF b, k
    <3>5. Missing(c) = Missing(b) \cup {k} /\ k \notin Missing(b)
      BY <1>3, <1>8, <3>4 DEF Missing
    <3>6. Cardinality(Missing(c)) = Cardinality(Missing(b)) + 1
      BY <1>1, <3>5, MissingFinite, FS_AddElement
    <3>7. Cardinality(Missing(b)) \in Nat /\ Loop(c) = Loop(b) /\ Loop(b) \in Int
      BY <1>1, <1>3, MissingFinite DEF Loop
    <3>8. c.remaining = b.remaining + 1
      BY <1>3, <2>2
    <3> QED
      BY ONLY <3>2, <3>6, <3>7, <3>8
  <2>3. DOMAIN c.values = DOMAIN c.elems
    BY <1>4, <1>5, <1>7
  <2> QED
    BY <1>1, <1>3, <2>1, <2>2, <2>3 DEF Counted
<1>11. OnlyComb(h, n)
  BY <1>3, <1>9 DEF OnlyComb, c
<1>12. \A i \in DOMAIN c.elems : c.elems[i] = 0 \/ c.elems[i] \in DOMAIN h.promises
  BY <1>1, <1>4, <1>8 DEF Recorded
<1>13. Combined(n)
  BY <1>1, <1>3, <1>5, <1>10, <1>11, <1>12, CombKept DEF c
<1>14. Sound(n, ro, j, th, cl)
  BY <1>11, <1>13, CombSound
<1> QED
  BY <1>3, <1>4, <1>8, <1>14 DEF n, c

\* The iterator gave v.
LEMMA NextSound ==
    ASSUME NEW h, NEW ro, NEW j, NEW th, NEW cl, Sound(h, ro, j, th, cl),
           h.comb.type # "none", h.comb.loop = "on",
           NEW v, Exists(h, v), v.is = "thenable" => v = Thenable
    PROVE  LET r == ResolvedPromise(h, v)
               on == ElementHandlers(h.comb.type, h.comb.pair, Len(h.comb.elems) + 1)
           IN  Sound(PerformThen(AddElement(r.heap, r.p), r.p, on, 0, 0), ro, j, th, cl)
<1> DEFINE r == ResolvedPromise(h, v)
           q == r.p
           g == r.heap
           n == AddElement(g, q)
           k == Len(h.comb.elems) + 1
           on == ElementHandlers(h.comb.type, h.comb.pair, k)
<1>1. Sound(g, ro, j, th, cl) /\ q \in DOMAIN g.promises /\ g.comb = h.comb
  BY ResolvedSound
<1> HIDE DEF r, g, q
<1>2. /\ Sound(n, ro, j, th, cl) /\ n.promises = g.promises
      /\ n.comb.type = h.comb.type /\ n.comb.pair = h.comb.pair
      /\ k \in DOMAIN n.comb.elems /\ n.comb.elems[k] = q
  BY <1>1, AddSound
<1> HIDE DEF n, k
<1>3. Good(n, ro) /\ Good(g, ro) /\ h.comb.type \in Combiners
  BY <1>1, <1>2 DEF Sound, Good, Heaps, AnyComb, Combiners
<1>4. q # 0
  BY <1>1, <1>3, Domains DEF Good
<1>5. /\ on \in AnyFunction \X AnyFunction
      /\ ReactionFits(n, ro, [on |-> on, to |-> 0, id |-> 0], q)
  BY <1>2, <1>3, <1>4, ElementFits
<1> HIDE DEF on
<1>6. Sound(PerformThen(n, q, on, 0, 0), ro, j, th, cl)
  BY <1>1, <1>2, <1>5, ThenSound
<1> QED
  BY <1>6 DEF n, on, k, g, q, r

\* The promise of the combinator is settled with what it may become.
LEMMA PairCall ==
    ASSUME NEW h, NEW ro, Good(h, ro), h.comb.type # "none", NEW rej \in BOOLEAN,
           NEW v, Exists(h, v), v.is = "plain", MayBecome(h, rej, v)
    PROVE  h.comb.pair \in DOMAIN h.pairs /\ CanCall(h, ro, h.comb.pair, rej, v)
<1> DEFINE d == h.pairs[h.comb.pair].promise
<1>1. h.comb.pair \in DOMAIN h.pairs /\ h.promises[d].adopts = 0
  BY Zenon DEF Good, Combined, Combines
<1>2. \A p \in Nat : <<d, p>> \notin ro.fin /\ <<d, p>> \notin ro.giv
  BY <1>1 DEF Good, PairsSane
<1> QED
  BY <1>1, <1>2 DEF CanCall

\* The data of the combinator with another loop, count and more given.
NewData(h, loop, m, add) ==
    [h EXCEPT !.comb = [h.comb EXCEPT !.loop = loop, !.remaining = m, !.given = @ \cup add]]

LEMMA DataIs ==
    ASSUME NEW h \in Heaps, NEW loop \in {"on", "done", "failed"}, NEW m \in Int,
           NEW add \in SUBSET (Nat \X BOOLEAN \X AnyValue)
    PROVE  LET n == NewData(h, loop, m, add)
           IN  /\ n \in Heaps
               /\ n.promises = h.promises /\ n.pairs = h.pairs /\ n.jobs = h.jobs
               /\ n.comb.type = h.comb.type /\ n.comb.pair = h.comb.pair
               /\ n.comb.elems = h.comb.elems /\ n.comb.values = h.comb.values
               /\ n.comb.called = h.comb.called
               /\ n.comb.loop = loop /\ n.comb.remaining = m
               /\ n.comb.given = h.comb.given \cup add
<1> DEFINE b == h.comb
           gs == b.given \cup add
           c == [b EXCEPT !.loop = loop, !.remaining = m, !.given = gs]
           n == [h EXCEPT !.comb = c]
<1>1. b \in AnyComb
  BY DEF Heaps
<1>2. gs \in SUBSET (Nat \X BOOLEAN \X AnyValue)
  BY <1>1 DEF AnyComb
<1>3. NewData(h, loop, m, add) = n
  BY <1>1 DEF NewData, AnyComb
<1> HIDE DEF gs
<1>4. c \in AnyComb
  BY <1>1, <1>2 DEF AnyComb
<1>5. /\ c.type = b.type /\ c.pair = b.pair /\ c.elems = b.elems /\ c.values = b.values
      /\ c.called = b.called /\ c.loop = loop /\ c.remaining = m /\ c.given = gs
  BY <1>1 DEF AnyComb
<1> HIDE DEF c
<1>6. n \in Heaps /\ n.promises = h.promises /\ n.pairs = h.pairs /\ n.jobs = h.jobs /\ n.comb = c
  BY <1>4 DEF Heaps
<1> QED
  BY <1>3, <1>5, <1>6 DEF gs

\* The count goes down by one with the end of the loop only.
LEMMA DataSound ==
    ASSUME NEW h, NEW ro, NEW j, NEW th, NEW cl, Sound(h, ro, j, th, cl), h.comb.type # "none",
           NEW loop \in {"on", "done", "failed"}, NEW m \in Int,
           h.comb.loop = "done" => loop = "done",
           m = h.comb.remaining + (IF loop = "done" THEN 0 ELSE 1)
                 - (IF h.comb.loop = "done" THEN 0 ELSE 1),
           NEW add \in SUBSET (Nat \X BOOLEAN \X AnyValue)
    PROVE  LET n == NewData(h, loop, m, add)
           IN  /\ Sound(n, ro, j, th, cl)
               /\ n.promises = h.promises /\ n.pairs = h.pairs
               /\ n.comb.type = h.comb.type /\ n.comb.pair = h.comb.pair
               /\ n.comb.elems = h.comb.elems /\ n.comb.remaining = m
               /\ n.comb.given = h.comb.given \cup add
<1> DEFINE n == NewData(h, loop, m, add)
           b == h.comb
           c == n.comb
<1>1. Good(h, ro) /\ h \in Heaps /\ Counted(b) /\ Recorded(h) /\ b \in AnyComb
  BY DEF Sound, Good, Combined, Heaps
<1>2. /\ n \in Heaps
      /\ n.promises = h.promises /\ n.pairs = h.pairs /\ n.jobs = h.jobs
      /\ c.type = b.type /\ c.pair = b.pair /\ c.elems = b.elems /\ c.values = b.values
      /\ c.called = b.called /\ c.loop = loop /\ c.remaining = m /\ c.given = b.given \cup add
  BY <1>1, DataIs
<1> HIDE DEF n, c
<1>3. CombLater(b, c)
  BY <1>2 DEF CombLater
<1>4. Counted(c)
  <2>1. ASSUME c.type # "race", ~Both(c) PROVE c.remaining = Loop(c) + Cardinality(Missing(c))
    <3>1. ~Both(b) /\ Missing(c) = Missing(b)
      BY <1>2, <2>1 DEF Both, Missing
    <3>2. b.remaining = Loop(b) + Cardinality(Missing(b)) /\ Cardinality(Missing(b)) \in Nat
      BY <1>1, <1>2, <2>1, <3>1, MissingFinite DEF Counted
    <3>3. Loop(c) = IF loop = "done" THEN 0 ELSE 1
      BY <1>2 DEF Loop
    <3>4. Loop(b) = IF h.comb.loop = "done" THEN 0 ELSE 1
      BY DEF Loop
    <3>5. m = b.remaining + Loop(c) - Loop(b) /\ Loop(b) \in Int /\ Loop(c) \in Int
      BY <3>3, <3>4
    <3>6. m = Loop(c) + Cardinality(Missing(b))
      BY ONLY <3>2, <3>5
    <3> QED
      BY <1>2, <3>1, <3>6
  <2> QED
    BY <1>1, <1>2, <2>1 DEF Counted
<1>5. OnlyComb(h, n)
  BY <1>2, <1>3 DEF OnlyComb, c
<1>6. \A i \in DOMAIN c.elems : c.elems[i] = 0 \/ c.elems[i] \in DOMAIN h.promises
  BY <1>1, <1>2 DEF Recorded
<1>7. Combined(n)
  BY <1>1, <1>2, <1>4, <1>5, <1>6, CombKept DEF c
<1>8. Sound(n, ro, j, th, cl)
  BY <1>5, <1>7, CombSound
<1> QED
  BY <1>2, <1>8 DEF n, c

\* The functions that are attached to an element, or given to its own then().
LEMMA HandlerIs ==
    ASSUME NEW type \in Combiners, NEW r, NEW i, NEW rej \in BOOLEAN
    PROVE  LET on == ElementHandlers(type, r, i)
               f == IF rej THEN on[2] ELSE on[1]
           IN  \/ f = Element(i, rej) /\ Collects(type, rej)
               \/ f = Resolving(r, rej) /\ Passing(type, rej)
<1> DEFINE on == ElementHandlers(type, r, i)
           fits == LET f == IF rej THEN on[2] ELSE on[1]
                   IN  \/ f = Element(i, rej) /\ Collects(type, rej)
                       \/ f = Resolving(r, rej) /\ Passing(type, rej)
<1>0. \A a, b : <<a, b>>[1] = a /\ <<a, b>>[2] = b
  OBVIOUS
<1>1. CASE type = "all"
  <2>1. on = <<Element(i, FALSE), Resolving(r, TRUE)>>
    BY <1>1 DEF ElementHandlers
  <2> HIDE DEF on
  <2>2. on[1] = Element(i, FALSE) /\ on[2] = Resolving(r, TRUE)
    BY ONLY <1>0, <2>1, Zenon
  <2>3. fits
    BY <1>1, <2>2 DEF Collects, Passing
  <2> QED
    BY <2>3 DEF on
<1>2. CASE type = "allSettled"
  <2>1. on = <<Element(i, FALSE), Element(i, TRUE)>>
    BY <1>2 DEF ElementHandlers
  <2> HIDE DEF on
  <2>2. on[1] = Element(i, FALSE) /\ on[2] = Element(i, TRUE)
    BY ONLY <1>0, <2>1, Zenon
  <2>3. fits
    BY <1>2, <2>2 DEF Collects, Passing
  <2> QED
    BY <2>3 DEF on
<1>3. CASE type = "any"
  <2>1. on = <<Resolving(r, FALSE), Element(i, TRUE)>>
    BY <1>3 DEF ElementHandlers
  <2> HIDE DEF on
  <2>2. on[1] = Resolving(r, FALSE) /\ on[2] = Element(i, TRUE)
    BY ONLY <1>0, <2>1, Zenon
  <2>3. fits
    BY <1>3, <2>2 DEF Collects, Passing
  <2> QED
    BY <2>3 DEF on
<1>4. CASE type = "race"
  <2>1. on = <<Resolving(r, FALSE), Resolving(r, TRUE)>>
    BY <1>4 DEF ElementHandlers
  <2> HIDE DEF on
  <2>2. on[1] = Resolving(r, FALSE) /\ on[2] = Resolving(r, TRUE)
    BY ONLY <1>0, <2>1, Zenon
  <2>3. fits
    BY <1>4, <2>2 DEF Collects, Passing
  <2> QED
    BY <2>3 DEF on
<1> QED
  BY <1>1, <1>2, <1>3, <1>4 DEF Combiners

\* The script calls a function that its own then() was given.
LEMMA GivenSound ==
    ASSUME NEW h, NEW ro, NEW j, NEW th, NEW cl, Sound(h, ro, j, th, cl), h.comb.type # "none",
           NEW i \in DOMAIN h.comb.elems, NEW rej \in BOOLEAN,
           NEW v, Exists(h, v), v.is = "plain"
    PROVE  LET n == NewData(h, h.comb.loop, h.comb.remaining, {<<i, rej, v>>})
               on == ElementHandlers(h.comb.type, h.comb.pair, i)
               f == IF rej THEN on[2] ELSE on[1]
           IN  Sound(Call(n, f, rej, v).heap, ro, j, th, cl)
<1> DEFINE n == NewData(h, h.comb.loop, h.comb.remaining, {<<i, rej, v>>})
           on == ElementHandlers(h.comb.type, h.comb.pair, i)
           f == IF rej THEN on[2] ELSE on[1]
<1>1. /\ h \in Heaps /\ h.comb \in AnyComb /\ Counted(h.comb) /\ v \in AnyValue
      /\ h.comb.type \in Combiners
  BY DEF Sound, Good, Combined, Heaps, AnyComb, Combiners, Exists
<1>2. i \in Nat /\ h.comb.loop \in {"on", "done", "failed"} /\ h.comb.remaining \in Int
  BY <1>1 DEF AnyComb, Counted
<1>3. {<<i, rej, v>>} \in SUBSET (Nat \X BOOLEAN \X AnyValue)
  BY <1>1, <1>2
<1>4. h.comb.remaining = h.comb.remaining + (IF h.comb.loop = "done" THEN 0 ELSE 1)
                            - (IF h.comb.loop = "done" THEN 0 ELSE 1)
  BY <1>2
<1>5. /\ Sound(n, ro, j, th, cl)
      /\ n.promises = h.promises /\ n.pairs = h.pairs
      /\ n.comb.type = h.comb.type /\ n.comb.pair = h.comb.pair
      /\ n.comb.elems = h.comb.elems
      /\ n.comb.given = h.comb.given \cup {<<i, rej, v>>}
  BY <1>2, <1>3, <1>4, DataSound
<1> HIDE DEF n
<1>6. Outcome(n, i, rej, v) /\ Exists(n, v)
  BY <1>5 DEF Outcome, Exists
<1>7. \/ f = Element(i, rej) /\ Collects(h.comb.type, rej)
      \/ f = Resolving(h.comb.pair, rej) /\ Passing(h.comb.type, rej)
  BY <1>1, HandlerIs
<1> HIDE DEF f, on
<1>8. ASSUME f = Element(i, rej), Collects(h.comb.type, rej)
      PROVE  Sound(Call(n, f, rej, v).heap, ro, j, th, cl)
  <2>1. f.is = "element" /\ f.of = i /\ f.rej = rej
    BY <1>8 DEF Element, Function
  <2>2. Call(n, f, rej, v).heap = CallElement(n, i, rej, v)
    BY <2>1 DEF Call
  <2>3. MayCollect(n, i, rej, v)
    BY <1>1, <1>5, <1>6, <1>8 DEF MayCollect
  <2> QED
    BY <1>5, <2>2, <2>3, ElementSound
<1>9. ASSUME f = Resolving(h.comb.pair, rej), Passing(h.comb.type, rej)
      PROVE  Sound(Call(n, f, rej, v).heap, ro, j, th, cl)
  <2>1. f.is = "resolving" /\ f.of = n.comb.pair /\ f.rej = rej
    BY <1>5, <1>9 DEF Resolving, Function
  <2>2. Call(n, f, rej, v).heap = CallResolving(n, n.comb.pair, rej, v)
    BY <2>1 DEF Call
  <2>3. SomeIs(n, rej, v)
    BY <1>5, <1>6 DEF SomeIs
  <2>4. MayBecome(n, rej, v)
    <3>1. CASE rej
      BY <1>5, <1>9, <2>3, <3>1 DEF MayBecome, Passing
    <3>2. CASE ~rej
      BY <1>5, <1>9, <2>3, <3>2 DEF MayBecome, Passing
    <3> QED
      BY <3>1, <3>2
  <2>5. n.comb.pair \in DOMAIN n.pairs /\ CanCall(n, ro, n.comb.pair, rej, v)
    BY <1>5, <1>6, <2>4, PairCall DEF Sound
  <2> QED
    BY <1>5, <2>2, <2>5, CallSound
<1>10. Sound(Call(n, f, rej, v).heap, ro, j, th, cl)
  BY <1>7, <1>8, <1>9
<1> QED
  BY <1>10 DEF n, f, on

\* The iteration throws.
LEMMA FailSound ==
    ASSUME NEW h, NEW ro, NEW j, NEW th, NEW cl, Sound(h, ro, j, th, cl),
           h.comb.type # "none", h.comb.loop = "on", NEW v, Exists(h, v), v.is = "plain"
    PROVE  LET n == NewData(h, "failed", h.comb.remaining, {<<0, TRUE, v>>})
           IN  Sound(CallResolving(n, h.comb.pair, TRUE, v), ro, j, th, cl)
<1> DEFINE loop == "failed"
           add == {<<0, TRUE, v>>}
           n == NewData(h, loop, h.comb.remaining, add)
<1>0. loop \in {"on", "done", "failed"} /\ loop # "done" /\ "on" # "done"
  OBVIOUS
<1> HIDE DEF loop
<1>1. h.comb.remaining \in Int /\ v \in AnyValue
  BY DEF Sound, Good, Heaps, AnyComb, Exists
<1>2. add \in SUBSET (Nat \X BOOLEAN \X AnyValue)
  <2>1. \A x \in Nat, b \in BOOLEAN, y \in AnyValue :
           {<<x, b, y>>} \in SUBSET (Nat \X BOOLEAN \X AnyValue)
    OBVIOUS
  <2> QED
    BY <1>1, <2>1
<1>3. h.comb.remaining = h.comb.remaining + (IF loop = "done" THEN 0 ELSE 1)
                            - (IF h.comb.loop = "done" THEN 0 ELSE 1)
  BY <1>0, <1>1
<1> HIDE DEF add
<1>4. /\ Sound(n, ro, j, th, cl)
      /\ n.promises = h.promises /\ n.pairs = h.pairs
      /\ n.comb.type = h.comb.type /\ n.comb.pair = h.comb.pair
      /\ n.comb.given = h.comb.given \cup add
  BY <1>0, <1>1, <1>2, <1>3, DataSound
<1> HIDE DEF n
<1>5. MayBecome(n, TRUE, v) /\ Exists(n, v)
  BY <1>4 DEF MayBecome, Exists, add
<1>6. n.comb.pair \in DOMAIN n.pairs /\ CanCall(n, ro, n.comb.pair, TRUE, v)
  BY <1>4, <1>5, PairCall DEF Sound
<1>7. Sound(CallResolving(n, h.comb.pair, TRUE, v), ro, j, th, cl)
  BY <1>4, <1>6, CallSound
<1> QED
  BY <1>7 DEF n, loop, add

\* The loop ends, and so does the combinator when nothing is left to collect.
LEMMA LoopSound ==
    ASSUME NEW h, NEW ro, NEW j, NEW th, NEW cl, Sound(h, ro, j, th, cl),
           h.comb.type # "none", h.comb.loop = "on"
    PROVE  LET n == NewData(h, "done", h.comb.remaining - 1, {})
           IN  Sound(IF h.comb.type # "race" /\ h.comb.remaining - 1 = 0
                     THEN CallResolving(n, h.comb.pair, h.comb.type = "any", List)
                     ELSE n, ro, j, th, cl)
<1> DEFINE m == h.comb.remaining - 1
           n == NewData(h, "done", m, {})
<1>1. h.comb.remaining \in Int
  BY DEF Sound, Good, Heaps, AnyComb
<1>2. m \in Int /\ m = h.comb.remaining + 0 - 1
  BY <1>1
<1> HIDE DEF m
<1>3. /\ Sound(n, ro, j, th, cl)
      /\ n.comb.type = h.comb.type /\ n.comb.pair = h.comb.pair /\ n.comb.remaining = m
  BY <1>2, DataSound
<1> HIDE DEF n
<1>4. ASSUME h.comb.type # "race", m = 0
      PROVE  Sound(CallResolving(n, h.comb.pair, h.comb.type = "any", List), ro, j, th, cl)
  <2> DEFINE b == n.comb.type = "any"
  <2>1. Good(n, ro) /\ n.comb.type \notin {"none", "race"} /\ n.comb.remaining = 0
    BY <1>3, <1>4 DEF Sound
  <2>2. n.comb.pair \in DOMAIN n.pairs /\ CanCall(n, ro, n.comb.pair, b, List)
    BY <2>1, AllCollected
  <2>3. b \in BOOLEAN /\ b = (h.comb.type = "any")
    BY <1>3
  <2> HIDE DEF b
  <2>4. Sound(CallResolving(n, n.comb.pair, b, List), ro, j, th, cl)
    BY <1>3, <2>2, <2>3, CallSound
  <2> QED
    BY <1>3, <2>3, <2>4
<1> QED
  BY <1>3, <1>4 DEF n, m

-----------------------------------------------------------------------------
(* JS_ExecutePendingJob takes the first job.                               *)

LEMMA TailFacts ==
    ASSUME NEW S, NEW s \in Seq(S), s # <<>>
    PROVE  /\ Tail(s) \in Seq(S) /\ Head(s) \in S /\ Head(s) = s[1] /\ 1 \in DOMAIN s
           /\ DOMAIN s \subseteq Nat /\ DOMAIN Tail(s) \subseteq Nat
           /\ \A i \in DOMAIN Tail(s) : i + 1 \in DOMAIN s /\ Tail(s)[i] = s[i + 1]
           /\ \A i \in DOMAIN s \ {1} : i - 1 \in DOMAIN Tail(s) /\ Tail(s)[i - 1] = s[i]
OBVIOUS

\* g is h without its first job.
Taken(h, g) ==
    /\ h \in Heaps /\ g \in Heaps
    /\ g.promises = h.promises /\ g.comb = h.comb
    /\ 1 \in DOMAIN h.jobs /\ DOMAIN h.jobs \subseteq Nat /\ DOMAIN g.jobs \subseteq Nat
    /\ \A i \in DOMAIN g.jobs : i + 1 \in DOMAIN h.jobs /\ g.jobs[i] = h.jobs[i + 1]
    /\ \A i \in DOMAIN h.jobs \ {1} : i - 1 \in DOMAIN g.jobs /\ g.jobs[i - 1] = h.jobs[i]

\* The calls of then() whose handler was called, when the handler of j is.
CalledWith(cl, j) == IF j.id = 0 THEN cl ELSE Append(cl, j.id)

LEMMA TakenOrdered ==
    ASSUME NEW h, NEW g, Taken(h, g), NEW ro, NEW th, NEW cl, ThensKept(h, ro, th),
           Ordered(h, th, cl)
    PROVE  Ordered(g, th, CalledWith(cl, h.jobs[1]))
<1> DEFINE e == h.jobs[1]
           cn == CalledWith(cl, e)
<1>1. /\ DOMAIN th = 1 .. Len(th) /\ Len(th) \in Nat
      /\ g.promises = h.promises /\ 1 \in DOMAIN h.jobs
      /\ JobsOrdered(h, th, cl) /\ e.id \in 0 .. Len(th)
  BY ThensDomain DEF Taken, Ordered, JobsOrdered
<1>2. /\ cn \in Seq(Nat) /\ DOMAIN cl \subseteq Nat
      /\ \A n \in DOMAIN cl : n \in DOMAIN cn /\ cn[n] = cl[n]
      /\ e.id # 0 => \E n \in DOMAIN cn : cn[n] = e.id
      /\ \A n \in DOMAIN cn : \/ n \in DOMAIN cl
                              \/ cn[n] = e.id /\ e.id # 0 /\ \A m \in DOMAIN cl : m < n
      /\ \A m, n \in DOMAIN cn : n \notin DOMAIN cl /\ m < n => m \in DOMAIN cl
  <2>1. cl \in Seq(Nat)
    BY <1>1 DEF JobsOrdered
  <2>2. CASE e.id = 0
    BY <2>1, <2>2 DEF CalledWith
  <2>3. CASE e.id # 0
    <3> DEFINE k == e.id
               l == Append(cl, k)
    <3>1. k \in Nat /\ cn = l
      BY <1>1, <2>3 DEF CalledWith
    <3> HIDE DEF cn, k
    <3>2. /\ l \in Seq(Nat) /\ DOMAIN cl = 1 .. Len(cl) /\ Len(cl) \in Nat
          /\ DOMAIN l = 1 .. Len(cl) + 1
          /\ \A n \in DOMAIN cl : l[n] = cl[n]
          /\ l[Len(cl) + 1] = k
      BY <2>1, <3>1, AppendFacts
    <3> HIDE DEF l
    <3>3. \A n \in DOMAIN l : n \in DOMAIN cl \/ n = Len(cl) + 1
      BY <3>2
    <3> QED
      BY <3>1, <3>2, <3>3, <2>3 DEF k
  <2> QED
    BY <2>2, <2>3
<1> HIDE DEF cn
<1>3. ReactionsOrdered(g, th)
  BY <1>1 DEF Ordered, ReactionsOrdered
<1>4. \A id \in DOMAIN th : Done(g, th[id].on) = Done(h, th[id].on)
  BY <1>1 DEF Done
<1>5. \A i \in DOMAIN g.jobs : Before(th, e.id, g.jobs[i].id)
  <2> TAKE i \in DOMAIN g.jobs
  <2>1. i \in Nat /\ i + 1 \in DOMAIN h.jobs /\ g.jobs[i] = h.jobs[i + 1]
    BY DEF Taken
  <2>2. i # 0
    <3>1. DOMAIN g.jobs = 1 .. Len(g.jobs) /\ Len(g.jobs) \in Nat
      BY Domains DEF Taken
    <3> QED
      BY <3>1
  <2>3. 1 < i + 1
    BY <2>1, <2>2
  <2> QED
    BY <2>1, <2>3, <1>1 DEF JobsOrdered
<1>6. JobsOrdered(g, th, cn)
  <2>1. ASSUME NEW i \in DOMAIN g.jobs
        PROVE  /\ g.jobs[i].id \in 0 .. Len(th)
               /\ g.jobs[i].id # 0 => Done(g, th[g.jobs[i].id].on)
    BY <1>1, <1>4 DEF Taken, JobsOrdered
  <2>2. ASSUME NEW i \in DOMAIN g.jobs, NEW k \in DOMAIN g.jobs, i < k
        PROVE  Before(th, g.jobs[i].id, g.jobs[k].id)
    <3>1. i \in Nat /\ k \in Nat /\ i + 1 < k + 1
      BY <2>2 DEF Taken
    <3> QED
      BY <3>1, <1>1 DEF Taken, JobsOrdered
  <2>3. ASSUME NEW n \in DOMAIN cn
        PROVE  cn[n] \in DOMAIN th /\ Done(g, th[cn[n]].on)
    <3>1. CASE n \in DOMAIN cl
      BY <3>1, <1>1, <1>2, <1>4 DEF JobsOrdered
    <3>2. CASE cn[n] = e.id /\ e.id # 0
      BY <3>2, <1>1, <1>4 DEF JobsOrdered
    <3> QED
      BY <3>1, <3>2, <1>2
  <2>4. ASSUME NEW m \in DOMAIN cn, NEW n \in DOMAIN cn, m < n
        PROVE  Before(th, cn[m], cn[n])
    <3>1. CASE n \in DOMAIN cl
      <4>1. m \in DOMAIN cl
        <5> SUFFICES ASSUME m \notin DOMAIN cl PROVE FALSE
          OBVIOUS
        <5>1. n < m
          BY <1>2, <3>1
        <5>2. m \in Nat /\ n \in Nat
          BY <1>2
        <5> QED
          BY <5>1, <5>2, <2>4
      <4> QED
        BY <4>1, <3>1, <2>4, <1>1, <1>2 DEF JobsOrdered
    <3>2. CASE n \notin DOMAIN cl
      <4>1. m \in DOMAIN cl /\ cn[n] = e.id /\ cn[m] = cl[m]
        BY <3>2, <2>4, <1>2
      <4> QED
        BY <4>1, <1>1 DEF JobsOrdered
    <3> QED
      BY <3>1, <3>2
  <2>5. ASSUME NEW n \in DOMAIN cn, NEW i \in DOMAIN g.jobs
        PROVE  Before(th, cn[n], g.jobs[i].id)
    <3>1. CASE n \in DOMAIN cl
      BY <3>1, <1>1, <1>2 DEF Taken, JobsOrdered
    <3>2. CASE cn[n] = e.id
      BY <3>2, <1>5
    <3> QED
      BY <3>1, <3>2, <1>2
  <2> QED
    BY <2>1, <2>2, <2>3, <2>4, <2>5, <1>2 DEF JobsOrdered
<1>7. ASSUME NEW id \in DOMAIN th PROVE Placed(g, cn, id)
  <2>1. Placed(h, cl, id) /\ id # 0
    BY <1>1 DEF Ordered
  <2>2. CASE \E p \in DOMAIN h.promises : \E k \in DOMAIN h.promises[p].reactions :
                h.promises[p].reactions[k].id = id
    BY <2>2, <1>1 DEF Placed
  <2>3. CASE \E i \in DOMAIN h.jobs : h.jobs[i].id = id
    <3>1. PICK i \in DOMAIN h.jobs : h.jobs[i].id = id
      BY <2>3
    <3>2. CASE i = 1
      BY <3>1, <3>2, <2>1, <1>2 DEF Placed
    <3>3. CASE i # 1
      BY <3>1, <3>3 DEF Placed, Taken
    <3> QED
      BY <3>2, <3>3
  <2>4. CASE \E n \in DOMAIN cl : cl[n] = id
    BY <2>4, <1>2 DEF Placed
  <2> QED
    BY <2>1, <2>2, <2>3, <2>4 DEF Placed
<1> QED
  BY <1>3, <1>6, <1>7 DEF Ordered, cn

LEMMA ReactionTaken ==
    ASSUME NEW h, NEW g, Taken(h, g), g.pairs = h.pairs, h.jobs[1].is = "reaction",
           NEW ro, NEW th, NEW cl, Sound(h, ro, NoJob, th, cl)
    PROVE  /\ Sound(g, ro, NoJob, th, CalledWith(cl, h.jobs[1]))
           /\ h.jobs[1] \in AnyJob /\ JobFits(g, ro, h.jobs[1])
<1> DEFINE e == h.jobs[1]
<1>1. /\ Good(h, ro) /\ h \in Heaps /\ g \in Heaps /\ ro \in Roles
      /\ g.promises = h.promises /\ g.comb = h.comb /\ 1 \in DOMAIN h.jobs
      /\ e \in AnyJob
  BY Domains DEF Sound, Good, Taken
<1>2. SameFaces(h, g)
  BY <1>1 DEF SameFaces
<1>3. Tracked(g)
  BY <1>1 DEF Good, Tracked, Sane, Exists
<1>4. PairsSane(g, ro) /\ Adopted(g) /\ RolesKept(g, ro) /\ Combined(g) /\ Later(h, g)
  BY <1>1, <1>2, FacesKept DEF Good
<1>5. Alone(g)
  <2>1. ASSUME NEW i \in DOMAIN g.jobs, NEW k \in DOMAIN g.jobs,
               g.jobs[i].is = "thenable", g.jobs[k].is = "thenable", g.jobs[i].to = g.jobs[k].to
        PROVE  i = k
    <3>1. i + 1 = k + 1
      BY <2>1, <1>1 DEF Taken, Good, Alone
    <3>2. i \in Nat /\ k \in Nat
      BY DEF Taken
    <3> QED
      BY <3>1, <3>2
  <2>2. ASSUME NEW r \in DOMAIN g.pairs, NEW i \in DOMAIN g.jobs,
               ~g.pairs[r].used, g.jobs[i].is = "thenable"
        PROVE  g.pairs[r].promise # g.jobs[i].to
    BY <2>2, <1>1 DEF Taken, Good, Alone
  <2>3. \A r, s \in DOMAIN g.pairs :
          ~g.pairs[r].used /\ ~g.pairs[s].used /\ g.pairs[r].promise = g.pairs[s].promise => r = s
    BY <1>1 DEF Good, Alone
  <2> QED
    BY <2>1, <2>2, <2>3 DEF Alone
<1>6. HasDecider(g)
  <2> SUFFICES ASSUME NEW p \in DOMAIN h.promises, NEW i \in DOMAIN h.jobs,
                      h.jobs[i].is = "thenable", h.jobs[i].to = p
               PROVE  \E k \in DOMAIN g.jobs : g.jobs[k].is = "thenable" /\ g.jobs[k].to = p
    BY <1>1 DEF Good, HasDecider, Done
  <2>1. i # 1
    OBVIOUS
  <2> QED
    BY <2>1 DEF Taken
<1>7. ReactionsFit(g, ro)
  <2> SUFFICES ASSUME NEW p \in DOMAIN h.promises, NEW k \in DOMAIN h.promises[p].reactions
               PROVE  ReactionFits(g, ro, h.promises[p].reactions[k], p)
    BY <1>1 DEF ReactionsFit
  <2>1. h.promises[p].reactions[k] \in Reaction
    BY <1>1, Domains
  <2>2. ReactionFits(h, ro, h.promises[p].reactions[k], p)
    BY <1>1 DEF Good, ReactionsFit
  <2>3. PairsSane(h, ro) /\ RolesKept(h, ro) /\ RolesGrow(h, ro, ro)
    BY <1>1, SameRoles DEF Good
  <2>4. p \in DOMAIN h.promises
    OBVIOUS
  <2> QED
    BY ONLY <2>1, <2>2, <2>3, <2>4, <1>1, <1>4, ReactionFitsLater
<1>8. ASSUME NEW i \in DOMAIN h.jobs, h.jobs[i].is = "reaction"
      PROVE  JobFits(g, ro, h.jobs[i])
  <2>1. h.jobs[i] \in AnyJob /\ JobFits(h, ro, h.jobs[i])
    BY <1>1, <1>8, Domains DEF Good, JobsFit
  <2>2. PairsSane(h, ro) /\ RolesKept(h, ro) /\ RolesGrow(h, ro, ro)
    BY <1>1, SameRoles DEF Good
  <2> QED
    BY ONLY <2>1, <2>2, <1>1, <1>4, JobFitsLater
<1>9. JobsFit(g, ro)
  <2> SUFFICES ASSUME NEW i \in DOMAIN h.jobs
               PROVE  \/ h.jobs[i].is = "reaction" /\ JobFits(g, ro, h.jobs[i])
                      \/ h.jobs[i].is = "thenable" /\ ThenableSane(g, ro, h.jobs[i])
    BY DEF Taken, JobsFit
  <2>1. CASE h.jobs[i].is = "reaction"
    BY <2>1, <1>8
  <2>2. CASE h.jobs[i].is # "reaction"
    <3>1. h.jobs[i].is = "thenable" /\ ThenableSane(h, ro, h.jobs[i])
      BY <2>2, <1>1 DEF Good, JobsFit
    <3> QED
      BY <3>1, <1>1 DEF ThenableSane, Done, Exists, Ordinary
  <2> QED
    BY <2>1, <2>2
<1>10. Good(g, ro)
  BY <1>1, <1>3, <1>4, <1>5, <1>6, <1>7, <1>9 DEF Good
<1>11. RunFits(g, ro, NoJob)
  BY <1>1, <1>4, SameRoles, RunFitsLater DEF Sound
<1>12. ThensKept(g, ro, th)
  BY <1>1 DEF Sound, ThensKept
<1>13. Ordered(g, th, CalledWith(cl, e))
  BY TakenOrdered DEF Sound
<1> QED
  BY <1>1, <1>8, <1>10, <1>11, <1>12, <1>13 DEF Sound

\* The new pair for the promise of a job that calls then().
LEMMA ThenableTaken ==
    ASSUME NEW h, NEW g, Taken(h, g), h.jobs[1].is = "thenable",
           g.pairs = Append(h.pairs, [promise |-> h.jobs[1].to, used |-> FALSE,
                                      known |-> h.jobs[1].arg = Thenable]),
           NEW ro, NEW th, NEW cl, Sound(h, ro, NoJob, th, cl)
    PROVE  /\ Sound(g, ro, NoJob, th, cl) /\ ThenableSane(g, ro, h.jobs[1])
           /\ h.jobs[1] \in AnyJob
           /\ Len(g.pairs) \in DOMAIN g.pairs
           /\ g.pairs[Len(g.pairs)].promise = h.jobs[1].to
           /\ h.jobs[1].arg = Thenable => Free(g, ro, Len(g.pairs))
<1> DEFINE e == h.jobs[1]
           r == Len(g.pairs)
           k == e.arg = Thenable
           new == [promise |-> e.to, used |-> FALSE, known |-> k]
<1>1. /\ Good(h, ro) /\ h \in Heaps /\ g \in Heaps /\ ro \in Roles
      /\ g.promises = h.promises /\ g.comb = h.comb /\ 1 \in DOMAIN h.jobs
      /\ e \in AnyJob
  BY Domains DEF Sound, Good, Taken
<1>2. ThenableSane(h, ro, e) /\ ThenableSane(g, ro, e)
  <2>1. ThenableSane(h, ro, e)
    BY <1>1 DEF Good, JobsFit
  <2> QED
    BY <2>1, <1>1 DEF ThenableSane, Done, Exists, Ordinary
<1>3. /\ DOMAIN h.pairs = 1 .. Len(h.pairs) /\ Len(h.pairs) \in Nat
      /\ r = Len(h.pairs) + 1 /\ DOMAIN g.pairs = 1 .. r /\ r \in Nat
      /\ \A x \in DOMAIN h.pairs : x \in DOMAIN g.pairs /\ g.pairs[x] = h.pairs[x]
      /\ g.pairs[r] = new /\ r \in DOMAIN g.pairs /\ r \notin DOMAIN h.pairs
      /\ \A x \in DOMAIN g.pairs : x \in DOMAIN h.pairs \/ x = r
  <2>1. h.pairs \in Seq(Pair) /\ new \in Pair
    <3>1. k \in BOOLEAN /\ e.to \in Nat
      BY <1>1 DEF AnyJob
    <3> HIDE DEF k
    <3> QED
      BY <1>1, <3>1 DEF Heaps, Pair
  <2> HIDE DEF new
  <2>2. g.pairs = Append(h.pairs, new)
    BY DEF new
  <2>3. /\ Append(h.pairs, new) \in Seq(Pair) /\ Len(Append(h.pairs, new)) = Len(h.pairs) + 1
        /\ DOMAIN Append(h.pairs, new) = 1 .. Len(h.pairs) + 1
        /\ DOMAIN h.pairs = 1 .. Len(h.pairs) /\ Len(h.pairs) \in Nat
        /\ \A i \in DOMAIN h.pairs : Append(h.pairs, new)[i] = h.pairs[i]
        /\ Append(h.pairs, new)[Len(h.pairs) + 1] = new
    BY <2>1, AppendFacts
  <2> QED
    BY <2>2, <2>3
<1>4. new.promise = e.to /\ ~new.used /\ new.known = k
  OBVIOUS
<1> HIDE DEF new, r
<1>5. /\ e.to \in DOMAIN h.promises /\ ~Done(h, e.to) /\ e.id = 0
      /\ k => Ordinary(h, ro, e.to)
  <2>1. k => e.arg.is = "thenable"
    BY DEF Thenable
  <2> QED
    BY <2>1, <1>2 DEF ThenableSane
<1>6. r # g.comb.pair
  <2>1. CASE g.comb.type = "none"
    <3>1. g.comb.pair = 0
      BY <2>1, <1>1 DEF Good, Combined, NoCombinator
    <3> QED
      BY <3>1, <1>3
  <2>2. CASE g.comb.type # "none"
    BY <2>2, <1>1, <1>3 DEF Good, Combined, Combines
  <2> QED
    BY <2>1, <2>2
<1>7. k => Free(g, ro, r)
  BY <1>1, <1>3, <1>4, <1>5, <1>6 DEF Free, Ordinary
<1> HIDE DEF k
<1>8. Later(h, g)
  BY <1>1, <1>3, SameComb, Domains DEF Later, Good, PairsSane
<1>9. Tracked(g)
  BY <1>1 DEF Good, Tracked, Sane, Exists
<1>10. PairsSane(g, ro)
  <2> SUFFICES ASSUME NEW x \in DOMAIN g.pairs
               PROVE  /\ g.pairs[x].promise \in DOMAIN g.promises
                      /\ ~g.pairs[x].used => ~Done(g, g.pairs[x].promise)
                      /\ g.pairs[x].known => Free(g, ro, x)
                      /\ x = g.comb.pair =>
                            \A p \in Nat : /\ <<g.pairs[x].promise, p>> \notin ro.fin
                                           /\ <<g.pairs[x].promise, p>> \notin ro.giv
    BY DEF PairsSane
  <2>1. CASE x \in DOMAIN h.pairs
    BY <2>1, <1>1, <1>3 DEF Good, PairsSane, Free, Ordinary, Done
  <2>2. CASE x = r
    BY <2>2, <1>1, <1>3, <1>4, <1>5, <1>6, <1>7 DEF Done
  <2> QED
    BY <2>1, <2>2, <1>3
<1>11. Adopted(g) /\ RolesKept(g, ro)
  <2>1. Adopted(g)
    BY <1>1 DEF Good, Adopted, Done
  <2>2. \A p, v : HasOutcome(g, p, FALSE, v) <=> HasOutcome(h, p, FALSE, v)
    BY <1>1 DEF HasOutcome
  <2>3. RolesKept(h, ro) /\ g.promises = h.promises
    BY <1>1 DEF Good
  <2>4. RolesKept(g, ro)
    BY ONLY <2>2, <2>3 DEF RolesKept
  <2> QED
    BY <2>1, <2>4
<1>12. Combined(g)
  <2>1. Combined(h) /\ g.comb = h.comb /\ g.promises = h.promises
    BY <1>1 DEF Good
  <2>2. ASSUME h.comb.type # "none"
        PROVE  LET p == h.pairs[h.comb.pair].promise
               IN  /\ g.promises[p].adopts = 0
                   /\ g.pairs[h.comb.pair].used => Done(g, p)
                   /\ Done(g, p) => Done(h, p)
    <3> DEFINE p == h.pairs[h.comb.pair].promise
    <3>1. /\ h.comb.pair \in DOMAIN h.pairs /\ h.promises[p].adopts = 0
          /\ h.pairs[h.comb.pair].used => Done(h, p)
      BY <2>1, <2>2, Zenon DEF Combined, Combines
    <3>2. g.pairs[h.comb.pair] = h.pairs[h.comb.pair]
      BY <3>1, <1>3
    <3> HIDE DEF p
    <3>3. /\ g.promises[p].adopts = 0
          /\ g.pairs[h.comb.pair].used => Done(g, p)
          /\ Done(g, p) => Done(h, p)
      BY <2>1, <3>1, <3>2 DEF Done
    <3> QED
      BY <3>3 DEF p
  <2>3. /\ \A x \in DOMAIN h.pairs : h.pairs[x].promise \in DOMAIN h.promises
        /\ DOMAIN h.pairs \subseteq DOMAIN g.pairs
    BY <1>1, <1>3 DEF Good, PairsSane
  <2> QED
    BY <1>1, <1>8, <2>1, <2>2, <2>3, CombinedLater
<1>13. Alone(g)
  <2>1. ASSUME NEW i \in DOMAIN g.jobs, NEW l \in DOMAIN g.jobs,
               g.jobs[i].is = "thenable", g.jobs[l].is = "thenable", g.jobs[i].to = g.jobs[l].to
        PROVE  i = l
    <3>1. i + 1 = l + 1
      BY <2>1, <1>1 DEF Taken, Good, Alone
    <3>2. i \in Nat /\ l \in Nat
      BY DEF Taken
    <3> QED
      BY <3>1, <3>2
  <2>2. ASSUME NEW x \in DOMAIN g.pairs, NEW i \in DOMAIN g.jobs,
               ~g.pairs[x].used, g.jobs[i].is = "thenable"
        PROVE  g.pairs[x].promise # g.jobs[i].to
    <3>1. i \in Nat /\ i + 1 \in DOMAIN h.jobs /\ g.jobs[i] = h.jobs[i + 1] /\ i # 0
      <4>1. DOMAIN g.jobs = 1 .. Len(g.jobs) /\ Len(g.jobs) \in Nat
        BY <1>1, Domains
      <4> QED
        BY <4>1 DEF Taken
    <3>2. CASE x \in DOMAIN h.pairs
      BY <3>1, <3>2, <2>2, <1>1, <1>3 DEF Good, Alone
    <3>3. CASE x = r
      <4>1. i + 1 # 1
        BY <3>1
      <4> QED
        BY <4>1, <3>1, <3>3, <2>2, <1>1, <1>3, <1>4 DEF Good, Alone
    <3> QED
      BY <3>2, <3>3, <1>3
  <2>3. ASSUME NEW x \in DOMAIN g.pairs, NEW y \in DOMAIN g.pairs,
               ~g.pairs[x].used, ~g.pairs[y].used, g.pairs[x].promise = g.pairs[y].promise
        PROVE  x = y
    <3>1. \A z \in DOMAIN h.pairs : ~h.pairs[z].used => h.pairs[z].promise # e.to
      BY <1>1 DEF Good, Alone
    <3>2. CASE x \in DOMAIN h.pairs /\ y \in DOMAIN h.pairs
      BY <3>2, <2>3, <1>1, <1>3 DEF Good, Alone
    <3> QED
      BY <3>1, <3>2, <2>3, <1>3, <1>4
  <2> QED
    BY <2>1, <2>2, <2>3 DEF Alone
<1>14. HasDecider(g)
  <2> SUFFICES ASSUME NEW p \in DOMAIN h.promises, ~Done(h, p)
               PROVE  \/ \E x \in DOMAIN g.pairs : ~g.pairs[x].used /\ g.pairs[x].promise = p
                      \/ \E i \in DOMAIN g.jobs : g.jobs[i].is = "thenable" /\ g.jobs[i].to = p
    BY <1>1 DEF HasDecider, Done
  <2>1. CASE \E x \in DOMAIN h.pairs : ~h.pairs[x].used /\ h.pairs[x].promise = p
    BY <2>1, <1>3
  <2>2. CASE \E i \in DOMAIN h.jobs : h.jobs[i].is = "thenable" /\ h.jobs[i].to = p
    <3>1. PICK i \in DOMAIN h.jobs : h.jobs[i].is = "thenable" /\ h.jobs[i].to = p
      BY <2>2
    <3>2. CASE i = 1
      BY <3>1, <3>2, <1>3, <1>4
    <3>3. CASE i # 1
      BY <3>1, <3>3 DEF Taken
    <3> QED
      BY <3>2, <3>3
  <2> QED
    BY <2>1, <2>2, <1>1 DEF Good, HasDecider
<1>15. ReactionsFit(g, ro)
  <2> SUFFICES ASSUME NEW p \in DOMAIN h.promises, NEW l \in DOMAIN h.promises[p].reactions
               PROVE  ReactionFits(g, ro, h.promises[p].reactions[l], p)
    BY <1>1 DEF ReactionsFit
  <2>1. h.promises[p].reactions[l] \in Reaction
    BY <1>1, Domains
  <2>2. ReactionFits(h, ro, h.promises[p].reactions[l], p)
    BY <1>1 DEF Good, ReactionsFit
  <2>3. PairsSane(h, ro) /\ RolesKept(h, ro) /\ RolesGrow(h, ro, ro)
    BY <1>1, SameRoles DEF Good
  <2>4. p \in DOMAIN h.promises
    OBVIOUS
  <2> QED
    BY ONLY <2>1, <2>2, <2>3, <2>4, <1>1, <1>8, ReactionFitsLater
<1>16. JobsFit(g, ro)
  <2> SUFFICES ASSUME NEW i \in DOMAIN h.jobs
               PROVE  \/ h.jobs[i].is = "reaction" /\ JobFits(g, ro, h.jobs[i])
                      \/ h.jobs[i].is = "thenable" /\ ThenableSane(g, ro, h.jobs[i])
    BY DEF Taken, JobsFit
  <2>1. CASE h.jobs[i].is = "reaction"
    <3>1. h.jobs[i] \in AnyJob /\ JobFits(h, ro, h.jobs[i])
      BY <1>1, <2>1, Domains DEF Good, JobsFit
    <3>2. PairsSane(h, ro) /\ RolesKept(h, ro) /\ RolesGrow(h, ro, ro)
      BY <1>1, SameRoles DEF Good
    <3>3. JobFits(g, ro, h.jobs[i])
      BY ONLY <3>1, <3>2, <1>1, <1>8, JobFitsLater
    <3> QED
      BY <3>3, <2>1
  <2>2. CASE h.jobs[i].is # "reaction"
    <3>1. h.jobs[i].is = "thenable" /\ ThenableSane(h, ro, h.jobs[i])
      BY <2>2, <1>1 DEF Good, JobsFit
    <3> QED
      BY <3>1, <1>1 DEF ThenableSane, Done, Exists, Ordinary
  <2> QED
    BY <2>1, <2>2
<1>17. Good(g, ro)
  BY <1>1, <1>9, <1>10, <1>11, <1>12, <1>13, <1>14, <1>15, <1>16 DEF Good
<1>18. RunFits(g, ro, NoJob)
  BY <1>1, <1>8, SameRoles, RunFitsLater DEF Sound
<1>19. ThensKept(g, ro, th)
  BY <1>1 DEF Sound, ThensKept
<1>20. Ordered(g, th, cl)
  BY <1>5, TakenOrdered DEF Sound, CalledWith
<1>21. Sound(g, ro, NoJob, th, cl)
  BY <1>17, <1>18, <1>19, <1>20 DEF Sound
<1> QED
  BY <1>1, <1>2, <1>3, <1>4, <1>7, <1>21 DEF r, k

-----------------------------------------------------------------------------
(* The calls of the script.                                                *)

LEMMA HandlerFacts ==
    ASSUME NEW on \in Handlers
    PROVE  /\ on \in AnyFunction \X AnyFunction
           /\ on[1].is \in {"script", "none", "finally"}
           /\ on[2].is \in {"script", "none", "finally"}
           /\ on[1].is = "finally" <=> on[2].is = "finally"
           /\ on[1].is = "finally" => on[1].rej = FALSE /\ on[2].rej = TRUE
<1>1. /\ Script.is = "script" /\ NoFunction.is = "none"
      /\ Finally(FALSE).is = "finally" /\ Finally(TRUE).is = "finally"
      /\ Finally(FALSE).rej = FALSE /\ Finally(TRUE).rej = TRUE
  BY DEF Script, NoFunction, Finally, Function
<1>2. /\ Script \in AnyFunction /\ NoFunction \in AnyFunction
      /\ Finally(FALSE) \in AnyFunction /\ Finally(TRUE) \in AnyFunction
  BY JobTypes
<1>3. CASE on = <<Script, NoFunction>>
  BY <1>1, <1>2, <1>3
<1>4. CASE on = <<NoFunction, Script>>
  BY <1>1, <1>2, <1>4
<1>5. CASE on = <<Finally(FALSE), Finally(TRUE)>>
  <2> DEFINE f == Finally(FALSE)
             s == Finally(TRUE)
  <2> HIDE DEF f, s
  <2>1. on = <<f, s>>
    BY <1>5 DEF f, s
  <2>2. /\ f \in AnyFunction /\ s \in AnyFunction /\ f.is = "finally" /\ s.is = "finally"
        /\ f.rej = FALSE /\ s.rej = TRUE
    BY <1>1, <1>2 DEF f, s
  <2> QED
    BY ONLY <2>1, <2>2
<1> QED
  BY <1>3, <1>4, <1>5 DEF Handlers

\* p.then(), p.catch() and p.finally(): the promise that finally() gives is to
\* keep p.
LEMMA ThenCallSound ==
    ASSUME NEW h, NEW ro, NEW j, NEW th, NEW cl, Sound(h, ro, j, th, cl),
           NEW p \in DOMAIN h.promises, NEW on \in Handlers
    PROVE  LET n == NewPromise(h, TRUE)
           IN  \E rn \in Roles :
                 Sound(PerformThen(n, p, on, Len(n.pairs), Len(th) + 1), rn, j,
                       Append(th, [on |-> p, gives |-> Len(n.promises),
                                   final |-> on[1].is = "finally"]), cl)
<1> DEFINE n == NewPromise(h, TRUE)
           d == Len(h.promises) + 1
           r == Len(h.pairs) + 1
           final == on[1].is = "finally"
           a == [on |-> p, gives |-> d, final |-> final]
           rd == [on |-> on, to |-> r, id |-> Len(th) + 1]
           rn == IF final THEN [ro EXCEPT !.fin = @ \cup {<<d, p>>}] ELSE ro
<1>1. /\ h \in Heaps /\ Good(h, ro) /\ ro \in Roles /\ p \in Nat /\ d \in Nat /\ r \in Nat
      /\ Len(th) \in Nat
  BY Domains, ThensDomain DEF Sound, Good
<1>2. final \in BOOLEAN
  OBVIOUS
<1> HIDE DEF final
<1>3. /\ rn \in Roles /\ rn.giv = ro.giv
      /\ final => rn.fin = ro.fin \cup {<<d, p>>}
      /\ ~final => rn.fin = ro.fin
  BY ONLY <1>1, <1>2 DEF Roles
<1> HIDE DEF rn
<1>4. NewRoles(h, ro, rn)
  BY <1>3, <1>2 DEF NewRoles
<1>5. /\ Sound(n, rn, j, th, cl) /\ Later(h, n) /\ NewContext(h, ro, n, rn, TRUE, FALSE)
      /\ Fresh(n, ro, r, d, TRUE)
  BY <1>4, NewSound DEF NewPromise
<1> HIDE DEF n
<1>6. /\ Len(n.pairs) = r /\ Len(n.promises) = d /\ p \in DOMAIN n.promises
      /\ n.pairs[r].promise = d /\ n.promises[d].adopts = 0 /\ r # n.comb.pair
      /\ \A q \in Nat : <<d, q>> \notin ro.fin /\ <<d, q>> \notin ro.giv
  BY <1>5 DEF Fresh, NewContext, Pending
<1> HIDE DEF d, r
<1>7. a \in Attached /\ a.on = p /\ a.gives = d /\ a.final = final
  BY <1>1, <1>2 DEF Attached
<1> HIDE DEF a
<1>8. a.final => <<a.gives, a.on>> \in rn.fin
  BY <1>3, <1>7
<1>9. /\ on \in AnyFunction \X AnyFunction
      /\ on[1].is \in {"script", "none", "finally"} /\ on[2].is \in {"script", "none", "finally"}
      /\ on[1].is = "finally" <=> final
      /\ on[2].is = "finally" <=> final
      /\ final => on[1].rej = FALSE /\ on[2].rej = TRUE
  BY HandlerFacts DEF final
<1>10. ASSUME NEW f, NEW rej \in BOOLEAN, f.is \in {"script", "none", "finally"},
              f.is = "finally" <=> final, final => f.rej = rej
       PROVE  Fits(n, rn, f, rej, r, p)
  <2>1. Yields(n, rn, f, rej, r, p)
    BY <1>3, <1>6, <1>10 DEF Yields
  <2>2. r \in 0 .. Len(n.pairs) /\ r # 0
    BY <1>1, <1>6, <1>5 DEF Fresh
  <2> QED
    BY <2>1, <2>2, <1>10 DEF Fits
<1>11. ReactionFits(n, rn, rd, p)
  <2>1. Handler(rd, FALSE) = on[1] /\ Handler(rd, TRUE) = on[2] /\ rd.to = r
    BY DEF Handler
  <2> HIDE DEF rd
  <2>2. Fits(n, rn, on[1], FALSE, r, p) /\ Fits(n, rn, on[2], TRUE, r, p)
    BY <1>9, <1>10
  <2> QED
    BY <2>1, <2>2 DEF ReactionFits
<1>12. Sound(PerformThen(n, a.on, on, r, Len(th) + 1), rn, j, Append(th, a), cl)
  BY <1>1, <1>5, <1>6, <1>7, <1>8, <1>9, <1>11, CountedThenSound
<1>13. Sound(PerformThen(n, p, on, Len(n.pairs), Len(th) + 1), rn, j, Append(th, a), cl)
  BY <1>6, <1>7, <1>12
<1>14. a = [on |-> p, gives |-> Len(n.promises), final |-> on[1].is = "finally"]
  BY <1>6 DEF a, final
<1> QED
  BY <1>3, <1>13, <1>14 DEF n

\* await of v.
LEMMA AwaitSound ==
    ASSUME NEW h, NEW ro, NEW j, NEW th, NEW cl, Sound(h, ro, j, th, cl),
           NEW v, Exists(h, v), v.is # "thenable"
    PROVE  LET r == ResolvedPromise(h, v)
               on == <<Script, Script>>
           IN  Sound(PerformThen(r.heap, r.p, on, 0, Len(th) + 1), ro, j,
                     Append(th, [on |-> r.p, gives |-> 0, final |-> on[1].is = "finally"]), cl)
<1> DEFINE r == ResolvedPromise(h, v)
           g == r.heap
           p == r.p
           on == <<Script, Script>>
           b == [on |-> p, gives |-> 0, final |-> on[1].is = "finally"]
           a == [on |-> p, gives |-> 0, final |-> FALSE]
           rd == [on |-> on, to |-> 0, id |-> Len(th) + 1]
<1>1. Sound(g, ro, j, th, cl) /\ p \in DOMAIN g.promises
  BY ResolvedSound
<1> HIDE DEF r
<1>2. p \in Nat /\ Len(th) \in Nat
  BY <1>1, Domains, ThensDomain DEF Sound, Good
<1>3. Script \in AnyFunction /\ Script.is = "script"
  BY JobTypes DEF Script, Function
<1>4. a \in Attached /\ a.on = p /\ ~a.final
  BY <1>2 DEF Attached
<1>5. on \in AnyFunction \X AnyFunction /\ on[1].is = "script"
  BY <1>3
<1>6. ReactionFits(g, ro, rd, p)
  <2>1. Handler(rd, FALSE) = Script /\ Handler(rd, TRUE) = Script /\ rd.to = 0
    BY DEF Handler
  <2> HIDE DEF rd
  <2>2. Len(g.pairs) \in Nat
    BY <1>1, Domains DEF Sound, Good
  <2>3. \A rej \in BOOLEAN : Fits(g, ro, Script, rej, 0, p)
    BY <1>3, <2>2 DEF Fits
  <2> QED
    BY <2>1, <2>3 DEF ReactionFits
<1>7. a = b
  <2>1. (on[1].is = "finally") = FALSE
    BY <1>5
  <2> HIDE DEF on
  <2> QED
    BY ONLY <2>1
<1> HIDE DEF a, on, g, p
<1>8. Sound(PerformThen(g, p, on, 0, Len(th) + 1), ro, j, Append(th, a), cl)
  BY <1>1, <1>2, <1>4, <1>5, <1>6, CountedThenSound
<1> QED
  BY <1>7, <1>8 DEF g, p, on, r

\* A resolving function that anybody may use.
LEMMA FreeCallSound ==
    ASSUME NEW h, NEW ro, NEW j, NEW th, NEW cl, Sound(h, ro, j, th, cl), NEW r \in DOMAIN h.pairs,
           Free(h, ro, r), NEW rej \in BOOLEAN, NEW v, Exists(h, v),
           v.is = "thenable" => v = Thenable /\ ~rej
    PROVE  Sound(CallResolving(h, r, rej, v), ro, j, th, cl)
<1>1. CanCall(h, ro, r, rej, v)
  BY FreeCall
<1> QED
  BY <1>1, CallSound

\* Promise.resolve() and Promise.reject() of v.
LEMMA SettledSound ==
    ASSUME NEW h, NEW ro, NEW j, NEW th, NEW cl, Sound(h, ro, j, th, cl),
           NEW rej \in BOOLEAN, NEW v, Exists(h, v), v.is = "plain"
    PROVE  LET n == NewPromise(h, TRUE)
           IN  Sound(CallResolving(n, Len(n.pairs), rej, v), ro, j, th, cl)
<1> DEFINE n == NewPromise(h, TRUE)
<1>1. Sound(n, ro, j, th, cl) /\ Fresh(n, ro, Len(n.pairs), Len(n.promises), TRUE)
  BY PlainSound
<1> HIDE DEF n
<1>2. Free(n, ro, Len(n.pairs)) /\ Len(n.pairs) \in DOMAIN n.pairs
  BY <1>1, FreshFree DEF Fresh
<1>3. Exists(n, v)
  BY DEF Exists
<1>4. Sound(CallResolving(n, Len(n.pairs), rej, v), ro, j, th, cl)
  BY <1>1, <1>2, <1>3, FreeCallSound
<1> QED
  BY <1>4 DEF n

-----------------------------------------------------------------------------
(* The steps.                                                              *)

LEMMA Carried ==
    ASSUME NEW ro \in Roles, Sound(Heap', ro, running', thens', called')
    PROVE  IInv'
BY DEF IInv, Kept

LEMMA HeapTypes ==
    ASSUME NEW ro, NEW j, NEW th, NEW cl, Sound(Heap, ro, j, th, cl)
    PROVE  /\ Heap \in Heaps /\ Heap.promises = promises /\ Heap.pairs = pairs
           /\ Heap.jobs = jobs /\ Heap.comb = comb
BY DEF Sound, Good, Heap

\* What the script passes on exists.
LEMMA ScriptValues ==
    ASSUME Bounds, Heap.promises = promises, Heap \in Heaps
    PROVE  /\ \A v \in Plain : Exists(Heap, PlainValue(v)) /\ PlainValue(v).is = "plain"
           /\ \A p \in Known : /\ p \in DOMAIN Heap.promises
                               /\ Exists(Heap, PromiseValue(p)) /\ PromiseValue(p).is = "promise"
           /\ Thenable \in AnyValue /\ Thenable.is = "thenable"
<1>1. ASSUME NEW v \in Plain PROVE Exists(Heap, PlainValue(v)) /\ PlainValue(v).is = "plain"
  <2>1. v \in Nat
    BY DEF Bounds
  <2> QED
    BY <2>1 DEF PlainValue, Exists, AnyValue
<1>2. ASSUME NEW p \in Known
      PROVE  /\ p \in DOMAIN Heap.promises
             /\ Exists(Heap, PromiseValue(p)) /\ PromiseValue(p).is = "promise"
  <2>1. p \in DOMAIN Heap.promises /\ p \in Nat
    BY Domains DEF Known
  <2> QED
    BY <2>1 DEF PromiseValue, Exists, AnyValue
<1> QED
  BY <1>1, <1>2, JobTypes DEF Thenable

LEMMA ValueFacts ==
    ASSUME Bounds, Heap.promises = promises, Heap \in Heaps, NEW v \in Values
    PROVE  /\ Exists(Heap, v)
           /\ v.is = "thenable" => v = Thenable
<1>1. CASE \E x \in Plain : v = PlainValue(x)
  BY <1>1, ScriptValues
<1>2. CASE \E p \in Known : v = PromiseValue(p)
  BY <1>2, ScriptValues
<1>3. CASE v = Thenable
  BY <1>3, ScriptValues DEF Exists
<1> QED
  BY <1>1, <1>2, <1>3 DEF Values

LEMMA NewStep == ASSUME IInv, New PROVE IInv'
<1>1. PICK ro \in Roles : Sound(Heap, ro, running, thens, called)
  BY DEF IInv, Kept
<1> DEFINE g == NewPair([Heap EXCEPT !.promises = Append(@, Pending(TRUE))], Len(promises) + 1, TRUE)
<1>2. /\ Heap \in Heaps /\ Heap.promises = promises
  BY <1>1, HeapTypes
<1>3. NewRoles(Heap, ro, ro)
  BY DEF NewRoles
<1>4. Sound(g, ro, running, thens, called)
  <2> DEFINE b == NewPair([Heap EXCEPT !.promises = Append(@, Pending(TRUE))],
                          Len(Heap.promises) + 1, TRUE)
  <2>1. Sound(b, ro, running, thens, called)
    BY <1>1, <1>3, NewSound
  <2>2. b = g
    BY <1>2
  <2> HIDE DEF b, g
  <2> QED
    BY <2>1, <2>2
<1>5. Becomes(g) /\ running' = running /\ thens' = thens /\ called' = called
  BY DEF New, Calls, MayCall
<1> HIDE DEF g
<1>6. Heap' = g
  <2>1. g \in Heaps
    BY <1>4 DEF Sound, Good
  <2> QED
    BY <1>5, <2>1 DEF Becomes, Heap, Heaps
<1> QED
  BY <1>4, <1>5, <1>6, Carried

LEMMA ResolveStep ==
    ASSUME Bounds, IInv, NEW r \in DOMAIN pairs, NEW rej \in BOOLEAN, NEW v \in Values,
           v = Thenable => ~rej, Resolve(r, rej, v)
    PROVE  IInv'
<1>1. PICK ro \in Roles : Sound(Heap, ro, running, thens, called)
  BY DEF IInv, Kept
<1> DEFINE g == CallResolving(Heap, r, rej, v)
<1>2. /\ Heap \in Heaps /\ Heap.promises = promises /\ Heap.pairs = pairs
  BY <1>1, HeapTypes
<1>3. /\ Becomes(g) /\ running' = running /\ thens' = thens /\ called' = called
      /\ pairs[r].known
  BY DEF Resolve, Calls, MayCall
<1>4. Free(Heap, ro, r)
  BY <1>1, <1>2, <1>3 DEF Sound, Good, PairsSane
<1>5. Exists(Heap, v) /\ (v.is = "thenable" => v = Thenable /\ ~rej)
  BY <1>2, ValueFacts
<1>6. Sound(g, ro, running, thens, called)
  BY <1>1, <1>2, <1>4, <1>5, FreeCallSound
<1> HIDE DEF g
<1>7. Heap' = g
  <2>1. g \in Heaps
    BY <1>6 DEF Sound, Good
  <2> QED
    BY <1>3, <2>1 DEF Becomes, Heap, Heaps
<1> QED
  BY <1>3, <1>6, <1>7, Carried

LEMMA PromiseResolveStep ==
    ASSUME Bounds, IInv, NEW rej \in BOOLEAN, NEW v \in Plain, PromiseResolve(rej, PlainValue(v))
    PROVE  IInv'
<1>1. PICK ro \in Roles : Sound(Heap, ro, running, thens, called)
  BY DEF IInv, Kept
<1> DEFINE n == NewPromise(Heap, TRUE)
           g == CallResolving(n, Len(n.pairs), rej, PlainValue(v))
<1>2. Exists(Heap, PlainValue(v)) /\ PlainValue(v).is = "plain"
  BY <1>1, HeapTypes, ScriptValues
<1>3. Becomes(g) /\ running' = running /\ thens' = thens /\ called' = called
  BY DEF PromiseResolve, Calls, MayCall
<1>4. Sound(g, ro, running, thens, called)
  BY <1>1, <1>2, SettledSound
<1> HIDE DEF g
<1>5. Heap' = g
  <2>1. g \in Heaps
    BY <1>4 DEF Sound, Good
  <2> QED
    BY <1>3, <2>1 DEF Becomes, Heap, Heaps
<1> QED
  BY <1>3, <1>4, <1>5, Carried

LEMMA ThenStep ==
    ASSUME Bounds, IInv, NEW p, NEW on \in Handlers, Then(p, on)
    PROVE  IInv'
<1>1. PICK ro \in Roles : Sound(Heap, ro, running, thens, called)
  BY DEF IInv, Kept
<1> DEFINE n == NewPromise(Heap, TRUE)
           g == PerformThen(n, p, on, Len(n.pairs), Len(thens) + 1)
           tn == Append(thens, [on |-> p, gives |-> Len(n.promises),
                                final |-> on[1].is = "finally"])
<1>2. p \in DOMAIN Heap.promises
  BY <1>1, HeapTypes, ScriptValues DEF Then
<1>3. Becomes(g) /\ running' = running /\ thens' = tn /\ called' = called
  BY DEF Then, Attach, Calls, MayCall
<1>4. PICK rn \in Roles : Sound(g, rn, running, tn, called)
  BY <1>1, <1>2, ThenCallSound
<1> HIDE DEF g, tn
<1>5. Heap' = g
  <2>1. g \in Heaps
    BY <1>4 DEF Sound, Good
  <2> QED
    BY <1>3, <2>1 DEF Becomes, Heap, Heaps
<1> QED
  BY <1>3, <1>4, <1>5, Carried

LEMMA AwaitStep ==
    ASSUME IInv, NEW v, Exists(Heap, v), v.is # "thenable", Await(v)
    PROVE  IInv'
<1>1. PICK ro \in Roles : Sound(Heap, ro, running, thens, called)
  BY DEF IInv, Kept
<1> DEFINE r == ResolvedPromise(Heap, v)
           on == <<Script, Script>>
           g == PerformThen(r.heap, r.p, on, 0, Len(thens) + 1)
           tn == Append(thens, [on |-> r.p, gives |-> 0, final |-> on[1].is = "finally"])
<1>2. Becomes(g) /\ running' = running /\ thens' = tn /\ called' = called
  BY DEF Await, Attach, Calls, MayCall
<1>3. Sound(g, ro, running, tn, called)
  BY <1>1, AwaitSound
<1> HIDE DEF g, tn
<1>4. Heap' = g
  <2>1. g \in Heaps
    BY <1>3 DEF Sound, Good
  <2> QED
    BY <1>2, <2>1 DEF Becomes, Heap, Heaps
<1> QED
  BY <1>2, <1>3, <1>4, Carried

LEMMA CombineStep ==
    ASSUME Bounds, IInv, NEW type \in Combinators, Combine(type)
    PROVE  IInv'
<1>1. PICK ro \in Roles : Sound(Heap, ro, running, thens, called)
  BY DEF IInv, Kept
<1>2. Heap.comb = comb
  BY <1>1, HeapTypes
<1>3. type \in Combiners /\ Heap.comb.type = "none"
  BY <1>2 DEF Bounds, Combiners, Combine
<1> DEFINE np == NewPromise(Heap, TRUE)
           g == [np EXCEPT !.comb = [NoCombinator EXCEPT !.type = type, !.loop = "on",
                                                         !.pair = Len(np.pairs),
                                                         !.remaining = 1]]
<1>4. Becomes(g) /\ running' = running /\ thens' = thens /\ called' = called
  BY DEF Combine, Calls, MayCall
<1>5. Sound(g, ro, running, thens, called)
  BY <1>1, <1>3, CombineIs
<1> HIDE DEF g
<1>6. Heap' = g
  <2>1. g \in Heaps
    BY <1>5 DEF Sound, Good
  <2> QED
    BY <1>4, <2>1 DEF Becomes, Heap, Heaps
<1> QED
  BY <1>4, <1>5, <1>6, Carried

\* A combinator whose loop goes on was called.
LEMMA LoopOn ==
    ASSUME NEW ro, NEW j, NEW th, NEW cl, Sound(Heap, ro, j, th, cl), comb.loop = "on"
    PROVE  Heap.comb.type # "none" /\ Heap.comb.loop = "on"
<1>1. Heap.comb = comb /\ Combined(Heap)
  BY HeapTypes DEF Sound, Good
<1>2. NoCombinator.loop = "none"
  BY DEF NoCombinator
<1> QED
  BY <1>1, <1>2 DEF Combined

LEMMA NextElementStep ==
    ASSUME Bounds, IInv, NEW v \in Values, NextElement(v)
    PROVE  IInv'
<1>1. PICK ro \in Roles : Sound(Heap, ro, running, thens, called)
  BY DEF IInv, Kept
<1> DEFINE r == ResolvedPromise(Heap, v)
           on == ElementHandlers(comb.type, comb.pair, Len(comb.elems) + 1)
           g == PerformThen(AddElement(r.heap, r.p), r.p, on, 0, 0)
<1>2. /\ Becomes(g) /\ running' = running /\ thens' = thens /\ called' = called
      /\ comb.loop = "on"
  BY DEF NextElement, Calls, MayCall
<1>3. /\ Heap.comb = comb /\ Heap.comb.type # "none" /\ Heap.comb.loop = "on"
      /\ Exists(Heap, v) /\ (v.is = "thenable" => v = Thenable)
  BY <1>1, <1>2, HeapTypes, LoopOn, ValueFacts
<1>4. Sound(g, ro, running, thens, called)
  <2>1. on = ElementHandlers(Heap.comb.type, Heap.comb.pair, Len(Heap.comb.elems) + 1)
    BY <1>3
  <2> HIDE DEF on
  <2> QED
    BY <1>1, <1>3, <2>1, NextSound
<1> HIDE DEF g
<1>5. Heap' = g
  <2>1. g \in Heaps
    BY <1>4 DEF Sound, Good
  <2> QED
    BY <1>2, <2>1 DEF Becomes, Heap, Heaps
<1> QED
  BY <1>2, <1>4, <1>5, Carried

LEMMA OwnThenStep == ASSUME IInv, OwnThen PROVE IInv'
<1>1. PICK ro \in Roles : Sound(Heap, ro, running, thens, called)
  BY DEF IInv, Kept
<1> DEFINE g == AddElement(Heap, 0)
<1>2. /\ Becomes(g) /\ running' = running /\ thens' = thens /\ called' = called
      /\ comb.loop = "on"
  BY DEF OwnThen, Calls, MayCall
<1>3. Sound(g, ro, running, thens, called)
  BY <1>1, <1>2, LoopOn, AddSound
<1> HIDE DEF g
<1>4. Heap' = g
  <2>1. g \in Heaps
    BY <1>3 DEF Sound, Good
  <2> QED
    BY <1>2, <2>1 DEF Becomes, Heap, Heaps
<1> QED
  BY <1>2, <1>3, <1>4, Carried

LEMMA CallGivenStep ==
    ASSUME Bounds, IInv, NEW i \in DOMAIN comb.elems, NEW rej \in BOOLEAN, NEW v \in Plain,
           CallGiven(i, rej, PlainValue(v))
    PROVE  IInv'
<1>1. PICK ro \in Roles : Sound(Heap, ro, running, thens, called)
  BY DEF IInv, Kept
<1> DEFINE x == PlainValue(v)
           on == ElementHandlers(comb.type, comb.pair, i)
           f == IF rej THEN on[2] ELSE on[1]
           h == [Heap EXCEPT !.comb.given = @ \cup {<<i, rej, x>>}]
           n == NewData(Heap, Heap.comb.loop, Heap.comb.remaining, {<<i, rej, x>>})
           g == Call(n, f, rej, x).heap
<1>2. /\ Heap \in Heaps /\ Heap.comb = comb /\ Exists(Heap, x) /\ x.is = "plain"
  BY <1>1, HeapTypes, ScriptValues
<1>3. Heap.comb.type # "none"
  <2>1. NoCombinator.elems = <<>> /\ Combined(Heap)
    BY <1>1 DEF NoCombinator, Sound, Good
  <2> QED
    BY <1>2, <2>1 DEF Combined
<1>4. h = n
  <2>1. Heap.comb \in AnyComb
    BY <1>2 DEF Heaps
  <2> QED
    BY <1>2, <2>1 DEF NewData, Heaps, AnyComb
<1> HIDE DEF h, n, x
<1>5. /\ Becomes(Call(h, f, rej, x).heap) /\ running' = running /\ thens' = thens /\ called' = called
  BY DEF CallGiven, Calls, MayCall, h, x
<1>6. Sound(g, ro, running, thens, called)
  <2>1. on = ElementHandlers(Heap.comb.type, Heap.comb.pair, i) /\ i \in DOMAIN Heap.comb.elems
    BY <1>2
  <2> HIDE DEF on
  <2> QED
    BY <1>1, <1>2, <1>3, <2>1, GivenSound DEF n
<1>7. Becomes(g)
  BY <1>4, <1>5
<1> HIDE DEF g
<1>8. Heap' = g
  <2>1. g \in Heaps
    BY <1>6 DEF Sound, Good
  <2> QED
    BY <1>7, <2>1 DEF Becomes, Heap, Heaps
<1> QED
  BY <1>5, <1>6, <1>8, Carried

LEMMA FailLoopStep ==
    ASSUME Bounds, IInv, NEW v \in Plain, FailLoop(PlainValue(v))
    PROVE  IInv'
<1>1. PICK ro \in Roles : Sound(Heap, ro, running, thens, called)
  BY DEF IInv, Kept
<1> DEFINE x == PlainValue(v)
           h == [Heap EXCEPT !.comb.loop = "failed", !.comb.given = @ \cup {<<0, TRUE, x>>}]
           n == NewData(Heap, "failed", Heap.comb.remaining, {<<0, TRUE, x>>})
           g == CallResolving(n, Heap.comb.pair, TRUE, x)
<1>2. /\ Heap \in Heaps /\ Heap.comb = comb /\ Exists(Heap, x) /\ x.is = "plain"
  BY <1>1, HeapTypes, ScriptValues
<1>3. h = n
  <2>1. Heap.comb \in AnyComb
    BY <1>2 DEF Heaps
  <2> QED
    BY <1>2, <2>1 DEF NewData, Heaps, AnyComb
<1> HIDE DEF h, n, x
<1>4. /\ Becomes(CallResolving(h, comb.pair, TRUE, x)) /\ comb.loop = "on"
      /\ running' = running /\ thens' = thens /\ called' = called
  BY DEF FailLoop, Calls, MayCall, h, x
<1>5. Sound(g, ro, running, thens, called)
  BY <1>1, <1>2, <1>4, LoopOn, FailSound DEF n
<1>6. Becomes(g)
  BY <1>2, <1>3, <1>4
<1> HIDE DEF g
<1>7. Heap' = g
  <2>1. g \in Heaps
    BY <1>5 DEF Sound, Good
  <2> QED
    BY <1>6, <2>1 DEF Becomes, Heap, Heaps
<1> QED
  BY <1>4, <1>5, <1>7, Carried

LEMMA EndLoopStep == ASSUME IInv, EndLoop PROVE IInv'
<1>1. PICK ro \in Roles : Sound(Heap, ro, running, thens, called)
  BY DEF IInv, Kept
<1> DEFINE m == Heap.comb.remaining - 1
           h == [Heap EXCEPT !.comb.loop = "done", !.comb.remaining = comb.remaining - 1]
           n == NewData(Heap, "done", m, {})
           G(e) == IF Heap.comb.type # "race" /\ m = 0
                   THEN CallResolving(e, Heap.comb.pair, Heap.comb.type = "any", List)
                   ELSE e
           g == G(n)
<1>2. /\ Heap \in Heaps /\ Heap.comb = comb
  BY <1>1, HeapTypes
<1>3. h = n
  <2>1. Heap.comb \in AnyComb
    BY <1>2 DEF Heaps
  <2> QED
    BY <1>2, <2>1 DEF NewData, Heaps, AnyComb
<1> HIDE DEF n
<1>4. Becomes(G(h)) /\ comb.loop = "on" /\ running' = running /\ thens' = thens /\ called' = called
  BY <1>2 DEF EndLoop
<1> HIDE DEF h
<1>5. Sound(g, ro, running, thens, called)
  BY <1>1, <1>4, LoopOn, LoopSound DEF n
<1>6. Becomes(g)
  BY <1>3, <1>4
<1> HIDE DEF g
<1>7. Heap' = g
  <2>1. g \in Heaps
    BY <1>5 DEF Sound, Good
  <2> QED
    BY <1>6, <2>1 DEF Becomes, Heap, Heaps
<1> QED
  BY <1>4, <1>5, <1>7, Carried

\* The queue without its first job.
LEMMA HeapTaken ==
    ASSUME NEW h \in Heaps, h.jobs # <<>>
    PROVE  LET g == [h EXCEPT !.jobs = Tail(@)]
           IN  /\ Taken(h, g) /\ g.pairs = h.pairs
               /\ Head(h.jobs) = h.jobs[1]
<1> DEFINE t == Tail(h.jobs)
           g == [h EXCEPT !.jobs = t]
<1>1. h.jobs \in Seq(AnyJob)
  BY DEF Heaps
<1>2. /\ t \in Seq(AnyJob) /\ Head(h.jobs) = h.jobs[1] /\ 1 \in DOMAIN h.jobs
      /\ DOMAIN h.jobs \subseteq Nat /\ DOMAIN t \subseteq Nat
      /\ \A i \in DOMAIN t : i + 1 \in DOMAIN h.jobs /\ t[i] = h.jobs[i + 1]
      /\ \A i \in DOMAIN h.jobs \ {1} : i - 1 \in DOMAIN t /\ t[i - 1] = h.jobs[i]
  BY <1>1, TailFacts
<1> HIDE DEF t
<1>3. /\ g \in Heaps /\ g.promises = h.promises /\ g.pairs = h.pairs /\ g.comb = h.comb
      /\ g.jobs = t
  BY <1>2, Zenon DEF Heaps
<1> HIDE DEF g
<1>4. Taken(h, g)
  BY <1>2, <1>3 DEF Taken
<1> QED
  BY <1>2, <1>3, <1>4 DEF g, t

LEMMA HeapTakenPair ==
    ASSUME NEW h \in Heaps, h.jobs # <<>>
    PROVE  LET j == Head(h.jobs)
               g == NewPair([h EXCEPT !.jobs = Tail(@)], j.to, j.arg = Thenable)
           IN  /\ Taken(h, g) /\ j = h.jobs[1]
               /\ g.pairs = Append(h.pairs, [promise |-> h.jobs[1].to, used |-> FALSE,
                                             known |-> h.jobs[1].arg = Thenable])
<1> DEFINE n == [h EXCEPT !.jobs = Tail(@)]
           j == Head(h.jobs)
           k == j.arg = Thenable
           new == [promise |-> j.to, used |-> FALSE, known |-> k]
           ps == Append(n.pairs, new)
           g == [n EXCEPT !.pairs = ps]
<1>1. Taken(h, n) /\ n.pairs = h.pairs /\ j = h.jobs[1]
  BY HeapTaken
<1>2. j \in AnyJob /\ n \in Heaps
  BY <1>1, Domains DEF Taken
<1>3. ps \in Seq(Pair)
  <2>1. k \in BOOLEAN /\ j.to \in Nat
    BY <1>2 DEF AnyJob
  <2> HIDE DEF k
  <2>2. new \in Pair
    BY <2>1 DEF Pair
  <2>3. n.pairs \in Seq(Pair)
    BY <1>2 DEF Heaps
  <2> HIDE DEF new, n
  <2> QED
    BY <2>2, <2>3
<1> HIDE DEF ps, n
<1>4. /\ g \in Heaps /\ g.promises = n.promises /\ g.jobs = n.jobs /\ g.comb = n.comb
      /\ g.pairs = ps
  BY <1>2, <1>3 DEF Heaps
<1>5. g = NewPair(n, j.to, j.arg = Thenable)
  BY <1>2 DEF NewPair, Heaps, ps
<1> HIDE DEF g
<1>6. Taken(h, g)
  BY <1>1, <1>4 DEF Taken
<1>7. ps = Append(h.pairs, [promise |-> h.jobs[1].to, used |-> FALSE,
                            known |-> h.jobs[1].arg = Thenable])
  BY <1>1 DEF ps
<1> HIDE DEF j
<1> QED
  BY <1>1, <1>4, <1>5, <1>6, <1>7 DEF n, j

LEMMA RunReactionStep == ASSUME IInv, RunReaction PROVE IInv'
<1>1. PICK ro \in Roles : Sound(Heap, ro, running, thens, called)
  BY DEF IInv, Kept
<1>2. /\ Heap \in Heaps /\ Heap.jobs = jobs
  BY <1>1, HeapTypes
<1> DEFINE j == Head(jobs)
           h == [Heap EXCEPT !.jobs = Tail(@)]
           r == Call(h, j.f, j.rej, j.arg)
           e == EndReaction(r.heap, j.to, r.throws, r.val)
           cn == CalledWith(called, j)
<1>3. /\ running = NoJob /\ jobs # <<>> /\ j.is = "reaction"
      /\ IF j.f.is \in {"script", "finally"} THEN running' = j /\ Becomes(h)
         ELSE running' = NoJob /\ Becomes(e)
      /\ called' = cn /\ thens' = thens
  BY DEF RunReaction, CalledWith
<1>4. Taken(Heap, h) /\ h.pairs = Heap.pairs /\ j = Heap.jobs[1]
  BY <1>2, <1>3, HeapTaken
<1> HIDE DEF h
<1>5. Sound(h, ro, NoJob, thens, cn) /\ j \in AnyJob /\ JobFits(h, ro, j)
  BY <1>1, <1>3, <1>4, ReactionTaken
<1> HIDE DEF j, cn
<1>6. CASE j.f.is \in {"script", "finally"}
  <2>1. RunFits(h, ro, j)
    BY <1>3, <1>5, <1>6 DEF RunFits
  <2>2. Sound(h, ro, j, thens, cn)
    BY <1>5, <2>1 DEF Sound
  <2>3. Heap' = h
    <3>1. h \in Heaps
      BY <1>4 DEF Taken
    <3> QED
      BY <1>3, <1>6, <3>1 DEF Becomes, Heap, Heaps
  <2> QED
    BY <1>3, <1>6, <2>2, <2>3, Carried
<1>7. CASE j.f.is \notin {"script", "finally"}
  <2>1. j.f.is \in {"none", "give", "resolving", "element"}
    BY <1>5, <1>7 DEF AnyJob, AnyFunction
  <2>2. Sound(e, ro, NoJob, thens, cn)
    BY <1>5, <2>1, CallFits
  <2> HIDE DEF e
  <2>3. Heap' = e
    <3>1. e \in Heaps
      BY <2>2 DEF Sound, Good
    <3> QED
      BY <1>3, <1>7, <3>1 DEF Becomes, Heap, Heaps
  <2> QED
    BY <1>3, <1>7, <2>2, <2>3, Carried
<1> QED
  BY <1>6, <1>7

LEMMA RunThenableStep == ASSUME IInv, RunThenable PROVE IInv'
<1>1. PICK ro \in Roles : Sound(Heap, ro, running, thens, called)
  BY DEF IInv, Kept
<1>2. /\ Heap \in Heaps /\ Heap.jobs = jobs
  BY <1>1, HeapTypes
<1> DEFINE j == Head(jobs)
           h == NewPair([Heap EXCEPT !.jobs = Tail(@)], j.to, j.arg = Thenable)
           r == Len(h.pairs)
           on == <<Resolving(r, FALSE), Resolving(r, TRUE)>>
           e == PerformThen(h, j.arg.id, on, 0, 0)
           jr == [j EXCEPT !.to = r]
<1>3. /\ running = NoJob /\ jobs # <<>> /\ j.is = "thenable"
      /\ IF j.arg = Thenable THEN running' = jr /\ Becomes(h)
         ELSE running' = NoJob /\ Becomes(e)
      /\ called' = called /\ thens' = thens
  BY DEF RunThenable
<1>4. /\ Taken(Heap, h) /\ j = Heap.jobs[1]
      /\ h.pairs = Append(Heap.pairs, [promise |-> Heap.jobs[1].to, used |-> FALSE,
                                       known |-> Heap.jobs[1].arg = Thenable])
  BY <1>2, <1>3, HeapTakenPair
<1> HIDE DEF h
<1>5. /\ Sound(h, ro, NoJob, thens, called) /\ ThenableSane(h, ro, j) /\ j \in AnyJob
      /\ r \in DOMAIN h.pairs /\ h.pairs[r].promise = j.to
      /\ j.arg = Thenable => Free(h, ro, r)
  <2>1. Sound(Heap, ro, NoJob, thens, called) /\ Heap.jobs[1].is = "thenable"
    BY <1>1, <1>3, <1>4
  <2>2. /\ Sound(h, ro, NoJob, thens, called) /\ ThenableSane(h, ro, Heap.jobs[1])
        /\ Heap.jobs[1] \in AnyJob
        /\ Len(h.pairs) \in DOMAIN h.pairs
        /\ h.pairs[Len(h.pairs)].promise = Heap.jobs[1].to
        /\ Heap.jobs[1].arg = Thenable => Free(h, ro, Len(h.pairs))
    BY ONLY <1>4, <2>1, ThenableTaken, Zenon
  <2> QED
    BY <1>4, <2>2, Zenon
<1>6. h \in Heaps /\ r \in Nat
  BY <1>4, Domains DEF Taken
<1> HIDE DEF j, r
<1>7. CASE j.arg = Thenable
  <2>1. jr \in AnyJob /\ jr.is = "thenable" /\ jr.to = r
    BY <1>3, <1>5, <1>6 DEF AnyJob
  <2> HIDE DEF jr
  <2>2. RunFits(h, ro, jr)
    BY <1>5, <1>7, <2>1 DEF RunFits
  <2>3. Sound(h, ro, jr, thens, called)
    BY <1>5, <2>2 DEF Sound
  <2>4. Heap' = h
    BY <1>3, <1>6, <1>7 DEF Becomes, Heap, Heaps
  <2> QED
    BY <1>3, <1>7, <2>3, <2>4, Carried
<1>8. CASE j.arg # Thenable
  <2> DEFINE q == j.arg.id
             rd == [on |-> on, to |-> 0, id |-> 0]
  <2>1. q \in DOMAIN h.promises /\ h.promises[h.pairs[r].promise].adopts = q
    BY <1>5, <1>8 DEF ThenableSane, Exists
  <2>2. \A rej \in BOOLEAN : /\ Resolving(r, rej) \in AnyFunction
                             /\ Resolving(r, rej).is = "resolving" /\ Resolving(r, rej).of = r
                             /\ Resolving(r, rej).rej = rej
    BY <1>6, JobTypes DEF Resolving, Function
  <2>3. on \in AnyFunction \X AnyFunction
    BY <2>2
  <2>4. ReactionFits(h, ro, rd, q)
    <3>1. Handler(rd, FALSE) = Resolving(r, FALSE) /\ Handler(rd, TRUE) = Resolving(r, TRUE)
          /\ rd.to = 0
      BY DEF Handler
    <3> HIDE DEF rd, q
    <3>2. \A rej \in BOOLEAN : Passes(h, Resolving(r, rej), rej, q)
      BY <2>1, <2>2 DEF Passes
    <3>3. Len(h.pairs) \in Nat
      BY <1>6, Domains
    <3>4. \A rej \in BOOLEAN : Fits(h, ro, Resolving(r, rej), rej, 0, q)
      BY <3>2, <3>3, <2>2, <1>5 DEF Fits
    <3> QED
      BY <3>1, <3>4 DEF ReactionFits
  <2> HIDE DEF on, q
  <2>5. Sound(PerformThen(h, q, on, 0, 0), ro, NoJob, thens, called)
    BY <1>5, <2>1, <2>3, <2>4, ThenSound
  <2>6. Sound(e, ro, NoJob, thens, called)
    BY <2>5 DEF q
  <2> HIDE DEF e
  <2>7. Heap' = e
    <3>1. e \in Heaps
      BY <2>6 DEF Sound, Good
    <3> QED
      BY <1>3, <1>8, <3>1 DEF Becomes, Heap, Heaps
  <2> QED
    BY <1>3, <1>8, <2>6, <2>7, Carried
<1> QED
  BY <1>7, <1>8

LEMMA EndCallStep ==
    ASSUME Bounds, IInv, NEW throws \in BOOLEAN, NEW v \in Values \ {Thenable}, EndCall(throws, v)
    PROVE  IInv'
<1>1. PICK ro \in Roles : Sound(Heap, ro, running, thens, called)
  BY DEF IInv, Kept
<1>2. /\ Heap \in Heaps /\ Heap.promises = promises
  BY <1>1, HeapTypes
<1>3. Exists(Heap, v) /\ v.is # "thenable"
  BY <1>2, ValueFacts
<1> DEFINE j == running
           c == CallResolving(Heap, j.to, TRUE, v)
           a == AfterFinally(Heap, j, v)
           e == EndReaction(Heap, j.to, throws, v)
           g == CASE j.is = "main" -> Heap
                  [] j.is = "thenable" -> IF throws THEN c ELSE Heap
                  [] j.is = "reaction" /\ j.f.is = "finally" /\ ~throws -> a
                  [] OTHER -> e
<1>4. /\ j # NoJob /\ running' = NoJob /\ Becomes(g) /\ called' = called /\ thens' = thens
  BY DEF EndCall
<1>5. RunFits(Heap, ro, j) /\ j \in AnyJob
  BY <1>1 DEF Sound, RunFits
<1>6. Sound(Heap, ro, NoJob, thens, called)
  BY <1>1, IdleSound
<1> HIDE DEF c, a, e
<1>7. \E rn \in Roles : Sound(g, rn, NoJob, thens, called)
  <2>1. CASE j.is = "main"
    <3>1. g = Heap
      BY <2>1
    <3> HIDE DEF g
    <3> QED
      BY <1>6, <3>1
  <2>2. CASE j.is = "thenable"
    <3>1. g = IF throws THEN c ELSE Heap
      BY <2>2
    <3>2. j.to \in DOMAIN Heap.pairs /\ Free(Heap, ro, j.to)
      BY <1>5, <2>2 DEF RunFits
    <3> HIDE DEF g
    <3>3. Sound(c, ro, NoJob, thens, called)
      BY <1>3, <1>6, <3>2, FreeCallSound DEF c
    <3> QED
      BY <1>6, <3>1, <3>3
  <2>3. CASE j.is \notin {"main", "thenable"}
    <3>1. j.is = "reaction"
      BY <1>4, <1>5, <2>3 DEF RunFits, AnyJob
    <3>2. j.f.is \in {"script", "finally"} /\ JobFits(Heap, ro, j)
      BY <1>5, <3>1 DEF RunFits
    <3>3. CASE j.f.is = "finally" /\ ~throws
      <4>1. g = a
        BY <2>3, <3>1, <3>3
      <4> HIDE DEF g
      <4> QED
        BY <1>3, <1>5, <1>6, <3>2, <3>3, <4>1, FinallyEnds DEF a
    <3>4. CASE ~(j.f.is = "finally" /\ ~throws)
      <4>1. g = e
        BY <2>3, <3>4
      <4> HIDE DEF g
      <4>2. Sound(e, ro, NoJob, thens, called)
        BY <1>3, <1>5, <1>6, <3>2, <3>4, ScriptEnds DEF e
      <4> QED
        BY <4>1, <4>2
    <3> QED
      BY <3>3, <3>4
  <2> QED
    BY <2>1, <2>2, <2>3
<1> HIDE DEF g
<1>8. PICK rn \in Roles : Sound(g, rn, NoJob, thens, called)
  BY <1>7
<1>9. Heap' = g
  <2>1. g \in Heaps
    BY <1>8 DEF Sound, Good
  <2> QED
    BY <1>4, <2>1 DEF Becomes, Heap, Heaps
<1> QED
  BY <1>4, <1>8, <1>9, Carried

\* The host's own call may do anything.
LEMMA MainFits ==
    ASSUME NEW h, NEW ro, NEW j, NEW th, NEW cl, Sound(h, ro, j, th, cl)
    PROVE  Sound(h, ro, Main, th, cl)
<1>1. Main \in AnyJob /\ Main.is = "main"
  BY JobTypes DEF Main, Job, AnyJob
<1> QED
  BY <1>1 DEF Sound, RunFits

LEMMA CallMainStep == ASSUME IInv, CallMain PROVE IInv'
<1>1. PICK ro \in Roles : Sound(Heap, ro, running, thens, called)
  BY DEF IInv, Kept
<1>2. Heap' = Heap /\ running' = Main /\ thens' = thens /\ called' = called
  BY DEF CallMain, Heap
<1>3. Sound(Heap, ro, Main, thens, called)
  BY <1>1, MainFits
<1> QED
  BY <1>2, <1>3, Carried

LEMMA StutterStep == ASSUME IInv, UNCHANGED vars PROVE IInv'
<1>1. PICK ro \in Roles : Sound(Heap, ro, running, thens, called)
  BY DEF IInv, Kept
<1>2. Heap' = Heap /\ running' = running /\ thens' = thens /\ called' = called
  BY DEF vars, Heap
<1> QED
  BY <1>1, <1>2, Carried

LEMMA Start == ASSUME Init PROVE IInv
<1> DEFINE ro == [fin |-> {}, giv |-> {}]
<1>1. /\ ro \in Roles /\ ro.fin = {} /\ ro.giv = {}
  BY DEF Roles
<1> HIDE DEF ro
<1>2. Heap.promises = <<>> /\ Heap.pairs = <<>> /\ Heap.jobs = <<>> /\ Heap.comb = NoCombinator
  BY DEF Init, Heap
<1>3. Heap \in Heaps
  <2>1. NoCombinator \in AnyComb
    BY DEF NoCombinator, AnyComb
  <2> QED
    BY <1>2, <2>1 DEF Heap, Heaps
<1>4. NoCombinator.type = "none" /\ NoCombinator.pair = 0
  BY DEF NoCombinator
<1>5. Good(Heap, ro)
  <2>1. Tracked(Heap) /\ PairsSane(Heap, ro) /\ Alone(Heap) /\ HasDecider(Heap) /\ Adopted(Heap)
    BY <1>2 DEF Tracked, PairsSane, Alone, HasDecider, Adopted
  <2>2. RolesKept(Heap, ro)
    BY <1>1 DEF RolesKept
  <2>3. Combined(Heap)
    BY <1>2, <1>4 DEF Combined
  <2>4. ReactionsFit(Heap, ro) /\ JobsFit(Heap, ro)
    BY <1>2 DEF ReactionsFit, JobsFit
  <2> QED
    BY <1>1, <1>3, <2>1, <2>2, <2>3, <2>4 DEF Good
<1>6. running = Main /\ thens = <<>> /\ called = <<>>
  BY DEF Init
<1>7. RunFits(Heap, ro, Main)
  BY JobTypes DEF RunFits, Main, Job, AnyJob
<1>8. ThensKept(Heap, ro, thens)
  BY <1>6 DEF ThensKept
<1>9. Ordered(Heap, thens, called)
  BY <1>2, <1>6 DEF Ordered, ReactionsOrdered, JobsOrdered
<1>10. Sound(Heap, ro, running, thens, called)
  BY <1>5, <1>6, <1>7, <1>8, <1>9 DEF Sound
<1> QED
  BY <1>1, <1>10 DEF IInv, Kept

LEMMA NextStep == ASSUME Bounds, IInv, [Next]_vars PROVE IInv'
<1>1. CASE New
  BY <1>1, NewStep
<1>2. ASSUME NEW r \in DOMAIN pairs, NEW v \in Values,
             Resolve(r, FALSE, v) \/ (v # Thenable /\ Resolve(r, TRUE, v))
      PROVE  IInv'
  BY <1>2, ResolveStep
<1>3. ASSUME NEW p \in DOMAIN promises, NEW on \in Handlers, Then(p, on) PROVE IInv'
  BY <1>3, ThenStep
<1>4. Heap \in Heaps /\ Heap.promises = promises
  BY HeapTypes DEF IInv, Kept
<1>5. ASSUME NEW p \in Known, Await(PromiseValue(p)) PROVE IInv'
  BY <1>4, <1>5, ScriptValues, AwaitStep
<1>6. ASSUME NEW v \in Plain, Await(PlainValue(v)) PROVE IInv'
  BY <1>4, <1>6, ScriptValues, AwaitStep
<1>7. ASSUME NEW v \in Plain, NEW rej \in BOOLEAN, PromiseResolve(rej, PlainValue(v)) PROVE IInv'
  BY <1>7, PromiseResolveStep
<1>8. ASSUME NEW type \in Combinators, Combine(type) PROVE IInv'
  BY <1>8, CombineStep
<1>13. ASSUME NEW v \in Values, NextElement(v) PROVE IInv'
  BY <1>13, NextElementStep
<1>14. ASSUME NEW i \in DOMAIN comb.elems, NEW rej \in BOOLEAN, NEW v \in Plain,
              CallGiven(i, rej, PlainValue(v))
       PROVE  IInv'
  BY <1>14, CallGivenStep
<1>15. ASSUME NEW v \in Plain, FailLoop(PlainValue(v)) PROVE IInv'
  BY <1>15, FailLoopStep
<1>9. CASE ScriptSteps
  BY <1>1, <1>2, <1>3, <1>5, <1>6, <1>7, <1>8, <1>9, <1>13, <1>14, <1>15, OwnThenStep, EndLoopStep
     DEF ScriptSteps, ScriptCalls
<1>10. CASE Jobs
  BY <1>10, RunReactionStep, RunThenableStep, EndCallStep DEF Jobs
<1>11. CASE CallMain
  BY <1>11, CallMainStep
<1>12. CASE UNCHANGED vars
  BY <1>12, StutterStep
<1> QED
  BY <1>9, <1>10, <1>11, <1>12 DEF Next

LEMMA AlwaysKept == Spec => []IInv
<1>1. Init => IInv
  BY Start
<1>2. IInv /\ [Next]_vars => IInv'
  BY Bounds, NextStep
<1> QED
  BY <1>1, <1>2, PTL DEF Spec

-----------------------------------------------------------------------------
(* What the invariant says.                                                *)

LEMMA HeapGood ==
    ASSUME NEW ro, Kept(ro)
    PROVE  /\ Good(Heap, ro) /\ ThensKept(Heap, ro, thens) /\ Ordered(Heap, thens, called)
           /\ Heap \in Heaps /\ Heap.promises = promises /\ Heap.pairs = pairs
           /\ Heap.jobs = jobs /\ Heap.comb = comb
BY HeapTypes DEF Kept, Sound

LEMMA KeptTypes == ASSUME NEW ro, Kept(ro) PROVE TypeOK
<1>1. /\ Good(Heap, ro) /\ ThensKept(Heap, ro, thens) /\ Ordered(Heap, thens, called)
      /\ Heap \in Heaps /\ Heap.promises = promises /\ Heap.pairs = pairs
      /\ Heap.jobs = jobs /\ Heap.comb = comb
  BY HeapGood
<1>2. ASSUME NEW p \in DOMAIN promises
      PROVE  /\ promises[p].state \in {"pending", "fulfilled", "rejected"}
             /\ promises[p].told \in {"nothing", "unhandled", "handled"}
             /\ promises[p].adopts \in 0 .. Len(promises)
             /\ Settled(p) => promises[p].reactions = <<>>
  <2>1. promises[p] \in PromiseData /\ Sane(Heap, promises[p])
    BY <1>1, Domains DEF Good, Tracked
  <2> QED
    BY <2>1, <1>1 DEF PromiseData, Sane, Settled
<1>3. \A r \in DOMAIN pairs : pairs[r].promise \in DOMAIN promises
  BY <1>1 DEF Good, PairsSane
<1>4. Len(comb.values) = Len(comb.elems)
  <2>1. DOMAIN comb.values = DOMAIN comb.elems
    BY <1>1 DEF Good, Combined, Counted, NoCombinator
  <2>2. comb.values \in Seq([rej : BOOLEAN, val : AnyValue]) /\ comb.elems \in Seq(Nat)
    BY <1>1 DEF Heaps, AnyComb
  <2>3. \A x, y \in Nat : 1 .. x = 1 .. y => x = y
    <3> SUFFICES ASSUME NEW x \in Nat, NEW y \in Nat, 1 .. x = 1 .. y PROVE x = y
      OBVIOUS
    <3>1. x # 0 => x \in 1 .. y
      OBVIOUS
    <3>2. y # 0 => y \in 1 .. x
      OBVIOUS
    <3> QED
      BY <3>1, <3>2
  <2> QED
    BY <2>1, <2>2, <2>3
<1>5. \A n \in DOMAIN called : called[n] \in DOMAIN thens
  BY <1>1 DEF Ordered, JobsOrdered
<1> QED
  BY <1>2, <1>3, <1>4, <1>5 DEF TypeOK

\* The state has its type, whatever the script calls: what is settled keeps no
\* reaction, and a combinator has a place for the result of each element.
THEOREM TypeCorrect == Spec => []TypeOK
<1>1. IInv => TypeOK
  BY KeptTypes DEF IInv
<1> QED
  BY <1>1, AlwaysKept, PTL

\* The pairs and jobs that may decide about p.
LEMMA DecidersOf ==
    ASSUME NEW h, NEW ro, Good(h, ro), NEW p \in DOMAIN h.promises
    PROVE  LET R == {r \in DOMAIN h.pairs : h.pairs[r].promise = p /\ ~h.pairs[r].used}
               J == {i \in DOMAIN h.jobs : h.jobs[i].is = "thenable" /\ h.jobs[i].to = p}
           IN  Cardinality(R) + Cardinality(J) = IF Done(h, p) THEN 0 ELSE 1
<1> DEFINE R == {r \in DOMAIN h.pairs : h.pairs[r].promise = p /\ ~h.pairs[r].used}
           J == {i \in DOMAIN h.jobs : h.jobs[i].is = "thenable" /\ h.jobs[i].to = p}
<1>1. Alone(h) /\ HasDecider(h) /\ PairsSane(h, ro) /\ JobsFit(h, ro)
  BY DEF Good
<1> HIDE DEF R, J
<1>2. ASSUME Done(h, p) PROVE Cardinality(R) + Cardinality(J) = 0
  <2>1. R = {}
    BY <1>1, <1>2 DEF PairsSane, R
  <2>2. J = {}
    BY <1>1, <1>2 DEF JobsFit, ThenableSane, J
  <2> QED
    BY <2>1, <2>2, <1>2, FS_EmptySet
<1>3. ASSUME \E r \in DOMAIN h.pairs : ~h.pairs[r].used /\ h.pairs[r].promise = p
      PROVE  Cardinality(R) + Cardinality(J) = 1 /\ ~Done(h, p)
  <2>1. PICK r \in DOMAIN h.pairs : ~h.pairs[r].used /\ h.pairs[r].promise = p
    BY <1>3
  <2>2. R = {r} /\ J = {} /\ ~Done(h, p)
    BY <2>1, <1>1 DEF Alone, PairsSane, R, J
  <2>3. Cardinality(R) = 1 /\ Cardinality(J) = 0
    BY <2>2, FS_EmptySet, FS_Singleton
  <2> QED
    BY <2>2, <2>3
<1>4. ASSUME \E i \in DOMAIN h.jobs : h.jobs[i].is = "thenable" /\ h.jobs[i].to = p
      PROVE  Cardinality(R) + Cardinality(J) = 1 /\ ~Done(h, p)
  <2>1. PICK i \in DOMAIN h.jobs : h.jobs[i].is = "thenable" /\ h.jobs[i].to = p
    BY <1>4
  <2>2. R = {} /\ J = {i} /\ ~Done(h, p)
    BY <2>1, <1>1 DEF Alone, JobsFit, ThenableSane, R, J
  <2>3. Cardinality(R) = 0 /\ Cardinality(J) = 1
    BY <2>2, FS_EmptySet, FS_Singleton
  <2> QED
    BY <2>2, <2>3
<1>5. Cardinality(R) + Cardinality(J) = IF Done(h, p) THEN 0 ELSE 1
  BY <1>1, <1>2, <1>3, <1>4 DEF HasDecider
<1> QED
  BY <1>5 DEF R, J

\* A pending promise has exactly one pair or job left that may settle it, and a
\* settled one has none: fulfill_or_reject_promise never finds its promise
\* settled, in whatever order the script calls the functions it was given.
THEOREM DecidedOnce == Spec => []OneDecider
<1>1. ASSUME NEW ro \in Roles, Kept(ro) PROVE OneDecider
  <2>1. /\ Good(Heap, ro) /\ Heap.promises = promises /\ Heap.pairs = pairs /\ Heap.jobs = jobs
    BY <1>1, HeapGood
  <2>2. ASSUME NEW p \in DOMAIN promises
        PROVE  Cardinality({r \in DOMAIN pairs : pairs[r].promise = p /\ ~pairs[r].used})
                 + Cardinality({i \in DOMAIN jobs : jobs[i].is = "thenable" /\ jobs[i].to = p})
               = IF Settled(p) THEN 0 ELSE 1
    <3>1. Settled(p) <=> Done(Heap, p)
      BY <2>1 DEF Settled, Done
    <3>2. LET R == {r \in DOMAIN Heap.pairs : Heap.pairs[r].promise = p /\ ~Heap.pairs[r].used}
              J == {i \in DOMAIN Heap.jobs : Heap.jobs[i].is = "thenable" /\ Heap.jobs[i].to = p}
          IN  Cardinality(R) + Cardinality(J) = IF Done(Heap, p) THEN 0 ELSE 1
      BY <2>1, DecidersOf
    <3> QED
      BY <2>1, <3>1, <3>2
  <2> QED
    BY <1>1, <2>2, KeptTypes DEF OneDecider
<1>2. IInv => OneDecider
  BY <1>1 DEF IInv
<1> QED
  BY <1>2, AlwaysKept, PTL

\* A promise that was resolved with another one settles as that one did: no
\* later call of its functions, and no other job, gets in between.
THEOREM AdoptionKept == Spec => []AdoptsOutcome
<1>1. ASSUME NEW ro \in Roles, Kept(ro) PROVE AdoptsOutcome
  <2>1. Adopted(Heap) /\ Heap.promises = promises
    BY <1>1, HeapGood DEF Good
  <2> QED
    BY <2>1 DEF Adopted, AdoptsOutcome, Settled, Done
<1>2. IInv => AdoptsOutcome
  BY <1>1 DEF IInv
<1> QED
  BY <1>2, AlwaysKept, PTL

\* The host was told of exactly the rejected promises that nothing is attached
\* to: a rejection is neither forgotten nor reported twice.
THEOREM TrackerTold == Spec => []TrackerExact
<1>1. ASSUME NEW ro \in Roles, Kept(ro) PROVE TrackerExact
  <2>1. Tracked(Heap) /\ Heap.promises = promises
    BY <1>1, HeapGood DEF Good
  <2> QED
    BY <2>1 DEF Tracked, Sane, TrackerExact
<1>2. IInv => TrackerExact
  BY <1>1 DEF IInv
<1> QED
  BY <1>2, AlwaysKept, PTL

\* The promise that p.finally(f) gives is fulfilled only when p is, with the
\* value of p, whatever f returns, throws or calls.
THEOREM FinallyKept == Spec => []FinallyKeeps
<1>1. ASSUME NEW ro \in Roles, Kept(ro) PROVE FinallyKeeps
  <2>1. RolesKept(Heap, ro) /\ ThensKept(Heap, ro, thens) /\ Heap.promises = promises
    BY <1>1, HeapGood DEF Good
  <2>2. SUFFICES ASSUME NEW id \in DOMAIN thens, thens[id].final,
                        promises[thens[id].gives].state = "fulfilled"
                 PROVE  /\ promises[thens[id].on].state = "fulfilled"
                        /\ promises[thens[id].gives].result = promises[thens[id].on].result
    BY DEF FinallyKeeps
  <2> DEFINE d == thens[id].gives
             p == thens[id].on
  <2>3. d \in Nat /\ p \in Nat /\ <<d, p>> \in ro.fin
    <3>1. thens \in Seq(Attached) /\ id \in DOMAIN thens
      BY <2>1 DEF ThensKept
    <3>2. thens[id] \in Attached
      BY <3>1, SeqFacts
    <3>3. thens[id].final => <<thens[id].gives, thens[id].on>> \in ro.fin
      BY <2>1 DEF ThensKept
    <3> QED
      BY <2>2, <3>2, <3>3 DEF Attached
  <2> HIDE DEF d, p
  <2>4. promises[d].state = "fulfilled" => HasOutcome(Heap, p, FALSE, promises[d].result)
    BY <2>1, <2>3 DEF RolesKept
  <2>5. promises[d].state = "fulfilled"
    BY <2>2 DEF d
  <2>6. promises[p].state = "fulfilled" /\ promises[p].result = promises[d].result
    BY <2>1, <2>4, <2>5 DEF HasOutcome, State
  <2> QED
    BY <2>6 DEF d, p
<1>2. IInv => FinallyKeeps
  BY <1>1 DEF IInv
<1> QED
  BY <1>2, AlwaysKept, PTL

\* Promise.all, allSettled, any and race settle as their elements did, however
\* many there are and whatever the iteration throws: all() is never fulfilled
\* before its loop has ended and each element is, also when a then() of the
\* script's own calls back at once.
THEOREM CombinatorsRight == Spec => []CombinedRight
<1>1. ASSUME NEW ro \in Roles, Kept(ro) PROVE CombinedRight
  <2> DEFINE c == comb
             s == promises[pairs[c.pair].promise]
             all(rejs) == /\ c.loop = "done"
                          /\ \A i \in DOMAIN c.elems : /\ c.values[i].rej \in rejs
                                                       /\ Gave(i, c.values[i].rej, c.values[i].val)
             some(rej) == \E i \in DOMAIN c.elems : Gave(i, rej, s.result)
  <2>1. /\ Combined(Heap) /\ Heap.promises = promises /\ Heap.pairs = pairs /\ Heap.comb = c
        /\ Heap \in Heaps
    BY <1>1, HeapGood DEF Good
  <2> SUFFICES ASSUME c.type # "none", ~CalledBoth
               PROVE  /\ s.state = "fulfilled" => CASE c.type = "all" -> all({FALSE})
                                                    [] c.type = "allSettled" -> all(BOOLEAN)
                                                    [] OTHER -> some(FALSE)
                      /\ s.state = "rejected" => \/ Gave(0, TRUE, s.result)
                                                 \/ c.type = "any" /\ all({TRUE})
                                                 \/ c.type \in {"all", "race"} /\ some(TRUE)
    BY Zenon DEF CombinedRight
  <2>2. \A i, v : \A rej \in BOOLEAN : Outcome(Heap, i, rej, v) => Gave(i, rej, v)
    BY <2>1 DEF Outcome, HasOutcome, Gave, State
  <2>3. /\ s.state = "fulfilled" => MayBecome(Heap, FALSE, s.result)
        /\ s.state = "rejected" => MayBecome(Heap, TRUE, s.result)
    BY <2>1 DEF Combined, Combines
  <2>4. DOMAIN c.elems \subseteq Nat
    <3>1. c.elems \in Seq(Nat)
      BY <2>1 DEF Heaps, AnyComb
    <3> QED
      BY <3>1
  <2>5. \A i \in Nat, rej \in BOOLEAN : <<i, rej>> \in c.called /\ <<i, ~rej>> \notin c.called =>
           Outcome(Heap, i, rej, c.values[i].val) /\ c.values[i].rej = rej
    BY <2>1, Zenon DEF Combined, Recorded
  <2>6. ~Both(c)
    BY DEF Both, CalledBoth
  <2>7. ASSUME NEW rejs \in SUBSET BOOLEAN, AllAre(Heap, rejs) PROVE all(rejs)
    <3>1. c.loop = "done" /\ \A i \in DOMAIN c.elems : \E rej \in rejs : <<i, rej>> \in c.called
      BY <2>1, <2>6, <2>7 DEF AllAre
    <3>2. ASSUME NEW i \in DOMAIN c.elems
          PROVE  c.values[i].rej \in rejs /\ Gave(i, c.values[i].rej, c.values[i].val)
      <4>1. PICK rej \in rejs : <<i, rej>> \in c.called
        BY <3>1
      <4>2. <<i, ~rej>> \notin c.called
        <5>1. ~({<<i, FALSE>>, <<i, TRUE>>} \subseteq c.called)
          BY <2>6 DEF Both
        <5>2. rej = TRUE \/ rej = FALSE
          OBVIOUS
        <5> QED
          BY <4>1, <5>1, <5>2
      <4>3. Outcome(Heap, i, rej, c.values[i].val) /\ c.values[i].rej = rej
        BY <2>4, <2>5, <4>1, <4>2
      <4> QED
        BY <2>2, <4>3
    <3> QED
      BY <3>1, <3>2
  <2>8. ASSUME NEW rej \in BOOLEAN, SomeIs(Heap, rej, s.result) PROVE some(rej)
    BY <2>1, <2>2, <2>8 DEF SomeIs
  <2>9. <<0, TRUE, s.result>> \in c.given => Gave(0, TRUE, s.result)
    BY DEF Gave
  <2>10. c.type \in {"all", "allSettled", "any", "race"}
    BY <2>1 DEF Heaps, AnyComb
  <2> HIDE DEF all, some
  <2>11. ASSUME s.state = "fulfilled"
         PROVE  CASE c.type = "all" -> all({FALSE})
                  [] c.type = "allSettled" -> all(BOOLEAN)
                  [] OTHER -> some(FALSE)
    <3>1. CASE c.type = "all"
      <4>1. AllAre(Heap, {FALSE})
        BY <2>1, <2>3, <2>11, <3>1 DEF MayBecome
      <4> QED
        BY <2>7, <3>1, <4>1
    <3>2. CASE c.type = "allSettled"
      <4>1. AllAre(Heap, BOOLEAN)
        BY <2>1, <2>3, <2>11, <3>2 DEF MayBecome
      <4> QED
        BY <2>7, <3>2, <4>1
    <3>3. CASE c.type \notin {"all", "allSettled"}
      <4>1. SomeIs(Heap, FALSE, s.result)
        BY <2>1, <2>3, <2>11, <3>3 DEF MayBecome
      <4>2. some(FALSE)
        BY <2>8, <4>1
      <4> QED
        BY <3>3, <4>2
    <3> QED
      BY <3>1, <3>2, <3>3
  <2>12. ASSUME s.state = "rejected"
         PROVE  \/ Gave(0, TRUE, s.result)
                \/ c.type = "any" /\ all({TRUE})
                \/ c.type \in {"all", "race"} /\ some(TRUE)
    <3>1. \/ <<0, TRUE, s.result>> \in c.given
          \/ c.type = "any" /\ AllAre(Heap, {TRUE})
          \/ c.type \in {"all", "race"} /\ SomeIs(Heap, TRUE, s.result)
      BY <2>1, <2>3, <2>12 DEF MayBecome
    <3> QED
      BY <2>7, <2>8, <2>9, <3>1
  <2> QED
    BY <2>11, <2>12
<1>2. IInv => CombinedRight
  BY <1>1 DEF IInv
<1> QED
  BY <1>2, AlwaysKept, PTL

\* A call of then() has one place only.
LEMMA OnePlace ==
    ASSUME NEW h, NEW ro, NEW th, NEW cl, Good(h, ro), ThensKept(h, ro, th), Ordered(h, th, cl),
           NEW id \in DOMAIN th
    PROVE  LET W(p) == {k \in DOMAIN h.promises[p].reactions : h.promises[p].reactions[k].id = id}
               U == UNION {{<<p, k>> : k \in W(p)} : p \in DOMAIN h.promises}
               J == {i \in DOMAIN h.jobs : h.jobs[i].id = id}
               C == {i \in DOMAIN cl : cl[i] = id}
           IN  Cardinality(U) + Cardinality(J) + Cardinality(C) = 1
<1> DEFINE W(p) == {k \in DOMAIN h.promises[p].reactions : h.promises[p].reactions[k].id = id}
           U == UNION {{<<p, k>> : k \in W(p)} : p \in DOMAIN h.promises}
           J == {i \in DOMAIN h.jobs : h.jobs[i].id = id}
           C == {i \in DOMAIN cl : cl[i] = id}
           q == th[id].on
<1>1. /\ DOMAIN th = 1 .. Len(th) /\ Len(th) \in Nat /\ id \in Nat /\ id # 0
  BY ThensDomain
<1>2. /\ ReactionsOrdered(h, th) /\ JobsOrdered(h, th, cl) /\ Placed(h, cl, id)
      /\ Tracked(h) /\ h \in Heaps
  BY DEF Ordered, Good
<1>3. ~Before(th, id, id)
  BY <1>1 DEF Before
<1>4. \A p \in DOMAIN h.promises : \A k \in W(p) : p = q /\ ~Done(h, q)
  <2> SUFFICES ASSUME NEW p \in DOMAIN h.promises, NEW k \in W(p) PROVE p = q /\ ~Done(h, q)
    OBVIOUS
  <2>1. p = q
    BY <1>1, <1>2 DEF ReactionsOrdered
  <2>2. h.promises[p].reactions # <<>>
    OBVIOUS
  <2>3. ~Done(h, p)
    BY <1>2, <2>2 DEF Tracked, Sane, Done
  <2> QED
    BY <2>1, <2>3
<1>5. \A p \in DOMAIN h.promises : \A k, l \in W(p) : k = l
  <2> SUFFICES ASSUME NEW p \in DOMAIN h.promises, NEW k \in W(p), NEW l \in W(p) PROVE k = l
    OBVIOUS
  <2>1. k \in Nat /\ l \in Nat
    BY <1>2, Domains
  <2>2. ~(k < l) /\ ~(l < k)
    BY <1>2, <1>3 DEF ReactionsOrdered
  <2> QED
    BY <2>1, <2>2
<1>6. (J # {} \/ C # {}) => Done(h, q)
  BY <1>1, <1>2 DEF JobsOrdered
<1>7. \A i, k \in J : i = k
  <2> SUFFICES ASSUME NEW i \in J, NEW k \in J PROVE i = k
    OBVIOUS
  <2>1. i \in Nat /\ k \in Nat
    BY <1>2, Domains
  <2>2. ~(i < k) /\ ~(k < i)
    BY <1>2, <1>3 DEF JobsOrdered
  <2> QED
    BY <2>1, <2>2
<1>8. \A m, n \in C : m = n
  <2> SUFFICES ASSUME NEW m \in C, NEW n \in C PROVE m = n
    OBVIOUS
  <2>1. m \in Nat /\ n \in Nat
    <3>1. cl \in Seq(Nat)
      BY <1>2 DEF JobsOrdered
    <3> QED
      BY <3>1
  <2>2. ~(m < n) /\ ~(n < m)
    BY <1>2, <1>3 DEF JobsOrdered
  <2> QED
    BY <2>1, <2>2
<1>9. J = {} \/ C = {}
  BY <1>2, <1>3 DEF JobsOrdered
<1>10. ASSUME \E p \in DOMAIN h.promises : \E k \in DOMAIN h.promises[p].reactions :
                 h.promises[p].reactions[k].id = id
       PROVE  Cardinality(U) + Cardinality(J) + Cardinality(C) = 1
  <2>1. PICK p \in DOMAIN h.promises : \E k \in DOMAIN h.promises[p].reactions :
              h.promises[p].reactions[k].id = id
    BY <1>10
  <2>2. PICK k \in DOMAIN h.promises[p].reactions : h.promises[p].reactions[k].id = id
    BY <2>1
  <2>3. U = {<<p, k>>}
    <3>1. k \in W(p)
      BY <2>2
    <3> HIDE DEF W
    <3>2. \A o \in DOMAIN h.promises : \A l \in W(o) : o = p /\ l = k
      BY <3>1, <1>4, <1>5
    <3> QED
      BY <3>1, <3>2
  <2>4. ~Done(h, q)
    <3>1. k \in W(p)
      BY <2>2
    <3> QED
      BY <3>1, <1>4
  <2>5. J = {} /\ C = {}
    BY <2>4, <1>6
  <2> HIDE DEF U, J, C
  <2>6. Cardinality(U) = 1 /\ Cardinality(J) = 0 /\ Cardinality(C) = 0
    BY ONLY <2>3, <2>5, FS_EmptySet, FS_Singleton
  <2> QED
    BY ONLY <2>6
<1>11. ASSUME J # {} PROVE Cardinality(U) + Cardinality(J) + Cardinality(C) = 1
  <2>1. PICK i \in J : TRUE
    BY <1>11
  <2>2. J = {i} /\ C = {}
    BY <2>1, <1>7, <1>9
  <2>3. U = {}
    <3>1. \A p \in DOMAIN h.promises : W(p) = {}
      BY <1>4, <1>6, <1>11
    <3> HIDE DEF W
    <3> QED
      BY <3>1
  <2> HIDE DEF U, J, C
  <2>4. Cardinality(U) = 0 /\ Cardinality(J) = 1 /\ Cardinality(C) = 0
    BY ONLY <2>2, <2>3, FS_EmptySet, FS_Singleton
  <2> QED
    BY ONLY <2>4
<1>12. ASSUME C # {} PROVE Cardinality(U) + Cardinality(J) + Cardinality(C) = 1
  <2>1. PICK n \in C : TRUE
    BY <1>12
  <2>2. C = {n} /\ J = {}
    BY <2>1, <1>8, <1>9
  <2>3. U = {}
    <3>1. \A p \in DOMAIN h.promises : W(p) = {}
      BY <1>4, <1>6, <1>12
    <3> HIDE DEF W
    <3> QED
      BY <3>1
  <2> HIDE DEF U, J, C
  <2>4. Cardinality(U) = 0 /\ Cardinality(J) = 0 /\ Cardinality(C) = 1
    BY ONLY <2>2, <2>3, FS_EmptySet, FS_Singleton
  <2> QED
    BY ONLY <2>4
<1>13. Cardinality(U) + Cardinality(J) + Cardinality(C) = 1
  BY <1>2, <1>10, <1>11, <1>12 DEF Placed
<1> HIDE DEF U, J, C
<1> QED
  BY <1>13 DEF U, J, C

\* No reaction is lost and none is called twice, and handlers of one promise are
\* called in the order of the calls of then(): whether they were attached
\* before the promise was settled or after.
THEOREM ReactionsOnceInOrder == Spec => []HandlersOnceInOrder
<1>1. ASSUME NEW ro \in Roles, Kept(ro) PROVE HandlersOnceInOrder
  <2>1. /\ Good(Heap, ro) /\ ThensKept(Heap, ro, thens) /\ Ordered(Heap, thens, called)
        /\ Heap.promises = promises /\ Heap.jobs = jobs
    BY <1>1, HeapGood
  <2>2. ASSUME NEW id \in DOMAIN thens
        PROVE  Cardinality(UNION {{<<p, k>> : k \in Waiting(p, id)} : p \in DOMAIN promises})
                 + Cardinality({i \in DOMAIN jobs : jobs[i].id = id})
                 + Cardinality({i \in DOMAIN called : called[i] = id}) = 1
    <3>1. LET W(p) == {k \in DOMAIN Heap.promises[p].reactions :
                          Heap.promises[p].reactions[k].id = id}
              U == UNION {{<<p, k>> : k \in W(p)} : p \in DOMAIN Heap.promises}
              J == {i \in DOMAIN Heap.jobs : Heap.jobs[i].id = id}
              C == {i \in DOMAIN called : called[i] = id}
          IN  Cardinality(U) + Cardinality(J) + Cardinality(C) = 1
      BY <2>1, OnePlace
    <3> QED
      BY <3>1, <2>1 DEF Waiting
  <2>3. ASSUME NEW m \in DOMAIN called, NEW n \in DOMAIN called, m < n,
               thens[called[m]].on = thens[called[n]].on
        PROVE  called[m] < called[n]
    <3>1. /\ Before(thens, called[m], called[n])
          /\ called[m] \in DOMAIN thens /\ called[n] \in DOMAIN thens
      BY <2>1, <2>3 DEF Ordered, JobsOrdered
    <3>2. called[m] # 0 /\ called[n] # 0
      BY <2>1, <3>1, ThensDomain
    <3> QED
      BY <2>3, <3>1, <3>2 DEF Before
  <2> QED
    BY <2>2, <2>3 DEF HandlersOnceInOrder
<1>2. IInv => HandlersOnceInOrder
  BY <1>1 DEF IInv
<1> QED
  BY <1>2, AlwaysKept, PTL
=============================================================================
