------------------------------- MODULE Promises -------------------------------
(***************************************************************************)
(* Promises and the job queue of quickjs.c: the Promise constructor and its *)
(* resolving functions, then(), finally(), await, Promise.all, allSettled,  *)
(* any and race, and JS_ExecutePendingJob.                                  *)
(*                                                                         *)
(* While a function of the script runs it may do anything: make promises,   *)
(* call the resolving functions it was given in any order and as often as   *)
(* it likes, attach handlers.  A job that calls the script has begun and    *)
(* not ended meanwhile; the host calls the script by itself when no job is  *)
(* left (js_std_loop).  Promise.all and the others call the iterator of the *)
(* script and the then() of the elements, so the script also runs between   *)
(* the steps of their loop.  The promises that then() makes for calls       *)
(* inside the interpreter are never seen and are left out.                  *)
(***************************************************************************)
EXTENDS Integers, Sequences, FiniteSets

CONSTANTS
    MaxCalls,       \* bounds the calls of the script
    Plain,          \* values that are not objects, other than undefined and errors
    Combinators     \* which of Promise.all, ... the script may call, once

ASSUME Bounds ==
    /\ MaxCalls \in Nat
    /\ Plain \subseteq Nat \ {0}
    /\ Combinators \subseteq {"all", "allSettled", "any", "race"}

VARIABLES
    promises,    \* JSPromiseData of the promises made
    pairs,       \* the pairs of resolving functions: promise and already_resolved
    jobs,        \* rt->job_list
    running,     \* the job, or the host's call, whose script function runs
    comb,        \* the call of Promise.all, ..., and the data of its functions
    thens,       \* the calls of then(): on which promise, for which promise
    called,      \* the calls of then() whose handler was called, in order
    calls        \* how many calls the script made

vars == <<promises, pairs, jobs, running, comb, thens, called, calls>>

-----------------------------------------------------------------------------
(* Values, functions and jobs.                                              *)

PlainValue(v) == [is |-> "plain", id |-> v]
PromiseValue(p) == [is |-> "promise", id |-> p]
Thenable == [is |-> "thenable", id |-> 0]
List == [is |-> "list", id |-> 0]
TypeError == PlainValue(0)
Undefined == PlainValue(0)

\* Functions: of the script, a resolving function of a pair, a function of a
\* combinator for its element, one of finally(), and one that returns or
\* throws val.
Function(k, o, r, v) == [is |-> k, of |-> o, rej |-> r, val |-> v]
NoFunction == Function("none", 0, FALSE, Undefined)
Script == Function("script", 0, FALSE, Undefined)
Resolving(r, rej) == Function("resolving", r, rej, Undefined)
Element(i, rej) == Function("element", i, rej, Undefined)
Finally(rej) == Function("finally", 0, rej, Undefined)
Give(rej, v) == Function("give", 0, rej, v)

\* A job calls f with arg and settles to, the pair of then()'s promise.
Job(k, f, rej, arg, to, id) ==
    [is |-> k, f |-> f, rej |-> rej, arg |-> arg, to |-> to, id |-> id]
NoJob == Job("none", NoFunction, FALSE, Undefined, 0, 0)
Main == Job("main", Script, FALSE, Undefined, 0, 0)

-----------------------------------------------------------------------------
(* Operations work on a record of the promises, pairs and jobs.             *)

Heap == [promises |-> promises, pairs |-> pairs, jobs |-> jobs, comb |-> comb]

\* JSPromiseData of a new promise, and what is known of it: whether the script
\* has it, what the rejection tracker told the host, and the promise it was
\* resolved with.
Pending(known) == [state |-> "pending", result |-> Undefined, reactions |-> <<>>,
                   handled |-> FALSE, known |-> known, told |-> "nothing", adopts |-> 0]

\* js_create_resolving_functions
NewPair(h, p, known) ==
    [h EXCEPT !.pairs = Append(@, [promise |-> p, used |-> FALSE, known |-> known])]

\* js_new_promise_capability: a promise, and functions the script has not.
NewPromise(h, known) ==
    NewPair([h EXCEPT !.promises = Append(@, Pending(known))], Len(h.promises) + 1, FALSE)

\* The job for a reaction to a promise settled with v.
ReactionJob(rd, rej, v) ==
    Job("reaction", IF rej THEN rd.on[2] ELSE rd.on[1], rej, v, rd.to, rd.id)

\* fulfill_or_reject_promise
Settle(h, p, v, rej) ==
    LET s == h.promises[p]
        new == [s EXCEPT !.state = IF rej THEN "rejected" ELSE "fulfilled",
                         !.result = v,
                         !.reactions = <<>>,
                         !.told = IF rej /\ ~s.handled THEN "unhandled" ELSE @]
        js == [i \in DOMAIN s.reactions |-> ReactionJob(s.reactions[i], rej, v)]
    IN  IF s.state # "pending" THEN h
        ELSE [h EXCEPT !.promises[p] = new, !.jobs = @ \o js]

\* Slip: a pair may be used again.
SlipUse(h, r) == h

Use(h, r) == [h EXCEPT !.pairs[r].used = TRUE]

\* js_promise_resolve_function_call
CallResolving(h, r, rej, v) ==
    LET p == h.pairs[r].promise
        u == Use(h, r)
    IN  IF h.pairs[r].used THEN h
        ELSE IF rej \/ v.is \in {"plain", "list"} THEN Settle(u, p, v, rej)
        ELSE IF v = PromiseValue(p) THEN Settle(u, p, TypeError, TRUE)
        ELSE [u EXCEPT !.jobs = Append(@, Job("thenable", NoFunction, FALSE, v, p, 0)),
                       !.promises[p].adopts = v.id]

\* Slip: a reaction is put before those already there.
SlipThenOrder(h, p, on, to, id) ==
    LET s == h.promises[p]
        rd == [on |-> on, to |-> to, id |-> id]
        rej == s.state = "rejected"
        a == IF s.state = "pending" THEN [h EXCEPT !.promises[p].reactions = <<rd>> \o @]
             ELSE [h EXCEPT !.jobs = Append(@, ReactionJob(rd, rej, s.result)),
                            !.promises[p].told = IF rej /\ ~s.handled THEN "handled" ELSE @]
    IN  [a EXCEPT !.promises[p].handled = TRUE]

\* Slip: only a handler that comes in time counts.
SlipThenHandled(h, p, on, to, id) ==
    LET s == h.promises[p]
        rd == [on |-> on, to |-> to, id |-> id]
        rej == s.state = "rejected"
    IN  IF s.state = "pending"
        THEN [h EXCEPT !.promises[p].reactions = Append(@, rd), !.promises[p].handled = TRUE]
        ELSE [h EXCEPT !.jobs = Append(@, ReactionJob(rd, rej, s.result)),
                       !.promises[p].told = IF rej /\ ~s.handled THEN "handled" ELSE @]

\* perform_promise_then
PerformThen(h, p, on, to, id) ==
    LET s == h.promises[p]
        rd == [on |-> on, to |-> to, id |-> id]
        rej == s.state = "rejected"
        a == IF s.state = "pending"
             THEN [h EXCEPT !.promises[p].reactions = Append(@, rd)]
             ELSE [h EXCEPT !.jobs = Append(@, ReactionJob(rd, rej, s.result)),
                            !.promises[p].told = IF rej /\ ~s.handled THEN "handled" ELSE @]
    IN  [a EXCEPT !.promises[p].handled = TRUE]

\* js_promise_resolve: the promise for v.  A promise is its own.
ResolvedPromise(h, v) ==
    IF v.is = "promise" THEN [heap |-> h, p |-> v.id]
    ELSE LET n == NewPromise(h, FALSE)
         IN  [heap |-> CallResolving(n, Len(n.pairs), FALSE, v), p |-> Len(n.promises)]

\* js_promise_all_resolve_element: the function for element i takes a result
\* once, and the last result settles the promise of the combinator.
CallElement(h, i, rej, v) ==
    LET c == [h.comb EXCEPT !.called = @ \cup {<<i, rej>>},
                            !.values[i] = [rej |-> rej, val |-> v],
                            !.remaining = @ - 1]
        n == [h EXCEPT !.comb = c]
    IN  IF <<i, rej>> \in h.comb.called THEN h
        ELSE IF c.remaining = 0 THEN CallResolving(n, c.pair, c.type = "any", List)
        ELSE n

\* A call of a function that is not the script's.
Call(h, f, rej, arg) ==
    CASE f.is = "none" -> [heap |-> h, throws |-> rej, val |-> arg]
      [] f.is = "give" -> [heap |-> h, throws |-> f.rej, val |-> f.val]
      [] f.is = "resolving" ->
            [heap |-> CallResolving(h, f.of, f.rej, arg), throws |-> FALSE, val |-> Undefined]
      [] f.is = "element" ->
            [heap |-> CallElement(h, f.of, f.rej, arg), throws |-> FALSE, val |-> Undefined]

\* The end of promise_reaction_job.
EndReaction(h, to, throws, v) == IF to = 0 THEN h ELSE CallResolving(h, to, throws, v)

-----------------------------------------------------------------------------
(* The script.                                                              *)

NoCombinator == [type |-> "none", loop |-> "none", elems |-> <<>>, pair |-> 0,
                 remaining |-> 0, values |-> <<>>, called |-> {}, given |-> {}]

Init == /\ promises = <<>>
        /\ pairs = <<>>
        /\ jobs = <<>>
        /\ running = Main
        /\ comb = NoCombinator
        /\ thens = <<>>
        /\ called = <<>>
        /\ calls = 0

\* The promises the script has: that of a combinator when the call returned.
Known == {p \in DOMAIN promises : /\ promises[p].known
                                 /\ comb.loop = "on" => p # pairs[comb.pair].promise}
Values == {PlainValue(v) : v \in Plain} \cup {PromiseValue(p) : p \in Known} \cup {Thenable}

\* The heap becomes h.
Becomes(h) ==
    /\ promises' = h.promises
    /\ pairs' = h.pairs
    /\ jobs' = h.jobs
    /\ comb' = h.comb

\* A function of the script is running and may make one more call.
MayCall == running # NoJob /\ calls < MaxCalls

\* A call of the script.
Calls(h) ==
    /\ MayCall
    /\ calls' = calls + 1
    /\ h # Heap
    /\ Becomes(h)
    /\ running' = running

\* new Promise(executor): the executor passes its functions on.
New ==
    /\ Calls(NewPair([Heap EXCEPT !.promises = Append(@, Pending(TRUE))], Len(promises) + 1, TRUE))
    /\ UNCHANGED <<thens, called>>

\* The script calls a resolving function.
Resolve(r, rej, v) ==
    /\ pairs[r].known
    /\ Calls(CallResolving(Heap, r, rej, v))
    /\ UNCHANGED <<thens, called>>

\* Promise.resolve(v) and Promise.reject(v)
PromiseResolve(rej, v) ==
    LET h == NewPromise(Heap, TRUE)
    IN  /\ Calls(CallResolving(h, Len(h.pairs), rej, v))
        /\ UNCHANGED <<thens, called>>

\* A call of then(), registered with its number.
Attach(h, p, on, to, d) ==
    /\ Calls(PerformThen(h, p, on, to, Len(thens) + 1))
    /\ thens' = Append(thens, [on |-> p, gives |-> d, final |-> on[1].is = "finally"])
    /\ UNCHANGED called

\* p.then(f, g), with functions or without, and p.finally(f).
Then(p, on) ==
    LET h == NewPromise(Heap, TRUE)
    IN  /\ p \in Known
        /\ Attach(h, p, on, Len(h.pairs), Len(h.promises))

\* then(f), catch(g) and finally(f).
Handlers == {<<Script, NoFunction>>, <<NoFunction, Script>>, <<Finally(FALSE), Finally(TRUE)>>}

\* await v, in an async function: it goes on when its handler is called.
Await(v) ==
    LET r == ResolvedPromise(Heap, v)
    IN  Attach(r.heap, r.p, <<Script, Script>>, 0, 0)

\* What is attached to element i of a combinator.
ElementHandlers(type, r, i) ==
    CASE type = "all" -> <<Element(i, FALSE), Resolving(r, TRUE)>>
      [] type = "allSettled" -> <<Element(i, FALSE), Element(i, TRUE)>>
      [] type = "any" -> <<Resolving(r, FALSE), Element(i, TRUE)>>
      [] type = "race" -> <<Resolving(r, FALSE), Resolving(r, TRUE)>>

\* Slip: the loop itself is not counted.
SlipCombine(type) ==
    LET h == NewPromise(Heap, TRUE)
    IN  /\ comb.type = "none"
        /\ Calls([h EXCEPT !.comb = [NoCombinator EXCEPT !.type = type, !.loop = "on",
                                                        !.pair = Len(h.pairs)]])
        /\ UNCHANGED <<thens, called>>

\* Promise.all, allSettled, any and race, up to their loop; the count is 1
\* while the loop goes on.
Combine(type) ==
    LET h == NewPromise(Heap, TRUE)
    IN  /\ comb.type = "none"
        /\ Calls([h EXCEPT !.comb = [NoCombinator EXCEPT !.type = type, !.loop = "on",
                                                        !.pair = Len(h.pairs),
                                                        !.remaining = 1]])
        /\ UNCHANGED <<thens, called>>

\* One more element, the promise p, or 0 for an object with a then() of the
\* script's own; race() does not count.
AddElement(h, p) ==
    [h EXCEPT !.comb.elems = Append(@, p),
              !.comb.values = Append(@, [rej |-> FALSE, val |-> Undefined]),
              !.comb.remaining = IF h.comb.type = "race" THEN @ ELSE @ + 1]

\* The iterator gave v: then() of Promise.resolve(v) is called.
NextElement(v) ==
    LET r == ResolvedPromise(Heap, v)
        on == ElementHandlers(comb.type, comb.pair, Len(comb.elems) + 1)
    IN  /\ comb.loop = "on"
        /\ Calls(PerformThen(AddElement(r.heap, r.p), r.p, on, 0, 0))
        /\ UNCHANGED <<thens, called>>

\* Promise.resolve() gave an object with a then() of the script's own, which
\* now has the two functions.
OwnThen ==
    /\ comb.loop = "on"
    /\ Calls(AddElement(Heap, 0))
    /\ UNCHANGED <<thens, called>>

\* The script calls a function that such a then() was given, at once or later.
CallGiven(i, rej, v) ==
    LET on == ElementHandlers(comb.type, comb.pair, i)
        f == IF rej THEN on[2] ELSE on[1]
        h == [Heap EXCEPT !.comb.given = @ \cup {<<i, rej, v>>}]
    IN  /\ comb.elems[i] = 0
        /\ Call(Heap, f, rej, v).heap # Heap
        /\ Calls(Call(h, f, rej, v).heap)
        /\ UNCHANGED <<thens, called>>

\* There is no iterator, or it, Promise.resolve() or then() throws v.
FailLoop(v) ==
    LET h == [Heap EXCEPT !.comb.loop = "failed", !.comb.given = @ \cup {<<0, TRUE, v>>}]
    IN  /\ comb.loop = "on"
        /\ Calls(CallResolving(h, comb.pair, TRUE, v))
        /\ UNCHANGED <<thens, called>>

\* The iterator has no more elements.
EndLoop ==
    LET n == comb.remaining - 1
        h == [Heap EXCEPT !.comb.loop = "done", !.comb.remaining = n]
    IN  /\ comb.loop = "on"
        /\ Becomes(IF comb.type # "race" /\ n = 0
                   THEN CallResolving(h, comb.pair, comb.type = "any", List)
                   ELSE h)
        /\ UNCHANGED <<running, thens, called, calls>>

-----------------------------------------------------------------------------
(* JS_ExecutePendingJob.                                                    *)

\* promise_reaction_job
RunReaction ==
    LET j == Head(jobs)
        h == [Heap EXCEPT !.jobs = Tail(@)]
        r == Call(h, j.f, j.rej, j.arg)
    IN  /\ running = NoJob
        /\ jobs # <<>>
        /\ j.is = "reaction"
        /\ IF j.f.is \in {"script", "finally"}
           THEN running' = j /\ Becomes(h)
           ELSE running' = NoJob /\ Becomes(EndReaction(r.heap, j.to, r.throws, r.val))
        /\ called' = IF j.id = 0 THEN called ELSE Append(called, j.id)
        /\ UNCHANGED <<thens, calls>>

\* Slip: both functions given to then() are the first of the pair.
SlipRunThenable ==
    LET j == Head(jobs)
        h == NewPair([Heap EXCEPT !.jobs = Tail(@)], j.to, j.arg = Thenable)
        r == Len(h.pairs)
    IN  /\ running = NoJob
        /\ jobs # <<>>
        /\ j.is = "thenable"
        /\ IF j.arg = Thenable
           THEN running' = [j EXCEPT !.to = r] /\ Becomes(h)
           ELSE /\ running' = NoJob
                /\ Becomes(PerformThen(h, j.arg.id, <<Resolving(r, FALSE), Resolving(r, FALSE)>>, 0, 0))
        /\ UNCHANGED <<thens, called, calls>>

\* js_promise_resolve_thenable_job: then() of a promise, or of the script.
RunThenable ==
    LET j == Head(jobs)
        h == NewPair([Heap EXCEPT !.jobs = Tail(@)], j.to, j.arg = Thenable)
        r == Len(h.pairs)
    IN  /\ running = NoJob
        /\ jobs # <<>>
        /\ j.is = "thenable"
        /\ IF j.arg = Thenable
           THEN running' = [j EXCEPT !.to = r] /\ Becomes(h)
           ELSE /\ running' = NoJob
                /\ Becomes(PerformThen(h, j.arg.id, <<Resolving(r, FALSE), Resolving(r, TRUE)>>, 0, 0))
        /\ UNCHANGED <<thens, called, calls>>

\* Slip: the promise for v is returned itself.
SlipAfterFinally(h, j, v) ==
    LET r == ResolvedPromise(h, v)
    IN  CallResolving(r.heap, j.to, FALSE, PromiseValue(r.p))

\* js_promise_then_finally_func, after the script's function returned v: a
\* promise that waits for v and then gives what finally() was called with.
AfterFinally(h, j, v) ==
    LET r == ResolvedPromise(h, v)
        d == NewPromise(r.heap, FALSE)
        t == PerformThen(d, r.p, <<Give(j.f.rej, j.arg), NoFunction>>, Len(d.pairs), 0)
    IN  CallResolving(t, j.to, FALSE, PromiseValue(Len(d.promises)))

\* The script's function returns or throws v, and the job ends.
EndCall(throws, v) ==
    LET j == running
    IN  /\ j # NoJob
        /\ comb.loop # "on"
        /\ running' = NoJob
        /\ Becomes(CASE j.is = "main" -> Heap
                     [] j.is = "thenable" -> IF throws THEN CallResolving(Heap, j.to, TRUE, v)
                                             ELSE Heap
                     [] j.is = "reaction" /\ j.f.is = "finally" /\ ~throws ->
                           AfterFinally(Heap, j, v)
                     [] OTHER -> EndReaction(Heap, j.to, throws, v))
        /\ UNCHANGED <<thens, called, calls>>

\* The host calls the script: a timer, a message.
CallMain ==
    /\ running = NoJob
    /\ jobs = <<>>
    /\ calls < MaxCalls
    /\ running' = Main
    /\ UNCHANGED <<promises, pairs, jobs, comb, thens, called, calls>>

Jobs == \/ RunReaction \/ RunThenable
        \/ \E v \in Values \ {Thenable} :
              EndCall(FALSE, v) \/ (v.is = "plain" /\ EndCall(TRUE, v))

ScriptCalls ==
    \/ New
    \/ \E r \in DOMAIN pairs, v \in Values :
          Resolve(r, FALSE, v) \/ (v # Thenable /\ Resolve(r, TRUE, v))
    \/ \E p \in DOMAIN promises, on \in Handlers : Then(p, on)
    \/ \E p \in Known : Await(PromiseValue(p))
    \/ \E v \in Plain : \/ Await(PlainValue(v))
                       \/ \E rej \in BOOLEAN : PromiseResolve(rej, PlainValue(v))
    \/ \E type \in Combinators : Combine(type)
    \/ \E v \in Values : NextElement(v)
    \/ OwnThen
    \/ \E i \in DOMAIN comb.elems, rej \in BOOLEAN, v \in Plain : CallGiven(i, rej, PlainValue(v))
    \/ \E v \in Plain : FailLoop(PlainValue(v))

ScriptSteps == (MayCall /\ ScriptCalls) \/ EndLoop

Next == ScriptSteps \/ Jobs \/ CallMain

Spec == Init /\ [][Next]_vars

-----------------------------------------------------------------------------
(* Properties.                                                              *)

Settled(p) == promises[p].state # "pending"

\* The state has its type, and what is settled keeps no reaction.
TypeOK ==
    /\ \A p \in DOMAIN promises :
          /\ promises[p].state \in {"pending", "fulfilled", "rejected"}
          /\ promises[p].told \in {"nothing", "unhandled", "handled"}
          /\ promises[p].adopts \in 0 .. Len(promises)
          /\ Settled(p) => promises[p].reactions = <<>>
    /\ \A r \in DOMAIN pairs : pairs[r].promise \in DOMAIN promises
    /\ Len(comb.values) = Len(comb.elems)
    /\ \A n \in DOMAIN called : called[n] \in DOMAIN thens

\* A promise that is pending has exactly one way left to be settled, a pair
\* of functions not yet used or a job that will make one; a settled one has
\* none.  fulfill_or_reject_promise never finds a promise settled ("should
\* never happen").
OneDecider ==
    /\ TypeOK
    /\ \A p \in DOMAIN promises :
        Cardinality({r \in DOMAIN pairs : pairs[r].promise = p /\ ~pairs[r].used})
          + Cardinality({i \in DOMAIN jobs : jobs[i].is = "thenable" /\ jobs[i].to = p})
        = IF Settled(p) THEN 0 ELSE 1

\* A promise resolved with another one settles as that one did, whatever the
\* script calls in between.
AdoptsOutcome ==
    \A p \in DOMAIN promises :
        LET q == promises[p].adopts
        IN  Settled(p) /\ q # 0 =>
                /\ promises[p].state = promises[q].state
                /\ promises[p].result = promises[q].result

\* Where among the reactions of p that of a call of then() waits.
Waiting(p, id) ==
    {k \in DOMAIN promises[p].reactions : promises[p].reactions[k].id = id}

\* Every call of then() has its handler called at most once and by one of the
\* two lists only, and no reaction is lost; handlers of the same promise are
\* called in the order they were attached.
HandlersOnceInOrder ==
    /\ \A id \in DOMAIN thens :
          Cardinality(UNION {{<<p, k>> : k \in Waiting(p, id)} : p \in DOMAIN promises})
            + Cardinality({i \in DOMAIN jobs : jobs[i].id = id})
            + Cardinality({i \in DOMAIN called : called[i] = id}) = 1
    /\ \A m, n \in DOMAIN called :
          m < n /\ thens[called[m]].on = thens[called[n]].on => called[m] < called[n]

\* The host has been told of exactly the rejected promises that nothing was
\* attached to, and that something was attached is reported to it.
TrackerExact ==
    \A p \in DOMAIN promises :
        promises[p].told = "unhandled"
            <=> promises[p].state = "rejected" /\ ~promises[p].handled

\* A then() of the script called both functions it had from allSettled,
\* which takes the two for two elements.
CalledBoth == \E i \in DOMAIN comb.elems : {<<i, FALSE>>, <<i, TRUE>>} \subseteq comb.called

\* Element i settled so, or its own then() said so; 0: the iteration threw.
Gave(i, rej, v) ==
    \/ <<i, rej, v>> \in comb.given
    \/ /\ i \in DOMAIN comb.elems /\ comb.elems[i] # 0
       /\ promises[comb.elems[i]].state = IF rej THEN "rejected" ELSE "fulfilled"
       /\ promises[comb.elems[i]].result = v

\* Promise.all is fulfilled after the loop when all elements were, and passes
\* on a rejection; allSettled waits for the loop and all elements; any waits
\* for all to be rejected and passes on a value; race passes on one outcome.
\* What the iteration threw rejects each of them.
CombinedRight ==
    LET s == promises[pairs[comb.pair].promise]
        all(rejs) == /\ comb.loop = "done"
                     /\ \A i \in DOMAIN comb.elems :
                           /\ comb.values[i].rej \in rejs
                           /\ Gave(i, comb.values[i].rej, comb.values[i].val)
        some(rej) == \E i \in DOMAIN comb.elems : Gave(i, rej, s.result)
    IN  comb.type # "none" /\ ~CalledBoth =>
            /\ s.state = "fulfilled" => CASE comb.type = "all" -> all({FALSE})
                                          [] comb.type = "allSettled" -> all(BOOLEAN)
                                          [] OTHER -> some(FALSE)
            /\ s.state = "rejected" => \/ Gave(0, TRUE, s.result)
                                       \/ comb.type = "any" /\ all({TRUE})
                                       \/ comb.type \in {"all", "race"} /\ some(TRUE)

\* p.finally(f) is fulfilled only as p is: f delays it, and cannot replace it.
FinallyKeeps ==
    \A id \in DOMAIN thens :
        LET p == promises[thens[id].on]
            d == promises[thens[id].gives]
        IN  thens[id].final /\ d.state = "fulfilled" =>
                p.state = "fulfilled" /\ d.result = p.result
=============================================================================
