---------------------------- MODULE AsyncGenerator ----------------------------
(***************************************************************************)
(* An async generator of quickjs.c: the queue of requests that next(),      *)
(* return() and throw() make, and js_async_generator_resume_next, which     *)
(* runs the body and answers them.  The promise of a request is settled or  *)
(* not; a promise that the generator waits for is settled at some time.     *)
(*                                                                         *)
(* The body runs from a resume to the yield, await, return or throw that    *)
(* ends it, and meanwhile the script may make more requests.                *)
(***************************************************************************)
EXTENDS Integers, Sequences

CONSTANTS
    MaxRequests,   \* bounds the requests
    MaxSteps,      \* bounds the yields and awaits of the body
    Faulty         \* whether making a promise of a value may throw

ASSUME GeneratorBounds == MaxRequests \in Nat /\ MaxSteps \in Nat /\ Faulty \in BOOLEAN

VARIABLES
    state,       \* JSAsyncGeneratorData.state
    queue,       \* the requests that wait: their numbers and completion types
    waiting,     \* the promise awaited: by "await", by "return", or "none"
    inBody,      \* the body runs
    serving,     \* the request the body was resumed for
    answers,     \* the answers given, in order: the request and how
    steps        \* how many yields and awaits there were

generatorVars == <<state, queue, waiting, inBody, serving, answers, steps>>

-----------------------------------------------------------------------------
Generator == [state |-> state, queue |-> queue, waiting |-> waiting, inBody |-> inBody,
              serving |-> serving, answers |-> answers]

Becomes(g) == /\ state' = g.state
              /\ queue' = g.queue
              /\ waiting' = g.waiting
              /\ inBody' = g.inBody
              /\ serving' = g.serving
              /\ answers' = g.answers

\* js_async_generator_resolve_or_reject: the first request is answered.
Answer(g, how) == [g EXCEPT !.queue = Tail(@),
                            !.answers = Append(@, [id |-> Head(g.queue).id, how |-> how])]

\* A generator that is completed answers one request; a return is answered
\* when its value, as a promise, is settled.
Completed(g, fails) ==
    CASE Head(g.queue).type = "next" -> Answer(g, "done")
      [] Head(g.queue).type = "throw" -> Answer(g, "thrown")
      [] Head(g.queue).type = "return" ->
            [g EXCEPT !.state = "AWAITING_RETURN",
                      !.waiting = IF fails THEN "none" ELSE "return"]

\* The body is resumed for the first request.
Execute(g) == [g EXCEPT !.state = "EXECUTING", !.inBody = TRUE, !.serving = Head(g.queue).id]

\* js_async_generator_resume_next
ResumeNext(g, fails) ==
    IF g.queue = <<>> THEN g
    ELSE CASE g.state = "AWAITING_RETURN" -> g
           [] g.state = "SUSPENDED_START" ->
                IF Head(g.queue).type = "next" THEN Execute(g)
                ELSE Completed([g EXCEPT !.state = "COMPLETED"], fails)
           [] g.state = "COMPLETED" -> Completed(g, fails)
           [] g.state \in {"SUSPENDED_YIELD", "SUSPENDED_YIELD_STAR"} -> Execute(g)

-----------------------------------------------------------------------------
GeneratorInit ==
    /\ state = "SUSPENDED_START"
    /\ queue = <<>>
    /\ waiting = "none"
    /\ inBody = FALSE
    /\ serving = 0
    /\ answers = <<>>
    /\ steps = 0

Requests == Len(answers) + Len(queue)
MayFail == IF Faulty THEN BOOLEAN ELSE {FALSE}

\* Slip: the body is entered again.
SlipRequest(type) ==
    LET g == [Generator EXCEPT !.queue = Append(@, [id |-> Requests + 1, type |-> type])]
    IN  /\ Requests < MaxRequests
        /\ \E fails \in MayFail :
              Becomes(IF state # "EXECUTING" THEN ResumeNext(g, fails) ELSE Execute(g))
        /\ UNCHANGED steps

\* js_async_generator_next: next(), return() or throw().
Request(type) ==
    LET g == [Generator EXCEPT !.queue = Append(@, [id |-> Requests + 1, type |-> type])]
    IN  /\ Requests < MaxRequests
        /\ \E fails \in MayFail :
              Becomes(IF state # "EXECUTING" THEN ResumeNext(g, fails) ELSE g)
        /\ UNCHANGED steps

Step == /\ inBody
        /\ steps < MaxSteps
        /\ steps' = steps + 1

Yield(to) ==
    /\ Step
    /\ Becomes(ResumeNext(Answer([Generator EXCEPT !.state = to, !.inBody = FALSE], "yield"),
                          FALSE))

\* js_async_generator_await: nothing is done when it fails.
Await ==
    /\ Step
    /\ \E fails \in MayFail :
          Becomes([Generator EXCEPT !.inBody = FALSE,
                                    !.waiting = IF fails THEN "none" ELSE "await"])

\* The body returns or throws, and the generator is completed.
Finish(how) ==
    /\ inBody
    /\ \E fails \in MayFail :
          Becomes(ResumeNext(Answer([Generator EXCEPT !.state = "COMPLETED", !.inBody = FALSE], how),
                             fails))
    /\ UNCHANGED steps

\* js_async_generator_resolve_function: a promise that was awaited is settled.
AwaitDone ==
    /\ waiting = "await"
    /\ Becomes([Generator EXCEPT !.waiting = "none", !.inBody = TRUE])
    /\ UNCHANGED steps

\* Slip: the state is left as it is.
SlipReturnDone(how) ==
    /\ waiting = "return"
    /\ Becomes(Answer([Generator EXCEPT !.waiting = "none"], how))
    /\ UNCHANGED steps

ReturnDone(how) ==
    /\ waiting = "return"
    /\ Becomes(Answer([Generator EXCEPT !.state = "COMPLETED", !.waiting = "none"], how))
    /\ UNCHANGED steps

Body == \/ \E to \in {"SUSPENDED_YIELD", "SUSPENDED_YIELD_STAR"} : Yield(to)
        \/ Await
        \/ \E how \in {"done", "thrown"} : Finish(how)

Settles == AwaitDone \/ \E how \in {"done", "thrown"} : ReturnDone(how)

GeneratorNext == Body \/ Settles \/ \E type \in {"next", "return", "throw"} : Request(type)

\* The body comes to an end or to a yield, and the promises that are awaited
\* are settled.
GeneratorSpec ==
    /\ GeneratorInit /\ [][GeneratorNext]_generatorVars
    /\ WF_generatorVars(Body) /\ WF_generatorVars(Settles)

-----------------------------------------------------------------------------
(* Properties.                                                              *)

\* The state has its type, and the requests are answered in their order.
GeneratorTypeOK ==
    /\ state \in {"SUSPENDED_START", "SUSPENDED_YIELD", "SUSPENDED_YIELD_STAR", "EXECUTING",
                  "AWAITING_RETURN", "COMPLETED"}
    /\ waiting \in {"none", "await", "return"}
    /\ inBody \in BOOLEAN
    /\ serving \in 0 .. MaxRequests
    /\ \A i \in DOMAIN queue : queue[i].id = Len(answers) + i
    /\ \A i \in DOMAIN answers : answers[i].id = i

\* What the functions assert, and take for granted of the queue: a promise
\* awaited by the body finds the generator executing, one awaited for a
\* return finds that return in front, and the body finds the request it was
\* resumed for in front, whatever requests were made meanwhile.
HeadServed ==
    /\ GeneratorTypeOK
    /\ waiting = "await" => state = "EXECUTING" /\ ~inBody
    /\ waiting = "return" => /\ state = "AWAITING_RETURN"
                             /\ queue # <<>> /\ Head(queue).type = "return"
    /\ state = "EXECUTING" => queue # <<>> /\ Head(queue).id = serving

\* A request that is in front while the generator is not completed is answered:
\* it is served by the body, or its value is awaited.
HeadAnswered ==
    \A k \in 1 .. MaxRequests :
        (queue # <<>> /\ Head(queue).id = k /\ state # "COMPLETED")
            ~> (\E i \in DOMAIN answers : answers[i].id = k)

\* Every request that next(), return() or throw() queues is answered, also
\* when the generator completes with several of them waiting.
RequestsAnswered ==
    \A k \in 1 .. MaxRequests :
        (\E i \in DOMAIN queue : queue[i].id = k)
            ~> (\E i \in DOMAIN answers : answers[i].id = k)
=============================================================================
