----------------------------- MODULE QueueProofs -----------------------------
(***************************************************************************)
(* Two queues that are served in order.  The requests of an async          *)
(* generator: HeadServed, for every number of requests and steps, and      *)
(* whether or not promises can be made.  The message pipes of              *)
(* EventLoop, for any number of calls and events: a byte is in a pipe      *)
(* exactly when a message is queued and write() did not fail, messages are *)
(* handled once and in the order they were posted, and a pipe is freed     *)
(* with its last user.                                                     *)
(***************************************************************************)
EXTENDS AsyncGenerator, EventLoop, SequenceTheorems, FiniteSetTheorems, TLAPS

-----------------------------------------------------------------------------
(* The requests of an async generator.                                      *)

States == {"SUSPENDED_START", "SUSPENDED_YIELD", "SUSPENDED_YIELD_STAR", "EXECUTING",
           "AWAITING_RETURN", "COMPLETED"}
RequestTypes == {"next", "return", "throw"}
Hows == {"done", "thrown", "yield"}

\* The states of a generator, as a record.
Generators ==
    [state : States, queue : Seq([id : Nat, type : RequestTypes]),
     waiting : {"none", "await", "return"}, inBody : BOOLEAN, serving : 0 .. MaxRequests,
     answers : Seq([id : Nat, how : Hows])]

\* Requests are numbered as they come; the answered ones come first.
Numbered(g) ==
    /\ Len(g.answers) + Len(g.queue) <= MaxRequests
    /\ \A i \in DOMAIN g.queue : g.queue[i].id = Len(g.answers) + i
    /\ \A i \in DOMAIN g.answers : g.answers[i].id = i

\* HeadServed of a record, and that the body runs in one state only.
Served(g) ==
    /\ g.waiting = "await" => g.state = "EXECUTING" /\ ~g.inBody
    /\ g.waiting = "return" => /\ g.state = "AWAITING_RETURN"
                               /\ g.queue # <<>> /\ Head(g.queue).type = "return"
    /\ g.state = "EXECUTING" => g.queue # <<>> /\ Head(g.queue).id = g.serving
    /\ g.inBody => g.state = "EXECUTING" /\ g.waiting = "none"

Good(g) == g \in Generators /\ Numbered(g) /\ Served(g)

GeneratorInv == Good(Generator)

-----------------------------------------------------------------------------

\* The number of the request in front.
LEMMA HeadNumber ==
    ASSUME NEW g \in Generators, Numbered(g), g.queue # <<>>
    PROVE  /\ Head(g.queue) \in [id : Nat, type : RequestTypes]
           /\ Head(g.queue).id = Len(g.answers) + 1
           /\ Head(g.queue).id \in 1 .. MaxRequests
<1>1. Len(g.queue) > 0 /\ 1 \in DOMAIN g.queue /\ Head(g.queue) = g.queue[1]
  BY DEF Generators
<1>2. g.queue[1] \in [id : Nat, type : RequestTypes]
  <2>1. g.queue \in Seq([id : Nat, type : RequestTypes]) /\ 1 \in 1 .. Len(g.queue)
    BY <1>1 DEF Generators
  <2> QED
    BY <2>1, ElementOfSeq
<1> QED
  BY <1>1, <1>2, GeneratorBounds DEF Numbered, Generators

\* js_async_generator_resolve_or_reject takes one request and keeps the numbers.
LEMMA AnswerNumbers ==
    ASSUME NEW g \in Generators, Numbered(g), g.queue # <<>>, NEW how \in Hows
    PROVE  /\ Answer(g, how) \in Generators
           /\ Numbered(Answer(g, how))
           /\ Answer(g, how).state = g.state
           /\ Answer(g, how).waiting = g.waiting
           /\ Answer(g, how).inBody = g.inBody
           /\ Answer(g, how).queue = Tail(g.queue)
<1> DEFINE a == [id |-> Head(g.queue).id, how |-> how]
           h == Answer(g, how)
<1>1. Head(g.queue).id = Len(g.answers) + 1 /\ Head(g.queue).id \in Nat
  BY HeadNumber
<1>2. a \in [id : Nat, how : Hows]
  BY <1>1
<1>3. h.queue = Tail(g.queue) /\ h.answers = Append(g.answers, a)
  BY DEF Answer, Generators
<1>4. /\ Tail(g.queue) \in Seq([id : Nat, type : RequestTypes])
      /\ Append(g.answers, a) \in Seq([id : Nat, how : Hows])
  BY <1>2 DEF Generators
<1>5. h \in Generators
  BY <1>4 DEF Answer, Generators
<1>6. Len(h.answers) = Len(g.answers) + 1 /\ Len(h.queue) = Len(g.queue) - 1
  BY <1>3, <1>2 DEF Generators
<1>7. Len(h.answers) + Len(h.queue) <= MaxRequests
  BY <1>6, GeneratorBounds DEF Numbered, Generators
<1>8. \A i \in DOMAIN h.queue : h.queue[i].id = Len(h.answers) + i
  <2>1. /\ g.queue \in Seq([id : Nat, type : RequestTypes])
        /\ Len(g.queue) \in Nat /\ Len(g.answers) \in Nat
    BY DEF Generators
  <2>2. \A i \in DOMAIN Tail(g.queue) : i \in Nat /\ i + 1 \in DOMAIN g.queue
    BY <2>1
  <2>3. ASSUME NEW i \in Nat, i \in DOMAIN Tail(g.queue)
        PROVE  Tail(g.queue)[i].id = (Len(g.answers) + 1) + i
    <3>1. Tail(g.queue)[i] = g.queue[i + 1] /\ i + 1 \in DOMAIN g.queue
      BY <2>1, <2>2, <2>3
    <3>2. g.queue[i + 1].id = Len(g.answers) + (i + 1)
      BY <3>1 DEF Numbered
    <3>3. \A k \in Nat : k + (i + 1) = (k + 1) + i
      OBVIOUS
    <3> QED
      BY <2>1, <3>1, <3>2, <3>3, Zenon
  <2> QED
    BY <1>3, <1>6, <2>2, <2>3
<1>9. \A i \in DOMAIN h.answers : h.answers[i].id = i
  <2> SUFFICES ASSUME NEW i \in DOMAIN h.answers
               PROVE  h.answers[i].id = i
    OBVIOUS
  <2>1. i \in 1 .. Len(g.answers) + 1
    BY <1>3, <1>2, <1>6, <1>5 DEF Generators
  <2>2. CASE i = Len(g.answers) + 1
    BY <2>2, <1>1, <1>2, <1>3 DEF Generators
  <2>3. CASE i \in 1 .. Len(g.answers)
    <3>1. h.answers[i] = g.answers[i]
      BY <2>3, <1>2, <1>3 DEF Generators
    <3> QED
      BY <3>1, <2>3 DEF Numbered, Generators
  <2> QED
    BY <2>1, <2>2, <2>3 DEF Generators
<1>10. Numbered(h)
  BY <1>7, <1>8, <1>9 DEF Numbered
<1>11. h.state = g.state /\ h.waiting = g.waiting /\ h.inBody = g.inBody
  BY DEF Answer, Generators
<1> QED
  BY <1>3, <1>5, <1>10, <1>11

\* What a completed generator does with the request in front.
LEMMA CompletedGood ==
    ASSUME NEW g \in Generators, Numbered(g), g.queue # <<>>, NEW fails \in BOOLEAN,
           g.state = "COMPLETED", g.waiting = "none", ~g.inBody
    PROVE  Good(Completed(g, fails))
<1>1. Head(g.queue).type \in RequestTypes
  BY HeadNumber
<1>2. CASE Head(g.queue).type = "next"
  <2>1. Completed(g, fails) = Answer(g, "done")
    BY <1>2 DEF Completed
  <2> QED
    BY <2>1, AnswerNumbers DEF Good, Served, Hows
<1>3. CASE Head(g.queue).type = "throw"
  <2>1. Completed(g, fails) = Answer(g, "thrown")
    BY <1>3 DEF Completed
  <2> QED
    BY <2>1, AnswerNumbers DEF Good, Served, Hows
<1>4. CASE Head(g.queue).type = "return"
  <2> DEFINE h == [g EXCEPT !.state = "AWAITING_RETURN",
                            !.waiting = IF fails THEN "none" ELSE "return"]
  <2>1. Completed(g, fails) = h
    BY <1>4 DEF Completed
  <2>2. /\ h \in Generators
        /\ h.queue = g.queue /\ h.answers = g.answers /\ h.inBody = g.inBody
        /\ h.state = "AWAITING_RETURN"
        /\ h.waiting \in {"none", "return"}
    BY DEF Generators, States
  <2> HIDE DEF h
  <2>3. Numbered(h)
    BY <2>2 DEF Numbered
  <2>4. Served(h)
    BY <2>2, <1>4 DEF Served
  <2> QED
    BY <2>1, <2>2, <2>3, <2>4 DEF Good
<1> QED
  BY <1>1, <1>2, <1>3, <1>4 DEF RequestTypes

\* js_async_generator_resume_next, called when the body does not execute.
LEMMA ResumeNextGood ==
    ASSUME NEW g, Good(g), NEW fails \in BOOLEAN, g.state # "EXECUTING"
    PROVE  Good(ResumeNext(g, fails))
<1>0. g \in Generators /\ Numbered(g) /\ Served(g) /\ ~g.inBody
  BY DEF Good, Served, Generators
<1>1. CASE g.queue = <<>> \/ g.state = "AWAITING_RETURN"
  <2>1. ResumeNext(g, fails) = g
    BY <1>1 DEF ResumeNext
  <2> QED
    BY <2>1
<1>2. ASSUME g.queue # <<>>, g.state \in {"SUSPENDED_YIELD", "SUSPENDED_YIELD_STAR"}
             \/ (g.state = "SUSPENDED_START" /\ Head(g.queue).type = "next")
      PROVE  Good(ResumeNext(g, fails))
  <2>1. ResumeNext(g, fails) = Execute(g)
    BY <1>2 DEF ResumeNext
  <2>2. g.waiting = "none"
    BY <1>0, <1>2 DEF Served, Generators
  <2>3. /\ Execute(g) \in Generators
        /\ Execute(g).queue = g.queue /\ Execute(g).answers = g.answers
        /\ Execute(g).waiting = "none"
        /\ Execute(g).state = "EXECUTING"
        /\ Execute(g).serving = Head(g.queue).id
    <3>1. Head(g.queue).id \in 0 .. MaxRequests
      BY <1>0, <1>2, HeadNumber, GeneratorBounds
    <3> QED
      BY <3>1, <1>0, <2>2 DEF Execute, Generators, States
  <2> QED
    BY <2>1, <2>3, <1>0, <1>2 DEF Good, Numbered, Served
<1>3. ASSUME g.queue # <<>>, g.state = "COMPLETED"
      PROVE  Good(ResumeNext(g, fails))
  <2>1. ResumeNext(g, fails) = Completed(g, fails)
    BY <1>3 DEF ResumeNext
  <2>2. g.waiting = "none"
    BY <1>0, <1>3 DEF Served, Generators
  <2> QED
    BY <2>1, <2>2, <1>0, <1>3, CompletedGood
<1>4. ASSUME g.queue # <<>>, g.state = "SUSPENDED_START", Head(g.queue).type # "next"
      PROVE  Good(ResumeNext(g, fails))
  <2> DEFINE h == [g EXCEPT !.state = "COMPLETED"]
  <2>1. ResumeNext(g, fails) = Completed(h, fails)
    BY <1>4 DEF ResumeNext
  <2>2. g.waiting = "none"
    BY <1>0, <1>4 DEF Served, Generators
  <2>3. /\ h \in Generators /\ h.queue = g.queue /\ h.answers = g.answers
        /\ h.state = "COMPLETED" /\ h.waiting = "none" /\ h.inBody = g.inBody
    BY <1>0, <2>2 DEF Generators, States
  <2>4. Numbered(h)
    BY <1>0, <2>3 DEF Numbered
  <2> HIDE DEF h
  <2> QED
    BY <2>1, <2>3, <2>4, <1>0, <1>4, CompletedGood
<1> QED
  BY <1>0, <1>1, <1>2, <1>3, <1>4 DEF Generators, States

\* The variables become what the operations make of the record.
LEMMA BecomesGood ==
    ASSUME NEW g, Good(g), Becomes(g)
    PROVE  GeneratorInv'
<1>1. g \in Generators
  BY DEF Good
<1>2. Generator' = [state |-> g.state, queue |-> g.queue, waiting |-> g.waiting,
                    inBody |-> g.inBody, serving |-> g.serving, answers |-> g.answers]
  BY DEF Becomes, Generator
<1>3. Generator' = g
  BY <1>1, <1>2 DEF Generators
<1> QED
  BY <1>3 DEF GeneratorInv, Good, Numbered, Served

-----------------------------------------------------------------------------

LEMMA GeneratorInitGood == GeneratorInit => GeneratorInv
<1> SUFFICES ASSUME GeneratorInit PROVE GeneratorInv
  OBVIOUS
<1>1. Generator \in Generators
  <2>1. <<>> \in Seq([id : Nat, type : RequestTypes]) /\ <<>> \in Seq([id : Nat, how : Hows])
    BY EmptySeq
  <2>2. 0 \in 0 .. MaxRequests
    BY GeneratorBounds
  <2> QED
    BY <2>1, <2>2 DEF GeneratorInit, Generator, Generators, States
<1>2. Numbered(Generator)
  BY GeneratorBounds DEF GeneratorInit, Generator, Numbered
<1>3. Served(Generator)
  BY DEF GeneratorInit, Generator, Served
<1> QED
  BY <1>1, <1>2, <1>3 DEF GeneratorInv, Good

\* The answer that ends a step of the body, before the next request is served.
LEMMA EndOfStep ==
    ASSUME GeneratorInv, inBody, NEW to \in States \ {"EXECUTING"}, NEW how \in Hows
    PROVE  LET h == Answer([Generator EXCEPT !.state = to, !.inBody = FALSE], how)
           IN  Good(h) /\ h.state # "EXECUTING"
<1> DEFINE g == [Generator EXCEPT !.state = to, !.inBody = FALSE]
<1>1. /\ Generator \in Generators /\ Numbered(Generator) /\ Served(Generator)
      /\ Generator.inBody
  BY DEF GeneratorInv, Good, Generator
<1>2. Generator.queue # <<>> /\ Generator.waiting = "none"
  BY <1>1 DEF Served
<1>3. /\ g \in Generators /\ g.queue = Generator.queue /\ g.answers = Generator.answers
      /\ g.waiting = "none" /\ g.state = to /\ ~g.inBody
  BY <1>1, <1>2 DEF Generators
<1> HIDE DEF g
<1>4. Numbered(g)
  BY <1>1, <1>3 DEF Numbered
<1>5. /\ Answer(g, how) \in Generators /\ Numbered(Answer(g, how))
      /\ Answer(g, how).state = to /\ Answer(g, how).waiting = "none"
      /\ ~Answer(g, how).inBody
  BY <1>2, <1>3, <1>4, AnswerNumbers
<1>6. Good(Answer(g, how)) /\ Answer(g, how).state # "EXECUTING"
  BY <1>5 DEF Good, Served
<1> QED
  BY <1>6 DEF g

LEMMA YieldGood ==
    ASSUME GeneratorInv, NEW to \in {"SUSPENDED_YIELD", "SUSPENDED_YIELD_STAR"}, Yield(to)
    PROVE  GeneratorInv'
<1> DEFINE h == Answer([Generator EXCEPT !.state = to, !.inBody = FALSE], "yield")
<1>1. inBody /\ Becomes(ResumeNext(h, FALSE))
  BY DEF Yield, Step
<1>2. Good(h) /\ h.state # "EXECUTING"
  BY <1>1, EndOfStep DEF States, Hows
<1> HIDE DEF h
<1>3. Good(ResumeNext(h, FALSE))
  BY <1>2, ResumeNextGood
<1> QED
  BY <1>1, <1>3, BecomesGood

LEMMA FinishGood ==
    ASSUME GeneratorInv, NEW how \in {"done", "thrown"}, Finish(how)
    PROVE  GeneratorInv'
<1> DEFINE h == Answer([Generator EXCEPT !.state = "COMPLETED", !.inBody = FALSE], how)
<1>1. PICK fails \in MayFail : Becomes(ResumeNext(h, fails))
  BY DEF Finish
<1>2. inBody /\ fails \in BOOLEAN
  BY DEF Finish, MayFail
<1>3. Good(h) /\ h.state # "EXECUTING"
  BY <1>2, EndOfStep DEF States, Hows
<1> HIDE DEF h
<1>4. Good(ResumeNext(h, fails))
  BY <1>2, <1>3, ResumeNextGood
<1> QED
  BY <1>1, <1>4, BecomesGood

LEMMA AwaitGood ==
    ASSUME GeneratorInv, Await
    PROVE  GeneratorInv'
<1>1. PICK fails \in MayFail :
          Becomes([Generator EXCEPT !.inBody = FALSE,
                                    !.waiting = IF fails THEN "none" ELSE "await"])
  BY DEF Await
<1> DEFINE g == [Generator EXCEPT !.inBody = FALSE,
                                  !.waiting = IF fails THEN "none" ELSE "await"]
<1>2. /\ Generator \in Generators /\ Numbered(Generator) /\ Served(Generator)
      /\ Generator.inBody
  BY DEF GeneratorInv, Good, Generator, Await, Step
<1>3. /\ g \in Generators /\ g.queue = Generator.queue /\ g.answers = Generator.answers
      /\ g.state = Generator.state /\ g.serving = Generator.serving /\ ~g.inBody
      /\ g.waiting \in {"none", "await"}
  BY <1>2 DEF Generators
<1>4. Good(g)
  BY <1>2, <1>3 DEF Good, Numbered, Served
<1> QED
  BY <1>1, <1>4, BecomesGood

LEMMA AwaitDoneGood ==
    ASSUME GeneratorInv, AwaitDone
    PROVE  GeneratorInv'
<1> DEFINE g == [Generator EXCEPT !.waiting = "none", !.inBody = TRUE]
<1>1. Becomes(g)
  BY DEF AwaitDone
<1>2. /\ Generator \in Generators /\ Numbered(Generator) /\ Served(Generator)
      /\ Generator.waiting = "await"
  BY DEF GeneratorInv, Good, Generator, AwaitDone
<1>3. /\ g \in Generators /\ g.queue = Generator.queue /\ g.answers = Generator.answers
      /\ g.state = Generator.state /\ g.serving = Generator.serving
      /\ g.waiting = "none"
  BY <1>2 DEF Generators
<1>4. Good(g)
  BY <1>2, <1>3 DEF Good, Numbered, Served
<1> QED
  BY <1>1, <1>4, BecomesGood

LEMMA ReturnDoneGood ==
    ASSUME GeneratorInv, NEW how \in {"done", "thrown"}, ReturnDone(how)
    PROVE  GeneratorInv'
<1> DEFINE g == [Generator EXCEPT !.state = "COMPLETED", !.waiting = "none"]
<1>1. Becomes(Answer(g, how))
  BY DEF ReturnDone
<1>2. /\ Generator \in Generators /\ Numbered(Generator) /\ Served(Generator)
      /\ Generator.waiting = "return"
  BY DEF GeneratorInv, Good, Generator, ReturnDone
<1>3. Generator.queue # <<>> /\ Generator.state = "AWAITING_RETURN" /\ ~Generator.inBody
  BY <1>2 DEF Served, Generators
<1>4. /\ g \in Generators /\ g.queue = Generator.queue /\ g.answers = Generator.answers
      /\ g.state = "COMPLETED" /\ g.waiting = "none" /\ ~g.inBody
  BY <1>2, <1>3 DEF Generators, States
<1>5. Numbered(g)
  BY <1>2, <1>4 DEF Numbered
<1> HIDE DEF g
<1>6. how \in Hows
  BY DEF Hows
<1>7. /\ Answer(g, how) \in Generators /\ Numbered(Answer(g, how))
      /\ Answer(g, how).state = "COMPLETED" /\ Answer(g, how).waiting = "none"
      /\ ~Answer(g, how).inBody
  BY <1>3, <1>4, <1>5, <1>6, AnswerNumbers
<1>8. Good(Answer(g, how))
  BY <1>7 DEF Good, Served
<1> QED
  BY <1>1, <1>8, BecomesGood

\* A request goes to the end of the queue and disturbs nothing in front.
LEMMA RequestGood ==
    ASSUME GeneratorInv, NEW type \in RequestTypes, Request(type)
    PROVE  GeneratorInv'
<1> DEFINE r == [id |-> Requests + 1, type |-> type]
           g == [Generator EXCEPT !.queue = Append(@, r)]
<1>1. PICK fails \in MayFail :
          Becomes(IF state # "EXECUTING" THEN ResumeNext(g, fails) ELSE g)
  BY DEF Request
<1>2. fails \in BOOLEAN /\ Requests < MaxRequests
  BY DEF Request, MayFail
<1>3. /\ Generator \in Generators /\ Numbered(Generator) /\ Served(Generator)
      /\ Generator.state = state
      /\ Requests = Len(Generator.answers) + Len(Generator.queue)
  BY DEF GeneratorInv, Good, Generator, Requests
<1>4. Requests \in Nat /\ r \in [id : Nat, type : RequestTypes]
  BY <1>3 DEF Generators
<1> HIDE DEF r
<1> DEFINE q == Generator.queue
<1>5. q \in Seq([id : Nat, type : RequestTypes])
  BY <1>3 DEF Generators
<1> HIDE DEF q
<1>6. /\ Append(q, r) \in Seq([id : Nat, type : RequestTypes])
      /\ Len(Append(q, r)) = Len(q) + 1
      /\ \A i \in 1 .. Len(q) : Append(q, r)[i] = q[i]
      /\ Append(q, r)[Len(q) + 1] = r
      /\ q # <<>> => Head(Append(q, r)) = Head(q)
      /\ Append(q, r) # <<>>
  <2> DEFINE S == [id : Nat, type : RequestTypes]
  <2>1. q \in Seq(S) /\ r \in S
    BY <1>4, <1>5
  <2> HIDE DEF S
  <2>2. /\ Append(q, r) \in Seq(S)
        /\ Len(Append(q, r)) = Len(q) + 1
        /\ \A i \in 1 .. Len(q) : Append(q, r)[i] = q[i]
        /\ Append(q, r)[Len(q) + 1] = r
    BY <2>1
  <2>3. Append(q, r) # <<>>
    <3>1. Len(Append(q, r)) > 0
      BY <2>1, <2>2
    <3> QED
      BY <3>1, EmptySeq
  <2>4. q # <<>> => Head(Append(q, r)) = Head(q)
    BY <2>1
  <2> QED
    BY <2>2, <2>3, <2>4 DEF S
<1>7. /\ g \in Generators
      /\ g.queue = Append(q, r) /\ g.answers = Generator.answers
      /\ g.state = Generator.state /\ g.waiting = Generator.waiting
      /\ g.inBody = Generator.inBody /\ g.serving = Generator.serving
  BY <1>3, <1>6 DEF Generators, q
<1> HIDE DEF g
<1>8. Len(g.answers) + Len(g.queue) <= MaxRequests
  BY <1>2, <1>3, <1>5, <1>6, <1>7, GeneratorBounds DEF Generators, q
<1>9. \A i \in DOMAIN g.queue : g.queue[i].id = Len(g.answers) + i
  <2> SUFFICES ASSUME NEW i \in DOMAIN g.queue
               PROVE  g.queue[i].id = Len(g.answers) + i
    OBVIOUS
  <2>1. i \in 1 .. Len(q) + 1
    BY <1>5, <1>6, <1>7
  <2>2. CASE i \in 1 .. Len(q)
    <3>1. i \in DOMAIN q
      BY <2>2, <1>5
    <3>2. Generator.queue[i].id = Len(Generator.answers) + i
      BY <3>1, <1>3 DEF Numbered, q
    <3>3. g.queue[i] = q[i]
      BY <2>2, <1>6, <1>7
    <3> QED
      BY <3>2, <3>3, <1>7 DEF q
  <2>3. CASE i = Len(q) + 1
    <3>1. r.id = Len(Generator.answers) + Len(q) + 1
      BY <1>3 DEF r, q
    <3>2. Len(Generator.answers) \in Nat /\ Len(q) \in Nat
      BY <1>3, <1>5 DEF Generators
    <3>3. g.queue[i] = r
      BY <2>3, <1>6, <1>7
    <3>4. Len(Generator.answers) + Len(q) + 1 = Len(Generator.answers) + i
      <4>1. \A a, b \in Nat : a + b + 1 = a + (b + 1)
        OBVIOUS
      <4> QED
        BY <4>1, <3>2, <2>3
    <3>5. g.queue[i].id = r.id
      BY <3>3
    <3> QED
      BY <3>1, <3>4, <3>5, <1>7
  <2> QED
    BY <2>1, <2>2, <2>3, <1>5
<1>10. Numbered(g)
  BY <1>3, <1>7, <1>8, <1>9 DEF Numbered
<1>11. Served(g)
  BY <1>3, <1>6, <1>7 DEF Served, q
<1>12. Good(g)
  BY <1>7, <1>10, <1>11 DEF Good
<1>13. CASE state # "EXECUTING"
  BY <1>13, <1>1, <1>2, <1>3, <1>7, <1>12, ResumeNextGood, BecomesGood
<1>14. CASE state = "EXECUTING"
  BY <1>14, <1>1, <1>12, BecomesGood
<1> QED
  BY <1>13, <1>14

LEMMA GeneratorNextGood == GeneratorInv /\ [GeneratorNext]_generatorVars => GeneratorInv'
<1> SUFFICES ASSUME GeneratorInv, [GeneratorNext]_generatorVars PROVE GeneratorInv'
  OBVIOUS
<1>1. ASSUME NEW to \in {"SUSPENDED_YIELD", "SUSPENDED_YIELD_STAR"}, Yield(to) PROVE GeneratorInv'
  BY <1>1, YieldGood
<1>2. CASE Await
  BY <1>2, AwaitGood
<1>3. ASSUME NEW how \in {"done", "thrown"}, Finish(how) PROVE GeneratorInv'
  BY <1>3, FinishGood
<1>4. CASE AwaitDone
  BY <1>4, AwaitDoneGood
<1>5. ASSUME NEW how \in {"done", "thrown"}, ReturnDone(how) PROVE GeneratorInv'
  BY <1>5, ReturnDoneGood
<1>6. ASSUME NEW type \in {"next", "return", "throw"}, Request(type) PROVE GeneratorInv'
  BY <1>6, RequestGood DEF RequestTypes
<1>7. CASE UNCHANGED generatorVars
  BY <1>7 DEF generatorVars, GeneratorInv, Generator, Good, Numbered, Served
<1> QED
  BY <1>1, <1>2, <1>3, <1>4, <1>5, <1>6, <1>7 DEF GeneratorNext, Body, Settles

LEMMA GoodServed == GeneratorInv => HeadServed
<1> SUFFICES ASSUME GeneratorInv PROVE HeadServed
  OBVIOUS
<1>1. GeneratorTypeOK
  BY DEF GeneratorInv, Good, Generators, Numbered, Generator, GeneratorTypeOK, States
<1>2. Served(Generator)
  BY DEF GeneratorInv, Good
<1> QED
  BY <1>1, <1>2 DEF Served, Generator, HeadServed

\* Whatever requests are made meanwhile, and whether or not awaits can be
\* started, requests are answered in the order they were made, the body finds
\* the request it was resumed for in front of the queue, and a promise that
\* the generator waits for finds it in the state in which it began to wait.
THEOREM QueueServed == GeneratorSpec => []HeadServed
<1>1. GeneratorInit => GeneratorInv
  BY GeneratorInitGood
<1>2. GeneratorInv /\ [GeneratorNext]_generatorVars => GeneratorInv'
  BY GeneratorNextGood
<1>3. GeneratorInv => HeadServed
  BY GoodServed
<1> QED
  BY <1>1, <1>2, <1>3, PTL DEF GeneratorSpec

-----------------------------------------------------------------------------
(* The event loop and the message pipes.                                    *)

\* Where a thread is that neither posts nor is being started or freed.
Runs == {"script", "jobs", "poll", "select", "receive", "end"}

One(b) == IF b THEN 1 ELSE 0

Types ==
    /\ pc \in [Threads -> Runs \cup {"none", "start", "post", "freed", "dead"}]
    /\ object \in [Threads -> BOOLEAN]
    /\ port \in [Threads -> BOOLEAN]
    /\ refs \in [Threads -> Nat]
    /\ mutex \in [Threads -> Threads \cup {Nobody}]
    /\ bytes \in [Threads -> 0 .. 1]
    /\ failed \in [Threads -> BOOLEAN]
    /\ msg_queue \in [Threads -> Seq(Nat)]
    /\ got \in [Threads -> Seq(Nat)]
    /\ sent \in [Threads -> Nat]

\* The worker's life: there is no object before it, and no Worker.parent
\* before it has started.
Life ==
    /\ pc[Worker] = "none" => ~object[Main]
    /\ pc[Worker] \in {"none", "start"} => ~object[Worker]
    /\ \A t \in Threads : port[t] => object[t]
    /\ pc[Main] \notin {"none", "start"}
    /\ pc[Worker] # "dead"

\* Who counts: the two objects, the handler of the receiver, and the thread
\* state of the worker, or worker_func's arguments before it has one.
Counted ==
    \A p \in Threads :
        refs[p] = One(object[Main]) + One(object[Worker]) + One(port[p])
                    + One(pc[Worker] \notin {"none", "freed"})

\* While a thread posts it has the mutex of the other's pipe, and the byte for
\* its message is written, or was to be; otherwise bytes and messages agree.
Posting ==
    \A t \in Threads :
        IF pc[t] = "post"
          THEN /\ object[t] /\ mutex[Other(t)] = t
               /\ bytes[Other(t)] = 1 <=> ~failed[Other(t)]
          ELSE /\ mutex[Other(t)] = Nobody
               /\ bytes[Other(t)] = 1 <=> msg_queue[Other(t)] # <<>> /\ ~failed[Other(t)]

\* Messages are numbered through, from those handled to those queued.
Ordered ==
    \A p \in Threads :
        /\ \A i \in 1 .. Len(got[p]) : got[p][i] = i
        /\ \A i \in 1 .. Len(msg_queue[p]) : msg_queue[p][i] = Len(got[p]) + i
        /\ refs[p] > 0 \/ pc[Worker] = "none" => Len(got[p]) + Len(msg_queue[p]) = sent[p]

IInv == Types /\ Life /\ Counted /\ Posting /\ Ordered

\* A handler is there only while the loop of its thread may look at it, since
\* the loop ends without handlers; but a main script that threw leaves its own.
Ports ==
    /\ alive \in [Threads -> BOOLEAN]
    /\ caller \in [Threads -> {"start", "job", "event"}]
    /\ alive[Main] <=> pc[Main] \notin {"freed", "dead"}
    /\ alive[Worker] <=> pc[Worker] \notin {"none", "start", "freed"}
    /\ \A t \in Threads : pc[t] \in {"end", "freed"} /\ port[t] => t = Main /\ caller[t] = "start"
    /\ pc[Main] = "dead" => caller[Main] = "start"

\* A thread that is about to take a message has seen the byte.
Receiving == \A t \in Threads : pc[t] = "receive" => port[t] /\ bytes[t] = 1

-----------------------------------------------------------------------------

\* There are two threads.
LEMMA OtherThread ==
    ASSUME NEW t \in Threads
    PROVE  /\ Other(t) \in Threads /\ Other(t) # t /\ Other(Other(t)) = t
           /\ \A u \in Threads : u = t \/ u = Other(t)
           /\ t # Nobody /\ Main \in Threads /\ Worker \in Threads /\ Main # Worker
BY Bounds DEF Threads, Other

\* A message at the end of a queue.
LEMMA Appended ==
    ASSUME NEW s \in Seq(Nat), NEW n \in Nat
    PROVE  /\ Append(s, n) \in Seq(Nat) /\ Append(s, n) # <<>>
           /\ Len(s) \in Nat /\ Len(Append(s, n)) = Len(s) + 1
           /\ \A i \in 1 .. Len(s) : Append(s, n)[i] = s[i]
           /\ Append(s, n)[Len(s) + 1] = n
<1>1. /\ Append(s, n) \in Seq(Nat)
      /\ Len(s) \in Nat /\ Len(Append(s, n)) = Len(s) + 1
      /\ \A i \in 1 .. Len(s) : Append(s, n)[i] = s[i]
      /\ Append(s, n)[Len(s) + 1] = n
  BY AppendProperties, LenProperties
<1>2. Append(s, n) # <<>>
  <2>1. Len(Append(s, n)) # 0
    BY <1>1
  <2> QED
    BY <2>1, EmptySeq
<1> QED
  BY <1>1, <1>2

\* What is left of a queue without its first message.
LEMMA Removed ==
    ASSUME NEW s \in Seq(Nat), s # <<>>
    PROVE  /\ Tail(s) \in Seq(Nat) /\ Head(s) = s[1] /\ Head(s) \in Nat
           /\ Len(s) \in Nat /\ Len(s) >= 1 /\ Len(Tail(s)) = Len(s) - 1
           /\ \A i \in 1 .. Len(Tail(s)) : Tail(s)[i] = s[i + 1]
           /\ Tail(s) = <<>> <=> Len(s) = 1
<1>1. /\ Tail(s) \in Seq(Nat) /\ Head(s) = s[1] /\ Head(s) \in Nat
      /\ Len(s) \in Nat /\ Len(s) >= 1 /\ Len(Tail(s)) = Len(s) - 1
      /\ \A i \in 1 .. Len(Tail(s)) : Tail(s)[i] = s[i + 1]
  BY HeadTailProperties, EmptySeq, LenProperties
<1>2. Tail(s) = <<>> <=> Len(Tail(s)) = 0
  BY <1>1, EmptySeq
<1> QED
  BY <1>1, <1>2

\* Numbers that run on from g still do so with the next one.
LEMMA NextNumber ==
    ASSUME NEW s \in Seq(Nat), NEW g \in Nat, NEW n \in Nat, g + Len(s) = n,
           \A i \in 1 .. Len(s) : s[i] = g + i
    PROVE  /\ \A i \in 1 .. Len(Append(s, n + 1)) : Append(s, n + 1)[i] = g + i
           /\ g + Len(Append(s, n + 1)) = n + 1
<1> DEFINE q == Append(s, n + 1)
<1>0. n + 1 \in Nat
  OBVIOUS
<1>1. /\ Len(s) \in Nat /\ Len(q) = Len(s) + 1
      /\ \A i \in 1 .. Len(s) : q[i] = s[i]
      /\ q[Len(s) + 1] = n + 1
  BY <1>0, Appended
<1> DEFINE l == Len(s)
<1>2. l \in Nat /\ g + l = n /\ Len(q) = l + 1 /\ q[l + 1] = n + 1
  BY <1>1
<1>3. \A i \in 1 .. l : q[i] = g + i
  BY <1>1
<1> HIDE DEF l, q
<1>4. g + (l + 1) = n + 1
  BY <1>2
<1>5. \A i \in 1 .. l + 1 : i \in 1 .. l \/ i = l + 1
  BY <1>2
<1>6. (\A i \in 1 .. Len(q) : q[i] = g + i) /\ g + Len(q) = n + 1
  BY <1>2, <1>3, <1>4, <1>5
<1> QED
  BY <1>6 DEF q

\* Before the first Worker there is neither message nor reference.
LEMMA InitGood == Init => IInv
<1> SUFFICES ASSUME Init PROVE IInv
  OBVIOUS
<1>0. <<>> \in Seq(Nat) /\ Len(<<>>) = 0
  BY EmptySeq
<1>1. Types
  BY <1>0 DEF Init, Types, Runs
<1>2. Life
  BY Bounds DEF Init, Life, Threads
<1>3. Counted
  BY Bounds DEF Init, Counted, One, Threads
<1>4. Posting
  BY OtherThread DEF Init, Posting
<1>5. Ordered
  BY <1>0 DEF Init, Ordered
<1> QED
  BY <1>1, <1>2, <1>3, <1>4, <1>5 DEF IInv

\* A step of a thread between two places outside of postMessage that touches
\* neither pipes nor references.
LEMMA QuietGood ==
    ASSUME IInv, NEW t \in Threads, pc[t] \in Runs, NEW l \in Runs \cup {"freed"},
           t = Worker => l # "freed",
           pc' = [pc EXCEPT ![t] = l], UNCHANGED <<object, port, refs, pipes>>
    PROVE  IInv'
<1>1. Types'
  BY DEF IInv, Types, pipes
<1>2. \A u \in Threads : /\ pc'[u] = "post" <=> pc[u] = "post"
                         /\ pc'[u] \in {"none", "start"} <=> pc[u] \in {"none", "start"}
                         /\ u = Worker => (pc'[u] = "freed" <=> pc[u] = "freed")
                         /\ pc'[u] = "none" <=> pc[u] = "none"
                         /\ pc'[u] = "dead" <=> pc[u] = "dead"
  BY DEF IInv, Types, Runs
<1>3. Life'
  BY <1>2, OtherThread DEF IInv, Life
<1>4. Counted'
  <2>1. (pc[Worker] \notin {"none", "freed"}) <=> (pc'[Worker] \notin {"none", "freed"})
    BY <1>2, OtherThread
  <2>2. One(pc[Worker] \notin {"none", "freed"}) = One(pc'[Worker] \notin {"none", "freed"})
    BY <2>1 DEF One
  <2> QED
    BY <2>2 DEF IInv, Counted
<1>5. Posting'
  BY <1>2 DEF IInv, Posting, pipes
<1>6. Ordered'
  BY <1>2, OtherThread DEF IInv, Ordered, pipes
<1> QED
  BY <1>1, <1>3, <1>4, <1>5, <1>6 DEF IInv

\* A step that leaves places, pipes and references alone.
LEMMA AsideGood ==
    ASSUME IInv, UNCHANGED <<pc, object, port, refs, pipes>>
    PROVE  IInv'
BY DEF IInv, Types, Life, Counted, Posting, Ordered, pipes

\* js_free_message_pipe: the last reference takes the messages with it.
LEMMA UnrefPipes ==
    ASSUME IInv, NEW n \in [Threads -> Nat], Unref(n), refs' \in [Threads -> Nat],
           UNCHANGED <<failed, mutex, sent, got>>, pc[Worker] # "none", pc'[Worker] # "none",
           \A t \in Threads : pc'[t] = "post" <=> pc[t] = "post",
           \A t \in Threads : pc'[t] = "post" => object'[t] /\ refs'[Other(t)] > 0
    PROVE  /\ bytes' \in [Threads -> 0 .. 1]
           /\ msg_queue' \in [Threads -> Seq(Nat)]
           /\ Posting'
           /\ Ordered'
<1>0. Types /\ Posting /\ Ordered
  BY DEF IInv
<1>1. \A p \in Threads :
        \/ msg_queue'[p] = msg_queue[p] /\ bytes'[p] = bytes[p]
        \/ msg_queue'[p] = <<>> /\ bytes'[p] = 0 /\ refs'[p] = 0
  BY DEF Unref
<1>2. bytes' \in [Threads -> 0 .. 1] /\ msg_queue' \in [Threads -> Seq(Nat)]
  <2>1. <<>> \in Seq(Nat)
    BY EmptySeq
  <2> QED
    BY <2>1, <1>0 DEF Unref, Types
<1>3. Posting'
  <2> SUFFICES ASSUME NEW t \in Threads
               PROVE  IF pc'[t] = "post"
                        THEN /\ object'[t] /\ mutex'[Other(t)] = t
                             /\ bytes'[Other(t)] = 1 <=> ~failed'[Other(t)]
                        ELSE /\ mutex'[Other(t)] = Nobody
                             /\ bytes'[Other(t)] = 1 <=> msg_queue'[Other(t)] # <<>>
                                                          /\ ~failed'[Other(t)]
    BY DEF Posting
  <2>1. Other(t) \in Threads
    BY OtherThread
  <2> QED
    BY <2>1, <1>0, <1>1 DEF Posting
<1>4. Ordered'
  <2> SUFFICES ASSUME NEW p \in Threads
               PROVE  /\ \A i \in 1 .. Len(got'[p]) : got'[p][i] = i
                      /\ \A i \in 1 .. Len(msg_queue'[p]) : msg_queue'[p][i] = Len(got'[p]) + i
                      /\ refs'[p] > 0 \/ pc'[Worker] = "none" => Len(got'[p]) + Len(msg_queue'[p]) = sent'[p]
    BY DEF Ordered
  <2>1. refs'[p] > 0 => refs[p] > 0
    <3>1. refs'[p] = refs[p] - n[p] /\ refs[p] \in Nat /\ n[p] \in Nat
      BY <1>0 DEF Unref, Types
    <3> QED
      BY <3>1
  <2>2. CASE msg_queue'[p] = msg_queue[p]
    BY <2>1, <2>2, <1>0 DEF Ordered
  <2>3. CASE msg_queue'[p] = <<>> /\ refs'[p] = 0
    <3>1. Len(msg_queue'[p]) = 0
      BY <2>3, EmptySeq
    <3>2. \A i \in 1 .. Len(msg_queue'[p]) : msg_queue'[p][i] = Len(got'[p]) + i
      BY <3>1
    <3>3. \A i \in 1 .. Len(got'[p]) : got'[p][i] = i
      BY <1>0 DEF Ordered
    <3>4. ~(refs'[p] > 0 \/ pc'[Worker] = "none")
      BY <2>3
    <3> QED
      BY <3>2, <3>3, <3>4
  <2> QED
    BY <1>1, <2>2, <2>3
<1> QED
  BY <1>2, <1>3, <1>4

-----------------------------------------------------------------------------
(* The steps that do more.                                                 *)

\* js_worker_ctor: two references for each pipe, to the object and the thread.
LEMMA NewWorkerGood ==
    ASSUME IInv, NewWorker
    PROVE  IInv'
<1>0. /\ Types /\ Life /\ Counted /\ Posting /\ Ordered
      /\ pc[Worker] = "none" /\ Main \in Threads /\ Worker \in Threads /\ Main # Worker
  BY Bounds DEF IInv, NewWorker, Threads
<1>1. /\ refs' = [p \in Threads |-> 2]
      /\ object' = [object EXCEPT ![Main] = TRUE]
      /\ pc' = [pc EXCEPT ![Worker] = "start"]
      /\ UNCHANGED <<port, pipes>>
  BY DEF NewWorker, Goto
<1>2. Types'
  BY <1>0, <1>1 DEF Types, pipes
<1>3. /\ pc'[Worker] = "start" /\ pc'[Main] = pc[Main]
      /\ object'[Main] /\ ~object'[Worker]
      /\ \A t \in Threads : ~port'[t]
  BY <1>0, <1>1 DEF Types, Life, Threads
<1>4. Life'
  BY <1>0, <1>3 DEF Life
<1>5. Counted'
  BY <1>1, <1>3 DEF Counted, One
<1>6. \A t \in Threads : pc[t] # "post" /\ pc'[t] # "post"
  BY <1>0, <1>3 DEF Life, Posting, Threads
<1>7. Posting'
  BY <1>0, <1>1, <1>6 DEF Posting, pipes
<1>8. Ordered'
  BY <1>0, <1>1 DEF Ordered, pipes
<1> QED
  BY <1>2, <1>4, <1>5, <1>7, <1>8 DEF IInv

\* worker_func: Worker.parent has a reference of its own to each pipe.
LEMMA StartWorkerGood ==
    ASSUME IInv, StartWorker
    PROVE  IInv'
<1>0. /\ Types /\ Life /\ Counted /\ Posting /\ Ordered
      /\ pc[Worker] = "start" /\ Main \in Threads /\ Worker \in Threads /\ Main # Worker
  BY Bounds DEF IInv, StartWorker, Threads
<1>1. /\ refs' = [p \in Threads |-> refs[p] + 1]
      /\ object' = [object EXCEPT ![Worker] = TRUE]
      /\ pc' = [pc EXCEPT ![Worker] = "script"]
      /\ UNCHANGED <<port, pipes>>
  BY DEF StartWorker, Goto, Plus, Both
<1>2. Types'
  BY <1>0, <1>1 DEF Types, pipes, Runs
<1>3. /\ pc'[Worker] = "script" /\ pc'[Main] = pc[Main]
      /\ object'[Main] = object[Main] /\ object'[Worker] /\ ~object[Worker]
  BY <1>0, <1>1 DEF Types, Life
<1>4. Life'
  BY <1>0, <1>1, <1>3 DEF Life, Types
<1>5. Counted'
  <2> SUFFICES ASSUME NEW p \in Threads
               PROVE  refs'[p] = One(object'[Main]) + One(object'[Worker]) + One(port'[p])
                                   + One(pc'[Worker] \notin {"none", "freed"})
    BY DEF Counted
  <2>1. refs[p] = One(object[Main]) + One(object[Worker]) + One(port[p])
                    + One(pc[Worker] \notin {"none", "freed"})
    BY <1>0 DEF Counted
  <2>2. /\ One(object[Worker]) = 0 /\ One(object'[Worker]) = 1
        /\ One(object'[Main]) = One(object[Main]) /\ One(port'[p]) = One(port[p])
        /\ One(pc[Worker] \notin {"none", "freed"}) = 1
        /\ One(pc'[Worker] \notin {"none", "freed"}) = 1
        /\ One(object[Main]) \in Nat /\ One(port[p]) \in Nat
    BY <1>0, <1>1, <1>3 DEF One
  <2>3. refs'[p] = refs[p] + 1
    BY <1>1
  <2> QED
    BY <2>1, <2>2, <2>3
<1>6. \A t \in Threads : (pc'[t] = "post" <=> pc[t] = "post") /\ (object[t] => object'[t])
  BY <1>0, <1>3 DEF Threads
<1>7. Posting'
  BY <1>0, <1>1, <1>6 DEF Posting, pipes
<1>8. \A p \in Threads : refs[p] > 0
  BY <1>0 DEF Counted, One
<1>9. Ordered'
  BY <1>0, <1>1, <1>8 DEF Ordered, pipes
<1> QED
  BY <1>2, <1>4, <1>5, <1>7, <1>9 DEF IInv

\* The byte is written under the mutex, before the message is in the queue.
LEMMA BeginPostGood ==
    ASSUME IInv, NEW t \in Threads, BeginPost(t)
    PROVE  IInv'
<1> DEFINE p == Other(t)
<1>0. /\ Types /\ Life /\ Counted /\ Posting /\ Ordered
      /\ pc[t] = "script" /\ object[t] /\ mutex[p] = Nobody
  BY DEF IInv, BeginPost, Call
<1>1. /\ mutex' = [mutex EXCEPT ![p] = t]
      /\ \/ /\ msg_queue[p] = <<>>
            /\ bytes' = [bytes EXCEPT ![p] = bytes[p] + 1]
            /\ failed' = [failed EXCEPT ![p] = FALSE]
         \/ msg_queue[p] = <<>> /\ bytes' = bytes /\ failed' = [failed EXCEPT ![p] = TRUE]
         \/ msg_queue[p] # <<>> /\ bytes' = bytes /\ failed' = failed
      /\ pc' = [pc EXCEPT ![t] = "post"]
      /\ UNCHANGED <<object, port, refs, msg_queue, sent, got>>
  BY DEF BeginPost, NeedsByte, Write, Goto, owners
<1>2. /\ p \in Threads /\ p # t /\ Other(p) = t /\ Worker \in Threads /\ Main \in Threads
      /\ \A u \in Threads : u = t \/ u = p
  BY OtherThread
<1> HIDE DEF p
<1>3. bytes[p] \in 0 .. 1 /\ (bytes[p] = 1 <=> msg_queue[p] # <<>> /\ ~failed[p])
  BY <1>0, <1>2 DEF Types, Posting, p
<1>4. (bytes'[p] = 1 <=> ~failed'[p]) /\ bytes'[t] = bytes[t] /\ failed'[t] = failed[t]
  <2>0. p \in DOMAIN bytes /\ p \in DOMAIN failed /\ t \in DOMAIN bytes /\ t \in DOMAIN failed /\ p # t
    BY <1>0, <1>2 DEF Types
  <2>1. CASE /\ msg_queue[p] = <<>>
             /\ bytes' = [bytes EXCEPT ![p] = bytes[p] + 1]
             /\ failed' = [failed EXCEPT ![p] = FALSE]
    <3>1. bytes'[p] = 1 /\ bytes'[t] = bytes[t]
      BY <1>3, <2>0, <2>1
    <3>2. ~failed'[p] /\ failed'[t] = failed[t]
      BY <2>0, <2>1, Zenon
    <3> QED
      BY <3>1, <3>2
  <2>2. CASE msg_queue[p] = <<>> /\ bytes' = bytes /\ failed' = [failed EXCEPT ![p] = TRUE]
    <3>1. bytes'[p] # 1 /\ bytes'[t] = bytes[t]
      BY <1>3, <2>2
    <3>2. failed'[p] /\ failed'[t] = failed[t]
      BY <2>0, <2>2, Zenon
    <3> QED
      BY <3>1, <3>2
  <2>3. CASE msg_queue[p] # <<>> /\ bytes' = bytes /\ failed' = failed
    BY <1>3, <2>3
  <2> QED
    BY <1>1, <2>1, <2>2, <2>3
<1>5. Types'
  <2>1. bytes' \in [Threads -> 0 .. 1]
    <3>1. msg_queue[p] = <<>> => bytes[p] + 1 = 1
      BY <1>3
    <3>2. bytes' = bytes \/ bytes' = [bytes EXCEPT ![p] = 1]
      <4>1. CASE /\ msg_queue[p] = <<>>
                 /\ bytes' = [bytes EXCEPT ![p] = bytes[p] + 1]
        BY <3>1, <4>1
      <4>2. CASE bytes' = bytes
        BY <4>2
      <4> QED
        BY <1>1, <4>1, <4>2
    <3>3. bytes \in [Threads -> 0 .. 1] /\ 1 \in 0 .. 1
      BY <1>0 DEF Types
    <3>4. CASE bytes' = bytes
      BY <3>3, <3>4
    <3>5. CASE bytes' = [bytes EXCEPT ![p] = 1]
      BY <3>3, <3>5
    <3> QED
      BY <3>2, <3>4, <3>5
  <2>2. failed' \in [Threads -> BOOLEAN]
    <3>1. \/ failed' = failed
          \/ \E b \in BOOLEAN : failed' = [failed EXCEPT ![p] = b]
      BY <1>1
    <3> QED
      BY <1>0, <3>1 DEF Types
  <2> QED
    BY <2>1, <2>2, <1>0, <1>1, <1>2 DEF Types
<1>6. \A u \in Threads : (pc'[u] = "none" <=> pc[u] = "none")
                            /\ (pc'[u] = "start" <=> pc[u] = "start")
                            /\ (pc'[u] = "freed" <=> pc[u] = "freed")
                            /\ (pc'[u] = "dead" <=> pc[u] = "dead")
  BY <1>0, <1>1 DEF Types
<1>7. Life'
  BY <1>0, <1>1, <1>2, <1>6 DEF Life
<1>8. Counted'
  <2>1. One(pc[Worker] \notin {"none", "freed"}) = One(pc'[Worker] \notin {"none", "freed"})
    BY <1>2, <1>6 DEF One
  <2> QED
    BY <2>1, <1>0, <1>1 DEF Counted
<1>9. Posting'
  <2>1. pc'[t] = "post" /\ object'[t] /\ mutex'[p] = t
    BY <1>0, <1>1, <1>2 DEF Types
  <2>2. pc'[p] = pc[p] /\ mutex'[t] = mutex[t] /\ msg_queue'[t] = msg_queue[t] /\ object'[p] = object[p]
    BY <1>0, <1>1, <1>2 DEF Types
  <2> QED
    BY <2>1, <2>2, <1>0, <1>2, <1>4 DEF Posting, p
<1>10. Ordered'
  BY <1>0, <1>1, <1>2, <1>6 DEF Ordered
<1> QED
  BY <1>5, <1>7, <1>8, <1>9, <1>10 DEF IInv

\* The message gets the next number, since the sender's object keeps the pipe.
LEMMA EndPostGood ==
    ASSUME IInv, NEW t \in Threads, EndPost(t)
    PROVE  IInv'
<1> DEFINE p == Other(t)
<1>0. /\ Types /\ Life /\ Counted /\ Posting /\ Ordered
      /\ pc[t] = "post" /\ object[t]
  BY DEF IInv, EndPost, Posting
<1>1. /\ msg_queue' = [msg_queue EXCEPT ![p] = Append(msg_queue[p], sent[p] + 1)]
      /\ sent' = [sent EXCEPT ![p] = sent[p] + 1]
      /\ mutex' = [mutex EXCEPT ![p] = Nobody]
      /\ pc' = [pc EXCEPT ![t] = "script"]
      /\ UNCHANGED <<object, port, refs, bytes, failed, got>>
  BY DEF EndPost, Goto, owners
<1>2. /\ p \in Threads /\ p # t /\ Other(p) = t
      /\ \A u \in Threads : u = t \/ u = p
      /\ Main \in Threads /\ Worker \in Threads /\ (t = Main \/ t = Worker)
  BY OtherThread DEF Threads
<1>3. bytes[p] = 1 <=> ~failed[p]
  BY <1>0 DEF Posting
<1> HIDE DEF p
<1>4. /\ msg_queue[p] \in Seq(Nat) /\ got[p] \in Seq(Nat) /\ sent[p] \in Nat /\ sent[p] + 1 \in Nat
      /\ Append(msg_queue[p], sent[p] + 1) \in Seq(Nat)
  <2>1. msg_queue[p] \in Seq(Nat) /\ got[p] \in Seq(Nat) /\ sent[p] \in Nat
    BY <1>0, <1>2 DEF Types
  <2> QED
    BY <2>1, Appended
<1>5. /\ Append(msg_queue[p], sent[p] + 1) # <<>>
      /\ Len(msg_queue[p]) \in Nat /\ Len(Append(msg_queue[p], sent[p] + 1)) = Len(msg_queue[p]) + 1
      /\ \A i \in 1 .. Len(msg_queue[p]) : Append(msg_queue[p], sent[p] + 1)[i] = msg_queue[p][i]
      /\ Append(msg_queue[p], sent[p] + 1)[Len(msg_queue[p]) + 1] = sent[p] + 1
  BY <1>4, Appended
<1>6. Types'
  BY <1>0, <1>1, <1>2, <1>4 DEF Types, Runs
<1>7. \A u \in Threads : (pc'[u] = "none" <=> pc[u] = "none")
                            /\ (pc'[u] = "start" <=> pc[u] = "start")
                            /\ (pc'[u] = "freed" <=> pc[u] = "freed")
                            /\ (pc'[u] = "dead" <=> pc[u] = "dead")
  BY <1>0, <1>1 DEF Types
<1>8. Life'
  BY <1>0, <1>1, <1>2, <1>7 DEF Life
<1>9. Counted'
  <2>1. One(pc[Worker] \notin {"none", "freed"}) = One(pc'[Worker] \notin {"none", "freed"})
    BY <1>2, <1>7 DEF One
  <2> QED
    BY <2>1, <1>0, <1>1 DEF Counted
<1>10. Posting'
  <2>1. /\ pc'[t] = "script" /\ mutex'[p] = Nobody /\ (bytes'[p] = 1 <=> ~failed'[p])
        /\ msg_queue'[p] = Append(msg_queue[p], sent[p] + 1)
    BY <1>0, <1>1, <1>2, <1>3 DEF Types
  <2>2. /\ pc'[p] = pc[p] /\ mutex'[t] = mutex[t] /\ msg_queue'[t] = msg_queue[t]
        /\ object'[p] = object[p] /\ bytes'[t] = bytes[t] /\ failed'[t] = failed[t]
    BY <1>0, <1>1, <1>2 DEF Types
  <2> QED
    BY <2>1, <2>2, <1>0, <1>2, <1>5 DEF Posting, p
<1>11. refs[p] > 0
  BY <1>0, <1>2 DEF Counted, One
<1>12. Len(got[p]) \in Nat /\ Len(got[p]) + Len(msg_queue[p]) = sent[p]
  <2>1. Len(got[p]) \in Nat
    BY <1>4, LenProperties
  <2> QED
    BY <2>1, <1>0, <1>2, <1>11 DEF Ordered
<1>13. /\ msg_queue'[p] = Append(msg_queue[p], sent[p] + 1) /\ sent'[p] = sent[p] + 1
       /\ got'[p] = got[p] /\ got'[t] = got[t] /\ refs' = refs
       /\ msg_queue'[t] = msg_queue[t] /\ sent'[t] = sent[t]
  BY <1>0, <1>1, <1>2 DEF Types
<1>14. /\ \A i \in 1 .. Len(msg_queue'[p]) : msg_queue'[p][i] = Len(got[p]) + i
       /\ Len(got[p]) + Len(msg_queue'[p]) = sent[p] + 1
  <2>1. \A i \in 1 .. Len(msg_queue[p]) : msg_queue[p][i] = Len(got[p]) + i
    BY <1>0, <1>2 DEF Ordered
  <2> DEFINE q == Append(msg_queue[p], sent[p] + 1)
  <2>2. (\A i \in 1 .. Len(q) : q[i] = Len(got[p]) + i) /\ Len(got[p]) + Len(q) = sent[p] + 1
    BY <2>1, <1>4, <1>12, NextNumber
  <2>3. msg_queue'[p] = q
    BY <1>13
  <2> HIDE DEF q
  <2> QED
    BY <2>2, <2>3
<1>15. /\ \A i \in 1 .. Len(msg_queue'[p]) : msg_queue'[p][i] = Len(got'[p]) + i
       /\ Len(got'[p]) + Len(msg_queue'[p]) = sent'[p]
  BY <1>13, <1>14
<1>16. Ordered'
  <2>1. \A i \in 1 .. Len(got'[p]) : got'[p][i] = i
    BY <1>0, <1>2, <1>13 DEF Ordered
  <2>2. /\ \A i \in 1 .. Len(got'[t]) : got'[t][i] = i
        /\ \A i \in 1 .. Len(msg_queue'[t]) : msg_queue'[t][i] = Len(got'[t]) + i
        /\ refs'[t] > 0 \/ pc'[Worker] = "none" => Len(got'[t]) + Len(msg_queue'[t]) = sent'[t]
    <3>1. /\ \A i \in 1 .. Len(got[t]) : got[t][i] = i
          /\ \A i \in 1 .. Len(msg_queue[t]) : msg_queue[t][i] = Len(got[t]) + i
          /\ refs[t] > 0 \/ pc[Worker] = "none" => Len(got[t]) + Len(msg_queue[t]) = sent[t]
      BY <1>0 DEF Ordered
    <3>2. pc'[Worker] = "none" <=> pc[Worker] = "none"
      BY <1>2, <1>7
    <3>3. got'[t] = got[t] /\ msg_queue'[t] = msg_queue[t] /\ sent'[t] = sent[t] /\ refs'[t] = refs[t]
      BY <1>13
    <3> QED
      BY <3>1, <3>2, <3>3
  <2> QED
    BY <2>1, <2>2, <1>2, <1>15 DEF Ordered
<1> QED
  BY <1>6, <1>8, <1>9, <1>10, <1>16 DEF IInv

\* The first of the numbers that run on from g moves over.
LEMMA FirstNumber ==
    ASSUME NEW s \in Seq(Nat), s # <<>>, NEW g \in Seq(Nat),
           \A i \in 1 .. Len(g) : g[i] = i,
           \A i \in 1 .. Len(s) : s[i] = Len(g) + i
    PROVE  LET h == Append(g, Head(s))
           IN  /\ \A i \in 1 .. Len(h) : h[i] = i
               /\ \A i \in 1 .. Len(Tail(s)) : Tail(s)[i] = Len(h) + i
               /\ Len(h) + Len(Tail(s)) = Len(g) + Len(s)
<1> DEFINE h == Append(g, Head(s))
<1> DEFINE r == Tail(s)
<1>1. /\ Head(s) = s[1] /\ Head(s) \in Nat
      /\ Len(s) \in Nat /\ Len(s) >= 1 /\ Len(r) = Len(s) - 1
      /\ \A i \in 1 .. Len(r) : r[i] = s[i + 1]
  BY Removed
<1>2. /\ Len(g) \in Nat /\ Len(h) = Len(g) + 1
      /\ \A i \in 1 .. Len(g) : h[i] = g[i]
      /\ h[Len(g) + 1] = Head(s)
  BY <1>1, Appended
<1> HIDE DEF h, r
<1> DEFINE m == Len(g)
<1> DEFINE n == Len(s)
<1>3. /\ m \in Nat /\ n \in Nat /\ n >= 1 /\ Len(h) = m + 1 /\ Len(r) = n - 1
      /\ \A i \in 1 .. m : h[i] = i
      /\ \A i \in 1 .. n - 1 : r[i] = s[i + 1]
      /\ \A i \in 1 .. n : s[i] = m + i
      /\ h[m + 1] = s[1]
  BY <1>1, <1>2
<1> HIDE DEF m, n
<1>4. s[1] = m + 1
  BY <1>3
<1>5. \A i \in 1 .. m + 1 : h[i] = i
  BY <1>3, <1>4
<1>6. \A i \in 1 .. n - 1 : r[i] = (m + 1) + i
  <2> SUFFICES ASSUME NEW i \in 1 .. n - 1 PROVE r[i] = (m + 1) + i
    OBVIOUS
  <2>1. i + 1 \in 1 .. n /\ r[i] = s[i + 1]
    BY <1>3
  <2>2. s[i + 1] = m + (i + 1)
    BY <2>1, <1>3
  <2> QED
    BY <2>1, <2>2, <1>3
<1>7. (m + 1) + (n - 1) = m + n
  BY <1>3
<1>8. /\ \A i \in 1 .. Len(h) : h[i] = i
      /\ \A i \in 1 .. Len(r) : r[i] = Len(h) + i
      /\ Len(h) + Len(r) = m + n
  BY <1>3, <1>5, <1>6, <1>7
<1> QED
  BY <1>8 DEF h, r, m, n

\* handle_posted_message: with the mutex free the sender is not posting.
LEMMA ReceiveGood ==
    ASSUME IInv, NEW t \in Threads, Receive(t)
    PROVE  IInv'
<1> DEFINE p == Other(t)
<1>0. /\ Types /\ Life /\ Counted /\ Posting /\ Ordered
      /\ pc[t] = "receive" /\ mutex[t] = Nobody
      /\ UNCHANGED <<object, port, refs, failed, mutex, sent>>
  BY DEF IInv, Receive, owners
<1>1. /\ p \in Threads /\ p # t /\ Other(p) = t
      /\ \A u \in Threads : u = t \/ u = p
      /\ Main \in Threads /\ Worker \in Threads /\ p # Nobody
  BY OtherThread
<1>2. CASE msg_queue[t] = <<>>
  BY <1>0, <1>2, QuietGood DEF Receive, Goto, Runs, pipes
<1>3. CASE msg_queue[t] # <<>>
  <2>1. /\ msg_queue' = [msg_queue EXCEPT ![t] = Tail(msg_queue[t])]
        /\ bytes' = [bytes EXCEPT ![t] = IF Len(msg_queue[t]) = 1 THEN 0 ELSE bytes[t]]
        /\ got' = [got EXCEPT ![t] = Append(got[t], Head(msg_queue[t]))]
        /\ pc' = [pc EXCEPT ![t] = "script"]
    BY <1>3 DEF Receive, Goto
  <2>2. msg_queue[t] \in Seq(Nat) /\ got[t] \in Seq(Nat) /\ bytes[t] \in 0 .. 1
    BY <1>0 DEF Types
  <2>3. /\ Tail(msg_queue[t]) \in Seq(Nat) /\ Append(got[t], Head(msg_queue[t])) \in Seq(Nat)
        /\ Tail(msg_queue[t]) = <<>> <=> Len(msg_queue[t]) = 1
    BY <2>2, <1>3, Removed, Appended
  <2>4. pc[p] # "post" /\ (bytes[t] = 1 <=> ~failed[t])
    BY <1>0, <1>1, <1>3 DEF Posting, p
  <2> HIDE DEF p
  <2>5. Types'
    <3>1. bytes' \in [Threads -> 0 .. 1]
      BY <1>0, <2>1, <2>2 DEF Types
    <3>2. msg_queue' \in [Threads -> Seq(Nat)] /\ got' \in [Threads -> Seq(Nat)]
      BY <1>0, <2>1, <2>3 DEF Types
    <3> QED
      BY <3>1, <3>2, <1>0, <2>1 DEF Types, Runs
  <2>6. \A u \in Threads : (pc'[u] = "none" <=> pc[u] = "none")
                              /\ (pc'[u] = "start" <=> pc[u] = "start")
                              /\ (pc'[u] = "freed" <=> pc[u] = "freed")
                              /\ (pc'[u] = "dead" <=> pc[u] = "dead")
    BY <1>0, <2>1 DEF Types
  <2>7. Life'
    BY <1>0, <1>1, <2>6 DEF Life
  <2>8. Counted'
    <3>1. One(pc[Worker] \notin {"none", "freed"}) = One(pc'[Worker] \notin {"none", "freed"})
      BY <1>1, <2>6 DEF One
    <3> QED
      BY <3>1, <1>0 DEF Counted
  <2>9. /\ pc'[t] = "script" /\ pc'[p] = pc[p]
        /\ msg_queue'[t] = Tail(msg_queue[t]) /\ msg_queue'[p] = msg_queue[p]
        /\ got'[t] = Append(got[t], Head(msg_queue[t])) /\ got'[p] = got[p]
        /\ bytes'[t] = (IF Len(msg_queue[t]) = 1 THEN 0 ELSE bytes[t]) /\ bytes'[p] = bytes[p]
    BY <1>0, <1>1, <2>1, <2>4 DEF Types
  <2>10. Posting'
    <3>1. mutex'[t] = Nobody /\ (bytes'[t] = 1 <=> msg_queue'[t] # <<>> /\ ~failed'[t])
      BY <1>0, <2>3, <2>4, <2>9
    <3>2. mutex'[p] = Nobody /\ (bytes'[p] = 1 <=> msg_queue'[p] # <<>> /\ ~failed'[p])
      BY <1>0, <2>9 DEF Posting, p
    <3> QED
      BY <3>1, <3>2, <1>1, <2>4, <2>9 DEF Posting, p
  <2>11. Ordered'
    <3>1. /\ \A i \in 1 .. Len(got[t]) : got[t][i] = i
          /\ \A i \in 1 .. Len(msg_queue[t]) : msg_queue[t][i] = Len(got[t]) + i
          /\ refs[t] > 0 \/ pc[Worker] = "none" => Len(got[t]) + Len(msg_queue[t]) = sent[t]
      BY <1>0 DEF Ordered
    <3> DEFINE h == Append(got[t], Head(msg_queue[t]))
    <3> DEFINE r == Tail(msg_queue[t])
    <3>2. /\ \A i \in 1 .. Len(h) : h[i] = i
          /\ \A i \in 1 .. Len(r) : r[i] = Len(h) + i
          /\ Len(h) + Len(r) = Len(got[t]) + Len(msg_queue[t])
      BY <3>1, <2>2, <1>3, FirstNumber
    <3>3. got'[t] = h /\ msg_queue'[t] = r
      BY <2>9
    <3> HIDE DEF h, r
    <3>4. (pc'[Worker] = "none" <=> pc[Worker] = "none") /\ refs' = refs /\ sent' = sent
      BY <1>0, <1>1, <2>6
    <3>5. /\ \A i \in 1 .. Len(got'[t]) : got'[t][i] = i
          /\ \A i \in 1 .. Len(msg_queue'[t]) : msg_queue'[t][i] = Len(got'[t]) + i
          /\ refs'[t] > 0 \/ pc'[Worker] = "none" => Len(got'[t]) + Len(msg_queue'[t]) = sent'[t]
      BY <3>1, <3>2, <3>3, <3>4
    <3>6. /\ \A i \in 1 .. Len(got[p]) : got[p][i] = i
          /\ \A i \in 1 .. Len(msg_queue[p]) : msg_queue[p][i] = Len(got[p]) + i
          /\ refs[p] > 0 \/ pc[Worker] = "none" => Len(got[p]) + Len(msg_queue[p]) = sent[p]
      BY <1>0, <1>1 DEF Ordered
    <3>7. /\ \A i \in 1 .. Len(got'[p]) : got'[p][i] = i
          /\ \A i \in 1 .. Len(msg_queue'[p]) : msg_queue'[p][i] = Len(got'[p]) + i
          /\ refs'[p] > 0 \/ pc'[Worker] = "none" => Len(got'[p]) + Len(msg_queue'[p]) = sent'[p]
      BY <3>4, <3>6, <2>9
    <3> QED
      BY <3>5, <3>7, <1>1 DEF Ordered
  <2> QED
    BY <2>5, <2>7, <2>8, <2>10, <2>11 DEF IInv
<1> QED
  BY <1>2, <1>3

-----------------------------------------------------------------------------
(* References.                                                             *)

\* An object is there only while the worker is, and keeps both pipes.
LEMMA ObjectKeeps ==
    ASSUME IInv, NEW t \in Threads, object[t]
    PROVE  /\ pc[Worker] # "none"
           /\ \A p \in Threads : refs[p] > 0
           /\ t = Main \/ t = Worker
<1>1. t = Main \/ t = Worker
  BY DEF Threads
<1>2. pc[Worker] # "none"
  BY <1>1 DEF IInv, Life
<1>3. \A p \in Threads : refs[p] > 0
  BY <1>1 DEF IInv, Counted, One
<1> QED
  BY <1>1, <1>2, <1>3

\* The handlers of a thread that does not end.
LEMMA SetOnMessageGood ==
    ASSUME IInv, NEW t \in Threads, SetOnMessage(t)
    PROVE  IInv'
<1>0. /\ Types /\ Life /\ Counted /\ Posting /\ Ordered
      /\ object[t] /\ ~port[t]
      /\ port' = [port EXCEPT ![t] = TRUE]
      /\ refs' = [p \in Threads |-> refs[p] + To(t)[p]]
      /\ UNCHANGED <<pc, object, msg_queue, bytes, failed, mutex, sent, got>>
  BY DEF IInv, SetOnMessage, Plus, loop, pipes
<1>1. \A p \in Threads : refs'[p] = refs[p] + (IF p = t THEN 1 ELSE 0)
  BY <1>0 DEF To
<1>2. refs' \in [Threads -> Nat]
  <2>1. \A p \in Threads : refs[p] \in Nat
    BY <1>0 DEF Types
  <2>2. \A p \in Threads : refs[p] + To(t)[p] \in Nat
    BY <2>1 DEF To
  <2>3. refs' = [p \in Threads |-> refs[p] + To(t)[p]]
    BY <1>0
  <2> QED
    BY <2>2, <2>3
<1>3. Types'
  BY <1>0, <1>2 DEF Types
<1>4. Life'
  BY <1>0 DEF Life, Types
<1>5. Counted'
  <2> SUFFICES ASSUME NEW p \in Threads
               PROVE  refs'[p] = One(object[Main]) + One(object[Worker]) + One(port'[p])
                                   + One(pc[Worker] \notin {"none", "freed"})
    BY <1>0 DEF Counted
  <2>1. refs[p] = One(object[Main]) + One(object[Worker]) + One(port[p])
                    + One(pc[Worker] \notin {"none", "freed"})
    BY <1>0 DEF Counted
  <2>2. One(port'[p]) = One(port[p]) + (IF p = t THEN 1 ELSE 0)
    BY <1>0 DEF Types, One
  <2>3. \A b : One(b) \in Nat
    BY DEF One
  <2> HIDE DEF One
  <2> QED
    BY <2>1, <2>2, <2>3, <1>1
<1>6. Posting'
  BY <1>0 DEF Posting
<1>7. \A p \in Threads : refs[p] > 0
  BY <1>0, ObjectKeeps
<1>8. Ordered'
  BY <1>0, <1>7 DEF Ordered
<1> QED
  BY <1>3, <1>4, <1>5, <1>6, <1>8 DEF IInv

\* References that go, one for each handler, object or thread state that does.
LEMMA UnrefGood ==
    ASSUME IInv, NEW n \in [Threads -> Nat], Unref(n), UNCHANGED <<failed, mutex, sent, got>>,
           pc[Worker] # "none", pc'[Worker] # "none",
           pc' \in [Threads -> Runs \cup {"none", "start", "post", "freed", "dead"}],
           object' \in [Threads -> BOOLEAN], port' \in [Threads -> BOOLEAN],
           Life',
           \A p \in Threads : /\ n[p] <= refs[p]
                              /\ refs[p] - n[p] = One(object'[Main]) + One(object'[Worker]) + One(port'[p])
                                                    + One(pc'[Worker] \notin {"none", "freed"}),
           \A t \in Threads : pc'[t] = "post" <=> pc[t] = "post",
           \A t \in Threads : pc'[t] = "post" => object'[t]
    PROVE  IInv'
<1>1. \A p \in Threads : refs[p] \in Nat /\ n[p] \in Nat /\ refs'[p] = refs[p] - n[p] /\ refs'[p] \in Nat
  BY DEF IInv, Types, Unref
<1>2. refs' \in [Threads -> Nat]
  <2>1. refs' = [p \in Threads |-> refs[p] - n[p]]
    BY DEF Unref
  <2> QED
    BY <2>1, <1>1
<1>3. Counted'
  BY <1>1 DEF Counted
<1>4. \A t \in Threads : pc'[t] = "post" => object'[t] /\ refs'[Other(t)] > 0
  <2> SUFFICES ASSUME NEW t \in Threads, pc'[t] = "post" PROVE object'[t] /\ refs'[Other(t)] > 0
    OBVIOUS
  <2>1. Other(t) \in Threads /\ object'[t] /\ (t = Main \/ t = Worker)
    BY OtherThread DEF Threads
  <2> QED
    BY <2>1, <1>3 DEF Counted, One
<1>5. /\ bytes' \in [Threads -> 0 .. 1]
      /\ msg_queue' \in [Threads -> Seq(Nat)]
      /\ Posting' /\ Ordered'
  BY <1>2, <1>4, UnrefPipes
<1>6. Types'
  BY <1>2, <1>5 DEF IInv, Types
<1> QED
  BY <1>3, <1>5, <1>6 DEF IInv

\* A handler is cleared; the object keeps the pipe.
LEMMA ClearOnMessageGood ==
    ASSUME IInv, NEW t \in Threads, ClearOnMessage(t)
    PROVE  IInv'
<1> DEFINE n == To(t)
<1>0. /\ Types /\ Life /\ Counted /\ Posting
      /\ object[t] /\ port[t]
      /\ port' = [port EXCEPT ![t] = FALSE]
      /\ Unref(n)
      /\ UNCHANGED <<pc, object, failed, mutex, sent, got>>
  BY DEF IInv, ClearOnMessage, loop
<1>1. n \in [Threads -> Nat] /\ \A p \in Threads : n[p] = IF p = t THEN 1 ELSE 0
  BY DEF To
<1> HIDE DEF n
<1>2. pc[Worker] # "none" /\ \A p \in Threads : refs[p] > 0 /\ refs[p] \in Nat
  BY <1>0, ObjectKeeps DEF Types
<1>3. /\ pc' \in [Threads -> Runs \cup {"none", "start", "post", "freed", "dead"}]
      /\ object' \in [Threads -> BOOLEAN] /\ port' \in [Threads -> BOOLEAN]
  BY <1>0 DEF Types
<1>4. Life'
  BY <1>0 DEF Life, Types
<1>5. \A p \in Threads : /\ n[p] <= refs[p]
                         /\ refs[p] - n[p] = One(object'[Main]) + One(object'[Worker]) + One(port'[p])
                                               + One(pc'[Worker] \notin {"none", "freed"})
  <2> SUFFICES ASSUME NEW p \in Threads
               PROVE  /\ n[p] <= refs[p]
                      /\ refs[p] - n[p] = One(object[Main]) + One(object[Worker]) + One(port'[p])
                                            + One(pc[Worker] \notin {"none", "freed"})
    BY <1>0
  <2>1. refs[p] = One(object[Main]) + One(object[Worker]) + One(port[p])
                    + One(pc[Worker] \notin {"none", "freed"})
    BY <1>0 DEF Counted
  <2>2. One(port[p]) = One(port'[p]) + n[p] /\ n[p] \in 0 .. 1
    BY <1>0, <1>1 DEF Types, One
  <2>3. \A b : One(b) \in Nat
    BY DEF One
  <2> QED
    BY <2>1, <2>2, <2>3, <1>2
<1>6. \A u \in Threads : (pc'[u] = "post" <=> pc[u] = "post") /\ (pc'[u] = "post" => object'[u])
  BY <1>0 DEF Posting
<1> QED
  BY <1>0, <1>1, <1>2, <1>3, <1>4, <1>5, <1>6, UnrefGood

\* js_worker_finalizer, of a thread that does not post; the main thread may
\* die in it.
LEMMA FinalizeGood ==
    ASSUME IInv, NEW t \in Threads, Finalize(t), pc[t] # "post",
           pc' = pc \/ (t = Main /\ pc' = [pc EXCEPT ![t] = "dead"]),
           UNCHANGED <<failed, mutex, sent, got>>
    PROVE  IInv'
<1> DEFINE n == IF port[t] THEN Plus(Both, To(t)) ELSE Both
<1>0. /\ Types /\ Life /\ Counted /\ Posting
      /\ object[t]
      /\ object' = [object EXCEPT ![t] = FALSE]
      /\ port' = [port EXCEPT ![t] = FALSE]
      /\ Unref(n)
  BY DEF IInv, Finalize
<1>1. /\ n \in [Threads -> Nat]
      /\ \A p \in Threads : n[p] = IF p = t /\ port[t] THEN 2 ELSE 1
  BY DEF To, Plus, Both
<1> HIDE DEF n
<1>2. pc[Worker] # "none" /\ (t = Main \/ t = Worker) /\ \A p \in Threads : refs[p] > 0 /\ refs[p] \in Nat
  BY <1>0, ObjectKeeps DEF Types
<1>3. /\ pc' \in [Threads -> Runs \cup {"none", "start", "post", "freed", "dead"}]
      /\ object' \in [Threads -> BOOLEAN] /\ port' \in [Threads -> BOOLEAN]
  BY <1>0 DEF Types
<1>7. pc'[Worker] = pc[Worker] /\ pc'[Main] \in {pc[Main], "dead"}
  BY <1>0, OtherThread DEF Types
<1>4. Life'
  BY <1>0, <1>7, OtherThread DEF Life, Types
<1>5. \A p \in Threads : /\ n[p] <= refs[p]
                         /\ refs[p] - n[p] = One(object'[Main]) + One(object'[Worker]) + One(port'[p])
                                               + One(pc'[Worker] \notin {"none", "freed"})
  <2> SUFFICES ASSUME NEW p \in Threads
               PROVE  /\ n[p] <= refs[p]
                      /\ refs[p] - n[p] = One(object'[Main]) + One(object'[Worker]) + One(port'[p])
                                            + One(pc[Worker] \notin {"none", "freed"})
    BY <1>7
  <2>1. refs[p] = One(object[Main]) + One(object[Worker]) + One(port[p])
                    + One(pc[Worker] \notin {"none", "freed"})
    BY <1>0 DEF Counted
  <2>2. One(port[p]) = One(port'[p]) + (n[p] - 1) /\ n[p] - 1 \in 0 .. 1 /\ n[p] \in Nat
    BY <1>0, <1>1 DEF Types, One
  <2>3. One(object[Main]) + One(object[Worker]) = One(object'[Main]) + One(object'[Worker]) + 1
    <3>1. Main \in Threads /\ Worker \in Threads /\ Main # Worker
      BY OtherThread
    <3>2. \A u \in Threads : One(object'[u]) = IF u = t THEN 0 ELSE One(object[u])
      BY <1>0 DEF Types, One
    <3>3. One(object[t]) = 1 /\ \A b : One(b) \in Nat
      BY <1>0 DEF One
    <3> QED
      BY <1>2, <3>1, <3>2, <3>3
  <2>4. \A b : One(b) \in Nat
    BY DEF One
  <2> QED
    BY <2>1, <2>2, <2>3, <2>4, <1>2
<1>6. \A u \in Threads : (pc'[u] = "post" <=> pc[u] = "post") /\ (pc'[u] = "post" => object'[u])
  BY <1>0 DEF Posting, Types
<1> QED
  BY <1>0, <1>1, <1>2, <1>3, <1>4, <1>5, <1>6, <1>7, UnrefGood

\* js_std_free_handlers: a worker gives back the references of its thread state.
LEMMA FreeHandlersGood ==
    ASSUME IInv, NEW t \in Threads, FreeHandlers(t)
    PROVE  IInv'
<1>0. /\ Types /\ Life /\ Counted /\ Posting
      /\ pc[t] = "end" /\ pc' = [pc EXCEPT ![t] = "freed"]
      /\ UNCHANGED <<object, port, failed, mutex, sent, got>>
      /\ Main # Worker
  BY Bounds DEF IInv, FreeHandlers, Goto
<1>1. CASE t # Worker
  <2>1. /\ refs' = [p \in Threads |-> refs[p] - Nothing[p]]
        /\ msg_queue' = [p \in Threads |-> IF refs[p] > 0 /\ refs'[p] = 0 THEN <<>> ELSE msg_queue[p]]
        /\ bytes' = [p \in Threads |-> IF refs[p] > 0 /\ refs'[p] = 0 THEN 0 ELSE bytes[p]]
    BY <1>1 DEF FreeHandlers, Unref
  <2>2. \A p \in Threads : refs[p] \in Nat /\ Nothing[p] = 0
    BY <1>0 DEF Types, Nothing
  <2>3. \A p \in Threads : refs'[p] = refs[p]
    BY <2>1, <2>2
  <2>4. \A p \in Threads : msg_queue'[p] = msg_queue[p] /\ bytes'[p] = bytes[p]
    BY <2>1, <2>3
  <2>5. refs' = refs
    BY <2>1, <2>3, <1>0 DEF Types
  <2>6. msg_queue' = msg_queue /\ bytes' = bytes
    BY <2>1, <2>4, <1>0 DEF Types
  <2> QED
    BY <2>5, <2>6, <1>0, <1>1, QuietGood DEF Runs, pipes
<1>2. CASE t = Worker
  <2> DEFINE n == Both
  <2>1. /\ Unref(n) /\ n \in [Threads -> Nat] /\ \A p \in Threads : n[p] = 1
    BY <1>2 DEF FreeHandlers, Both
  <2> HIDE DEF n
  <2>2. /\ pc[Worker] = "end" /\ pc'[Worker] = "freed" /\ pc'[Main] = pc[Main]
    BY <1>0, <1>2 DEF Types
  <2>3. /\ pc' \in [Threads -> Runs \cup {"none", "start", "post", "freed", "dead"}]
        /\ object' \in [Threads -> BOOLEAN] /\ port' \in [Threads -> BOOLEAN]
    BY <1>0 DEF Types
  <2>4. Life'
    BY <1>0, <2>2 DEF Life
  <2>5. \A p \in Threads : /\ n[p] <= refs[p]
                           /\ refs[p] - n[p] = One(object'[Main]) + One(object'[Worker]) + One(port'[p])
                                                 + One(pc'[Worker] \notin {"none", "freed"})
    <3> SUFFICES ASSUME NEW p \in Threads
                 PROVE  /\ 1 <= refs[p]
                        /\ refs[p] - 1 = One(object[Main]) + One(object[Worker]) + One(port[p])
                                           + One(pc'[Worker] \notin {"none", "freed"})
      BY <1>0, <2>1
    <3>1. refs[p] = One(object[Main]) + One(object[Worker]) + One(port[p])
                      + One(pc[Worker] \notin {"none", "freed"})
      BY <1>0 DEF Counted
    <3>2. /\ One(pc[Worker] \notin {"none", "freed"}) = 1
          /\ One(pc'[Worker] \notin {"none", "freed"}) = 0
      BY <2>2 DEF One
    <3>3. \A b : One(b) \in Nat
      BY DEF One
    <3> QED
      BY <3>1, <3>2, <3>3
  <2>6. \A u \in Threads : (pc'[u] = "post" <=> pc[u] = "post") /\ (pc'[u] = "post" => object'[u])
    BY <1>0 DEF Posting, Types
  <2> QED
    BY <1>0, <2>1, <2>2, <2>3, <2>4, <2>5, <2>6, UnrefGood
<1> QED
  BY <1>1, <1>2

-----------------------------------------------------------------------------

\* The loop and the calls that leave the pipes alone.
LEMMA LoopGood ==
    ASSUME IInv, NEW t \in Threads,
           Return(t) \/ RunJob(t) \/ Poll(t) \/ Select(t) \/ Signal(t)
    PROVE  IInv'
<1>1. UNCHANGED <<object, port, refs, pipes>>
  BY DEF Return, RunJob, Poll, Select, Signal, owners
<1>2. CASE UNCHANGED pc
  BY <1>1, <1>2, AsideGood
<1>3. CASE pc[t] \in Runs /\ \E l \in Runs : pc' = [pc EXCEPT ![t] = l]
  <2> PICK l \in Runs : pc' = [pc EXCEPT ![t] = l]
    BY <1>3
  <2>1. t = Worker => l # "freed"
    BY DEF Runs
  <2> QED
    BY <2>1, <1>1, <1>3, QuietGood
<1> QED
  BY <1>2, <1>3 DEF Return, RunJob, Poll, Select, Signal, Goto, Runs

\* Timers, read handlers, jobs and input do not touch the pipes.
LEMMA CallGood ==
    ASSUME IInv, NEW t \in Threads,
           SetTimer(t) \/ SetReader(t) \/ Enqueue(t) \/ Expire(t) \/ Input(t)
    PROVE  IInv'
<1>1. UNCHANGED <<pc, object, port, refs, pipes>>
  BY DEF SetTimer, SetReader, Enqueue, Expire, Input, owners, loop
<1> QED
  BY <1>1, AsideGood

\* Every step of either thread, and of the world, keeps the invariant.
LEMMA NextGood == IInv /\ Ports /\ [Next]_vars => IInv'
<1> SUFFICES ASSUME IInv, Ports, [Next]_vars PROVE IInv'
  OBVIOUS
<1>1. CASE UNCHANGED vars
  BY <1>1, AsideGood DEF vars, pipes
<1>2. CASE NewWorker
  BY <1>2, NewWorkerGood
<1>3. ASSUME NEW t \in Threads, ScriptCall(t) PROVE IInv'
  <2>1. CASE BeginPost(t)
    BY <2>1, BeginPostGood
  <2>2. CASE SetOnMessage(t)
    BY <2>2, SetOnMessageGood
  <2>3. CASE ClearOnMessage(t)
    BY <2>3, ClearOnMessageGood
  <2>4. CASE DropObject(t)
    BY <2>4, FinalizeGood DEF DropObject, Call, loop
  <2>5. CASE SetTimer(t) \/ SetReader(t) \/ Enqueue(t)
    BY <2>5, CallGood
  <2> QED
    BY <1>3, <2>1, <2>2, <2>3, <2>4, <2>5 DEF ScriptCall
<1>4. ASSUME NEW t \in Threads, Loop(t) PROVE IInv'
  <2>1. CASE EndPost(t)
    BY <2>1, EndPostGood
  <2>2. CASE Return(t) \/ RunJob(t) \/ Poll(t) \/ Select(t)
    BY <2>2, LoopGood
  <2>3. CASE Receive(t)
    BY <2>3, ReceiveGood
  <2>4. CASE FreeObjects(t)
    <3>1. pc' = pc \/ (t = Main /\ pc' = [pc EXCEPT ![t] = "dead"])
      BY <2>4, OtherThread DEF FreeObjects, Goto, Ports, IInv, Life, Threads
    <3> QED
      BY <2>4, <3>1, FinalizeGood DEF FreeObjects
  <2>5. CASE FreeHandlers(t)
    BY <2>5, FreeHandlersGood
  <2>6. CASE StartWorker
    BY <2>6, StartWorkerGood
  <2> QED
    BY <1>4, <2>1, <2>2, <2>3, <2>4, <2>5, <2>6 DEF Loop
<1>5. ASSUME NEW t \in Threads, Expire(t) \/ Input(t) \/ Signal(t) PROVE IInv'
  BY <1>5, CallGood, LoopGood
<1> QED
  BY <1>1, <1>2, <1>3, <1>4, <1>5 DEF Next

-----------------------------------------------------------------------------
(* Who has a reference to a pipe.                                          *)

Counters ==
    /\ calls \in 0 .. MaxCalls
    /\ jobs \in [Threads -> Nat]
    /\ \A t \in Threads : jobs[t] <= calls
    /\ timer \in [Threads -> {"none", "armed", "expired"}]

\* Jobs and timers, step by step.
LEMMA CountersGood ==
    ASSUME Counters, [Next]_vars
    PROVE  Counters'
<1>0. MaxCalls \in Nat
  BY Bounds
<1>1. \A t \in Threads : jobs[t] \in Nat /\ jobs[t] <= calls
  BY DEF Counters
<1>2. CASE UNCHANGED <<calls, jobs>> \/ (calls < MaxCalls /\ calls' = calls + 1 /\ UNCHANGED jobs)
  <2>1. calls' \in 0 .. MaxCalls /\ \A t \in Threads : jobs'[t] <= calls'
    BY <1>0, <1>1, <1>2 DEF Counters
  <2>2. jobs' \in [Threads -> Nat]
    BY <1>2 DEF Counters
  <2>3. timer' \in [Threads -> {"none", "armed", "expired"}]
    BY DEF Counters, Next, vars, loop, NewWorker, ScriptCall, Loop, BeginPost, SetOnMessage, ClearOnMessage,
           DropObject, SetTimer, SetReader, Enqueue, EndPost, Return, RunJob, Poll, Select, Receive,
           FreeObjects, FreeHandlers, StartWorker, Expire, Input, Signal
  <2> QED
    BY <2>1, <2>2, <2>3 DEF Counters
<1>3. CASE \E t \in Threads : Enqueue(t)
  <2> PICK t \in Threads : Enqueue(t)
    BY <1>3
  <2>1. calls < MaxCalls /\ calls' = calls + 1 /\ jobs' = [jobs EXCEPT ![t] = jobs[t] + 1] /\ timer' = timer
    BY DEF Enqueue, Call
  <2>2. \A u \in Threads : jobs'[u] \in Nat /\ jobs'[u] <= calls + 1
    BY <1>0, <1>1, <2>1 DEF Counters
  <2>3. jobs' \in [Threads -> Nat]
    BY <2>1, <2>2 DEF Counters
  <2> QED
    BY <1>0, <2>1, <2>2, <2>3 DEF Counters
<1>4. CASE \E t \in Threads : RunJob(t) /\ jobs[t] # 0
  <2> PICK t \in Threads : RunJob(t) /\ jobs[t] # 0
    BY <1>4
  <2>1. calls' = calls /\ jobs' = [jobs EXCEPT ![t] = jobs[t] - 1] /\ timer' = timer
    BY DEF RunJob
  <2>2. \A u \in Threads : jobs'[u] \in Nat /\ jobs'[u] <= calls
    BY <1>0, <1>1, <2>1 DEF Counters
  <2>3. jobs' \in [Threads -> Nat]
    BY <2>1, <2>2 DEF Counters
  <2> QED
    BY <1>0, <2>1, <2>2, <2>3 DEF Counters
<1> QED
  BY <1>2, <1>3, <1>4
     DEF Next, vars, loop, NewWorker, ScriptCall, Loop, Call, BeginPost, SetOnMessage, ClearOnMessage,
         DropObject, SetTimer, SetReader, EndPost, Return, RunJob, Poll, Select, Receive,
         FreeObjects, FreeHandlers, StartWorker, Expire, Input, Signal

\* Thread states and handlers, step by step.
LEMMA PortsGood ==
    ASSUME IInv, Ports, [Next]_vars
    PROVE  Ports'
<1>0. /\ Types /\ Life /\ Main \in Threads /\ Worker \in Threads /\ Main # Worker
      /\ \A t \in Threads : t = Main \/ t = Worker
  BY OtherThread DEF IInv, Threads
<1>1. CASE UNCHANGED vars
  BY <1>1 DEF Ports, vars
<1>2. CASE NewWorker
  BY <1>0, <1>2 DEF NewWorker, Goto, Ports, Types
<1>3. ASSUME NEW t \in Threads, ScriptCall(t) \/ Expire(t) \/ Input(t) PROVE Ports'
  <2>1. /\ alive' = alive /\ caller' = caller
        /\ pc' = pc \/ (pc[t] = "script" /\ pc' = [pc EXCEPT ![t] = "post"])
        /\ \/ port' = port
           \/ pc[t] = "script" /\ pc' = pc /\ \E b \in BOOLEAN : port' = [port EXCEPT ![t] = b]
    BY <1>3 DEF ScriptCall, Call, Goto, BeginPost, SetOnMessage, ClearOnMessage, DropObject, Finalize,
                SetTimer, SetReader, Enqueue, Expire, Input, owners, loop
  <2>2. CASE pc' = pc /\ port' = port
    BY <2>1, <2>2 DEF Ports
  <2>3. CASE pc[t] = "script" /\ pc' = [pc EXCEPT ![t] = "post"] /\ port' = port
    BY <1>0, <2>1, <2>3 DEF Ports, Types
  <2>4. CASE pc[t] = "script" /\ pc' = pc /\ \E b \in BOOLEAN : port' = [port EXCEPT ![t] = b]
    <3>1. \A v \in Threads : v # t => port'[v] = port[v]
      BY <2>4, <1>0 DEF Types
    <3> QED
      BY <2>1, <2>4, <3>1 DEF Ports
  <2> QED
    BY <2>1, <2>2, <2>3, <2>4
<1>4. ASSUME NEW t \in Threads, EndPost(t) \/ Return(t) \/ RunJob(t) \/ Select(t) \/ Receive(t) \/ Signal(t)
      PROVE  Ports'
  <2>1. /\ alive' = alive /\ port' = port
        /\ \/ pc' = pc /\ caller' = caller
           \/ /\ pc[t] \in {"script", "post", "jobs", "select", "receive"}
              /\ \E l \in {"script", "jobs", "poll", "receive"} : pc' = [pc EXCEPT ![t] = l]
              /\ caller' = caller \/ \E c \in {"job", "event"} : caller' = [caller EXCEPT ![t] = c]
           \/ /\ pc[t] = "script" /\ t = Main /\ caller[t] = "start"
              /\ pc' = [pc EXCEPT ![t] = "end"] /\ caller' = caller
    BY <1>4 DEF EndPost, Return, RunJob, Select, Receive, Signal, Goto, owners
  <2>2. CASE pc' = pc /\ caller' = caller
    BY <1>0, <2>1, <2>2 DEF Ports, Types
  <2>3. CASE /\ pc[t] \in {"script", "post", "jobs", "select", "receive"}
             /\ \E l \in {"script", "jobs", "poll", "receive"} : pc' = [pc EXCEPT ![t] = l]
             /\ caller' = caller \/ \E c \in {"job", "event"} : caller' = [caller EXCEPT ![t] = c]
    <3>1. caller' \in [Threads -> {"start", "job", "event"}]
      BY <2>3 DEF Ports
    <3>2. \A u \in Threads : u # t => caller'[u] = caller[u] /\ pc'[u] = pc[u]
      BY <1>0, <2>3 DEF Ports, Types
    <3>3. pc'[t] \in {"script", "jobs", "poll", "receive"}
      BY <1>0, <2>3 DEF Types
    <3> QED
      BY <1>0, <2>1, <2>3, <3>1, <3>2, <3>3 DEF Ports
  <2>4. CASE /\ pc[t] = "script" /\ t = Main /\ caller[t] = "start"
             /\ pc' = [pc EXCEPT ![t] = "end"] /\ caller' = caller
    BY <1>0, <2>1, <2>4 DEF Ports, Types
  <2> QED
    BY <2>1, <2>2, <2>3, <2>4
<1>5. ASSUME NEW t \in Threads, Poll(t) PROVE Ports'
  <2>1. /\ alive' = alive /\ port' = port /\ caller' = caller
        /\ pc[t] = "poll"
        /\ \/ pc' = [pc EXCEPT ![t] = "script"] \/ pc' = [pc EXCEPT ![t] = "select"]
           \/ pc' = [pc EXCEPT ![t] = "end"] /\ ~port[t]
    BY <1>5 DEF Poll, Goto, owners, NoEvents
  <2> QED
    BY <1>0, <2>1 DEF Ports, Types
<1>6. ASSUME NEW t \in Threads, FreeObjects(t) PROVE Ports'
  <2>1. /\ alive' = alive /\ caller' = caller /\ port' = [port EXCEPT ![t] = FALSE]
        /\ pc[t] \in {"end", "freed"}
        /\ pc' = pc \/ (port[t] /\ ~alive[t] /\ pc' = [pc EXCEPT ![t] = "dead"])
    BY <1>6 DEF FreeObjects, Finalize, Goto
  <2> QED
    BY <1>0, <2>1 DEF Ports, Types
<1>7. ASSUME NEW t \in Threads, FreeHandlers(t) PROVE Ports'
  <2>1. /\ pc[t] = "end" /\ alive' = [alive EXCEPT ![t] = FALSE] /\ port' = port
        /\ caller' = caller
        /\ pc' = [pc EXCEPT ![t] = "freed"]
    BY <1>7 DEF FreeHandlers, Goto
  <2> QED
    BY <1>0, <2>1 DEF Ports, Types
<1>8. CASE StartWorker
  <2>1. /\ pc[Worker] = "start" /\ alive' = [alive EXCEPT ![Worker] = TRUE] /\ port' = port
        /\ caller' = caller
        /\ pc' = [pc EXCEPT ![Worker] = "script"]
    BY <1>8 DEF StartWorker, Goto
  <2> QED
    BY <1>0, <2>1 DEF Ports, Types
<1> QED
  BY <1>1, <1>2, <1>3, <1>4, <1>5, <1>6, <1>7, <1>8 DEF Next, Loop

\* The byte stays for who has seen it, until that thread takes the message.
LEMMA ReceivingGood ==
    ASSUME IInv, IInv', Receiving, [Next]_vars
    PROVE  Receiving'
<1> SUFFICES ASSUME NEW t \in Threads, pc'[t] = "receive"
             PROVE  port'[t] /\ bytes'[t] = 1
  BY DEF Receiving
<1>0. /\ Types /\ Posting /\ Types' /\ Counted'
      /\ \A u \in Threads : Other(u) \in Threads /\ Other(u) # u /\ Other(Other(u)) = u
      /\ Worker \in Threads
      /\ pc[t] = "receive" => port[t] /\ bytes[t] = 1
  BY OtherThread DEF IInv, Receiving
<1>1. ASSUME UNCHANGED <<port, bytes>>, pc[t] = "receive"
      PROVE  port'[t] /\ bytes'[t] = 1
  BY <1>0, <1>1
<1>2. CASE UNCHANGED vars
  BY <1>1, <1>2 DEF vars
<1>3. ASSUME NewWorker \/ StartWorker
      PROVE  UNCHANGED <<port, bytes>> /\ pc[t] = "receive"
  <2>1. UNCHANGED <<port, bytes>>
    BY <1>3 DEF NewWorker, StartWorker, pipes
  <2>2. \E l \in {"start", "script"} : pc' = [pc EXCEPT ![Worker] = l]
    BY <1>3 DEF NewWorker, StartWorker, Goto
  <2> QED
    BY <1>0, <2>1, <2>2 DEF Types
<1>4. ASSUME NEW u \in Threads,
             SetTimer(u) \/ SetReader(u) \/ Enqueue(u) \/ Expire(u) \/ Input(u) \/ Signal(u)
      PROVE  UNCHANGED <<port, bytes>> /\ pc[t] = "receive"
  <2>1. UNCHANGED <<port, bytes>>
    BY <1>4 DEF SetTimer, SetReader, Enqueue, Expire, Input, Signal, owners, pipes, loop
  <2>2. pc' = pc \/ pc' = [pc EXCEPT ![u] = "jobs"]
    BY <1>4 DEF SetTimer, SetReader, Enqueue, Expire, Input, Signal, Goto, loop
  <2> QED
    BY <1>0, <2>1, <2>2 DEF Types
<1>5. ASSUME NEW u \in Threads, EndPost(u) \/ Return(u) \/ RunJob(u) \/ Poll(u)
      PROVE  UNCHANGED <<port, bytes>> /\ pc[t] = "receive"
  <2>1. UNCHANGED <<port, bytes>>
    BY <1>5 DEF EndPost, Return, RunJob, Poll, owners, pipes
  <2>2. \E l \in {"script", "jobs", "poll", "select", "end"} : pc' = [pc EXCEPT ![u] = l]
    BY <1>5 DEF EndPost, Return, RunJob, Poll, Goto
  <2> QED
    BY <1>0, <2>1, <2>2 DEF Types
<1>6. ASSUME NEW u \in Threads, Select(u)
      PROVE  port'[t] /\ bytes'[t] = 1
  <2>1. UNCHANGED <<port, bytes>> /\ pc[u] = "select"
    BY <1>6 DEF Select, owners, pipes
  <2>2. CASE pc' = [pc EXCEPT ![u] = "receive"] /\ port[u] /\ bytes[u] > 0
    <3>1. u = t \/ pc[t] = "receive"
      BY <1>0, <2>2 DEF Types
    <3> QED
      BY <1>0, <1>1, <2>1, <2>2, <3>1 DEF Types
  <2>3. CASE \E l \in {"script", "jobs"} : pc' = [pc EXCEPT ![u] = l]
    BY <1>0, <1>1, <2>1, <2>3 DEF Types
  <2> QED
    BY <1>6, <2>2, <2>3 DEF Select, Goto
<1>7. ASSUME NEW u \in Threads, Receive(u)
      PROVE  port'[t] /\ bytes'[t] = 1
  <2>1. pc[t] = "receive" /\ u # t /\ port' = port
    BY <1>0, <1>7 DEF Receive, Goto, owners, Types
  <2>2. bytes'[t] = bytes[t]
    BY <1>0, <1>7, <2>1 DEF Receive, Types
  <2> QED
    BY <1>0, <2>1, <2>2
<1>8. ASSUME NEW u \in Threads, BeginPost(u)
      PROVE  port'[t] /\ bytes'[t] = 1
  <2>1. pc[t] = "receive" /\ port' = port /\ mutex[Other(u)] = Nobody
    BY <1>0, <1>8 DEF BeginPost, Goto, owners, Types
  <2>2. CASE t = Other(u) /\ NeedsByte(t)
    <3>1. pc[u] # "post"
      BY <1>8 DEF BeginPost, Call
    <3>2. bytes[t] # 1
      BY <1>0, <2>2, <3>1 DEF Posting, NeedsByte
    <3> QED
      BY <1>0, <2>1, <3>2
  <2>3. CASE ~(t = Other(u) /\ NeedsByte(t))
    <3>1. ASSUME ~NeedsByte(Other(u)) PROVE bytes'[t] = bytes[t]
      BY <1>8, <3>1 DEF BeginPost
    <3>2. ASSUME NeedsByte(Other(u)) PROVE bytes'[t] = bytes[t]
      <4>1. t # Other(u)
        BY <2>3, <3>2
      <4>2. bytes' = bytes \/ bytes' = [bytes EXCEPT ![Other(u)] = bytes[Other(u)] + 1]
        BY <1>8, <3>2 DEF BeginPost, Write
      <4> QED
        BY <1>0, <4>1, <4>2 DEF Types
    <3>3. bytes'[t] = bytes[t]
      BY <3>1, <3>2
    <3> QED
      BY <1>0, <2>1, <3>3
  <2> QED
    BY <2>2, <2>3
<1>9. ASSUME pc[t] = "receive", port'[t],
             bytes' = [p \in Threads |-> IF refs[p] > 0 /\ refs'[p] = 0 THEN 0 ELSE bytes[p]]
      PROVE  port'[t] /\ bytes'[t] = 1
  <2>1. refs'[t] # 0
    BY <1>0, <1>9 DEF Counted, One
  <2> QED
    BY <1>0, <1>9, <2>1
<1>10. ASSUME NEW u \in Threads, SetOnMessage(u) \/ ClearOnMessage(u) \/ DropObject(u)
       PROVE  port'[t] /\ bytes'[t] = 1
  <2>1. /\ pc[t] = "receive" /\ u # t
        /\ \E b \in BOOLEAN : port' = [port EXCEPT ![u] = b]
    BY <1>10 DEF SetOnMessage, ClearOnMessage, DropObject, Finalize, Call, loop
  <2>2. port'[t]
    BY <1>0, <2>1 DEF Types
  <2>3. \/ bytes' = bytes
        \/ bytes' = [p \in Threads |-> IF refs[p] > 0 /\ refs'[p] = 0 THEN 0 ELSE bytes[p]]
    BY <1>10 DEF SetOnMessage, ClearOnMessage, DropObject, Finalize, Unref, pipes
  <2> QED
    BY <1>0, <1>9, <2>1, <2>2, <2>3
<1>11. ASSUME NEW u \in Threads, FreeObjects(u) \/ FreeHandlers(u)
       PROVE  port'[t] /\ bytes'[t] = 1
  <2>1. /\ pc[t] = "receive" /\ u # t
        /\ port' = port \/ port' = [port EXCEPT ![u] = FALSE]
    BY <1>0, <1>11 DEF FreeObjects, FreeHandlers, Finalize, Goto, Types
  <2>2. port'[t]
    BY <1>0, <2>1 DEF Types
  <2>3. bytes' = [p \in Threads |-> IF refs[p] > 0 /\ refs'[p] = 0 THEN 0 ELSE bytes[p]]
    BY <1>11 DEF FreeObjects, FreeHandlers, Finalize, Unref
  <2> QED
    BY <1>9, <2>1, <2>2, <2>3
<1> QED
  BY <1>1, <1>2, <1>3, <1>4, <1>5, <1>6, <1>7, <1>8, <1>10, <1>11 DEF Next, Loop, ScriptCall

-----------------------------------------------------------------------------
(* What holds in every reachable state.                                    *)

\* The invariant holds in every reachable state.
LEMMA InvGood == Spec => [](IInv /\ Ports /\ Receiving)
<1>1. Init => Ports /\ Receiving
  <2> SUFFICES ASSUME Init PROVE Ports /\ Receiving
    OBVIOUS
  <2>1. Main \in Threads /\ Worker \in Threads /\ Main # Worker
    BY Bounds DEF Threads
  <2>2. /\ pc[Main] = "script" /\ pc[Worker] = "none" /\ alive[Main] = TRUE /\ alive[Worker] = FALSE
        /\ alive \in [Threads -> BOOLEAN] /\ caller \in [Threads -> {"start", "job", "event"}]
        /\ \A t \in Threads : port[t] = FALSE /\ pc[t] # "receive"
    BY <2>1 DEF Init
  <2> QED
    BY <2>2 DEF Ports, Receiving
<1>2. IInv /\ Ports /\ Receiving /\ [Next]_vars => IInv' /\ Ports' /\ Receiving'
  BY NextGood, PortsGood, ReceivingGood
<1> QED
  BY InitGood, <1>1, <1>2, PTL DEF Spec

\* For any number of calls and events: with the mutex of a pipe free there is
\* a byte in it exactly when a message is queued and its write() did not fail,
\* so select() misses none of those; and who is about to call read() in
\* handle_posted_message finds a byte, and does not block with the mutex held.
THEOREM BytesAgree == Spec => []ByteForMessages
<1>1. IInv /\ Receiving => ByteForMessages
  <2> SUFFICES ASSUME IInv, Receiving, NEW p \in Threads
               PROVE  /\ mutex[p] = Nobody => (bytes[p] = 1 <=> msg_queue[p] # <<>> /\ ~failed[p])
                      /\ pc[p] = "receive" => bytes[p] = 1
    BY DEF ByteForMessages
  <2>1. Other(p) \in Threads /\ Other(Other(p)) = p /\ Other(p) # Nobody
    BY OtherThread
  <2> QED
    BY <2>1 DEF IInv, Posting, Receiving
<1> QED
  BY <1>1, InvGood, PTL

\* For any number of calls and events: messages are handled in the order of
\* postMessage, none twice, and none is lost while its pipe is there.
THEOREM MessagesInOrder == Spec => []DeliveredInOrder
<1>1. IInv => DeliveredInOrder
  <2> SUFFICES ASSUME IInv, NEW p \in Threads
               PROVE  /\ \A i \in DOMAIN got[p] : got[p][i] = i
                      /\ refs[p] > 0 => Len(got[p]) + Len(msg_queue[p]) = sent[p]
    BY DEF DeliveredInOrder
  <2>1. DOMAIN got[p] = 1 .. Len(got[p])
    BY LenProperties DEF IInv, Types
  <2> QED
    BY <2>1 DEF IInv, Ordered
<1> QED
  BY <1>1, InvGood, PTL

-----------------------------------------------------------------------------
(* Counting the users of a pipe.                                           *)

\* Counting a set of which one element is in or not.
LEMMA CountOne ==
    ASSUME NEW S, IsFiniteSet(S), NEW x, x \notin S, NEW b \in BOOLEAN
    PROVE  LET T == S \cup (IF b THEN {x} ELSE {})
           IN  IsFiniteSet(T) /\ Cardinality(T) = Cardinality(S) + One(b) /\ Cardinality(T) \in Nat
<1>1. CASE b
  <2>1. IsFiniteSet(S \cup {x}) /\ Cardinality(S \cup {x}) = Cardinality(S) + 1 /\ Cardinality(S) \in Nat
    BY FS_AddElement, FS_CardinalityType
  <2> QED
    BY <1>1, <2>1 DEF One
<1>2. CASE ~b
  <2>1. S \cup {} = S /\ Cardinality(S) \in Nat
    BY FS_CardinalityType
  <2> QED
    BY <1>2, <2>1 DEF One
<1> QED
  BY <1>1, <1>2

\* Holders() of PipesCounted counts what Counted adds up.
LEMMA HoldersCounted ==
    ASSUME IInv, Ports, NEW p \in Threads
    PROVE  refs[p] = Cardinality(Holders(p))
<1> DEFINE u(b, x) == IF b THEN {x} ELSE {}
           st == pc[Worker] = "start" \/ alive[Worker]
           S1 == {} \cup u(object[Main], <<Main, "object">>)
           S2 == S1 \cup u(object[Worker], <<Worker, "object">>)
           S3 == S2 \cup u(port[p], <<p, "port">>)
           S4 == S3 \cup u(st, <<Worker, "state">>)
<1>0. /\ object[Main] \in BOOLEAN /\ object[Worker] \in BOOLEAN /\ port[p] \in BOOLEAN
      /\ st \in BOOLEAN /\ Main # Worker /\ Threads = {Main, Worker}
  BY OtherThread DEF IInv, Types, Threads
<1>1. Holders(p) = S4
  BY <1>0 DEF Holders
<1>2. IsFiniteSet({}) /\ Cardinality({}) = 0
  BY FS_EmptySet
<1>3. IsFiniteSet(S1) /\ Cardinality(S1) = One(object[Main])
  <2>1. One(object[Main]) \in Nat
    BY DEF One
  <2>2. IsFiniteSet(S1) /\ Cardinality(S1) = Cardinality({}) + One(object[Main])
    BY <1>0, <1>2, CountOne
  <2> QED
    BY <2>1, <2>2, <1>2
<1>4. IsFiniteSet(S2) /\ Cardinality(S2) = Cardinality(S1) + One(object[Worker])
  <2>1. <<Worker, "object">> \notin S1
    BY <1>0
  <2> HIDE DEF S1
  <2> QED
    BY <2>1, <1>0, <1>3, CountOne
<1>5. IsFiniteSet(S3) /\ Cardinality(S3) = Cardinality(S2) + One(port[p])
  <2>1. <<p, "port">> \notin S2
    OBVIOUS
  <2> HIDE DEF S2
  <2> QED
    BY <2>1, <1>0, <1>4, CountOne
<1>6. IsFiniteSet(S4) /\ Cardinality(S4) = Cardinality(S3) + One(st)
  <2>1. <<Worker, "state">> \notin S3
    OBVIOUS
  <2> HIDE DEF S3, st
  <2> QED
    BY <2>1, <1>0, <1>5, CountOne
<1>7. One(st) = One(pc[Worker] \notin {"none", "freed"})
  BY DEF Ports, One
<1>8. refs[p] = One(object[Main]) + One(object[Worker]) + One(port[p])
                  + One(pc[Worker] \notin {"none", "freed"})
  BY DEF IInv, Counted
<1> HIDE DEF S1, S2, S3, S4, st
<1> QED
  BY <1>1, <1>3, <1>4, <1>5, <1>6, <1>7, <1>8

\* For any number of calls and events: the reference count of a pipe is the
\* number of its users, so that it is freed with the last of them and never
\* under a thread that posts; and js_std_free_handlers leaves a handler on a
\* freed port_list only when the main script threw before any loop.
THEOREM PipesFreedLast == Spec => []PipesCounted
<1>1. Init => Counters
  BY Bounds DEF Init, Counters
<1>2. Counters /\ [Next]_vars => Counters'
  BY CountersGood
<1>3. IInv /\ Counters /\ Ports => PipesCounted
  <2> SUFFICES ASSUME IInv, Counters, Ports PROVE PipesCounted
    OBVIOUS
  <2>1. TypeOK
    <3>1. jobs \in [Threads -> 0 .. MaxCalls]
      <4>1. \A t \in Threads : jobs[t] \in 0 .. MaxCalls
        BY Bounds DEF Counters
      <4> QED
        BY <4>1 DEF Counters
    <3> QED
      BY <3>1 DEF IInv, Counters, Types, Runs, TypeOK
  <2>2. \A t \in Threads : pc[t] = "post" => refs[Other(t)] > 0
    BY OtherThread, ObjectKeeps DEF IInv, Posting
  <2>3. \A t \in Threads : port[t] => object[t]
    BY DEF IInv, Life
  <2>4. \A t \in Threads : (port[t] /\ ~alive[t]) \/ pc[t] = "dead" => t = Main /\ caller[t] = "start"
    <3>1. pc[Worker] # "dead" /\ (pc[Worker] \in {"none", "start"} => ~port[Worker])
      <4>1. Worker \in Threads
        BY DEF Threads
      <4> QED
        BY <4>1, <2>3 DEF IInv, Life
    <3>2. \A t \in Threads : t = Main \/ t = Worker
      BY DEF Threads
    <3> QED
      BY <3>1, <3>2, OtherThread DEF Ports
  <2> QED
    BY <2>1, <2>2, <2>3, <2>4, HoldersCounted DEF PipesCounted
<1> QED
  BY <1>1, <1>2, <1>3, InvGood, PTL DEF Spec
=============================================================================
