------------------------------ MODULE EventLoop ------------------------------
(***************************************************************************)
(* The event loops of quickjs-libc.c: js_std_loop and js_os_poll in the     *)
(* main thread and in one worker, and the two message pipes between them.   *)
(*                                                                         *)
(* A message pipe is a queue under a mutex, and a file pipe that holds a    *)
(* byte while the queue is not empty, for select().  Pipes are shared: the  *)
(* thread state of the worker, the Worker objects of both threads and their *)
(* handlers count references to them.                                       *)
(***************************************************************************)
EXTENDS Integers, Sequences, FiniteSets

CONSTANTS
    Main, Worker,   \* the threads
    Nobody,         \* the owner of a free mutex
    MaxCalls,       \* bounds the calls of the scripts
    MaxEvents       \* bounds the input and the signals from outside

ASSUME Bounds == /\ Main # Worker
                 /\ Nobody \notin {Main, Worker}
                 /\ MaxCalls \in Nat /\ MaxEvents \in Nat

Threads == {Main, Worker}
Other(t) == IF t = Main THEN Worker ELSE Main

VARIABLES
    pc,         \* where a thread is
    caller,     \* who called the script: "start", "job", "event"
    jobs,       \* how many jobs are pending
    timer,      \* a timer of the thread: "none", "armed", "expired"
    reader,     \* a read handler is set
    ready,      \* there is input for it
    signal,     \* os_pending_signals, for a signal with a handler in Main
    object,     \* the thread's Worker object (in the worker: Worker.parent)
    port,       \* its msg_handler, which is on the thread's port_list
    alive,      \* the thread's JSThreadState
    msg_queue,  \* of the pipe to a thread
    bytes,      \* the bytes in it
    failed,     \* the write() for the messages in the queue failed
    mutex,      \* who holds its mutex
    refs,       \* its ref_count
    sent, got,  \* the messages posted to a thread, and handled by it
    calls, events

vars == <<pc, caller, jobs, timer, reader, ready, signal, object, port, alive,
          msg_queue, bytes, failed, mutex, refs, sent, got, calls, events>>
loop == <<pc, caller, jobs, timer, reader>>
pipes == <<msg_queue, bytes, failed, mutex, sent, got>>
owners == <<object, port, alive, refs>>

-----------------------------------------------------------------------------
Init == /\ pc = [t \in Threads |-> IF t = Main THEN "script" ELSE "none"]
        /\ caller = [t \in Threads |-> "start"]
        /\ jobs = [t \in Threads |-> 0]
        /\ timer = [t \in Threads |-> "none"]
        /\ reader = [t \in Threads |-> FALSE]
        /\ ready = [t \in Threads |-> FALSE]
        /\ signal = FALSE
        /\ object = [t \in Threads |-> FALSE]
        /\ port = [t \in Threads |-> FALSE]
        /\ alive = [t \in Threads |-> t = Main]
        /\ msg_queue = [t \in Threads |-> <<>>]
        /\ bytes = [t \in Threads |-> 0]
        /\ failed = [t \in Threads |-> FALSE]
        /\ mutex = [t \in Threads |-> Nobody]
        /\ refs = [t \in Threads |-> 0]
        /\ sent = [t \in Threads |-> 0]
        /\ got = [t \in Threads |-> <<>>]
        /\ calls = 0
        /\ events = 0

Goto(t, l) == pc' = [pc EXCEPT ![t] = l]

\* The references that go: to both pipes with an object, and to the pipe to
\* t with its handler.  The last one frees what is in the queue.
Unref(n) ==
    /\ refs' = [p \in Threads |-> refs[p] - n[p]]
    /\ msg_queue' = [p \in Threads |->
                        IF refs[p] > 0 /\ refs'[p] = 0 THEN <<>> ELSE msg_queue[p]]
    /\ bytes' = [p \in Threads |-> IF refs[p] > 0 /\ refs'[p] = 0 THEN 0 ELSE bytes[p]]

Both == [p \in Threads |-> 1]
To(t) == [p \in Threads |-> IF p = t THEN 1 ELSE 0]
Plus(f, g) == [p \in Threads |-> f[p] + g[p]]
Nothing == [p \in Threads |-> 0]

-----------------------------------------------------------------------------
(* What a script does.                                                      *)

Call(t) == /\ pc[t] = "script"
           /\ calls < MaxCalls
           /\ calls' = calls + 1

\* What comes from outside: input, a signal, an error of write().
Event == events < MaxEvents /\ events' = events + 1

\* js_worker_ctor: the pipes, the object and the thread are made.
NewWorker ==
    /\ Call(Main)
    /\ pc[Worker] = "none"
    /\ refs' = [p \in Threads |-> 2]
    /\ object' = [object EXCEPT ![Main] = TRUE]
    /\ Goto(Worker, "start")
    /\ UNCHANGED <<caller, jobs, timer, reader, ready, signal, port, alive, pipes, events>>

\* worker_func: the thread state takes over the references it was given, and
\* Worker.parent has its own.
StartWorker ==
    /\ pc[Worker] = "start"
    /\ alive' = [alive EXCEPT ![Worker] = TRUE]
    /\ object' = [object EXCEPT ![Worker] = TRUE]
    /\ refs' = Plus(refs, Both)
    /\ Goto(Worker, "script")
    /\ UNCHANGED <<caller, jobs, timer, reader, ready, signal, port, pipes, calls, events>>

\* Whether the message is the first one, for which select() needs a byte.
NeedsByte(p) == msg_queue[p] = <<>>

\* The byte is written; an error of any kind, EINTR too, ends the attempts.
Write(p) ==
    \/ /\ bytes' = [bytes EXCEPT ![p] = @ + 1]
       /\ failed' = [failed EXCEPT ![p] = FALSE]
       /\ UNCHANGED events
    \/ /\ Event
       /\ failed' = [failed EXCEPT ![p] = TRUE]
       /\ UNCHANGED bytes

\* js_worker_postMessage, up to the byte, with the mutex.
BeginPost(t) ==
    LET p == Other(t)
    IN  /\ Call(t)
        /\ object[t]
        /\ mutex[p] = Nobody
        /\ mutex' = [mutex EXCEPT ![p] = t]
        /\ IF NeedsByte(p) THEN Write(p) ELSE UNCHANGED <<bytes, failed, events>>
        /\ Goto(t, "post")
        /\ UNCHANGED <<caller, jobs, timer, reader, ready, signal, owners, msg_queue, sent, got>>

\* Slip: list_add() for list_add_tail().
SlipEndPost(t) ==
    LET p == Other(t)
    IN  /\ pc[t] = "post"
        /\ msg_queue' = [msg_queue EXCEPT ![p] = <<sent[p] + 1>> \o @]
        /\ sent' = [sent EXCEPT ![p] = @ + 1]
        /\ mutex' = [mutex EXCEPT ![p] = Nobody]
        /\ Goto(t, "script")
        /\ UNCHANGED <<caller, jobs, timer, reader, ready, signal, owners, bytes, failed, got, calls, events>>

\* The message joins the queue and the mutex is given back.
EndPost(t) ==
    LET p == Other(t)
    IN  /\ pc[t] = "post"
        /\ msg_queue' = [msg_queue EXCEPT ![p] = Append(@, sent[p] + 1)]
        /\ sent' = [sent EXCEPT ![p] = @ + 1]
        /\ mutex' = [mutex EXCEPT ![p] = Nobody]
        /\ Goto(t, "script")
        /\ UNCHANGED <<caller, jobs, timer, reader, ready, signal, owners, bytes, failed, got, calls, events>>

\* js_worker_set_onmessage
SetOnMessage(t) ==
    /\ Call(t)
    /\ object[t] /\ ~port[t]
    /\ port' = [port EXCEPT ![t] = TRUE]
    /\ refs' = Plus(refs, To(t))
    /\ UNCHANGED <<loop, ready, signal, object, alive, pipes, events>>

ClearOnMessage(t) ==
    /\ Call(t)
    /\ object[t] /\ port[t]
    /\ port' = [port EXCEPT ![t] = FALSE]
    /\ Unref(To(t))
    /\ UNCHANGED <<loop, ready, signal, object, alive, failed, mutex, sent, got, events>>

\* Slip: the handler outlives the object.
SlipFinalize(t) ==
    /\ object[t]
    /\ object' = [object EXCEPT ![t] = FALSE]
    /\ UNCHANGED port
    /\ Unref(Both)

\* js_worker_finalizer frees the handler with the object.
Finalize(t) ==
    /\ object[t]
    /\ object' = [object EXCEPT ![t] = FALSE]
    /\ port' = [port EXCEPT ![t] = FALSE]
    /\ Unref(IF port[t] THEN Plus(Both, To(t)) ELSE Both)

\* The script drops its last reference to the object.
DropObject(t) ==
    /\ Call(t)
    /\ Finalize(t)
    /\ UNCHANGED <<loop, ready, signal, alive, failed, mutex, sent, got, events>>

\* A timer or a read handler is set or cleared, or a job enqueued.
SetTimer(t) ==
    /\ Call(t)
    /\ timer' = [timer EXCEPT ![t] = IF @ = "none" THEN "armed" ELSE "none"]
    /\ UNCHANGED <<pc, caller, jobs, reader, ready, signal, owners, pipes, events>>

SetReader(t) ==
    /\ Call(t)
    /\ reader' = [reader EXCEPT ![t] = ~@]
    /\ UNCHANGED <<pc, caller, jobs, timer, ready, signal, owners, pipes, events>>

Enqueue(t) ==
    /\ Call(t)
    /\ jobs' = [jobs EXCEPT ![t] = @ + 1]
    /\ UNCHANGED <<pc, caller, timer, reader, ready, signal, owners, pipes, events>>

\* The script returns to the loop; when a job fails the others wait.  The
\* main script of qjs.c that throws ends the program without a loop.
Return(t) ==
    /\ pc[t] = "script"
    /\ \/ Goto(t, "jobs") /\ caller' = [caller EXCEPT ![t] = "event"]
       \/ /\ caller[t] = "job"
          /\ Goto(t, "poll")
          /\ caller' = [caller EXCEPT ![t] = "event"]
       \/ /\ caller[t] = "start" /\ t = Main
          /\ Goto(t, "end")
          /\ UNCHANGED caller
    /\ UNCHANGED <<jobs, timer, reader, ready, signal, owners, pipes, calls, events>>

-----------------------------------------------------------------------------
(* js_std_loop and js_os_poll.                                              *)

\* JS_ExecutePendingJob
RunJob(t) ==
    /\ pc[t] = "jobs"
    /\ IF jobs[t] = 0 THEN Goto(t, "poll") /\ UNCHANGED <<caller, jobs>>
       ELSE /\ Goto(t, "script")
            /\ caller' = [caller EXCEPT ![t] = "job"]
            /\ jobs' = [jobs EXCEPT ![t] = @ - 1]
    /\ UNCHANGED <<timer, reader, ready, signal, owners, pipes, calls, events>>

NoEvents(t) == timer[t] = "none" /\ ~reader[t] /\ ~port[t]

\* One event is handled: a signal, an expired timer, or what select() finds.
Poll(t) ==
    /\ pc[t] = "poll"
    /\ IF t = Main /\ signal
       THEN /\ signal' = FALSE
            /\ Goto(t, "script")
            /\ UNCHANGED timer
       ELSE IF NoEvents(t) THEN Goto(t, "end") /\ UNCHANGED <<signal, timer>>
       ELSE IF timer[t] = "expired"
       THEN /\ timer' = [timer EXCEPT ![t] = "none"]
            /\ Goto(t, "script")
            /\ UNCHANGED signal
       ELSE Goto(t, "select") /\ UNCHANGED <<signal, timer>>
    /\ UNCHANGED <<caller, jobs, reader, ready, owners, pipes, calls, events>>

\* Slip: pipes are looked at only by a thread without read handlers.
SlipSelect(t) ==
    /\ pc[t] = "select"
    /\ \/ /\ reader[t] /\ ready[t]
          /\ ready' = [ready EXCEPT ![t] = FALSE]
          /\ Goto(t, "script")
       \/ /\ ~reader[t]
          /\ port[t] /\ bytes[t] > 0
          /\ Goto(t, "receive")
          /\ UNCHANGED ready
       \/ /\ timer[t] = "expired"
          /\ Goto(t, "jobs")
          /\ UNCHANGED ready
    /\ UNCHANGED <<caller, jobs, timer, reader, signal, owners, pipes, calls, events>>

\* select() returns: with input, with a byte, or because of the timer.
Select(t) ==
    /\ pc[t] = "select"
    /\ \/ /\ reader[t] /\ ready[t]
          /\ ready' = [ready EXCEPT ![t] = FALSE]
          /\ Goto(t, "script")
       \/ /\ ~(reader[t] /\ ready[t])
          /\ port[t] /\ bytes[t] > 0
          /\ Goto(t, "receive")
          /\ UNCHANGED ready
       \/ /\ timer[t] = "expired"
          /\ Goto(t, "jobs")
          /\ UNCHANGED ready
    /\ UNCHANGED <<caller, jobs, timer, reader, signal, owners, pipes, calls, events>>

\* Slip: the byte stays for the next message.
SlipReceive(t) ==
    /\ pc[t] = "receive"
    /\ mutex[t] = Nobody
    /\ IF msg_queue[t] = <<>> THEN Goto(t, "jobs") /\ UNCHANGED <<msg_queue, got>>
       ELSE /\ msg_queue' = [msg_queue EXCEPT ![t] = Tail(@)]
            /\ got' = [got EXCEPT ![t] = Append(@, Head(msg_queue[t]))]
            /\ Goto(t, "script")
    /\ UNCHANGED <<caller, jobs, timer, reader, ready, signal, owners, bytes, failed, mutex, sent, calls, events>>

\* handle_posted_message: the byte is read with the last message.
Receive(t) ==
    /\ pc[t] = "receive"
    /\ mutex[t] = Nobody
    /\ IF msg_queue[t] = <<>> THEN Goto(t, "jobs") /\ UNCHANGED <<msg_queue, bytes, got>>
       ELSE /\ msg_queue' = [msg_queue EXCEPT ![t] = Tail(@)]
            /\ bytes' = [bytes EXCEPT ![t] = IF Len(msg_queue[t]) = 1 THEN 0 ELSE @]
            /\ got' = [got EXCEPT ![t] = Append(@, Head(msg_queue[t]))]
            /\ Goto(t, "script")
    /\ UNCHANGED <<caller, jobs, timer, reader, ready, signal, owners, failed, mutex, sent, calls, events>>

\* After the loop: the context is freed, and the objects it leads to.  The
\* list_del() of a handler when the thread state is freed writes to freed
\* memory: nothing happens, or the program dies.
FreeObjects(t) ==
    /\ pc[t] \in {"end", "freed"}
    /\ Finalize(t)
    /\ \/ UNCHANGED pc
       \/ port[t] /\ ~alive[t] /\ Goto(t, "dead")
    /\ UNCHANGED <<caller, jobs, timer, reader, ready, signal, alive, failed, mutex, sent, got,
                   calls, events>>

\* js_std_free_handlers: the thread state of a worker has references too.
FreeHandlers(t) ==
    /\ pc[t] = "end"
    /\ alive' = [alive EXCEPT ![t] = FALSE]
    /\ Unref(IF t = Worker THEN Both ELSE Nothing)
    /\ timer' = [timer EXCEPT ![t] = "none"]
    /\ Goto(t, "freed")
    /\ UNCHANGED <<caller, jobs, reader, ready, signal, object, port, failed, mutex, sent, got, calls,
                   events>>

-----------------------------------------------------------------------------
(* The world.                                                               *)

Expire(t) ==
    /\ timer[t] = "armed"
    /\ timer' = [timer EXCEPT ![t] = "expired"]
    /\ UNCHANGED <<pc, caller, jobs, reader, ready, signal, owners, pipes, calls, events>>

Input(t) ==
    /\ Event
    /\ ~ready[t]
    /\ ready' = [ready EXCEPT ![t] = TRUE]
    /\ UNCHANGED <<loop, signal, owners, pipes, calls>>

\* A signal interrupts select(), in the thread that handles it.
Signal(t) ==
    /\ Event
    /\ signal' = TRUE
    /\ IF pc[t] = "select" THEN Goto(t, "jobs") ELSE UNCHANGED pc
    /\ UNCHANGED <<caller, jobs, timer, reader, ready, owners, pipes, calls>>

ScriptCall(t) ==
    \/ BeginPost(t) \/ SetOnMessage(t) \/ ClearOnMessage(t) \/ DropObject(t)
    \/ SetTimer(t) \/ SetReader(t) \/ Enqueue(t)

Loop(t) ==
    \/ EndPost(t) \/ Return(t) \/ RunJob(t) \/ Poll(t) \/ Select(t) \/ Receive(t)
    \/ FreeObjects(t) \/ FreeHandlers(t) \/ (t = Worker /\ StartWorker)

Next == \/ NewWorker
        \/ \E t \in Threads : ScriptCall(t) \/ Loop(t) \/ Expire(t) \/ Input(t) \/ Signal(t)

\* Every thread goes on, a script returns, and time passes.
Spec == Init /\ [][Next]_vars /\ \A t \in Threads : WF_vars(Loop(t)) /\ WF_vars(Expire(t))

-----------------------------------------------------------------------------
(* Properties.                                                              *)

\* The state has its type: a pipe never holds more than one byte.
TypeOK ==
    /\ pc \in [Threads -> {"none", "start", "script", "post", "jobs", "poll", "select",
                           "receive", "end", "freed", "dead"}]
    /\ jobs \in [Threads -> 0 .. MaxCalls]
    /\ timer \in [Threads -> {"none", "armed", "expired"}]
    /\ bytes \in [Threads -> 0 .. 1]
    /\ refs \in [Threads -> Nat]
    /\ mutex \in [Threads -> Threads \cup {Nobody}]

\* Who has a reference to the pipe to p.
Holders(p) ==
    {<<t, "object">> : t \in {u \in Threads : object[u]}}
      \cup {<<t, "port">> : t \in {u \in {p} : port[u]}}
      \cup (IF pc[Worker] = "start" \/ alive[Worker] THEN {<<Worker, "state">>} ELSE {})

\* Pipes are freed with their last user, whichever thread it is: while one
\* posts, waits or receives, its pipe is there.  A handler is left on the
\* port_list of a freed thread state, and list_del() writes there, only after
\* a main script that threw ("XXX: free port_list ?"): never after a loop.
PipesCounted ==
    /\ TypeOK
    /\ \A p \in Threads : refs[p] = Cardinality(Holders(p))
    /\ \A t \in Threads : pc[t] = "post" => refs[Other(t)] > 0
    /\ \A t \in Threads : port[t] => object[t]
    /\ \A t \in Threads : (port[t] /\ ~alive[t]) \/ pc[t] = "dead" => t = Main /\ caller[t] = "start"

\* With the mutex free there is a byte in the pipe exactly when a message is
\* queued and its write() did not fail: no message is missed by select().  And
\* a thread on its way to read() has a byte there, so that it never blocks
\* with the mutex held.
ByteForMessages ==
    \A p \in Threads :
        /\ mutex[p] = Nobody => (bytes[p] = 1 <=> msg_queue[p] # <<>> /\ ~failed[p])
        /\ pc[p] = "receive" => bytes[p] = 1

\* Messages are handled in the order they were posted, none twice, and none
\* is lost while the pipe is there.
DeliveredInOrder ==
    \A p \in Threads :
        /\ \A i \in DOMAIN got[p] : got[p][i] = i
        /\ refs[p] > 0 => Len(got[p]) + Len(msg_queue[p]) = sent[p]

\* A message for a thread with a handler is handled, unless the handler is
\* cleared, the main thread is done (which ends the program) or write() failed
\* for it: no interleaving of posting, polling and other events loses the
\* wakeup.
MessageHandled ==
    \A t \in Threads :
        (msg_queue[t] # <<>> /\ port[t] /\ ~failed[t])
          ~> (msg_queue[t] = <<>> \/ ~port[t] \/ pc[Main] \in {"freed", "dead"})
=============================================================================
