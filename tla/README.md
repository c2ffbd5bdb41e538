# A TLA+ development for quickjspp

quickjspp is a C++ layer over a fork of the QuickJS engine. A host program
creates a `qjs::Runtime` and a `qjs::Context`, gives scripts C++ functions and
classes, and can debug a script from another machine: the context starts a
server thread, clients connect to it and send line commands, and the engine
calls `debug_handler` at every line of the script.

The modules here model the parts of the repository that have state and can go
wrong in ways that a test would hardly reach. Of the C++ layer: the remote
debugger, which has three threads and any number of clients, and the ownership
of what C++ and scripts share. Of the engine: the cycle collector, promises and
the job queue, async generators, the event loop with its workers, and the
storage file that this fork adds, with crashes. Paths below are relative to `src/quickjspp/src/quickjspp/`
unless they start with `src/`.

## 1. Inventory

| Component | Source | State it keeps | Operations | Model |
|---|---|---|---|---|
| Command semaphore | `detail/debugger/semaphore.h` | counter, mutex, condition variable | `Wait`, `Signal` | `Semaphore` |
| Debugger server | `detail/debugger/debugger_server.h`, `tcp_server.h`, `tcp_tunnel.h`, `line_tunnel.h` | stop flag, command queue, current tunnel, listening socket | `Run`, `HandleClient`, `PushCommand`, `PopCommand`, `SendMessage`, `Shutdown` | `DebuggerServer` |
| Debug handler | `quickjspp.cpp` | breakpoints; per call: `block` | `debug_handler` | `DebugHandler` |
| Context life cycle | `quickjspp.h`, `quickjspp.cpp` | `m_Context`, `m_Server`, `m_ServerThread`, `g_DebugUserdata` | `Create`, moves, destructor, `SetDebuggerMode` | `ContextDebugger` |
| Script values in C++ | `quickjspp.h`, `detail/closure.cpp` | `m_Value`, reference counts, closures | moves, properties, calls, `CreateClosure` | `Values` |
| Registered classes | `detail/class_wrapper.cpp` | handle and ownership flag per object | construct, `__c_opaque`, `__c_owned`, finalizer | `JsClass` |
| Conversions | `detail/bind.h`, `wrap_closure.h`, `function_call.h`, `traits.h` | none | one value at a time | later |
| Command grammar | `debugger_server.h` 209-315 | none | `ParseCommand` | later |
| Reference counts, cycle collector | `src/quickjs/quickjs.c` 5503-5920, 46173-46282 | counts, marks, three lists, weak records | `JS_FreeValue`, `free_zero_refcount`, `JS_RunGC`, `reset_weak_ref` | `Collector` |
| Job queue, promises | `src/quickjs/quickjs.c` 1861-1912, 46732-47713 | job list, promise states, reactions | resolving functions, `then`, `finally`, combinators, `await`, `JS_ExecutePendingJob` | `Promises` |
| Async generators | `src/quickjs/quickjs.c` 19706-20030 | state, queue of requests | `next`, `return`, `throw`, `js_async_generator_resume_next` | `AsyncGenerator` |
| Modules | `src/quickjs/quickjs.c` | status per module | linking, evaluation | later |
| Event loop, workers | `src/quickjs/quickjs-libc.c` 1852-2355, 3261-3937 | handlers, timers, ports, message pipes | `js_std_loop`, `js_os_poll`, `postMessage`, `onmessage` | `EventLoop` |
| Storage file | `src/quickjs/storage/dybase/src/database.cpp`, `pagepool.cpp` | header with two roots, indexes, bitmap, page pool | open, close, allocate, store, free, gc, commit, rollback, recovery | `Database` |
| Persistent objects | `src/quickjs/storage/quickjs-storage.c` | dormant, loaded and modified objects | load, commit | not modelled |
| B-trees of the storage | `src/quickjs/storage/dybase/src/btree.cpp` | tree pages | search, insert, remove | not modelled |
| Compiler, interpreter, built-ins, regexps, Unicode, big numbers | `src/quickjs/` | - | - | not modelled |
| Tools, tests, build files | `src/tools/`, `src/tests/`, `src/scripts/` | - | - | `tools/dbg.py` is a client of `DebuggerServer` |

How they interact. The engine calls `debug_handler` on the script's thread
(`src/quickjs/quickjs.c` 18863). The handler finds its `Context` through
`g_DebugUserdata`, sends hits and values through `m_CurrentTunnel`, takes
commands from `m_Commands`, and waits on the semaphore while it is held at a
breakpoint. The server thread reads lines from one client at a time, pushes
commands and signals the semaphore. A third thread may call `Shutdown`, and
`SetDebuggerMode(0)` joins the server thread. The queue has a mutex, the flag is
atomic, the tunnel has no protection at all.

The engine's parts meet in `js_std_loop`: it runs jobs until none is left
(`Promises`), then asks `js_os_poll` for one event (`EventLoop`), whose handler is
script code that makes promises, posts messages and drops references
(`Collector`). The storage file is used by `quickjs-storage.c` from the script's
thread only; what is concurrent there is the crash.

What is hard: wakeups between the queue and the semaphore; a tunnel used by one
thread and replaced by another; stopping a thread that waits in a socket call;
activations of the handler inside one another, since evaluating a variable can
run script code; members that stay behind when a `Context` is moved; references
given up twice or never; collections of graphs whose counts are taken apart and
restored; settlements, handlers and jobs in any order; requests that overtake the
body of a generator; a byte in a pipe that stands for a queue; writes that reach
the file in any order before a crash. `PROJECT.json` lists each hazard at its line, with the
properties that would catch it.

What makes each component correct: the semaphore loses no wakeup; commands are
obeyed in order and once; a waiting script is woken by a command and by a
shutdown; a tunnel in use exists; the handler is led to the context that runs
the script; servers outlive their threads; every reference and handle has one
owner that gives it up once; a collection frees exactly the garbage; a promise has
one decider and its handlers run once and in order; requests of a generator are
answered in order; messages are delivered in order and noticed; a crash leaves the
committed state, or the new one during a commit.

## 2. Modules

- `CountingSemaphore` says what a semaphore promises: permits and requests.
- `Semaphore` is the code of `Wait` and `Signal`, one action for each operation
  on the mutex, the condition variable or the counter, with spurious wakeups.
  `MCSemaphore` gives it three threads. `DebuggerThreadsProofs` proves about it and
  about `ContextDebugger`; it extends the two, which is why the specification here is
  called `SemaphoreSpec` and its parts likewise.
- `DebugSession` says what a debugging session promises: a mailbox of commands,
  obeyed in order by the innermost activation when it is idle; a script held at
  a breakpoint goes on after a Continue or when the session is closed.
- `DebuggerServer` is the shared object, the server thread, the clients and the
  caller of `Shutdown`. It uses the semaphore as the counter that `Semaphore`
  implements. `server` is the place of the server thread in `Run` and
  `HandleClient`; `cur` the connection `HandleClient` was called for; `tunnel`
  the connection that `m_CurrentTunnel` writes to.
- `DebugHandler` extends it with the script's thread, a stack `frame` of
  activations of `debug_handler`, each with its place, its `block` and the name
  it is evaluating; it composes the threads into `Spec`. `MCDebugHandler` names
  the model values. `DebugHandlerProofs` proves about it.
- `ContextDebugger` is the life of contexts, servers and threads, with one action
  per operation of `Context` and two for `SetDebuggerMode(0)`, before and after
  `join`, and two for `Run`, which returns when it was told to stop or when the port
  is taken. `MCContextDebugger` names its model values, `DebuggerThreadsProofs`
  proves about it.
- `Values` is class `Value` and the engine's counts. Calls from C++ are a stack,
  and anything may happen inside a call. `MCValues` names its model values.
- `JsClass` is the handle and ownership flag of objects of registered classes,
  with the host that lends objects. `MCJsClass` names its model values.
- `OwnershipProofs` proves about both of these modules. It extends the two, which is
  why the specification of `JsClass` is called `ClassSpec` and its parts likewise.
- `Collector` is a heap of nodes with reference counts, as `JS_FreeValue`,
  `free_zero_refcount` and the passes of `JS_RunGC` see it. The script changes
  references while `pc = "run"`; the other values of `pc` are the loops over the
  lists, one action per element, in any order of the elements. Weak maps have one
  record whose key is not counted; one slot of a node is hidden from
  `mark_children`. `MCCollector` names its model values, `CollectorProofs` proves
  about it.
- `Promises` is the promises, the pairs of resolving functions and the jobs. A
  function of the script runs inside a job or is called by the host, and while it
  runs it calls whatever it likes. A combinator is its call (`Combine`), a step of its
  loop per element (`NextElement`, or `OwnThen` for an object whose `then` is the
  script's own), and the loop's end or failure (`EndLoop`, `FailLoop`); the iterator
  and each `then` are script code, so the script also runs between these steps, and
  may call the functions that such an object was given (`CallGiven`). `MCPromises` gives its bounds, `PromisesProofs`
  proves about it.
- `AsyncGenerator` is one generator: `Request` is `js_async_generator_next` with
  everything that `js_async_generator_resume_next` does for it; the body ends with
  a yield, an await, a return or a throw. `MCAsyncGenerator` gives its bounds,
  `QueueProofs` proves about it and about `EventLoop`; it extends the two, which is why
  the specification here is called `GeneratorSpec` and its parts likewise.
- `EventLoop` is two threads, the main one and a worker, each with jobs, a timer, a
  read handler and a port, and the two message pipes with their mutexes, bytes and
  reference counts. The write of a byte may fail (`Write`), and the main script may
  throw, which skips the loop (`Return`, `qjs.c:525`). `MCEventLoop` names its model values, `QueueProofs` proves
  about it.
- `StoreStates` says what a state of a store is, `AtomicStore` what the storage file
  promises with it: changes, commits that take effect at one moment, and crashes
  that lose the working state only.
- `Database` is the header, the pool of pages and what of them is in the file. Its
  operations are functions on a record of the memory, composed as in the code:
  `storeObject` allocates, which clones the bitmap, which marks the header dirty.
  What writes several entries of the index writes them with `SetEntries`, and what
  takes several places takes them with `Take` from `NewPlaces`; freed identifiers are
  linked in ascending order, as the loop of `gc` visits them. A commit is four
  actions, between which the process can die. `StartGC` is a whole collection; the one
  crash inside it that differs from a crash before or after it is `CrashInGC`: an
  identifier is freed, which changes a page of the index, before `cloneBitmap` marks a
  clean header dirty and flushes it (`database.cpp:1029`, `:1030`, `:549`). What such a
  crash leaves is not followed; `AtomicStore` calls it `Lose`. `MCDatabase` gives it a file of eleven
  places. `DatabaseOperations` proves what the operations keep, `DatabaseProofs` the
  theorems about the file.

Definitions named `Slip...` are variants of the definition after them, each with
a mistake that could be made in that code. No specification uses them; they are
there to show that the property named with them in `PROJECT.json` notices.

### Abstractions

- A line from a client is a command, "stop", or something unknown. The lexing of
  `ParseCommand` is not modelled, nor are file names in breakpoints: a member of
  `Lines` stands for a file and a line. `m_BreakPoints` is a vector that is only
  searched and appended to, so it is a set.
- A tunnel is the connection it belongs to. Each connection is served at most
  once, so a connection identifies the `TcpTunnel` of one call of `HandleClient`.
- A write through a tunnel that no longer exists is undefined: it does nothing,
  or the process dies. `SendMessage` through a null pointer is a crash.
- `JS_Eval` ends or runs further lines of script; its value is not modelled.
- In `Values`, values are functions or call arguments without references of their
  own; cycles are the subject of `Collector`.
- In `Collector`, lists are sets and loops take any element, so the properties hold
  for every order of the lists. A node stands for any kind of object; strings,
  atoms and the end of the runtime are left out.
- In `Promises`, values are small numbers, promises, or an object with a `then` of its
  own; errors are values. Subclasses of Promise are left out, and a behaviour calls one
  combinator. An object with a `then` of its own passes plain values to the functions
  that a combinator gave it. The promises that nobody can see, such as those of an
  `await`, are not made.
- In `AsyncGenerator`, a promise that is waited for settles at some time.
- In `EventLoop`, a message is its number. One timer, one read handler and one
  signal stand for several. `select` and what follows it is one step, since only
  its own thread uses what it looks at, the pipes apart.
- In `Database`, an object fills a place and its contents are the identifiers it
  refers to. A page or object that was written and not flushed is, after a crash,
  as it was, as it was written, or neither (`Lost`). The header is one sector and
  written whole. How a place is searched for is the parameter `Place`.

### Disciplines

Three modules have a constant `Careful`. The code accepts more than it can bear,
and the constant restricts its callers to the uses that it can:

- `ContextDebugger`: only contexts whose debugger is off are moved, destroyed or
  enabled. The host code in `src/tests/src/main.cpp` does not keep to it:
  `test_debug` lets a debugged context go out of scope, behind an endless script.
- `JsClass`: only handles of the host are written, only to objects that own none,
  the ownership flag is only cleared, and the host outlives what it lent.
- `Database`: a commit comes only after every identifier that was allocated has an
  object stored, and after something that marks the header dirty. `setRoot` alone
  does not (`database.cpp:402`), and the commit after it is lost when the file is
  opened next; an identifier stored in a later transaction than it was allocated in
  does not mark its page (`:449`), and the commit leaves the two indexes apart. The
  only caller, `quickjs-storage.c`, keeps to the first half: setting the root stores
  the object too (`:739-740`), which marks the header. It does not always keep to the
  second: `commit()` walks the table of objects once (`:671-674`) while storing an object
  gives identifiers to the new objects it refers to, and one that the walk has passed
  stays without an object until a later commit. `close()` repeats the walk (`:676-684`).
  `doc/Storage.md:23` says that a commit writes all reachable objects.

The properties checked under `Careful` are conditional on it, and nothing in the
code enforces it: a process whose debugger is on when its context is destroyed is
terminated, and a store that is used without the third discipline can lose a commit.
That no thread is destroyed unjoined is a consequence of the discipline alone, so it is
not stated as a property.

## 3. Runs

| Run | Configuration | Question | Distinct states |
|---|---|---|---|
| `semaphore` | `MCSemaphore.cfg` | is `Semaphore` a counting semaphore, and does it lose no wakeup | 602 |
| `debug_faults` | `DebugFaults.cfg` | are commands and shutdowns noticed by a waiting script, under every fault; when can a message kill the process; does a shutdown release the script | 691,626 |
| `debug_session` | `DebugSessionRun.cfg` | is `DebugSession` implemented, liveness included; does a held script go on when clients answer | 614,340 |
| `context_careful` | `ContextCareful.cfg` | do owners, threads and handler stay together | 68,429 |
| `values` | `Values.cfg` | are reference counts exact | 16,084 |
| `js_class` | `JsClass.cfg` | is every C++ object destroyed at most once | 22,401 |
| `database` | `Database.cfg` | is the file an atomic store under crashes at any point, and is its bitmap exact | 253,944 |
| `collector` | `Collector.cfg` | do collections free exactly the garbage, and restore every count | 1,005,326 |
| `promises` | `Promises.cfg` | do promises settle once and rightly, do handlers run once and in order, are combinators right whatever their loop meets | 1,820,493 |
| `async_generator` | `AsyncGenerator.cfg` | is every request answered by the step of the body it resumed | 1,933 |
| `event_loop` | `EventLoop.cfg` | are messages noticed and in order, and pipes freed with their last user | 492,938 |

`requests_answered` (`AsyncGeneratorQueue.cfg`) is expected to find a violation. A
generator that completes with more than one request in its queue answers one and
leaves `js_async_generator_resume_next` (`src/quickjs/quickjs.c:19851`): the promises
of the others stay pending until somebody makes another request, which in turn
answers one of the old ones. In ES2020, which the manual says is supported with its
asynchronous generators (`src/quickjs/doc/quickjs.texi:25`), completing a generator
answers its whole queue.

### What the models show besides

These are behaviours of the models, hence of the code, that no run is about:

- `Shutdown` called before the server thread has begun is taken back when `Run`
  clears the flag (`debugger_server.h:60`); in `ContextDebugger` the join of
  `SetDebuggerMode(0)` then waits for ever.
- `Shutdown` signals only the semaphore (`:99`): a server thread that waits for a
  client or for a line stays there, and `SetDebuggerMode(0)` joins it.
- A context that is moved with its debugger on leads its handler to an object
  without a server (assertion at `quickjspp.cpp:18`): with `Careful` FALSE,
  `HandlerFindsServer` fails.
- The `Closure` of a collected function is never deleted, although
  `detail/closure.h:15` says so.
- When a client leaves, `HandleClient` returns without resetting `m_CurrentTunnel`
  (`debugger_server.h:190`), which then refers to the local `TcpTunnel` of a
  finished call, and a message may kill the process; so may one that is sent before
  the first client, or after a "stop". `DiesBetweenClients` says that it is only then.
- A client that sends lines for ever keeps the script in the loop over the queue, and
  one that does not read keeps it in `send` (`tcp_tunnel.h:31`), after `Shutdown` too:
  neither place asks for the flag. `ShutdownReleases` has the hypotheses that neither
  happens: `ClientsPause`, and the fairness `ClientsRead`.
- A variable whose evaluation runs script lines starts an inner activation, which
  drains the queue, and a Continue in it is spent on the inner activation while the
  outer one stays held; `HeldGoesOn` has the hypothesis that this does not happen.
- A client that was told of a hit and leaves is not replaced: the script stays held.
- When the `write` of a message's byte fails, for `EINTR` too since the condition at
  `quickjs-libc.c:3525` is always true, the message is queued without a byte; posts
  behind it write none, so that none of them is ever noticed. `ByteForMessages` and `MessageHandled` except this case by the variable `failed`.
- A main script that sets `onmessage` and throws goes past the loop to
  `js_std_free_handlers` (`qjs.c:568`), which leaves the handler on the `port_list` of a
  freed thread state ("XXX: free port_list ?", `quickjs-libc.c:3859`); its finalizer then
  writes there. `PipesCounted` says that this is the only way.
- The program ends when the main thread is done, whatever a worker has in its queue.
- An object with a `then` of its own that calls both functions `allSettled` gave it is
  counted twice, since each of the two has its own `alreadyCalled`
  (`quickjs.c:47392-47408`): the promise may be fulfilled before the other elements are
  settled, with holes in its result. `CombinedRight` excepts it (`CalledBoth`).
- A crash in `gc`, which `Storage.open` calls right after opening
  (`quickjs-storage.c:608`), can leave a file whose header is clean and whose index has
  a changed page (`CrashInGC`).
- With `Faulty` TRUE, a failing `js_async_generator_await` or
  `js_async_generator_completed_return` leaves a generator that nothing resumes.
- A job that throws ends the inner loop of `js_std_loop` (`quickjs-libc.c:3926`); if
  there is no event left, the jobs behind it are never run.
- When the key of a weak record dies while a collection takes cycles apart, the value
  of the record is released then (`quickjs.c:46258`), and a count that reaches zero in
  that phase does not get on the list of zero counts (`:5621`): the value stays
  allocated with count 0 until the next collection. `CollectsAll` counts it in
  `spared` for that reason. It also holds in an instance with the nodes `m1`, `o1` and
  `o2`, no inner node and nothing hidden (1,406,395 distinct states).

### Bounds

- `Conns`: two connections, so that one can be served while another waits, or
  after it left. `Lines`: one or two, a breakpoint and another line. `Vars`: one
  name, which is also `Computed` where nesting matters.
- `MaxDepth` 2: an activation inside another; a third would repeat the relation
  between two. `MaxRuns` 2 or 3: lines the script runs through.
- `MaxSends` 2 or 3: lines clients send unasked, so `Break`, `Read` and `Continue`
  can all be queued. The answers to hits are not counted in it, but there are only as
  many as hits: in these runs clients do not send for ever, so that `ClientsPause` is
  there for what the code needs, not for what the run lets happen.
- `MaxCount` 2 in `Semaphore`: more permits than one sleeper can take.
- In `ContextDebugger`, three objects, contexts and servers: a chain of two moves.
- In `Values`, two `Value` objects, two properties, three values and two nested
  calls; in `JsClass`, three script objects and four C++ objects, so that a
  constructed and a lent one coexist.
- In `Database`, two identifiers and two entries per page of the index, so that the
  second identifier makes the index grow, and a bitmap of eleven places; nine calls
  are enough for two commits with a crash and a recovery between or after them.
- In `Collector`, a weak map, an object with hidden data and an inner node, each with
  three references: self loops, cycles of two and three, keys inside and outside of
  the cycle. The number of collections is not bounded.
- In `Promises`, four calls of the script, which allow a promise resolved with
  another, a handler on each, and a combinator of up to three elements that are
  settled when its loop meets them, or later; the combinator's call, each step of its loop but the end,
  and each call of a function it gave away count as one. In `AsyncGenerator`, four requests and four steps: a
  queue of three behind a running body. In `EventLoop`, five calls and one event
  from outside: two messages on the way while a handler is set, cleared or dropped.
- In `EventLoop`, `MaxEvents` also bounds the writes that fail.
- Symmetry is used over values, slots and names (`values`), in a run that checks
  invariants only.

Deadlock is not checked except in `semaphore` and `collector`: the bounds let the others stop, and
so does the program, when the server thread has ended and the script is done.

### Fairness

Threads that can take a step do so: weak fairness of the server thread, of the
handler, and of a call of `Shutdown` that was begun. That is what a scheduler
gives. The failing `accept` is left out of the server's fairness: it need not
happen. That a message the script sends is taken, `ClientsRead`, is a fairness of its
own: `send` blocks, and only a client that reads, or whose connection breaks, ends it.
Clients need not connect, send or answer, the script need not come to
another line, and `Shutdown` need not be called. `HeldGoesOn` carries its own
hypothesis, that clients answer the hits they are told of, and `ShutdownReleases` the
one that clients do not send lines for ever. In
`Semaphore`, a thread inside a call goes on; a spurious wakeup need not come.
`Wait` enters the handler's fairness as an action enabled by a positive counter,
which is what `ImplementsSemaphore` justifies for the single thread that waits.

In `AsyncGenerator` the body goes on and awaited promises settle (`Body`, `Settles`):
what a script that ends and promises that settle do; requests need not be made. In
`EventLoop` the two loops go on and an armed timer expires; scripts need not call
anything, and input and signals need not come.

## 4. Proofs

TLAPS proves the following for all values of the constants that satisfy the named
assumptions in the modules.

`DebuggerThreadsProofs`, of `Semaphore`: `SemaphoreTypeCorrect`, `MutualExclusion`,
`WakeupsKept` and `Refines`. The counter stays within its bound because a caller of
`Signal` is counted from the moment it enters; the mutex invariant is inductive together
with the types. `WakeupsKept` needs both: an increment happens under the mutex by a
thread that is still to notify, hence alert, and a permit is taken by a thread that was
alert. `Refines` maps the threads inside `Wait` to the requesting ones, and every step
but `CallWait`, `Take` and `Increment` to a stutter.

`DebugHandlerProofs`: `TypeCorrect`, then `CommandsWakeScript` and
`ShutdownWakesScript`. Neither is inductive alone: the invariant also says what the
places of the server thread and of the activations imply, so that a command that is
pushed while the script drains is still signalled. `ActivationsNest` is the invariant
of the stack and is what `RefinesSession` needs, which shows every step to be a step
of `DebugSession` or a stutter. `ServedIsSafe` is an
action property, for clients that come, stop and leave as they like: the process dies
of a message only between clients, or in a message begun for another client than the
one that is served. Its invariant adds `ServedTunnel`, that while a client is served
the current tunnel is its own.

`DebuggerThreadsProofs`, of `ContextDebugger` under `Careful`: `TypeCorrect`,
`HandlerIsLed`, `ServersOutliveRuns`, `OwnersAlone`. The invariant
`OwnInv` relates the three owners of a debugger: an object has a server exactly while it
has the thread of that server and a JSContext with the handler, except between
`Shutdown` and the end of `join`. It has to say also that a JSContext with a handler has
an owner (`Installed`), or a new context could be born with one. A server whose thread
has not ended has an object that can join it (`Served`), also when `Run` returned by
itself because the port was taken.

`OwnershipProofs`, of `Values`: `RefsExact` and `MethodsKept`, for every finite number
of `Value` objects, properties and values and calls nested to any depth. `Counted`
says that the engine's count of a function is the number of places that hold it: C++
objects, properties and running calls. Arguments are counted and never held, which is
the leak of `detail/bind.h`. Lemmas on the cardinality of a set of places of which one
changes (`CountPlace`, `PlaceChange`, `KeepMore`, `KeepLess`) carry all of it. Of
`JsClass`: under `Careful`, `NoDoubleDestroy` and `NoUseAfterDestroy`, from an
invariant that separates what the host owns (`HostOwns`) from what one script object
owns (`ScriptOwns`).

`CollectorProofs`: `NothingDangles`, `LiveKept`, `CountsRestored`, `AssertionsHold`
and `GarbageCollected`, for every finite heap (`FiniteAssumption`) with any number of
references, and every order of the lists. `IInv` is `Wired` and `Phases`. `Wired`
holds all the time: nothing dangles, freed memory refers to nothing, inner nodes have
an owner, weak keys are keys of maps. `Phases` has a part for each value of `pc`:
during `gc_decref` the count of a node is the number of references to it but those
that were seen in visited nodes; during `gc_scan` it is the number from nodes put back
and from hidden slots; when cycles are taken apart the list of garbage is isolated,
referred to by its own members only. The hard step is `Release`, whose recursion
through inner nodes is the set of nodes it frees: the lemmas compare the references of
two heaps that differ in one place, or in what those nodes held. `GarbageCollected`
needs a second invariant, `Kept`: what the passes put back is reachable, or was
reached through a reference that they do not see.

`PromisesProofs`: `DecidedOnce`, `AdoptionKept`, `TrackerTold`,
`ReactionsOnceInOrder`, `CombinatorsRight`, `FinallyKept` and `TypeCorrect`, for any
number of calls of the script (`MaxCalls`); as in the model, a behaviour has one
combinator, with any number of elements. The operations are functions on a record of the
heap, and so is the invariant `Sound`; each operation has a lemma that it keeps it.
Its parts: every unused pair and every thenable job belongs to a pending promise, and
no two to the same one (`PairsSane`, `Alone`), and each pending promise has one
(`HasDecider`); a promise that adopted another one has the outcome of that one or none
(`Adopted`); a function in a reaction or a job is only called with an outcome it was
attached for (`ReactionsFit`, `JobsFit`), which is what makes an element function of a
combinator store the result of its own element. `Combined` says of a combinator that its
count is that of its loop, while it goes on, and of the elements without a result
(`Counted`), that each result is the outcome of its element (`Recorded`), and what the
promise is settled with (`Combines`): a promise that is pending may still become right.
The loop's own count is what keeps an element that settles at once from ending it; calls of `then()` are
numbered and wait in the reactions of their promise, then in the queue, then are
called, in that order (`Ordered`). What `finally` promises is not visible in a state:
the function that passes the value on is a closure over a promise that its callback
returned. The invariant therefore speaks of a table of roles, which promise has to
keep which, and holds when there is such a table (`IInv`); an operation that creates a
promise extends it.

`QueueProofs`, of `AsyncGenerator`: `QueueServed`, for any number of requests and steps
and also when awaits fail to start. Its invariant is on the record of the generator, as
the operations are, and adds two things to `HeadServed`: requests are numbered through
from the answers to the end of the queue, so the one in front has the next number; and
the body runs only in the state EXECUTING with nothing awaited. One lemma for each of
`Answer`, `Completed` and `ResumeNext` says that it keeps the invariant, from the states
in which the code calls it.

`QueueProofs`, of `EventLoop`: `BytesAgree` and `MessagesInOrder`, for any number of
calls, events and failing writes. A thread that posts holds the mutex of the other's
pipe, has written the byte or failed to, and still has its object (`Posting`); a thread
on its way to read has a handler and a byte (`Receiving`); the handled and the queued messages are
numbered through (`Ordered`); and the references of a pipe are those of the two objects,
the receiver's handler and the worker's thread state (`Counted`, with `Life` for the
times before the worker). `Counted` is needed because the last reference takes the queue
with it, and so must not be the one of a thread that posts. `PipesFreedLast` adds that
nothing else holds a reference: a pipe is freed with its last user, neither before nor
never, where `Ports` and `Counters` count the users one by one. `Ports` also says that a
handler is left without a thread state only in the main thread, and only if its first
script never returned to the loop.

`DatabaseProofs`, under `Careful`: `Typed`, `CommittedIsUntouched`, `BitmapIsExact`
and `FileIsAtomicStore`, for every finite set of places, every number of entries per
page, every layout of a new file and every allocator that finds a free place
(`Layout`, `InitApart`, `PlaceIsFree`), and any number of calls and crashes. The
hypothesis is used in one place, when a commit begins: with `Careful` FALSE the three
properties fail, for the reasons under Disciplines.

- *Data* (`DatabaseOperations`). An index is the function `Ent` from identifiers to
  entries that its pages stand for, so that most of the argument does not speak of
  pages. `Formed` says that each entry leads to a place of its own or to none, `Linked`
  that the free list is one without branches, `Fixed` what is true of entries that were
  committed. `Beside` relates the entries of the working index to the committed ones: an
  entry was changed and marked as such, with a place that the committed index does not
  lead to, or it is the committed entry; the pages of changed entries are in the map of
  dirty pages; the bitmap marks what the two lead to; and nothing is changed while the
  two share the bitmap's own page, which is why the bitmap is cloned first.
- *Memory* (`DatabaseOperations`). `Whole` says that a root can be gone on from by
  itself: its index, its shadow, its bitmap and its objects are apart, and the bitmap
  marks those and no more. `Under` is `Beside` for the roots in memory, with the growth
  of the index. `Good` is the two together. One lemma per operation, from the marking of
  a page through allocating with and without growth to `rollbackTransaction`, `gc` and
  the copying of the dirty pages at the end of a commit, says that it keeps `Good`, what
  it writes (`Frame` with `Own`), and what it changes in the state that a program sees.
- *Behaviours* (`DatabaseProofs`). `Inv` is `Base`, the types, with a part for each
  value of `pc`: `OpenIn`, `CloseIn`, `ClosedIn`, `CreateIn`, `FlushIn`, `FlipIn` and
  `SyncIn`. These say which headers a crash may leave, to which root each of them leads,
  and that nothing read through that root is unflushed. This is what the checked
  properties do not say and need: that the committed state is not written to is a fact
  about the memory, that a crash finds it also one about the file. While a commit runs
  both roots are whole (`BothIn`), and `Cut` says that the dirty pages are the only ones
  in which the shadow differs from the index.
- *Steps* (`DatabaseProofs`). One lemma per action says that it keeps `Inv` and is,
  through the mapping of `ImplementsStore`, a step of `AtomicStore` or a stutter
  (`StoreStep`): a commit takes effect when the header that exchanges the roots is
  written, what a recovery does is part of the step `Open`, and `CrashInGC` is the step
  `Lose`. Of a file that such a crash left nothing but its types is proved.

Only model-checked: everything under fairness (`ShutdownReleases`, `HeldGoesOn`, the
liveness halves of `ImplementsSemaphore` and `ImplementsSession`, `HeadAnswered` and
`MessageHandled`), which is out of the prover's reach. Every other property that a
passing run checks is also proved.

## 5. Not modelled, and the plan

Most of the repository's lines are the engine's parser, byte code compiler,
interpreter and built-in objects, and its regular expressions, Unicode tables and
big numbers: large sequential algorithms and generated tables, the latter unchanged
from the upstream engine. They have no interleavings or failures to explore, and a
model of them would be the program again. For the same reason the share of lines
that the models cover is small, although the parts of it with concurrency, ordering
or failure are modelled.

Of the modelled parts these are left out: in the debugger the lexing of
commands (`std::stoi` of a line number gives -1 for an error and large unsigned
numbers for other negative ones, and the first colon of `file:line` is taken, also
that of a drive letter) and the exception that a variable that cannot be read leaves
pending; in `Values`, calls through `Call` whose function frees itself; in `JsClass`,
objects whose constructor threw, for which the finalizer reads a null pointer
(`class_wrapper.cpp:23`); in the engine the failing allocations; in the event loop
the Windows version of `js_os_poll`, signals that arrive inside the update of
`os_pending_signals` (`quickjs-libc.c:2266`), and the meeting of timers with the
collector: `js_os_timer_mark` (`:2022`) shows the function of an armed timer as
owned by its object, while the list of timers goes on using it.

Persistent objects are not modelled. Read in the code: a write to a dormant object
does not load it first (`quickjs.c:8580`), arrays and deletions do not mark their
object as modified, and `db_fetch_object` gives its table a pointer to a local
variable as key (`quickjs-storage.c:409`).

In this order:

1. Persistent objects: dormant, loaded, modified, and the walk of a commit, over
   `AtomicStore`.
2. Linking and evaluation of cyclic module graphs.
3. The grammar of debugger commands and the integer conversions of `detail/bind.h`,
   as operators checked against reference definitions.
4. Failing constructors in `JsClass`, the pending exception in `DebugHandler`, and
   the order in which `Runtime`, `Context` and `Value` are destroyed.
