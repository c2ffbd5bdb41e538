---------------------------- MODULE DebugHandler ----------------------------
(***************************************************************************)
(* debug_handler (quickjspp.cpp), which the interpreter calls at every     *)
(* line of a script in debugger mode, running against the DebuggerServer.  *)
(*                                                                         *)
(* The thread that runs the script is a stack of activations of            *)
(* debug_handler: evaluating a variable may run script code (a getter, a   *)
(* toJSON), and each line of that calls debug_handler again.               *)
(***************************************************************************)
EXTENDS DebuggerServer

CONSTANT MaxRuns       \* bound on the lines the script runs through

ASSUME MaxRunsAssumption == MaxRuns \in Nat

VARIABLES bps,         \* Context::m_BreakPoints, as a set
          depth,       \* number of activations of debug_handler
          frame,       \* frame[d]: the local state of activation d
          runs         \* lines run through

handlerVars == <<bps, depth, frame, runs>>
vars == <<objectVars, serverVars, clientVars, shut, crashed, handlerVars>>

\* block is the local variable, ptr what *m_CurrentTunnel evaluated to, asked
\* the name being evaluated, at the point the activation has reached: a
\* message to send (hit, reply) or being written, the command loop, JS_Eval,
\* the loop condition, Wait().
FramePlaces == {"hit", "hitWrite", "drain", "eval", "reply", "replyWrite",
                "check", "wait"}
Frame == [at : FramePlaces, block : BOOLEAN,
          asked : Vars \cup {NoVar}, ptr : Conns \cup {NoConn}]

Top == frame[depth]
At(place) == depth > 0 /\ Top.at = place

\* The activation on top goes to a place, and changes nothing else.
Goto(place) == frame' = [frame EXCEPT ![depth].at = place]

Init ==
    /\ ServerInit
    /\ bps = {} /\ depth = 0 /\ runs = 0
    /\ frame = [d \in 1 .. MaxDepth |->
                  [at |-> "drain", block |-> FALSE, asked |-> NoVar, ptr |-> NoConn]]

-----------------------------------------------------------------------------

\* The script comes to line l: block is set if there is a breakpoint.
Arrive(l) ==
    /\ depth < MaxDepth /\ runs < MaxRuns
    /\ depth > 0 => At("eval") /\ Top.asked \in Computed
    /\ depth' = depth + 1
    /\ frame' = [frame EXCEPT ![depth + 1] =
                   [at |-> IF l \in bps THEN "hit" ELSE "drain",
                    block |-> l \in bps, asked |-> NoVar, ptr |-> NoConn]]
    /\ runs' = runs + 1
    /\ UNCHANGED <<objectVars, serverVars, clientVars, shut, crashed, bps>>

\* SendMessage takes a reference to *m_CurrentTunnel.
TakeTunnel ==
    /\ At("hit") \/ At("reply")
    /\ IF tunnel = NoConn
         THEN crashed' = TRUE /\ UNCHANGED frame
         ELSE /\ frame' = [frame EXCEPT
                    ![depth].at = IF At("hit") THEN "hitWrite" ELSE "replyWrite",
                    ![depth].ptr = tunnel]
              /\ UNCHANGED crashed
    /\ UNCHANGED <<objectVars, serverVars, clientVars, shut, bps, depth, runs>>

\* WriteLine.  The client sees the line if it is there to read it.  A tunnel
\* that is no longer usable may still do nothing, or bring the process down.
Write ==
    /\ At("hitWrite") \/ At("replyWrite")
    /\ \/ /\ Goto("drain")
          /\ \/ /\ At("hitWrite") /\ Usable(Top.ptr) /\ peer[Top.ptr] = "up"
                /\ hits' = [hits EXCEPT ![Top.ptr] = @ + 1]
             \/ /\ At("hitWrite") => ~(Usable(Top.ptr) /\ peer[Top.ptr] = "up")
                /\ UNCHANGED hits
          /\ UNCHANGED crashed
       \/ /\ ~Usable(Top.ptr)
          /\ crashed' = TRUE
          /\ UNCHANGED <<frame, hits>>
    /\ UNCHANGED <<objectVars, serverVars, peer, inbound, sent, shut, bps, depth, runs>>

\* HasCommand(), PopCommand() and handleCommand.  Nobody else pops.
Obey ==
    /\ At("drain")
    /\ commands # <<>>
    /\ commands' = Tail(commands)
    /\ LET cmd == Head(commands) IN
       \/ /\ cmd.op = "break"
          /\ bps' = bps \cup {cmd.line}
          /\ UNCHANGED frame
       \/ /\ cmd.op = "continue"
          /\ frame' = [frame EXCEPT ![depth].block = FALSE]
          /\ UNCHANGED bps
       \/ /\ cmd.op = "read"
          /\ frame' = [frame EXCEPT ![depth].at = "eval", ![depth].asked = cmd.var]
          /\ UNCHANGED bps
    /\ UNCHANGED <<serverStop, count, tunnel, serverVars, clientVars, shut, crashed,
                   depth, runs>>

\* JS_Eval returns a value or an exception; either is sent.
Evaluated ==
    /\ At("eval")
    /\ frame' = [frame EXCEPT ![depth].at = "reply", ![depth].asked = NoVar]
    /\ UNCHANGED <<objectVars, serverVars, clientVars, shut, crashed, bps, depth, runs>>

\* HasCommand() is false.
Drained ==
    /\ At("drain")
    /\ commands = <<>>
    /\ Goto("check")
    /\ UNCHANGED <<objectVars, serverVars, clientVars, shut, crashed, bps, depth, runs>>

SlipCheck ==           \* while (block)
    /\ At("check")
    /\ IF Top.block
         THEN Goto("wait") /\ UNCHANGED depth
         ELSE depth' = depth - 1 /\ UNCHANGED frame
    /\ UNCHANGED <<objectVars, serverVars, clientVars, shut, crashed, bps, runs>>

SlipCheckRunning ==    \* while (server->IsRunning())
    /\ At("check")
    /\ IF ~serverStop
         THEN Goto("wait") /\ UNCHANGED depth
         ELSE depth' = depth - 1 /\ UNCHANGED frame
    /\ UNCHANGED <<objectVars, serverVars, clientVars, shut, crashed, bps, runs>>

\* while (block && server->IsRunning()); the activation returns after it.
Check ==
    /\ At("check")
    /\ IF Top.block /\ ~serverStop
         THEN Goto("wait") /\ UNCHANGED depth
         ELSE depth' = depth - 1 /\ UNCHANGED frame
    /\ UNCHANGED <<objectVars, serverVars, clientVars, shut, crashed, bps, runs>>

SlipWait ==            \* a timed wait that returns without a permit
    /\ At("wait")
    /\ count' = count - 1
    /\ Goto("drain")
    /\ UNCHANGED <<serverStop, commands, tunnel, serverVars, clientVars, shut, crashed,
                   bps, depth, runs>>

\* GetCommandSemaphore().Wait()
Wait ==
    /\ At("wait")
    /\ count > 0
    /\ count' = count - 1
    /\ Goto("drain")
    /\ UNCHANGED <<serverStop, commands, tunnel, serverVars, clientVars, shut, crashed,
                   bps, depth, runs>>

HandlerStep == \/ TakeTunnel \/ Write \/ Obey \/ Evaluated \/ Drained
               \/ Check \/ Wait

-----------------------------------------------------------------------------
(* The three threads and the clients together *)

Server      == ~crashed /\ (ServerStep \/ AcceptThrows) /\ UNCHANGED handlerVars
Client(c)   == ~crashed /\ ClientStep(c) /\ UNCHANGED handlerVars
Shutdown    == ~crashed /\ (ShutdownStore \/ ShutdownSignal) /\ UNCHANGED handlerVars
Script      == ~crashed /\ \E l \in Lines : Arrive(l)
Handler     == ~crashed /\ HandlerStep

Next == \/ Server \/ Shutdown \/ Script \/ Handler
        \/ \E c \in Conns : Client(c)

SafeSpec == Init /\ [][Next]_vars

\* send() returns: the client reads what it is sent, or its connection breaks.
\* TcpTunnel::Write blocks, so nothing but the client can see to that.
ClientsRead == WF_vars(~crashed /\ Write)

\* Threads that can take a step do; a call of Shutdown() that was begun is
\* finished.  Nobody has to connect, to send, to call Shutdown() or to run
\* another line, and accept() need not fail.
Spec ==
    /\ SafeSpec
    /\ WF_vars(~crashed /\ ServerStep /\ UNCHANGED handlerVars)
    /\ WF_vars(Handler /\ ~Write)
    /\ WF_vars(~crashed /\ ShutdownSignal /\ UNCHANGED handlerVars)
    /\ ClientsRead

-----------------------------------------------------------------------------
(* Properties *)

\* The variables have their types; in particular the semaphore's counter is
\* never negative.
TypeOK ==
    /\ ServerTypeOK
    /\ bps \subseteq Lines
    /\ depth \in 0 .. MaxDepth
    /\ frame \in [1 .. MaxDepth -> Frame]
    /\ runs \in Nat

\* PushCommand against the waiting loop: a script that is in Wait(), or about
\* to call it, has a permit in the semaphore, or one on its way, whenever the
\* queue has a command.  The loop drains the queue without counting what it
\* drains, so the counter says nothing of the length of the queue.
CommandsWake ==
    At("check") \/ At("wait") =>
        (commands # <<>> => count > 0 \/ server = "signal")

\* Shutdown() against the waiting loop: a script cannot be in Wait() with the
\* server stopped and no permit there or coming.
ShutdownWakes ==
    At("wait") /\ serverStop => count > 0 \/ shut = "stored"

\* Every activation but the innermost is inside JS_Eval, and an activation is
\* inside JS_Eval exactly while a name it was asked for is unanswered.
FramesOK ==
    \A d \in 1 .. depth :
        /\ frame[d].at = "eval" <=> frame[d].asked # NoVar
        /\ d < depth => frame[d].at = "eval"

\* SendMessage against HandleClient, which replaces and resets the tunnel that
\* the script writes to: the process dies of it only while no client is served,
\* or when the client that the message was begun for is not served any more.
\* While a client is served, what is begun for it is safe.
DiesBetweenClients ==
    [][crashed' # crashed =>
         \/ server \notin {"read", "signal"}
         \/ (At("hitWrite") \/ At("replyWrite")) /\ Top.ptr # cur]_vars

\* The clients send no further line from some time on.
ClientsPause == <>[][\A c \in Conns : Len(inbound'[c]) <= Len(inbound[c])]_vars

\* After Shutdown() the script is let go, also when clients leave, stop or wait
\* in the backlog, if those that are served read what they are sent and do not
\* send lines for ever.  The loop over the queue asks for neither the flag nor
\* a permit, and a send() that blocks is not interrupted.
ShutdownReleases ==
    ClientsPause => (shut = "done" /\ serverStop ~> depth = 0 \/ ~serverStop \/ crashed)

\* A script that was held goes on, if the clients answer every hit they are
\* told of and no variable's evaluation runs script code.
HeldGoesOn ==
    /\ \A c \in Conns : WF_vars(~crashed /\ Resume(c) /\ UNCHANGED handlerVars)
    /\ [](depth <= 1)
    => (depth > 0 ~> depth = 0)

\* The server and the handler implement the session.
Session == INSTANCE DebugSession
    WITH mailbox <- commands,
         held    <- [d \in 1 .. MaxDepth |-> frame[d].block],
         asked   <- [d \in 1 .. MaxDepth |-> frame[d].asked],
         closed  <- serverStop

ImplementsSession == Session!Spec
=============================================================================
