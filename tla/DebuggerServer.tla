--------------------------- MODULE DebuggerServer ---------------------------
(***************************************************************************)
(* class DebuggerServer (detail/debugger/debugger_server.h): the object    *)
(* that the server thread, the thread that runs the script and the thread  *)
(* that shuts the server down share, the loop of the server thread, and    *)
(* the clients at the other end of the sockets (tools/dbg.py is one).      *)
(*                                                                         *)
(* The command semaphore is the counter that Semaphore.tla shows it to be. *)
(* One action is one critical section, one socket call, or what a thread   *)
(* does to its own variables between two of these.  Definitions named      *)
(* Slip... are variants of the definition that follows them with a mistake *)
(* in it; the specification does not use them.                             *)
(***************************************************************************)
EXTENDS Integers, Sequences, FiniteSets

CONSTANTS Conns,       \* connections clients may make
          NoConn,      \* a null pointer, or no connection
          Lines,       \* lines of the script, file name included
          Vars,        \* names a client can ask for
          NoVar,       \* not a name
          Computed,    \* names whose evaluation runs script code
          MaxDepth,    \* bound on handler activations inside one another
          MaxSends,    \* bound on the unasked-for lines the clients send
          Others,      \* lines other than commands that clients send
          Faults       \* what the environment may do to the sockets

ASSUME ConnsAssumption == NoConn \notin Conns
ASSUME VarsAssumption == NoVar \notin Vars /\ Computed \subseteq Vars
ASSUME BoundsAssumption == MaxDepth \in Nat \ {0} /\ MaxSends \in Nat
ASSUME OthersAssumption == Others \subseteq {"stop", "unknown"}
ASSUME FaultsAssumption == Faults \subseteq {"bind", "accept", "leave"}

VARIABLES serverStop,  \* m_ServerStop
          commands,    \* m_Commands
          count,       \* m_Count of m_CommandSemaphore
          tunnel,      \* the connection m_CurrentTunnel writes to, or NoConn
          server,      \* where the server thread is
          cur,         \* the connection HandleClient was called for
          peer,        \* peer[c]: what the client of c has done
          backlog,     \* connections the listening socket has not handed out
          inbound,     \* inbound[c]: lines sent and not read yet
          sent,        \* number of unasked-for lines sent
          hits,        \* hits[c]: hits reported and not answered yet
          shut,        \* how far the caller of Shutdown() is
          crashed      \* the process died

\* Variables of the object, and of the server thread, clients and controller.
objectVars == <<serverStop, commands, count, tunnel>>
serverVars == <<server, cur, backlog>>
clientVars == <<peer, inbound, sent, hits>>

Break(l) == [op |-> "break", line |-> l]
Read(v)  == [op |-> "read", var |-> v]
Continue == [op |-> "continue"]

Commands == {Break(l) : l \in Lines} \cup {Read(v) : v \in Vars} \cup {Continue}
Texts    == Commands \cup {[op |-> o] : o \in Others}

ServerPlaces == {"start", "loop", "accept", "open", "read", "signal", "close",
                 "ended", "failed"}

ServerInit ==
    /\ serverStop = FALSE /\ commands = <<>> /\ count = 0 /\ tunnel = NoConn
    /\ server = "start" /\ cur = NoConn /\ backlog = {}
    /\ peer = [c \in Conns |-> "new"]
    /\ inbound = [c \in Conns |-> <<>>]
    /\ sent = 0
    /\ hits = [c \in Conns |-> 0]
    /\ shut = "no"
    /\ crashed = FALSE

\* The LineTunnel for c can be used: m_CurrentTunnel still owns it, and the
\* TcpTunnel that its two lambdas hold a reference to, a local variable of
\* HandleClient, still exists.
Usable(c) == c # NoConn /\ c = tunnel /\ c = cur /\ server \in {"read", "signal"}

-----------------------------------------------------------------------------
(* The server thread *)

\* Run() up to its loop.
Start ==
    /\ server = "start"
    /\ serverStop' = FALSE
    /\ \/ server' = "loop"
       \/ "bind" \in Faults /\ server' = "failed"
    /\ UNCHANGED <<commands, count, tunnel, cur, backlog, clientVars, shut, crashed>>

\* while (IsRunning())
LoopTest ==
    /\ server = "loop"
    /\ server' = IF serverStop THEN "ended" ELSE "accept"
    /\ UNCHANGED <<objectVars, cur, backlog, clientVars, shut, crashed>>

Accept(c) ==
    /\ server = "accept"
    /\ c \in backlog
    /\ backlog' = backlog \ {c}
    /\ cur' = c
    /\ server' = "open"
    /\ UNCHANGED <<objectVars, clientVars, shut, crashed>>

\* Accept() throws, nothing on the server thread catches, std::terminate().
AcceptThrows ==
    /\ server = "accept"
    /\ "accept" \in Faults
    /\ crashed' = TRUE
    /\ UNCHANGED <<objectVars, serverVars, clientVars, shut>>

SlipOpenTunnel ==      \* the tunnel is not made the current one
    /\ server = "open"
    /\ server' = "read"
    /\ UNCHANGED <<objectVars, cur, backlog, clientVars, shut, crashed>>

\* HandleClient makes the tunnel of the connection the current one.
OpenTunnel ==
    /\ server = "open"
    /\ tunnel' = cur
    /\ server' = "read"
    /\ UNCHANGED <<serverStop, commands, count, cur, backlog, clientVars, shut, crashed>>

SlipReadCommand(cmd) ==   \* the queue as a stack
    /\ server = "read"
    /\ inbound[cur] # <<>>
    /\ Head(inbound[cur]) = cmd
    /\ inbound' = [inbound EXCEPT ![cur] = Tail(@)]
    /\ commands' = <<cmd>> \o commands
    /\ server' = "signal"
    /\ UNCHANGED <<serverStop, count, tunnel, cur, backlog, peer, sent, hits, shut, crashed>>

\* ReadLine, ParseCommand and the locked part of PushCommand.
ReadCommand(cmd) ==
    /\ server = "read"
    /\ inbound[cur] # <<>>
    /\ Head(inbound[cur]) = cmd
    /\ inbound' = [inbound EXCEPT ![cur] = Tail(@)]
    /\ commands' = Append(commands, cmd)
    /\ server' = "signal"
    /\ UNCHANGED <<serverStop, count, tunnel, cur, backlog, peer, sent, hits, shut, crashed>>

SlipSignalCommand ==      \* only a Continue wakes the script
    /\ server = "signal"
    /\ count' = IF \E i \in 1 .. Len(commands) : commands[i] = Continue
                  THEN count + 1 ELSE count
    /\ server' = "read"
    /\ UNCHANGED <<serverStop, commands, tunnel, cur, backlog, clientVars, shut, crashed>>

\* The end of PushCommand.
SignalCommand ==
    /\ server = "signal"
    /\ count' = count + 1
    /\ server' = "read"
    /\ UNCHANGED <<serverStop, commands, tunnel, cur, backlog, clientVars, shut, crashed>>

\* A line that is no command is logged; "stop" sets m_ClientStop, which ends
\* the loop of HandleClient and drops the tunnel.
ReadOther(o) ==
    /\ server = "read"
    /\ inbound[cur] # <<>>
    /\ Head(inbound[cur]) = [op |-> o]
    /\ inbound' = [inbound EXCEPT ![cur] = Tail(@)]
    /\ \/ /\ o = "stop"
          /\ tunnel' = NoConn
          /\ server' = "close"
       \/ /\ o = "unknown"
          /\ UNCHANGED <<tunnel, server>>
    /\ UNCHANGED <<serverStop, commands, count, cur, backlog, peer, sent, hits, shut, crashed>>

\* ReadLine fails: HandleClient returns and leaves m_CurrentTunnel as it is.
ReadFails ==
    /\ server = "read"
    /\ inbound[cur] = <<>>
    /\ peer[cur] = "gone"
    /\ server' = "close"
    /\ UNCHANGED <<objectVars, cur, backlog, clientVars, shut, crashed>>

CloseClient ==
    /\ server = "close"
    /\ cur' = NoConn
    /\ server' = "loop"
    /\ UNCHANGED <<objectVars, backlog, clientVars, shut, crashed>>

ServerStep ==
    \/ Start \/ LoopTest \/ OpenTunnel
    \/ \E c \in Conns : Accept(c)
    \/ \E cmd \in Commands : ReadCommand(cmd)
    \/ \E o \in Others : ReadOther(o)
    \/ SignalCommand \/ ReadFails \/ CloseClient

-----------------------------------------------------------------------------
(* The clients *)

\* The kernel completes connections whenever the socket is listening.
Connect(c) ==
    /\ peer[c] = "new"
    /\ server \notin {"start", "failed"}
    /\ peer' = [peer EXCEPT ![c] = "up"]
    /\ backlog' = backlog \cup {c}
    /\ UNCHANGED <<objectVars, server, cur, inbound, sent, hits, shut, crashed>>

\* What is sent on a connection that the server has closed is lost.
Open(c) == peer[c] = "up" /\ (c \in backlog \/ c = cur)

SendText(c, text) ==
    /\ Open(c)
    /\ sent < MaxSends
    /\ sent' = sent + 1
    /\ inbound' = [inbound EXCEPT ![c] = Append(@, text)]
    /\ UNCHANGED <<objectVars, serverVars, peer, hits, shut, crashed>>

\* The client has seen a hit and answers it.
Resume(c) ==
    /\ Open(c)
    /\ hits[c] > 0
    /\ hits' = [hits EXCEPT ![c] = @ - 1]
    /\ inbound' = [inbound EXCEPT ![c] = Append(@, Continue)]
    /\ UNCHANGED <<objectVars, serverVars, peer, sent, shut, crashed>>

Leave(c) ==
    /\ "leave" \in Faults
    /\ peer[c] = "up"
    /\ peer' = [peer EXCEPT ![c] = "gone"]
    /\ UNCHANGED <<objectVars, serverVars, inbound, sent, hits, shut, crashed>>

ClientStep(c) ==
    \/ Connect(c) \/ Resume(c) \/ Leave(c)
    \/ \E text \in Texts : SendText(c, text)

-----------------------------------------------------------------------------
(* Shutdown(), called by a third thread *)

SlipShutdownStore ==      \* the flag alone, nobody is woken
    /\ shut = "no"
    /\ serverStop' = TRUE
    /\ shut' = "done"
    /\ UNCHANGED <<commands, count, tunnel, serverVars, clientVars, crashed>>

ShutdownStore ==
    /\ shut = "no"
    /\ serverStop' = TRUE
    /\ shut' = "stored"
    /\ UNCHANGED <<commands, count, tunnel, serverVars, clientVars, crashed>>

ShutdownSignal ==
    /\ shut = "stored"
    /\ count' = count + 1
    /\ shut' = "done"
    /\ UNCHANGED <<serverStop, commands, tunnel, serverVars, clientVars, crashed>>
-----------------------------------------------------------------------------

\* The types of the variables above.
ServerTypeOK ==
    /\ serverStop \in BOOLEAN /\ crashed \in BOOLEAN
    /\ commands \in Seq(Commands)
    /\ count \in Nat
    /\ tunnel \in Conns \cup {NoConn} /\ cur \in Conns \cup {NoConn}
    /\ server \in ServerPlaces
    /\ server \in {"open", "read", "signal", "close"} => cur \in Conns
    /\ backlog \subseteq Conns
    /\ peer \in [Conns -> {"new", "up", "gone"}]
    /\ inbound \in [Conns -> Seq(Texts)]
    /\ sent \in Nat
    /\ hits \in [Conns -> Nat]
    /\ shut \in {"no", "stored", "done"}
=============================================================================
