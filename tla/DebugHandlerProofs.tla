------------------------- MODULE DebugHandlerProofs -------------------------
(***************************************************************************)
(* Proofs about DebugHandler.tla, for every set of connections, lines and  *)
(* names, and every bound.                                                 *)
(***************************************************************************)
EXTENDS DebugHandler, TLAPS

-----------------------------------------------------------------------------
(* Types *)

\* What a command is.
LEMMA CommandTypes ==
    ASSUME NEW cmd \in Commands
    PROVE  /\ cmd.op \in {"break", "read", "continue"}
           /\ cmd.op = "break" => cmd.line \in Lines
           /\ cmd.op = "read" => cmd.var \in Vars
BY DEF Commands, Break, Read, Continue

\* The server thread, the clients and the caller of Shutdown() keep the types.
LEMMA ServerTypes ==
    ASSUME ServerTypeOK, ServerStep \/ AcceptThrows
    PROVE  ServerTypeOK'
<1> USE DEF ServerTypeOK
<1>1. CASE Start
    BY <1>1 DEF Start, ServerPlaces, clientVars
<1>2. CASE LoopTest
    BY <1>2 DEF LoopTest, ServerPlaces, clientVars, objectVars
<1>3. CASE OpenTunnel
    BY <1>3 DEF OpenTunnel, ServerPlaces, clientVars
<1>4. ASSUME NEW c \in Conns, Accept(c) PROVE ServerTypeOK'
    BY <1>4 DEF Accept, ServerPlaces, clientVars, objectVars
<1>5. ASSUME NEW cmd \in Commands, ReadCommand(cmd) PROVE ServerTypeOK'
    <2>1. cur \in Conns /\ inbound[cur] \in Seq(Texts) /\ inbound[cur] # <<>>
        BY <1>5 DEF ReadCommand
    <2>2. Tail(inbound[cur]) \in Seq(Texts) /\ Append(commands, cmd) \in Seq(Commands)
        BY <2>1
    <2> QED
        BY <1>5, <2>1, <2>2 DEF ReadCommand, ServerPlaces
<1>6. ASSUME NEW o \in Others, ReadOther(o) PROVE ServerTypeOK'
    <2>1. cur \in Conns /\ inbound[cur] \in Seq(Texts) /\ inbound[cur] # <<>>
        BY <1>6 DEF ReadOther
    <2>2. Tail(inbound[cur]) \in Seq(Texts)
        BY <2>1
    <2> QED
        BY <1>6, <2>1, <2>2 DEF ReadOther, ServerPlaces
<1>7. CASE SignalCommand
    BY <1>7 DEF SignalCommand, ServerPlaces, clientVars
<1>8. CASE ReadFails
    BY <1>8 DEF ReadFails, ServerPlaces, clientVars, objectVars
<1>9. CASE CloseClient
    BY <1>9 DEF CloseClient, ServerPlaces, clientVars, objectVars
<1>10. CASE AcceptThrows
    BY <1>10 DEF AcceptThrows, clientVars, objectVars, serverVars
<1> QED
    BY <1>1, <1>2, <1>3, <1>4, <1>5, <1>6, <1>7, <1>8, <1>9, <1>10 DEF ServerStep

LEMMA ClientTypes ==
    ASSUME ServerTypeOK, NEW c \in Conns, ClientStep(c)
    PROVE  ServerTypeOK'
<1> USE DEF ServerTypeOK
<1>1. CASE Connect(c)
    BY <1>1 DEF Connect, objectVars
<1>2. CASE Resume(c)
    <2>0. Continue \in Texts /\ inbound[c] \in Seq(Texts)
        BY DEF Texts, Commands
    <2>1. Append(inbound[c], Continue) \in Seq(Texts)
        BY <2>0
    <2>2. hits[c] - 1 \in Nat
        BY <1>2 DEF Resume
    <2> QED
        BY <1>2, <2>1, <2>2 DEF Resume, objectVars, serverVars
<1>3. CASE Leave(c)
    BY <1>3 DEF Leave, objectVars, serverVars
<1>4. ASSUME NEW text \in Texts, SendText(c, text) PROVE ServerTypeOK'
    <2>1. Append(inbound[c], text) \in Seq(Texts)
        OBVIOUS
    <2> QED
        BY <1>4, <2>1 DEF SendText, objectVars, serverVars
<1> QED
    BY <1>1, <1>2, <1>3, <1>4 DEF ClientStep

LEMMA ShutdownTypes ==
    ASSUME ServerTypeOK, ShutdownStore \/ ShutdownSignal
    PROVE  ServerTypeOK'
<1>1. CASE ShutdownStore
    BY <1>1 DEF ServerTypeOK, ShutdownStore, serverVars, clientVars
<1>2. CASE ShutdownSignal
    BY <1>2 DEF ServerTypeOK, ShutdownSignal, serverVars, clientVars
<1> QED
    BY <1>1, <1>2

\* An assignment to fields of the activation on top.
LEMMA FrameUpdate ==
    ASSUME frame \in [1 .. MaxDepth -> Frame], NEW d \in 1 .. MaxDepth, NEW f \in Frame
    PROVE  [frame EXCEPT ![d] = f] \in [1 .. MaxDepth -> Frame]
OBVIOUS

\* The thread that runs the script keeps the types.
LEMMA HandlerTypes ==
    ASSUME TypeOK, Script \/ Handler
    PROVE  TypeOK'
<1> USE BoundsAssumption, VarsAssumption, MaxRunsAssumption DEF TypeOK
<1>0. depth > 0 => /\ depth \in 1 .. MaxDepth /\ Top \in Frame
                   /\ Top = frame[depth]
    BY DEF Top
<1>1. ASSUME NEW l \in Lines, Arrive(l) PROVE TypeOK'
    <2>1. depth + 1 \in 1 .. MaxDepth
        BY <1>1 DEF Arrive
    <2>2. frame' \in [1 .. MaxDepth -> Frame]
        BY <1>1, <2>1 DEF Arrive, Frame, FramePlaces
    <2> QED
        BY <1>1, <2>1, <2>2 DEF Arrive, ServerTypeOK, objectVars, serverVars, clientVars
<1>2. CASE TakeTunnel
    <2>1. CASE UNCHANGED frame
        BY <1>2, <2>1 DEF TakeTunnel, ServerTypeOK, objectVars, serverVars, clientVars
    <2>2. CASE frame' = [frame EXCEPT
                  ![depth].at = IF At("hit") THEN "hitWrite" ELSE "replyWrite",
                  ![depth].ptr = tunnel]
        <3> DEFINE place == IF At("hit") THEN "hitWrite" ELSE "replyWrite"
        <3>1. /\ depth \in 1 .. MaxDepth /\ place \in FramePlaces
              /\ tunnel \in Conns \cup {NoConn}
            BY <1>2, <1>0 DEF TakeTunnel, At, FramePlaces, ServerTypeOK
        <3>2. frame' = [frame EXCEPT ![depth].at = place, ![depth].ptr = tunnel]
            BY <2>2
        <3> HIDE DEF place
        <3>3. frame' \in [1 .. MaxDepth -> Frame]
            BY <3>1, <3>2 DEF Frame
        <3> QED
            BY <1>2, <3>3 DEF TakeTunnel, ServerTypeOK, objectVars, serverVars, clientVars
    <2> QED
        BY <1>2, <2>1, <2>2 DEF TakeTunnel
<1>3. CASE Write
    <2>1. frame' \in [1 .. MaxDepth -> Frame]
        <3>1. CASE UNCHANGED frame
            BY <3>1
        <3>2. CASE Goto("drain")
            BY <3>2, <1>3, <1>0 DEF Write, Goto, At, Frame, FramePlaces
        <3> QED
            BY <1>3, <3>1, <3>2 DEF Write
    <2>2. hits' \in [Conns -> Nat]
        <3>1. CASE UNCHANGED hits
            BY <3>1 DEF ServerTypeOK
        <3>2. CASE Usable(Top.ptr) /\ hits' = [hits EXCEPT ![Top.ptr] = @ + 1]
            <4> DEFINE c == Top.ptr
            <4>1. c \in Conns /\ hits' = [hits EXCEPT ![c] = @ + 1]
                BY <3>2, <1>3, <1>0 DEF Write, At, Usable, Frame
            <4>2. hits \in [Conns -> Nat]
                BY DEF ServerTypeOK
            <4> HIDE DEF c
            <4> QED
                BY <4>1, <4>2
        <3> QED
            BY <1>3, <3>1, <3>2 DEF Write
    <2> QED
        BY <1>3, <2>1, <2>2 DEF Write, ServerTypeOK, objectVars, serverVars
<1>4. CASE Obey
    <2> DEFINE cmd == Head(commands)
    <2>1. commands \in Seq(Commands) /\ commands # <<>>
        BY <1>4 DEF Obey, ServerTypeOK
    <2>2. cmd \in Commands /\ Tail(commands) \in Seq(Commands)
        BY <2>1
    <2>3. /\ cmd.op = "break" => cmd.line \in Lines
          /\ cmd.op = "read" => cmd.var \in Vars
        BY <2>2, CommandTypes
    <2>4. frame' \in [1 .. MaxDepth -> Frame] /\ bps' \subseteq Lines
        <3>1. CASE cmd.op = "break" /\ bps' = bps \cup {cmd.line} /\ UNCHANGED frame
            BY <3>1, <2>3
        <3>2. CASE frame' = [frame EXCEPT ![depth].block = FALSE] /\ UNCHANGED bps
            BY <3>2, <1>4, <1>0 DEF Obey, At, Frame
        <3>3. CASE /\ cmd.op = "read"
                   /\ frame' = [frame EXCEPT ![depth].at = "eval", ![depth].asked = cmd.var]
                   /\ UNCHANGED bps
            BY <3>3, <2>3, <1>4, <1>0 DEF Obey, At, Frame, FramePlaces
        <3> QED
            BY <1>4, <3>1, <3>2, <3>3 DEF Obey
    <2> QED
        BY <1>4, <2>2, <2>4 DEF Obey, ServerTypeOK, serverVars, clientVars
<1>5. CASE Evaluated
    <2>1. frame' \in [1 .. MaxDepth -> Frame]
        BY <1>5, <1>0 DEF Evaluated, At, Frame, FramePlaces
    <2> QED
        BY <1>5, <2>1 DEF Evaluated, ServerTypeOK, objectVars, serverVars, clientVars
<1>6. CASE Drained
    <2>1. frame' \in [1 .. MaxDepth -> Frame]
        BY <1>6, <1>0 DEF Drained, Goto, At, Frame, FramePlaces
    <2> QED
        BY <1>6, <2>1 DEF Drained, ServerTypeOK, objectVars, serverVars, clientVars
<1>7. CASE Check
    <2>1. frame' \in [1 .. MaxDepth -> Frame] /\ depth' \in 0 .. MaxDepth
        BY <1>7, <1>0 DEF Check, Goto, At, Frame, FramePlaces
    <2> QED
        BY <1>7, <2>1 DEF Check, ServerTypeOK, objectVars, serverVars, clientVars
<1>8. CASE Wait
    <2>1. frame' \in [1 .. MaxDepth -> Frame]
        BY <1>8, <1>0 DEF Wait, Goto, At, Frame, FramePlaces
    <2> QED
        BY <1>8, <2>1 DEF Wait, ServerTypeOK, serverVars, clientVars
<1> QED
    BY <1>1, <1>2, <1>3, <1>4, <1>5, <1>6, <1>7, <1>8 DEF Script, Handler, HandlerStep

LEMMA InitTypes == Init => TypeOK
<1> SUFFICES ASSUME Init PROVE TypeOK
    OBVIOUS
<1> USE DEF Init
<1>1. ServerTypeOK
    <2>1. <<>> \in Seq(Commands) /\ <<>> \in Seq(Texts)
        OBVIOUS
    <2>2. /\ inbound \in [Conns -> Seq(Texts)] /\ hits \in [Conns -> Nat]
          /\ peer \in [Conns -> {"new", "up", "gone"}]
        BY <2>1 DEF ServerInit
    <2> QED
        BY <2>1, <2>2 DEF ServerInit, ServerTypeOK, ServerPlaces
<1>2. frame \in [1 .. MaxDepth -> Frame]
    BY DEF Frame, FramePlaces
<1>3. bps \subseteq Lines /\ depth \in 0 .. MaxDepth /\ runs \in Nat
    BY BoundsAssumption
<1> QED
    BY <1>1, <1>2, <1>3 DEF TypeOK

LEMMA StepTypes ==
    ASSUME TypeOK, [Next]_vars
    PROVE  TypeOK'
<1>1. CASE Server
    BY <1>1, ServerTypes DEF Server, TypeOK, handlerVars
<1>2. CASE Shutdown
    BY <1>2, ShutdownTypes DEF Shutdown, TypeOK, handlerVars
<1>3. ASSUME NEW c \in Conns, Client(c) PROVE TypeOK'
    BY <1>3, ClientTypes DEF Client, TypeOK, handlerVars
<1>4. CASE Script \/ Handler
    BY <1>4, HandlerTypes
<1>5. CASE UNCHANGED vars
    BY <1>5 DEF vars, objectVars, serverVars, clientVars, handlerVars, TypeOK, ServerTypeOK
<1> QED
    BY <1>1, <1>2, <1>3, <1>4, <1>5 DEF Next

\* The variables keep their types: no thread can bring the semaphore's counter
\* below zero, and no activation of the handler is lost track of.
THEOREM TypeCorrect == SafeSpec => []TypeOK
BY InitTypes, StepTypes, PTL DEF SafeSpec

-----------------------------------------------------------------------------
(* Wakeups *)

WakeInv == TypeOK /\ FramesOK /\ CommandsWake /\ ShutdownWakes

\* A step that leaves the script alone keeps the frames.
LEMMA FramesKept ==
    ASSUME FramesOK, UNCHANGED handlerVars
    PROVE  FramesOK' /\ (At("wait")' <=> At("wait")) /\ (At("check")' <=> At("check"))
BY DEF handlerVars, FramesOK, At, Top

LEMMA ServerWakes ==
    ASSUME WakeInv, ServerStep \/ AcceptThrows, UNCHANGED handlerVars
    PROVE  CommandsWake' /\ ShutdownWakes'
<1> USE DEF WakeInv, CommandsWake, ShutdownWakes
<1>0. /\ At("wait")' <=> At("wait")
      /\ At("check")' <=> At("check")
      /\ count \in Nat
    BY FramesKept DEF TypeOK, ServerTypeOK
<1>1. CASE Start
    BY <1>0, <1>1 DEF Start
<1>2. ASSUME NEW cmd \in Commands, ReadCommand(cmd) PROVE CommandsWake' /\ ShutdownWakes'
    BY <1>0, <1>2 DEF ReadCommand
<1>3. CASE SignalCommand
    BY <1>0, <1>3 DEF SignalCommand
<1>4. ASSUME /\ UNCHANGED <<serverStop, commands, count, shut>>
             /\ server # "signal"
      PROVE  CommandsWake' /\ ShutdownWakes'
    BY <1>0, <1>4
<1>5. ASSUME NEW c \in Conns, Accept(c) PROVE CommandsWake' /\ ShutdownWakes'
    BY <1>4, <1>5 DEF Accept, objectVars
<1>6. ASSUME NEW o \in Others, ReadOther(o) PROVE CommandsWake' /\ ShutdownWakes'
    BY <1>4, <1>6 DEF ReadOther
<1>7. CASE LoopTest \/ OpenTunnel \/ ReadFails \/ CloseClient \/ AcceptThrows
    BY <1>4, <1>7 DEF LoopTest, OpenTunnel, ReadFails, CloseClient, AcceptThrows, objectVars
<1> QED
    BY <1>1, <1>2, <1>3, <1>5, <1>6, <1>7 DEF ServerStep

LEMMA OtherWakes ==
    ASSUME WakeInv, UNCHANGED handlerVars,
           \/ ShutdownStore \/ ShutdownSignal
           \/ \E c \in Conns : ClientStep(c)
    PROVE  CommandsWake' /\ ShutdownWakes'
<1> USE DEF WakeInv, CommandsWake, ShutdownWakes
<1>0. /\ At("wait")' <=> At("wait")
      /\ At("check")' <=> At("check")
      /\ count \in Nat
    BY FramesKept DEF TypeOK, ServerTypeOK
<1>1. CASE ShutdownStore
    BY <1>0, <1>1 DEF ShutdownStore, serverVars
<1>2. CASE ShutdownSignal
    BY <1>0, <1>2 DEF ShutdownSignal, serverVars
<1>3. ASSUME NEW c \in Conns, ClientStep(c)
      PROVE  UNCHANGED <<objectVars, server, shut>>
    BY <1>3 DEF ClientStep, Connect, Resume, Leave, SendText, serverVars
<1>4. CASE \E c \in Conns : ClientStep(c)
    BY <1>0, <1>3, <1>4 DEF objectVars
<1> QED
    BY <1>1, <1>2, <1>4

\* What the script's thread does, one case per place it can be at.
LEMMA HandlerWakes ==
    ASSUME WakeInv, TypeOK', Script \/ Handler
    PROVE  FramesOK' /\ CommandsWake' /\ ShutdownWakes'
<1> USE BoundsAssumption, VarsAssumption
    DEF WakeInv, TypeOK
<1> DEFINE Good == FramesOK' /\ CommandsWake' /\ ShutdownWakes'
<1>0. /\ depth \in 0 .. MaxDepth /\ count \in Nat
      /\ depth > 0 => depth \in 1 .. MaxDepth /\ Top \in Frame
    BY DEF ServerTypeOK, Top
<1>1. ASSUME NEW l \in Lines, Arrive(l) PROVE Good
    <2>1. /\ frame'[depth'].asked = NoVar
          /\ frame'[depth'].at \in {"hit", "drain"}
          /\ depth' = depth + 1 /\ depth' \in 1 .. MaxDepth
          /\ \A d \in 1 .. depth : frame'[d] = frame[d]
          /\ depth > 0 => frame[depth].at = "eval"
        BY <1>1, <1>0 DEF Arrive, At, Top
    <2>2. FramesOK'
        BY <2>1, <1>0 DEF FramesOK
    <2> QED
        BY <2>1, <2>2 DEF CommandsWake, ShutdownWakes, At, Top
<1>2. ASSUME NEW place \in {"drain", "check", "wait", "hitWrite", "replyWrite", "reply"},
             depth > 0, depth' = depth,
             \/ Top.at \notin {"eval", "reply"}
             \/ Top.at = "eval" /\ frame'[depth].asked = NoVar
             \/ Top.at = "reply" /\ place \in {"replyWrite"},
             frame'[depth].at = place,
             Top.at # "eval" => frame'[depth].asked = frame[depth].asked,
             \A d \in 1 .. depth - 1 : frame'[d] = frame[d]
      PROVE  FramesOK'
    BY <1>2, <1>0 DEF FramesOK, Top
<1>3. CASE TakeTunnel
    <2>1. CASE UNCHANGED frame
        <3>1. UNCHANGED <<frame, depth, commands, count, server, serverStop, shut>>
            BY <1>3, <2>1 DEF TakeTunnel, objectVars, serverVars
        <3> QED
            BY <3>1 DEF FramesOK, CommandsWake, ShutdownWakes, At, Top
    <2>2. CASE frame' = [frame EXCEPT
                  ![depth].at = IF At("hit") THEN "hitWrite" ELSE "replyWrite",
                  ![depth].ptr = tunnel]
        <3>1. /\ depth > 0 /\ depth' = depth
              /\ frame'[depth].at = IF At("hit") THEN "hitWrite" ELSE "replyWrite"
              /\ frame'[depth].asked = frame[depth].asked
              /\ Top.at \in {"hit", "reply"}
              /\ Top.at = "reply" => frame'[depth].at = "replyWrite"
              /\ \A d \in 1 .. depth - 1 : frame'[d] = frame[d]
            BY <1>3, <2>2, <1>0 DEF TakeTunnel, At, Top, Frame
        <3>2. FramesOK'
            BY <3>1, <1>2
        <3> QED
            BY <3>1, <3>2 DEF CommandsWake, ShutdownWakes, At, Top
    <2> QED
        BY <1>3, <2>1, <2>2 DEF TakeTunnel
<1>4. CASE Write
    <2>1. CASE UNCHANGED frame
        <3>1. UNCHANGED <<frame, depth, commands, count, server, serverStop, shut>>
            BY <1>4, <2>1 DEF Write, objectVars, serverVars
        <3> QED
            BY <3>1 DEF FramesOK, CommandsWake, ShutdownWakes, At, Top
    <2>2. CASE Goto("drain")
        <3>1. /\ depth > 0 /\ depth' = depth /\ frame'[depth].at = "drain"
              /\ frame'[depth].asked = frame[depth].asked
              /\ Top.at \notin {"eval", "reply"}
              /\ \A d \in 1 .. depth - 1 : frame'[d] = frame[d]
            BY <1>4, <2>2, <1>0 DEF Write, Goto, At, Top, Frame
        <3>2. FramesOK'
            BY <3>1, <1>2
        <3> QED
            BY <3>1, <3>2 DEF CommandsWake, ShutdownWakes, At, Top
    <2> QED
        BY <1>4, <2>1, <2>2 DEF Write
<1>5. CASE Obey
    <2> DEFINE cmd == Head(commands)
    <2>1. cmd \in Commands
        BY <1>5 DEF Obey, ServerTypeOK
    <2>2. cmd.op = "read" => cmd.var # NoVar
        BY <2>1, CommandTypes
    <2>3. /\ depth > 0 /\ depth' = depth /\ frame[depth].at = "drain"
          /\ \A d \in 1 .. depth - 1 : frame'[d] = frame[d]
          /\ \/ frame'[depth].at = "drain" /\ frame'[depth].asked = frame[depth].asked
             \/ frame'[depth].at = "eval" /\ frame'[depth].asked # NoVar
        BY <1>5, <1>0, <2>2 DEF Obey, At, Top, Frame
    <2>4. FramesOK'
        BY <2>3, <1>0 DEF FramesOK
    <2> QED
        BY <2>3, <2>4 DEF CommandsWake, ShutdownWakes, At, Top
<1>6. CASE Evaluated
    <2>1. /\ depth > 0 /\ depth' = depth /\ frame'[depth].at = "reply"
          /\ frame'[depth].asked = NoVar /\ Top.at = "eval"
          /\ \A d \in 1 .. depth - 1 : frame'[d] = frame[d]
        BY <1>6, <1>0 DEF Evaluated, At, Top, Frame
    <2>2. FramesOK'
        BY <2>1, <1>2
    <2> QED
        BY <2>1, <2>2 DEF CommandsWake, ShutdownWakes, At, Top
<1>7. CASE Drained
    <2>1. /\ depth > 0 /\ depth' = depth /\ frame'[depth].at = "check"
          /\ frame'[depth].asked = frame[depth].asked /\ Top.at = "drain"
          /\ \A d \in 1 .. depth - 1 : frame'[d] = frame[d]
          /\ commands' = <<>>
        BY <1>7, <1>0 DEF Drained, Goto, At, Top, Frame, objectVars
    <2>2. FramesOK'
        BY <2>1, <1>2
    <2> QED
        BY <2>1, <2>2 DEF CommandsWake, ShutdownWakes, At, Top
<1>8. CASE Check
    <2>0. UNCHANGED <<commands, count, server, serverStop, shut>> /\ At("check")
        BY <1>8 DEF Check, objectVars, serverVars
    <2>1. CASE Top.block /\ ~serverStop
        <3>1. /\ depth > 0 /\ depth' = depth /\ frame'[depth].at = "wait"
              /\ frame'[depth].asked = frame[depth].asked /\ Top.at = "check"
              /\ \A d \in 1 .. depth - 1 : frame'[d] = frame[d]
            BY <1>8, <2>1, <1>0 DEF Check, Goto, At, Top, Frame
        <3>2. FramesOK'
            BY <3>1, <1>2
        <3> QED
            BY <2>0, <2>1, <3>1, <3>2 DEF CommandsWake, ShutdownWakes, At, Top
    <2>2. CASE ~(Top.block /\ ~serverStop)
        <3>1. depth' = depth - 1 /\ frame' = frame /\ depth > 0
            BY <1>8, <2>2 DEF Check, At
        <3>2. FramesOK' /\ (depth' > 0 => frame'[depth'].at = "eval")
            BY <3>1, <1>0 DEF FramesOK
        <3> QED
            BY <3>2 DEF CommandsWake, ShutdownWakes, At, Top
    <2> QED
        BY <2>1, <2>2
<1>9. CASE Wait
    <2>1. /\ depth > 0 /\ depth' = depth /\ frame'[depth].at = "drain"
          /\ frame'[depth].asked = frame[depth].asked /\ Top.at = "wait"
          /\ \A d \in 1 .. depth - 1 : frame'[d] = frame[d]
        BY <1>9, <1>0 DEF Wait, Goto, At, Top, Frame
    <2>2. FramesOK'
        BY <2>1, <1>2
    <2> QED
        BY <2>1, <2>2 DEF CommandsWake, ShutdownWakes, At, Top
<1> QED
    BY <1>1, <1>3, <1>4, <1>5, <1>6, <1>7, <1>8, <1>9 DEF Script, Handler, HandlerStep

LEMMA StepWakes ==
    ASSUME WakeInv, [Next]_vars
    PROVE  WakeInv'
<1>0. TypeOK'
    BY StepTypes DEF WakeInv
<1>1. CASE Server
    BY <1>0, <1>1, ServerWakes, FramesKept DEF Server, WakeInv
<1>2. CASE Shutdown \/ \E c \in Conns : Client(c)
    BY <1>0, <1>2, OtherWakes, FramesKept DEF Shutdown, Client, WakeInv
<1>3. CASE Script \/ Handler
    BY <1>0, <1>3, HandlerWakes DEF WakeInv
<1>4. CASE UNCHANGED vars
    BY <1>0, <1>4 DEF vars, objectVars, serverVars, clientVars, handlerVars,
                      WakeInv, FramesOK, CommandsWake, ShutdownWakes, At, Top
<1> QED
    BY <1>1, <1>2, <1>3, <1>4 DEF Next

LEMMA InitWakes == Init => WakeInv
BY InitTypes DEF Init, WakeInv, FramesOK, CommandsWake, ShutdownWakes, At

LEMMA Wakes == SafeSpec => []WakeInv
BY InitWakes, StepWakes, PTL DEF SafeSpec

\* A script that waits is woken by every command: the queue is never non-empty
\* beside a waiting script and an empty semaphore with no Signal() under way.
THEOREM CommandsWakeScript == SafeSpec => []CommandsWake
BY Wakes, PTL DEF WakeInv

\* A script that waits when the server is stopped has Shutdown()'s permit.
THEOREM ShutdownWakesScript == SafeSpec => []ShutdownWakes
BY Wakes, PTL DEF WakeInv

\* Activations nest: all but the innermost are evaluating a name.
THEOREM ActivationsNest == SafeSpec => []FramesOK
BY Wakes, PTL DEF WakeInv

-----------------------------------------------------------------------------
(* The session *)

\* What the session sees of the frames.
Held  == [d \in 1 .. MaxDepth |-> frame[d].block]
Asked == [d \in 1 .. MaxDepth |-> frame[d].asked]

\* Every step of the server thread, of a client or of Shutdown() is a step of
\* the session or none.
LEMMA OutsideRefines ==
    ASSUME TypeOK, UNCHANGED handlerVars,
           \/ ServerStep \/ AcceptThrows \/ ShutdownStore \/ ShutdownSignal
           \/ \E c \in Conns : ClientStep(c)
    PROVE  [Session!Next]_(Session!vars)
<1>0. UNCHANGED <<bps, depth, frame>>
    BY DEF handlerVars
<1>1. ASSUME UNCHANGED <<commands, serverStop>> PROVE UNCHANGED Session!vars
    BY <1>0, <1>1 DEF Session!vars
<1>2. CASE Start \/ ShutdownStore
    BY <1>0, <1>2 DEF Start, ShutdownStore, Session!Next, Session!Close
<1>3. ASSUME NEW cmd \in Commands, ReadCommand(cmd) PROVE Session!Next
    <2>1. cmd \in Session!Commands
        BY DEF Commands, Break, Read, Continue,
               Session!Commands, Session!Break, Session!Read, Session!Continue
    <2>2. Session!Issue(cmd)
        BY <1>0, <1>3 DEF ReadCommand, Session!Issue
    <2> QED
        BY <2>1, <2>2 DEF Session!Next
<1>4. CASE \/ LoopTest \/ OpenTunnel \/ SignalCommand \/ ReadFails \/ CloseClient
           \/ AcceptThrows \/ ShutdownSignal
    BY <1>1, <1>4 DEF LoopTest, OpenTunnel, SignalCommand, ReadFails, CloseClient,
                      AcceptThrows, ShutdownSignal, objectVars
<1>5. ASSUME NEW c \in Conns, Accept(c) \/ ClientStep(c) PROVE UNCHANGED Session!vars
    BY <1>1, <1>5 DEF Accept, ClientStep, Connect, Resume, Leave, SendText, objectVars
<1>6. ASSUME NEW o \in Others, ReadOther(o) PROVE UNCHANGED Session!vars
    BY <1>1, <1>6 DEF ReadOther
<1> QED
    BY <1>2, <1>3, <1>4, <1>1, <1>5, <1>6 DEF ServerStep

\* So is every step of the script's thread.
LEMMA HandlerRefines ==
    ASSUME WakeInv, Script \/ Handler
    PROVE  [Session!Next]_(Session!vars)
<1> USE BoundsAssumption, VarsAssumption DEF WakeInv, TypeOK
<1>0. /\ depth \in 0 .. MaxDepth
      /\ depth > 0 => depth \in 1 .. MaxDepth /\ Top \in Frame
      /\ frame \in [1 .. MaxDepth -> Frame]
      /\ depth > 0 => Asked[depth] = Top.asked /\ Held[depth] = Top.block
      /\ depth > 0 => (Top.at = "eval" <=> Top.asked # NoVar)
    BY DEF Top, FramesOK, Asked, Held
<1>1. ASSUME NEW l \in Lines, Arrive(l) PROVE Session!Arrive(l)
    <2>1. /\ depth < MaxDepth /\ depth' = depth + 1
          /\ depth > 0 => Asked[depth] \in Computed
          /\ UNCHANGED <<commands, bps, serverStop>>
        BY <1>1, <1>0 DEF Arrive, objectVars
    <2>2. /\ frame'[depth + 1].block = (l \in bps)
          /\ frame'[depth + 1].asked = NoVar
          /\ \A d \in 1 .. MaxDepth : d # depth + 1 => frame'[d] = frame[d]
        BY <1>1, <1>0, <2>1 DEF Arrive
    <2>3. /\ Held' = [Held EXCEPT ![depth + 1] = l \in bps]
          /\ Asked' = [Asked EXCEPT ![depth + 1] = NoVar]
        BY <2>2 DEF Held, Asked
    <2> QED
        BY <2>1, <2>3 DEF Session!Arrive, Held, Asked
<1>2. ASSUME UNCHANGED <<commands, bps, depth, serverStop>>,
             depth > 0,
             NEW place, NEW c,
             \/ UNCHANGED frame
             \/ frame' = [frame EXCEPT ![depth].at = place]
             \/ frame' = [frame EXCEPT ![depth].at = place, ![depth].ptr = c]
      PROVE  UNCHANGED Session!vars
    <2>1. \A d \in 1 .. MaxDepth : /\ frame'[d].block = frame[d].block
                                  /\ frame'[d].asked = frame[d].asked
        BY <1>2, <1>0 DEF Frame
    <2>2. Held' = Held /\ Asked' = Asked
        BY <2>1 DEF Held, Asked
    <2> QED
        BY <1>2, <2>2 DEF Session!vars, Held, Asked
<1>3. CASE TakeTunnel \/ Write
    <2>1. depth > 0 /\ UNCHANGED <<commands, bps, depth, serverStop>>
        BY <1>3 DEF TakeTunnel, Write, At, objectVars
    <2>2. \/ UNCHANGED frame
          \/ frame' = [frame EXCEPT ![depth].at = "drain"]
          \/ frame' = [frame EXCEPT
                ![depth].at = IF At("hit") THEN "hitWrite" ELSE "replyWrite",
                ![depth].ptr = tunnel]
        BY <1>3 DEF TakeTunnel, Write, Goto
    <2> QED
        BY <1>2, <2>1, <2>2
<1>4. CASE Drained \/ Wait
    <2>1. depth > 0 /\ UNCHANGED <<commands, bps, depth, serverStop>>
        BY <1>4 DEF Drained, Wait, At, objectVars
    <2>2. \/ frame' = [frame EXCEPT ![depth].at = "drain"]
          \/ frame' = [frame EXCEPT ![depth].at = "check"]
        BY <1>4 DEF Drained, Wait, Goto
    <2> QED
        BY <1>2, <2>1, <2>2
<1>5. CASE Obey
    <2> DEFINE cmd == Head(commands)
    <2>1. /\ depth > 0 /\ Asked[depth] = NoVar /\ commands # <<>>
          /\ commands' = Tail(commands) /\ UNCHANGED <<depth, serverStop>>
        BY <1>5, <1>0 DEF Obey, At, Top
    <2>2. \/ /\ cmd.op = "break"
             /\ bps' = bps \cup {cmd.line}
             /\ Held' = Held /\ Asked' = Asked
          \/ /\ cmd.op = "continue"
             /\ Held' = [Held EXCEPT ![depth] = FALSE]
             /\ Asked' = Asked /\ UNCHANGED bps
          \/ /\ cmd.op = "read"
             /\ Asked' = [Asked EXCEPT ![depth] = cmd.var]
             /\ Held' = Held /\ UNCHANGED bps
        <3>1. CASE cmd.op = "break" /\ bps' = bps \cup {cmd.line} /\ UNCHANGED frame
            BY <3>1 DEF Held, Asked
        <3>2. CASE /\ cmd.op = "continue"
                   /\ frame' = [frame EXCEPT ![depth].block = FALSE]
                   /\ UNCHANGED bps
            <4>1. /\ frame'[depth].block = FALSE
                  /\ \A d \in 1 .. MaxDepth : d # depth => frame'[d].block = frame[d].block
                  /\ \A d \in 1 .. MaxDepth : frame'[d].asked = frame[d].asked
                BY <3>2, <1>0, <2>1 DEF Frame
            <4> QED
                BY <3>2, <4>1 DEF Held, Asked
        <3>3. CASE /\ cmd.op = "read"
                   /\ frame' = [frame EXCEPT ![depth].at = "eval", ![depth].asked = cmd.var]
                   /\ UNCHANGED bps
            <4>1. /\ frame'[depth].asked = cmd.var
                  /\ \A d \in 1 .. MaxDepth : d # depth => frame'[d].asked = frame[d].asked
                  /\ \A d \in 1 .. MaxDepth : frame'[d].block = frame[d].block
                BY <3>3, <1>0, <2>1 DEF Frame
            <4> QED
                BY <3>3, <4>1 DEF Held, Asked
        <3> QED
            BY <1>5, <3>1, <3>2, <3>3 DEF Obey
    <2>3. Session!Obey
        BY <2>1, <2>2 DEF Session!Obey, Session!Idle, Held, Asked
    <2> QED
        BY <2>3 DEF Session!Next
<1>6. CASE Evaluated
    <2>1. /\ depth > 0 /\ Asked[depth] # NoVar
          /\ UNCHANGED <<commands, bps, depth, serverStop>>
        BY <1>6, <1>0 DEF Evaluated, At, Top, objectVars
    <2>2. /\ frame'[depth].asked = NoVar
          /\ \A d \in 1 .. MaxDepth : d # depth => frame'[d].asked = frame[d].asked
          /\ \A d \in 1 .. MaxDepth : frame'[d].block = frame[d].block
        BY <1>6, <1>0, <2>1 DEF Evaluated, Frame
    <2>3. Asked' = [Asked EXCEPT ![depth] = NoVar] /\ Held' = Held
        BY <2>2 DEF Held, Asked
    <2>4. Session!Answer
        BY <2>1, <2>3 DEF Session!Answer, Session!Idle, Held, Asked
    <2> QED
        BY <2>4 DEF Session!Next
<1>7. CASE Check
    <2>1. /\ depth > 0 /\ Asked[depth] = NoVar
          /\ UNCHANGED <<commands, bps, serverStop>>
        BY <1>7, <1>0 DEF Check, At, Top, objectVars
    <2>2. CASE Top.block /\ ~serverStop
        <3>1. depth' = depth /\ frame' = [frame EXCEPT ![depth].at = "wait"]
            BY <1>7, <2>2 DEF Check, Goto
        <3> QED
            BY <1>2, <2>1, <3>1
    <2>3. CASE ~(Top.block /\ ~serverStop)
        <3>1. /\ depth' = depth - 1 /\ Held' = Held /\ Asked' = Asked
              /\ ~Held[depth] \/ serverStop
            BY <1>7, <2>1, <2>3, <1>0 DEF Check, Held, Asked
        <3>2. Session!GoOn
            BY <2>1, <3>1 DEF Session!GoOn, Session!Idle, Held, Asked
        <3> QED
            BY <3>2 DEF Session!Next
    <2> QED
        BY <2>2, <2>3
<1> QED
    BY <1>1, <1>3, <1>4, <1>5, <1>6, <1>7
       DEF Script, Handler, HandlerStep, Session!Next

\* The sockets, the two threads, the queue and the semaphore together give the
\* session of DebugSession.tla: commands are obeyed in order, once each, by the
\* innermost activation, and a held script goes on only after a Continue or
\* once the server is being stopped.
THEOREM RefinesSession == SafeSpec => Session!SafeSpec
<1>1. Init => Session!Init
    BY DEF Init, ServerInit, Session!Init
<1>2. ASSUME WakeInv, [Next]_vars PROVE [Session!Next]_(Session!vars)
    <2>1. CASE Server \/ Shutdown \/ \E c \in Conns : Client(c)
        BY <1>2, <2>1, OutsideRefines DEF Server, Shutdown, Client, WakeInv
    <2>2. CASE Script \/ Handler
        BY <1>2, <2>2, HandlerRefines
    <2>3. CASE UNCHANGED vars
        BY <2>3 DEF vars, objectVars, handlerVars, Session!vars
    <2> QED
        BY <1>2, <2>1, <2>2, <2>3 DEF Next
<1> QED
    BY <1>1, <1>2, Wakes, PTL DEF SafeSpec, Session!SafeSpec

-----------------------------------------------------------------------------
(* The tunnel *)

\* While a client is served, m_CurrentTunnel is the tunnel of its connection.
ServedTunnel == server \in {"read", "signal"} => tunnel = cur

LEMMA TunnelServed == SafeSpec => []ServedTunnel
<1>1. Init => ServedTunnel
    BY DEF Init, ServerInit, ServedTunnel
<1>2. ServedTunnel /\ [Next]_vars => ServedTunnel'
    <2> SUFFICES ASSUME ServedTunnel, [Next]_vars PROVE ServedTunnel'
        OBVIOUS
    <2>1. CASE Server
        <3>1. CASE Start \/ LoopTest \/ OpenTunnel \/ \E c \in Conns : Accept(c)
            BY <3>1 DEF Start, LoopTest, OpenTunnel, Accept, objectVars, ServedTunnel
        <3>2. CASE \E cmd \in Commands : ReadCommand(cmd)
            BY <3>2 DEF ReadCommand, ServedTunnel
        <3>3. CASE \E o \in Others : ReadOther(o)
            BY <3>3 DEF ReadOther, ServedTunnel
        <3>4. CASE SignalCommand \/ ReadFails \/ CloseClient \/ AcceptThrows
            BY <3>4 DEF SignalCommand, ReadFails, CloseClient, AcceptThrows,
                        objectVars, serverVars, ServedTunnel
        <3> QED
            BY <2>1, <3>1, <3>2, <3>3, <3>4 DEF Server, ServerStep
    <2>2. CASE Shutdown
        BY <2>2 DEF Shutdown, ShutdownStore, ShutdownSignal, serverVars, ServedTunnel
    <2>3. ASSUME NEW c \in Conns, Client(c) PROVE ServedTunnel'
        BY <2>3 DEF Client, ClientStep, Connect, SendText, Resume, Leave,
                    objectVars, serverVars, ServedTunnel
    <2>4. CASE Script
        BY <2>4 DEF Script, Arrive, objectVars, serverVars, ServedTunnel
    <2>5. CASE Handler
        BY <2>5 DEF Handler, HandlerStep, TakeTunnel, Write, Obey, Evaluated, Drained,
                    Check, Wait, objectVars, serverVars, ServedTunnel
    <2>6. CASE UNCHANGED vars
        BY <2>6 DEF vars, objectVars, serverVars, ServedTunnel
    <2> QED
        BY <2>1, <2>2, <2>3, <2>4, <2>5, <2>6 DEF Next
<1> QED
    BY <1>1, <1>2, PTL DEF SafeSpec

\* The script's unsynchronised use of m_CurrentTunnel ends the process only
\* between two clients, before the first one, or in a message that was begun for
\* a client that is not served any more: whatever the clients and the sockets do.
THEOREM ServedIsSafe == SafeSpec => DiesBetweenClients
<1> DEFINE Excused == \/ server \notin {"read", "signal"}
                      \/ (At("hitWrite") \/ At("replyWrite")) /\ Top.ptr # cur
<1>1. ASSUME ServedTunnel, TypeOK, [Next]_vars, crashed' # crashed PROVE Excused
    <2> SUFFICES ASSUME server \in {"read", "signal"}
                 PROVE  (At("hitWrite") \/ At("replyWrite")) /\ Top.ptr # cur
        OBVIOUS
    <2>1. tunnel = cur /\ cur \in Conns /\ cur # NoConn
        BY <1>1, ConnsAssumption DEF ServedTunnel, TypeOK, ServerTypeOK
    <2>2. CASE TakeTunnel
        BY <2>1, <2>2, <1>1 DEF TakeTunnel
    <2>3. CASE Write
        BY <2>1, <2>3, <1>1 DEF Write, Usable
    <2>4. CASE Server \/ Shutdown \/ Script \/ \E c \in Conns : Client(c)
        BY <2>4, <1>1 DEF Server, ServerStep, Start, LoopTest, OpenTunnel, Accept,
                    ReadCommand, ReadOther, SignalCommand, ReadFails, CloseClient,
                    AcceptThrows, Shutdown, ShutdownStore, ShutdownSignal, Script, Arrive,
                    Client, ClientStep, Connect, SendText, Resume, Leave
    <2>5. CASE Obey \/ Evaluated \/ Drained \/ Check \/ Wait
        BY <2>5, <1>1 DEF Obey, Evaluated, Drained, Check, Wait
    <2>6. CASE UNCHANGED vars
        BY <2>6, <1>1 DEF vars
    <2> QED
        BY <1>1, <2>2, <2>3, <2>4, <2>5, <2>6 DEF Next, Handler, HandlerStep
<1>2. ServedTunnel /\ TypeOK /\ [Next]_vars => [crashed' # crashed => Excused]_vars
    BY <1>1
<1>3. SafeSpec => []TypeOK
    BY TypeCorrect
<1> QED
    BY <1>2, <1>3, TunnelServed, PTL DEF SafeSpec, DiesBetweenClients
=============================================================================
