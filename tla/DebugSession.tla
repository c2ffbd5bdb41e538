---------------------------- MODULE DebugSession ----------------------------
(***************************************************************************)
(* What a debugging session promises, with no sockets, threads or          *)
(* semaphores in sight.                                                    *)
(*                                                                         *)
(* Commands go into a mailbox and are obeyed one at a time, in the order   *)
(* they came, each exactly once.  They are obeyed only by a script that    *)
(* has come to a line: by the innermost activation of the debug handler,   *)
(* when it is not busy evaluating a variable.  A script that came to a     *)
(* breakpoint goes on only after a Continue or once the session is closed; *)
(* and no command waits for ever while the script is held at a line.       *)
(***************************************************************************)
EXTENDS Naturals, Sequences

CONSTANTS Lines,      \* lines of the script, file name included
          Vars,       \* names a client can ask for
          NoVar,      \* not a name
          Computed,   \* names whose evaluation runs script code
          MaxDepth    \* bound on handler activations inside one another

VARIABLES mailbox,    \* commands not yet obeyed
          bps,        \* lines with a breakpoint
          depth,      \* number of activations
          held,       \* held[d]: activation d waits for a Continue
          asked,      \* asked[d]: the name activation d is evaluating
          closed      \* the session is being closed

vars == <<mailbox, bps, depth, held, asked, closed>>

Break(l) == [op |-> "break", line |-> l]
Read(v)  == [op |-> "read", var |-> v]
Continue == [op |-> "continue"]

Commands == {Break(l) : l \in Lines} \cup {Read(v) : v \in Vars} \cup {Continue}

Init ==
    /\ mailbox = <<>>
    /\ bps = {}
    /\ depth = 0
    /\ held = [d \in 1 .. MaxDepth |-> FALSE]
    /\ asked = [d \in 1 .. MaxDepth |-> NoVar]
    /\ closed = FALSE

Idle == depth > 0 /\ asked[depth] = NoVar

\* A client asks for something.
Issue(cmd) ==
    /\ mailbox' = Append(mailbox, cmd)
    /\ UNCHANGED <<bps, depth, held, asked, closed>>

\* The script comes to a line: it runs by itself, or because the value of a
\* name is being computed.
Arrive(l) ==
    /\ depth < MaxDepth
    /\ depth > 0 => asked[depth] \in Computed
    /\ depth' = depth + 1
    /\ held' = [held EXCEPT ![depth + 1] = l \in bps]
    /\ asked' = [asked EXCEPT ![depth + 1] = NoVar]
    /\ UNCHANGED <<mailbox, bps, closed>>

\* The oldest command is obeyed.
Obey ==
    /\ Idle
    /\ mailbox # <<>>
    /\ mailbox' = Tail(mailbox)
    /\ LET cmd == Head(mailbox) IN
       \/ /\ cmd.op = "break"
          /\ bps' = bps \cup {cmd.line}
          /\ UNCHANGED <<held, asked>>
       \/ /\ cmd.op = "continue"
          /\ held' = [held EXCEPT ![depth] = FALSE]
          /\ UNCHANGED <<bps, asked>>
       \/ /\ cmd.op = "read"
          /\ asked' = [asked EXCEPT ![depth] = cmd.var]
          /\ UNCHANGED <<bps, held>>
    /\ UNCHANGED <<depth, closed>>

\* The value asked for is known.
Answer ==
    /\ depth > 0
    /\ ~Idle
    /\ asked' = [asked EXCEPT ![depth] = NoVar]
    /\ UNCHANGED <<mailbox, bps, depth, held, closed>>

\* The script goes on.
GoOn ==
    /\ Idle
    /\ ~held[depth] \/ closed
    /\ depth' = depth - 1
    /\ UNCHANGED <<mailbox, bps, held, asked, closed>>

Close ==
    /\ closed' \in BOOLEAN
    /\ UNCHANGED <<mailbox, bps, depth, held, asked>>

Next ==
    \/ \E cmd \in Commands : Issue(cmd)
    \/ \E l \in Lines : Arrive(l)
    \/ Obey \/ Answer \/ GoOn \/ Close

SafeSpec == Init /\ [][Next]_vars

\* A command does not wait for ever while the script is held at a line.
Spec == SafeSpec /\ WF_vars(Obey \/ Answer \/ GoOn)
=============================================================================
