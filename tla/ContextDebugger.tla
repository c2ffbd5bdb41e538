-------------------------- MODULE ContextDebugger --------------------------
(***************************************************************************)
(* The life of a debugged qjs::Context (quickjspp.h, quickjspp.cpp): which *)
(* Context object owns which JSContext, DebuggerServer and std::thread,    *)
(* what g_DebugUserdata leads debug_handler to, and when each of these is  *)
(* destroyed.  One thread owns the contexts and runs their scripts; every  *)
(* DebuggerServer has a thread of its own in Run().                        *)
(*                                                                         *)
(* The move operations of Context move m_Context alone.  Careful restricts *)
(* the owner to the uses that the members left behind can bear: it moves,  *)
(* destroys and enables only contexts whose debugger is off.               *)
(***************************************************************************)
EXTENDS Naturals, FiniteSets

CONSTANTS Objects,     \* places for Context objects
          JsContexts,  \* JSContexts that get created
          Servers,     \* DebuggerServers that get created
          None,        \* a null pointer
          Careful      \* the owner keeps to the rule above

ASSUME NoneAssumption == None \notin Objects \cup JsContexts \cup Servers
ASSUME KindsAssumption == JsContexts \cap Servers = {}
ASSUME CarefulAssumption == Careful \in BOOLEAN

VARIABLES alive,       \* alive[o]: there is an object in place o
          context,     \* context[o]: m_Context
          handle,      \* handle[o]: m_Server.handle
          thread,      \* thread[o]: the server that m_ServerThread runs
          handler,     \* JSContexts with debug_handler as their handler
          userdata,    \* g_DebugUserdata
          freed,       \* JSContexts and servers that were freed
          run,         \* run[s]: the thread of server s
          joining,     \* the object whose SetDebuggerMode(0) is in join()
          aborted      \* std::terminate() was called

vars == <<alive, context, handle, thread, handler, userdata, freed, run, joining, aborted>>

Init ==
    /\ alive = [o \in Objects |-> FALSE]
    /\ context = [o \in Objects |-> None]
    /\ handle = [o \in Objects |-> None]
    /\ thread = [o \in Objects |-> None]
    /\ handler = {}
    /\ userdata = [j \in JsContexts |-> None]
    /\ freed = {}
    /\ run = [s \in Servers |-> "no"]
    /\ joining = None
    /\ aborted = FALSE

\* The owner can do something with object o.
Ready(o) == ~aborted /\ joining = None /\ alive[o]

Off(o) == handle[o] = None /\ thread[o] = None

NewJs     == {j \in JsContexts : j \notin freed /\ \A o \in Objects : context[o] # j}
NewServer == {s \in Servers : run[s] = "no"}

-----------------------------------------------------------------------------

\* Context::Create
Create(o) ==
    /\ ~aborted /\ joining = None
    /\ ~alive[o]
    /\ \E j \in NewJs : context' = [context EXCEPT ![o] = j]
    /\ alive' = [alive EXCEPT ![o] = TRUE]
    /\ UNCHANGED <<handle, thread, handler, userdata, freed, run, joining, aborted>>

\* Context(Context&&)
MoveConstruct(o, from) ==
    /\ Ready(from) /\ ~alive[o]
    /\ Careful => Off(from)
    /\ context' = [context EXCEPT ![o] = context[from], ![from] = None]
    /\ alive' = [alive EXCEPT ![o] = TRUE]
    /\ UNCHANGED <<handle, thread, handler, userdata, freed, run, joining, aborted>>

SlipMoveAssign(o, from) ==   \* the source keeps its JSContext
    /\ o # from /\ Ready(o) /\ Ready(from)
    /\ Careful => Off(o) /\ Off(from)
    /\ context' = [context EXCEPT ![o] = context[from]]
    /\ freed' = freed \cup ({context[o]} \ {None})
    /\ UNCHANGED <<alive, handle, thread, handler, userdata, run, joining, aborted>>

\* operator=(Context&&)
MoveAssign(o, from) ==
    /\ o # from /\ Ready(o) /\ Ready(from)
    /\ Careful => Off(o) /\ Off(from)
    /\ context' = [context EXCEPT ![o] = context[from], ![from] = None]
    /\ freed' = freed \cup ({context[o]} \ {None})
    /\ UNCHANGED <<alive, handle, thread, handler, userdata, run, joining, aborted>>

SlipEnable(o) ==       \* Run() is called in a detached thread
    /\ Ready(o) /\ context[o] # None
    /\ Careful => Off(o)
    /\ handler' = handler \cup {context[o]}
    /\ userdata' = [userdata EXCEPT ![context[o]] = o]
    /\ freed' = freed \cup ({handle[o]} \ {None})
    /\ \E s \in NewServer :
        /\ handle' = [handle EXCEPT ![o] = s]
        /\ run' = [run EXCEPT ![s] = "started"]
    /\ aborted' = (thread[o] # None)
    /\ UNCHANGED <<alive, context, thread, joining>>

\* SetDebuggerMode(1): what m_Server and m_ServerThread held is destroyed, and
\* destroying a std::thread that was not joined ends the program.
Enable(o) ==
    /\ Ready(o) /\ context[o] # None
    /\ Careful => Off(o)
    /\ handler' = handler \cup {context[o]}
    /\ userdata' = [userdata EXCEPT ![context[o]] = o]
    /\ freed' = freed \cup ({handle[o]} \ {None})
    /\ \E s \in NewServer :
        /\ handle' = [handle EXCEPT ![o] = s]
        /\ thread' = [thread EXCEPT ![o] = s]
        /\ run' = [run EXCEPT ![s] = "started"]
    /\ aborted' = (thread[o] # None)
    /\ UNCHANGED <<alive, context, joining>>

SlipDisable(o) ==      \* the handler stays installed
    /\ Ready(o) /\ context[o] # None
    /\ userdata' = [userdata EXCEPT ![context[o]] = None]
    /\ IF handle[o] = None
         THEN UNCHANGED <<run, joining>>
         ELSE /\ run' = [run EXCEPT ![handle[o]] =
                           IF @ = "running" THEN "stopping" ELSE @]
              /\ joining' = o
    /\ UNCHANGED <<alive, context, handle, thread, handler, freed, aborted>>

\* SetDebuggerMode(0), up to the call of join().
Disable(o) ==
    /\ Ready(o) /\ context[o] # None
    /\ handler' = handler \ {context[o]}
    /\ userdata' = [userdata EXCEPT ![context[o]] = None]
    /\ IF handle[o] = None
         THEN UNCHANGED <<run, joining>>
         ELSE /\ run' = [run EXCEPT ![handle[o]] =
                           IF @ = "running" THEN "stopping" ELSE @]
              /\ joining' = o
    /\ UNCHANGED <<alive, context, handle, thread, freed, aborted>>

SlipJoined(o) ==       \* the server is deleted while its thread still runs
    /\ joining = o
    /\ freed' = freed \cup {handle[o]}
    /\ handle' = [handle EXCEPT ![o] = None]
    /\ thread' = [thread EXCEPT ![o] = None]
    /\ joining' = None
    /\ UNCHANGED <<alive, context, handler, userdata, run, aborted>>

\* join() returns: the server is deleted, then the thread object.
Joined(o) ==
    /\ joining = o
    /\ run[thread[o]] = "ended"
    /\ freed' = freed \cup {handle[o]}
    /\ handle' = [handle EXCEPT ![o] = None]
    /\ thread' = [thread EXCEPT ![o] = None]
    /\ joining' = None
    /\ UNCHANGED <<alive, context, handler, userdata, run, aborted>>

\* ~Context: the JSContext, then m_ServerThread, then m_Server.
Destroy(o) ==
    /\ Ready(o)
    /\ Careful => Off(o)
    /\ alive' = [alive EXCEPT ![o] = FALSE]
    /\ freed' = freed \cup ({context[o], handle[o]} \ {None})
    /\ context' = [context EXCEPT ![o] = None]
    /\ handle' = [handle EXCEPT ![o] = None]
    /\ thread' = [thread EXCEPT ![o] = None]
    /\ aborted' = (thread[o] # None)
    /\ UNCHANGED <<handler, userdata, run, joining>>

\* Run() clears the stop flag, also one that was set before, and listens.  When
\* the port is taken it returns.
RunBegins(s) ==
    /\ ~aborted
    /\ run[s] = "started"
    /\ \E place \in {"running", "ended"} : run' = [run EXCEPT ![s] = place]
    /\ UNCHANGED <<alive, context, handle, thread, handler, userdata, freed, joining, aborted>>

\* Run() returns once it was told to stop.
RunEnds(s) ==
    /\ ~aborted
    /\ run[s] = "stopping"
    /\ run' = [run EXCEPT ![s] = "ended"]
    /\ UNCHANGED <<alive, context, handle, thread, handler, userdata, freed, joining, aborted>>

Next ==
    \/ \E o \in Objects :
        \/ Create(o) \/ Enable(o) \/ Disable(o) \/ Joined(o) \/ Destroy(o)
        \/ \E from \in Objects : MoveConstruct(o, from) \/ MoveAssign(o, from)
    \/ \E s \in Servers : RunBegins(s) \/ RunEnds(s)

Spec == Init /\ [][Next]_vars

-----------------------------------------------------------------------------

\* The variables have their types; in particular there is a thread to join.
TypeOK ==
    /\ alive \in [Objects -> BOOLEAN]
    /\ context \in [Objects -> JsContexts \cup {None}]
    /\ handle \in [Objects -> Servers \cup {None}]
    /\ thread \in [Objects -> Servers \cup {None}]
    /\ handler \subseteq JsContexts
    /\ userdata \in [JsContexts -> Objects \cup {None}]
    /\ freed \subseteq JsContexts \cup Servers
    /\ run \in [Servers -> {"no", "started", "running", "stopping", "ended"}]
    /\ joining \in Objects \cup {None}
    /\ joining # None => handle[joining] # None /\ thread[joining] # None
    /\ aborted \in BOOLEAN

\* A script of o that comes to a line calls debug_handler.
Traces(o) == Ready(o) /\ context[o] \in handler

\* debug_handler is led to the very object whose script is running, and that
\* object has a server.
HandlerFindsServer ==
    \A o \in Objects : Traces(o) =>
        /\ userdata[context[o]] = o
        /\ handle[o] # None /\ handle[o] \notin freed

\* A server is not deleted while a thread is in its Run(), and some object can
\* still join that thread.
ServerOutlivesRun ==
    ~aborted => \A s \in Servers : run[s] \in {"started", "running", "stopping"} =>
                  /\ s \notin freed
                  /\ \E o \in Objects : thread[o] = s /\ handle[o] = s

\* No JSContext, and no server, belongs to two objects or is used after it was
\* freed: every delete is of something that one object owned.
OneOwner ==
    \A o \in Objects :
        /\ context[o] # None => context[o] \notin freed
        /\ handle[o] # None => handle[o] \notin freed
        /\ \A p \in Objects \ {o} :
            /\ context[o] # None => context[p] # context[o]
            /\ handle[o] # None => handle[p] # handle[o]
=============================================================================
