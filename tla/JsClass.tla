------------------------------ MODULE JsClass ------------------------------
(***************************************************************************)
(* Objects of registered C++ classes (detail/class_wrapper.cpp).  A script *)
(* object of class JsClass holds a handle, a pointer to a C++ object, and  *)
(* a flag: whether the finalizer destroys the C++ object.  Both can be     *)
(* read and written, as __c_opaque and __c_owned; that is how a C++ object *)
(* that the host owns is lent to a script.                                 *)
(*                                                                         *)
(* Careful is the discipline that comes with the two properties: a handle  *)
(* is written only to an object that owns none and comes from the host,    *)
(* the flag is only cleared, and the host destroys an object only once no  *)
(* script object has it.                                                   *)
(***************************************************************************)
EXTENDS Naturals, FiniteSets

CONSTANTS Objs,        \* script objects that get created
          Handles,     \* C++ objects that get created
          Null,        \* a null pointer
          Careful      \* scripts and host keep to the discipline

ASSUME NullAssumption == Null \notin Handles
ASSUME CarefulAssumption == Careful \in BOOLEAN

VARIABLES state,       \* state[o]: "none", "live" or "collected"
          handle,      \* handle[o]: JsClass::handle
          owned,       \* owned[o]: JsClass::owned
          heap,        \* heap[h]: "unborn", "alive", "destroyed", or
                       \* "twice" when its destructor ran again
          host         \* C++ objects that the host made and will destroy

classVars == <<state, handle, owned, heap, host>>

Live == {o \in Objs : state[o] = "live"}

ClassInit ==
    /\ state = [o \in Objs |-> "none"]
    /\ handle = [o \in Objs |-> Null]
    /\ owned = [o \in Objs |-> TRUE]
    /\ heap = [h \in Handles |-> "unborn"]
    /\ host = {}

Destructor(h) ==
    heap' = [heap EXCEPT ![h] = IF @ = "alive" THEN "destroyed" ELSE "twice"]

SlipConstruct(o) ==    \* one C++ object for every script object
    /\ state[o] = "none"
    /\ \E h \in Handles :
        /\ heap[h] \in {"unborn", "alive"}
        /\ heap' = [heap EXCEPT ![h] = "alive"]
        /\ handle' = [handle EXCEPT ![o] = h]
    /\ state' = [state EXCEPT ![o] = "live"]
    /\ owned' = [owned EXCEPT ![o] = TRUE]
    /\ UNCHANGED host

\* DummyConstructor: `new T()` in a script.
Construct(o) ==
    /\ state[o] = "none"
    /\ \E h \in Handles :
        /\ heap[h] = "unborn"
        /\ heap' = [heap EXCEPT ![h] = "alive"]
        /\ handle' = [handle EXCEPT ![o] = h]
    /\ state' = [state EXCEPT ![o] = "live"]
    /\ owned' = [owned EXCEPT ![o] = TRUE]
    /\ UNCHANGED host

\* closure_set_opaque, with a pointer to one of the host's objects or with
\* what closure_get_opaque gave for another object.
SetOpaque(o) ==
    /\ o \in Live
    /\ \E h \in host \cup {handle[p] : p \in Live} :
        /\ Careful => ~owned[o] /\ h \in host
        /\ handle' = [handle EXCEPT ![o] = h]
    /\ UNCHANGED <<state, owned, heap, host>>

\* closure_set_owned
SetOwned(o) ==
    /\ o \in Live
    /\ \E b \in BOOLEAN :
        /\ Careful => ~b
        /\ owned' = [owned EXCEPT ![o] = b]
    /\ UNCHANGED <<state, handle, heap, host>>

SlipFinalize(o) ==     \* the flag is not looked at
    /\ o \in Live
    /\ IF handle[o] # Null THEN Destructor(handle[o]) ELSE UNCHANGED heap
    /\ state' = [state EXCEPT ![o] = "collected"]
    /\ UNCHANGED <<handle, owned, host>>

\* JsClass_Finalizer
Finalize(o) ==
    /\ o \in Live
    /\ IF handle[o] # Null /\ owned[o] THEN Destructor(handle[o]) ELSE UNCHANGED heap
    /\ state' = [state EXCEPT ![o] = "collected"]
    /\ UNCHANGED <<handle, owned, host>>

HostCreate(h) ==
    /\ heap[h] = "unborn"
    /\ heap' = [heap EXCEPT ![h] = "alive"]
    /\ host' = host \cup {h}
    /\ UNCHANGED <<state, handle, owned>>

HostDestroy(h) ==
    /\ h \in host
    /\ Careful => \A o \in Live : handle[o] # h
    /\ Destructor(h)
    /\ host' = host \ {h}
    /\ UNCHANGED <<state, handle, owned>>

ClassNext ==
    \/ \E o \in Objs : Construct(o) \/ SetOpaque(o) \/ SetOwned(o) \/ Finalize(o)
    \/ \E h \in Handles : HostCreate(h) \/ HostDestroy(h)

ClassSpec == ClassInit /\ [][ClassNext]_classVars

-----------------------------------------------------------------------------

\* The variables have their types.
ClassTypeOK ==
    /\ state \in [Objs -> {"none", "live", "collected"}]
    /\ handle \in [Objs -> Handles \cup {Null}]
    /\ owned \in [Objs -> BOOLEAN]
    /\ heap \in [Handles -> {"unborn", "alive", "destroyed", "twice"}]
    /\ host \subseteq Handles

\* No C++ object is destroyed twice: not by two script objects that have the
\* same handle, nor by a script object and the host.
DestroyedOnce == \A h \in Handles : heap[h] # "twice"

\* A method or property of a script object that was lent or made a C++ object
\* finds it alive.
HandlesLive == \A o \in Live : handle[o] # Null => heap[handle[o]] = "alive"
=============================================================================
