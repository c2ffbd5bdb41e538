------------------------------- MODULE Values -------------------------------
(***************************************************************************)
(* class Value (quickjspp.h) and the functions that C++ closures become    *)
(* (detail/closure.cpp): who holds a reference to which script value, and  *)
(* what QuickJS frees when its count of them comes to zero.                *)
(*                                                                         *)
(* Calls nest: a closure called by a script may do anything to any Value,  *)
(* and a script may assign to any property, while functions are running.   *)
(* Numbers, undefined and exceptions are not counted and are all None.     *)
(***************************************************************************)
EXTENDS Integers, Sequences, FiniteSets

CONSTANTS Slots,       \* Value objects
          Names,       \* properties of the global object
          Vals,        \* script values that get allocated
          None,        \* a value that is not counted
          MaxCalls     \* bound on calls inside one another

ASSUME NoneAssumption == None \notin Vals
ASSUME MaxCallsAssumption == MaxCalls \in Nat
ASSUME FiniteAssumption == IsFiniteSet(Slots) /\ IsFiniteSet(Names)

VARIABLES slot,        \* slot[s]: m_Value
          prop,        \* prop[n]: the value of property n
          refs,        \* refs[v]: QuickJS's reference count of v
          kind,        \* kind[v]: what v is
          calls        \* the functions C++ is calling, outermost first

vars == <<slot, prop, refs, kind, calls>>

\* A broken function is one made over the exception that CreateJsClosure
\* returned: calling it only returns an exception.
Functions == {"closure", "broken", "script"}
Kinds     == Functions \cup {"unused", "argument", "freed"}
Call      == [val : Vals, retained : BOOLEAN]

Init ==
    /\ slot = [s \in Slots |-> None]
    /\ prop = [n \in Names |-> None]
    /\ refs = [v \in Vals |-> 0]
    /\ kind = [v \in Vals |-> "unused"]
    /\ calls = <<>>

Fresh == {v \in Vals : kind[v] = "unused"}

\* JS_DupValue of `up`, JS_FreeValue of `down`.  JsClosure_Finalizer deletes
\* the JsClosure and not the C++ Closure it points to, which is never deleted.
Count(up, down) ==
    LET new == [v \in Vals |-> refs[v] + (IF v = up THEN 1 ELSE 0)
                                       - (IF v = down THEN 1 ELSE 0)]
    IN  /\ refs' = new
        /\ kind' = [v \in Vals |->
                      IF v = down /\ new[v] <= 0 THEN "freed" ELSE kind[v]]

\* A new value of kind k with one reference.
Allocate(v, k) ==
    /\ refs' = [refs EXCEPT ![v] = 1]
    /\ kind' = [kind EXCEPT ![v] = k]

-----------------------------------------------------------------------------
(* Values made *)

\* Context::CreateClosure.  CreateJsClosure may fail, and the function is then
\* made over its exception; when making the function fails nothing changes.
CreateClosure(s) ==
    /\ slot[s] = None
    /\ \E v \in Fresh, k \in {"closure", "broken"} :
        Allocate(v, k) /\ slot' = [slot EXCEPT ![s] = v]
    /\ UNCHANGED <<prop, calls>>

\* Context::Eval, of code whose value is a new function.
Eval(s) ==
    /\ slot[s] = None
    /\ \E v \in Fresh : Allocate(v, "script") /\ slot' = [slot EXCEPT ![s] = v]
    /\ UNCHANGED <<prop, calls>>

GetProperty(s, n) ==
    /\ slot[s] = None
    /\ slot' = [slot EXCEPT ![s] = prop[n]]
    /\ Count(prop[n], None)
    /\ UNCHANGED <<prop, calls>>

-----------------------------------------------------------------------------
(* Values moved *)

\* Value(Value&&)
MoveConstruct(s, from) ==
    /\ s # from /\ slot[s] = None
    /\ slot' = [slot EXCEPT ![s] = slot[from], ![from] = None]
    /\ UNCHANGED <<prop, refs, kind, calls>>

\* operator=(Value&&)
MoveAssign(s, from) ==
    /\ s # from
    /\ slot' = [slot EXCEPT ![s] = slot[from], ![from] = None]
    /\ Count(None, slot[s])
    /\ UNCHANGED <<prop, calls>>

\* ~Value()
Destroy(s) ==
    /\ slot' = [slot EXCEPT ![s] = None]
    /\ Count(None, slot[s])
    /\ UNCHANGED <<prop, calls>>

SlipSetPropertyStr(n, s) ==   \* m_Value passed without Unwrap()
    /\ \/ prop' = [prop EXCEPT ![n] = slot[s]] /\ Count(None, prop[n])
       \/ UNCHANGED prop /\ Count(None, slot[s])
    /\ UNCHANGED <<slot, calls>>

\* SetPropertyStr: JS_SetPropertyStr takes the reference over, and frees it
\* when the property cannot be set.
SetPropertyStr(n, s) ==
    /\ slot' = [slot EXCEPT ![s] = None]
    /\ \/ prop' = [prop EXCEPT ![n] = slot[s]] /\ Count(None, prop[n])
       \/ UNCHANGED prop /\ Count(None, slot[s])
    /\ UNCHANGED calls

\* A script assigns a property the value of another, or undefined.
ScriptAssigns(n) ==
    /\ \E v \in {prop[m] : m \in Names} \cup {None} :
        /\ prop' = [prop EXCEPT ![n] = v]
        /\ Count(v, prop[n])
    /\ UNCHANGED <<slot, calls>>

-----------------------------------------------------------------------------
(* Calls *)

\* The arguments are converted to new script values, which are not freed: a
\* string is counted, a number is not.
NewArgument(r, k) ==
    \/ refs' = r /\ kind' = k
    \/ \E a \in {v \in Fresh : k[v] = "unused"} :
        /\ refs' = [r EXCEPT ![a] = 1]
        /\ kind' = [k EXCEPT ![a] = "argument"]

\* Value::Call, CallWithThis: m_Value is called as it is.
BeginCall(s) ==
    /\ Len(calls) < MaxCalls
    /\ slot[s] # None /\ kind[slot[s]] \in Functions
    /\ calls' = Append(calls, [val |-> slot[s], retained |-> FALSE])
    /\ NewArgument(refs, kind)
    /\ UNCHANGED <<slot, prop>>

SlipBeginCallMethod(n) ==     \* the method's reference is freed before the call
    /\ Len(calls) < MaxCalls
    /\ prop[n] # None /\ kind[prop[n]] \in Functions
    /\ calls' = Append(calls, [val |-> prop[n], retained |-> TRUE])
    /\ NewArgument(refs, kind)
    /\ UNCHANGED <<slot, prop>>

\* CallMethod: the method is a reference of its own for as long as it runs.
BeginCallMethod(n) ==
    /\ Len(calls) < MaxCalls
    /\ prop[n] # None /\ kind[prop[n]] \in Functions
    /\ calls' = Append(calls, [val |-> prop[n], retained |-> TRUE])
    /\ NewArgument([refs EXCEPT ![prop[n]] = @ + 1], kind)
    /\ UNCHANGED <<slot, prop>>

\* The innermost call returns, with nothing or with what a property holds; the
\* result becomes a Value.
EndCall(s) ==
    /\ calls # <<>>
    /\ slot[s] = None
    /\ LET call == calls[Len(calls)] IN
       \E result \in {prop[n] : n \in Names} \cup {None} :
        /\ slot' = [slot EXCEPT ![s] = result]
        /\ Count(result, IF call.retained THEN call.val ELSE None)
    /\ calls' = SubSeq(calls, 1, Len(calls) - 1)
    /\ UNCHANGED prop

-----------------------------------------------------------------------------

Next ==
    \/ \E s \in Slots :
        \/ CreateClosure(s) \/ Eval(s) \/ Destroy(s) \/ BeginCall(s) \/ EndCall(s)
        \/ \E from \in Slots : MoveConstruct(s, from) \/ MoveAssign(s, from)
        \/ \E n \in Names : GetProperty(s, n) \/ SetPropertyStr(n, s)
    \/ \E n \in Names : ScriptAssigns(n) \/ BeginCallMethod(n)

Spec == Init /\ [][Next]_vars

-----------------------------------------------------------------------------

\* The variables have their types; in particular no count goes below zero.
TypeOK ==
    /\ slot \in [Slots -> Vals \cup {None}]
    /\ prop \in [Names -> Vals \cup {None}]
    /\ refs \in [Vals -> Nat]
    /\ kind \in [Vals -> Kinds]
    /\ calls \in Seq(Call)

\* Value objects, properties and running methods that hold a reference to v.
Holders(v) ==
    Cardinality({s \in Slots : slot[s] = v})
        + Cardinality({n \in Names : prop[n] = v})
        + Cardinality({i \in 1 .. Len(calls) : calls[i].retained /\ calls[i].val = v})

\* Through every move, assignment and call, QuickJS counts exactly the
\* references that somebody will free, and has freed exactly the functions
\* that nobody refers to.  So no reference is freed twice, nothing that is
\* held is freed, and of all values only the arguments of calls leak.
RefsCounted ==
    /\ TypeOK
    /\ \A v \in Vals :
          /\ kind[v] \in Functions => refs[v] = Holders(v) /\ refs[v] > 0
          /\ kind[v] \in {"unused", "freed"} => refs[v] = 0 /\ Holders(v) = 0

\* A method that C++ is calling is not freed before it returns, even when it
\* overwrites the property it was found in.
MethodsLive ==
    \A i \in 1 .. Len(calls) : calls[i].retained => kind[calls[i].val] \in Functions
=============================================================================
