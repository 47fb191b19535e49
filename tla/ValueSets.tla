----------------------------- MODULE ValueSets -----------------------------
(***************************************************************************)
(* What the copy on write of TBaseSet (src/src/cfl_baseset.h) promises:    *)
(* sets behave as values.  "The public functions of a TBaseSet provide the *)
(* high-level api, with the intention to organize the deferred copy        *)
(* machanism in a transparent manner."  Each set that exists has a value;  *)
(* an operation on one set gives that set a new value and leaves every     *)
(* other set as it was.  Nothing here shares, detaches or locks.           *)
(***************************************************************************)
CONSTANTS
    Obj,        \* the places where a set can be constructed
    Elem        \* the elements

VARIABLES
    live,       \* the sets that exist
    value       \* the elements of each of them; {} where there is none

valueVars == <<live, value>>

Init ==
    /\ live = {}
    /\ value = [o \in Obj |-> {}]

\* A constructor makes an empty set.
New(o) ==
    /\ o \notin live
    /\ live' = live \cup {o}
    /\ UNCHANGED value

\* A destructor ends the life of one set.
Destroy(o) ==
    /\ o \in live
    /\ live' = live \ {o}
    /\ value' = [value EXCEPT ![o] = {}]

\* Every other operation changes the value of the set it is called for: to
\* the value of another set (assignment, and with {} as that value Clear()),
\* by an element, or by the elements of another set.
Become(o, new) ==
    /\ o \in live
    /\ value' = [value EXCEPT ![o] = new]
    /\ UNCHANGED live

Operation(o) ==
    \/ New(o)
    \/ Destroy(o)
    \/ Become(o, {})
    \/ \E p \in live :
         \/ Become(o, value[p])
         \/ Become(o, value[o] \cup value[p])
         \/ Become(o, value[o] \ value[p])
         \/ Become(o, value[o] \cap value[p])
    \/ \E e \in Elem :
         \/ Become(o, value[o] \cup {e})
         \/ Become(o, value[o] \ {e})

Next == \E o \in Obj : Operation(o)

Spec == Init /\ [][Next]_valueVars
=============================================================================
