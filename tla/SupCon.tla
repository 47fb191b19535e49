-------------------------------- MODULE SupCon --------------------------------
(***************************************************************************)
(* SupCon(): the supremal controllable and nonblocking behaviour of a      *)
(* plant under a specification, two deterministic generators over the same *)
(* alphabet. SupConProduct() composes them while it watches for states in  *)
(* which the specification disables an uncontrollable event of the plant;  *)
(* SupConClosedUnchecked(), which remembers what it has visited and marks  *)
(* states as critical forwards and backwards, and Trim() then take states  *)
(* away until nothing changes.                                             *)
(*                                                                         *)
(* A state of the result is the pair of states it is composed of (the code *)
(* numbers the pairs, rCompositionMap). Each todo stack is a set: its      *)
(* states are taken in any order, the last in first out of the code is one *)
(* of them. One step is one turn of a todo loop.                           *)
(***************************************************************************)
EXTENDS Integers, FiniteSets

CONSTANTS
    State,          \* states of plant and specification
    Event,          \* their common alphabet; events are processed by index
    None,           \* no successor
    Plants, Specs   \* the generators to choose plant and specification from

\* ControlProblemConsistencyCheck(): generators are deterministic, alphabets match.
Deterministic ==
    [init : {{}} \cup {{x} : x \in State}, marked : SUBSET State,
     next : [State -> [Event -> State \cup {None}]]]

ASSUME EventAssumption     == Event \subseteq Nat
ASSUME NoneAssumption      == None \notin State
ASSUME FiniteAssumption    == IsFiniteSet(State)
ASSUME GeneratorAssumption == Plants \cup Specs \subseteq Deterministic

VARIABLES
    rPlantGen, rSpecGen, rCAlph,    \* the problem: plant, specification, controllable events
    pc,             \* "product", "loop", "closed", "trim", "done"
    states, trans,  \* the result so far: its states and transitions
    todo,           \* SupConProduct(): states to be processed
    critical,       \* states to be deleted
    todogh,         \* SupConClosedUnchecked(): pairs of a plant and a result state
    processed,      \* ... result states that have been processed
    rtransrel,      \* ... their transitions
    state_num       \* number of states at the beginning of a round

problem == <<rPlantGen, rSpecGen, rCAlph>>
result  == <<states, trans>>
closed  == <<todogh, processed, rtransrel>>
vars    == <<problem, pc, result, todo, critical, closed, state_num>>

Pair       == State \X State
Transition == Pair \X Event \X Pair

TypeOK ==
    /\ rPlantGen \in Plants /\ rSpecGen \in Specs /\ rCAlph \subseteq Event
    /\ pc \in {"product", "loop", "closed", "trim", "done"}
    /\ states \subseteq Pair
    /\ trans \subseteq Transition
    /\ todo \subseteq Pair
    /\ critical \subseteq Pair
    /\ todogh \subseteq State \X Pair
    /\ processed \subseteq Pair
    /\ rtransrel \subseteq Transition
    /\ state_num \in Nat

------------------------------------------------------------------------------
(* Generators.                                                             *)

Enabled(gen, x, e) == gen.next[x][e] # None
Uncontrollable     == Event \ rCAlph

\* The initial states, marked states and transitions of plant and specification together.
InitialPairs == rPlantGen.init \X rSpecGen.init
Marked(p)    == p[1] \in rPlantGen.marked /\ p[2] \in rSpecGen.marked
FaultShared(p) == {e \in Event : Enabled(rPlantGen, p[1], e)}  \* specification not asked
Shared(p)    == {e \in Event : Enabled(rPlantGen, p[1], e) /\ Enabled(rSpecGen, p[2], e)}
Succ(p, e)   == <<rPlantGen.next[p[1]][e], rSpecGen.next[p[2]][e]>>

\* The transitions among the states of S.
FaultAmong(S, rel) == {t \in rel : t[1] \in S}                 \* those to deleted states kept
Among(S, rel) == {t \in rel : t[1] \in S /\ t[3] \in S}

\* The states of S that are reached from an initial one, and those that reach a marked one:
\* they are in every set that is closed under the transitions, or their inverse.
AccessibleSet(S, rel) ==
    {x \in S : \A X \in SUBSET S :
        InitialPairs \cap S \subseteq X /\ (\A t \in rel : t[1] \in X => t[3] \in X) => x \in X}
CoaccessibleSet(S, rel) ==
    {x \in S : \A X \in SUBSET S :
        (\A y \in S : Marked(y) => y \in X) /\ (\A t \in rel : t[3] \in X => t[1] \in X)
            => x \in X}

\* States from which uncontrollable events lead to p, not through those known as critical.
FaultTraverseUncontrollableBackwards(rel, p) == {p}          \* not traversed
FaultTraverseBackwards(rel, p) ==                            \* by all events
    {x \in states : \A X \in SUBSET states :
        p \in X /\ (\A t \in rel : t[3] \in X /\ t[1] \notin critical => t[1] \in X)
            => x \in X}
TraverseUncontrollableBackwards(rel, p) ==
    {x \in states : \A X \in SUBSET states :
        p \in X /\ (\A t \in rel : t[2] \in Uncontrollable /\ t[3] \in X /\ t[1] \notin critical
                        => t[1] \in X)
            => x \in X}

------------------------------------------------------------------------------

Init ==
    /\ rPlantGen \in Plants /\ rSpecGen \in Specs /\ rCAlph \in SUBSET Event
    /\ pc = "product"
    /\ states = InitialPairs /\ todo = InitialPairs
    /\ trans = {} /\ critical = {}
    /\ todogh = {} /\ processed = {} /\ rtransrel = {}
    /\ state_num = 0

\* Events are processed up to the first bad one.
UpTo(events, bad) == {e \in events : \A b \in bad : e <= b}

\* Compose at state p. An uncontrollable event of the plant is bad if the specification
\* disables it or it leads to a critical state: then p is critical, and its other events
\* are left out.
ProductStep(p) ==
    LET bad  == {u \in Uncontrollable : /\ Enabled(rPlantGen, p[1], u)
                                        /\ u \in Shared(p) => Succ(p, u) \in critical}
        seen == UpTo(Shared(p), bad)
        next == {Succ(p, e) : e \in seen}
    IN  /\ pc = "product"
        /\ p \in todo
        /\ IF p \in critical
           THEN todo' = todo \ {p} /\ UNCHANGED <<states, trans, critical>>
           ELSE /\ todo' = (todo \ {p}) \cup (next \ states)
                /\ states' = states \cup next
                /\ trans' = trans \cup
                     {<<p, e, Succ(p, e)>> : e \in {f \in seen : Succ(p, f) \notin critical}}
                /\ critical' = IF bad = {} THEN critical ELSE critical \cup {p}
        /\ UNCHANGED <<problem, pc, closed, state_num>>

\* Delete the critical states.
ProductEnd ==
    /\ pc = "product"
    /\ todo = {}
    /\ states' = states \ critical
    /\ trans' = Among(states \ critical, trans)
    /\ critical' = {}
    /\ pc' = "loop"
    /\ UNCHANGED <<problem, todo, closed, state_num>>

FaultRound ==                                                \* size not recorded
    /\ pc = "loop"
    /\ IF states = {}
       THEN pc' = "done" /\ UNCHANGED todogh
       ELSE /\ pc' = IF InitialPairs \cap states = {} THEN "trim" ELSE "closed"
            /\ todogh' = {<<p[1], p>> : p \in InitialPairs \cap states}
    /\ UNCHANGED <<problem, result, todo, critical, processed, rtransrel, state_num>>

\* Begin a round, unless the result is empty. Without an initial state there is nothing to do
\* in SupConClosedUnchecked().
Round ==
    /\ pc = "loop"
    /\ IF states = {}
       THEN pc' = "done" /\ UNCHANGED <<todogh, state_num>>
       ELSE /\ state_num' = Cardinality(states)
            /\ pc' = IF InitialPairs \cap states = {} THEN "trim" ELSE "closed"
            /\ todogh' = {<<p[1], p>> : p \in InitialPairs \cap states}
    /\ UNCHANGED <<problem, result, todo, critical, processed, rtransrel>>

\* Process state h of the result, along with state g of the plant. A bad event is one that
\* the plant enables, and the result disables or lets lead to a critical state.
ClosedStep(g, h) ==
    LET enabled == {e \in Event : Enabled(rPlantGen, g, e)}
        follow  == {t \in trans : t[1] = h /\ t[2] \in enabled}
        bad     == {u \in enabled \cap Uncontrollable :
                       \A t \in follow : t[2] = u => t[3] \in critical}
        seen    == {t \in follow : t[2] \in UpTo(enabled, bad)}
        rel     == rtransrel \cup {t \in seen : t[3] \notin critical}
    IN  /\ pc = "closed"
        /\ <<g, h>> \in todogh
        /\ IF h \in processed
           THEN todogh' = todogh \ {<<g, h>>} /\ UNCHANGED <<processed, rtransrel, critical>>
           ELSE /\ todogh' = (todogh \ {<<g, h>>}) \cup
                     {<<rPlantGen.next[g][t[2]], t[3]>> : t \in {s \in seen : s[3] \notin processed}}
                /\ processed' = processed \cup {h}
                /\ rtransrel' = rel
                /\ critical' = IF bad = {} THEN critical
                               ELSE critical \cup TraverseUncontrollableBackwards(rel, h)
        /\ UNCHANGED <<problem, pc, result, todo, state_num>>

\* Delete the states that are critical or have not been processed.
ClosedEnd ==
    /\ pc = "closed"
    /\ todogh = {}
    /\ states' = states \cap (processed \ critical)
    /\ trans' = Among(states', trans)
    /\ critical' = {} /\ processed' = {} /\ rtransrel' = {}
    /\ pc' = "trim"
    /\ UNCHANGED <<problem, todo, todogh, state_num>>

FaultTrim ==                                                 \* one round only
    LET accessible == AccessibleSet(states, trans)
    IN  /\ pc = "trim"
        /\ states' = CoaccessibleSet(accessible, Among(accessible, trans))
        /\ trans' = Among(states', trans)
        /\ pc' = "done"
        /\ UNCHANGED <<problem, todo, critical, closed, state_num>>

\* Delete the states that are not accessible, then those that are not coaccessible. The
\* loop ends when the round has deleted nothing.
Trim ==
    LET accessible == AccessibleSet(states, trans)
    IN  /\ pc = "trim"
        /\ states' = CoaccessibleSet(accessible, Among(accessible, trans))
        /\ trans' = Among(states', trans)
        /\ pc' = IF Cardinality(states') = state_num THEN "done" ELSE "loop"
        /\ UNCHANGED <<problem, todo, critical, closed, state_num>>

Next ==
    \/ \E p \in todo : ProductStep(p)
    \/ ProductEnd \/ Round
    \/ \E s \in todogh : ClosedStep(s[1], s[2])
    \/ ClosedEnd \/ Trim

Spec == Init /\ [][Next]_vars

\* A function that is called runs on.
FairSpec == Spec /\ WF_vars(Next)
------------------------------------------------------------------------------
(* Properties.                                                             *)

\* The part of plant and specification together that stays within S.
Composed(S) == {t \in S \X Event \X S : t[2] \in Shared(t[1]) /\ t[3] = Succ(t[1], t[2])}

\* No state of S disables an uncontrollable event.
Controllable(S) ==
    \A p \in S, u \in Uncontrollable :
        Enabled(rPlantGen, p[1], u) => u \in Shared(p) /\ Succ(p, u) \in S

\* S solves the problem: it disables no uncontrollable event, every state is reached,
\* and a marked state stays in reach.
Solution(S) ==
    /\ Controllable(S)
    /\ AccessibleSet(S, Composed(S)) = S
    /\ CoaccessibleSet(S, Composed(S)) = S

\* The result is a solution of the control problem. The rounds can stop when one of
\* them has deleted nothing, although Trim() may make states uncontrollable again
\* and SupConClosedUnchecked() may leave states blocking.
ResultSolves == pc = "done" => Solution(states)

\* The result is supremal: no other solution has a state that it lacks, so that no
\* search order or early exit from a loop deletes a state that could be kept.
ResultSupremal == pc = "done" => \A S \in SUBSET Pair : Solution(S) => S \subseteq states

\* The result enables what it can: among its states it has all transitions that plant
\* and specification allow, and no others.
ResultPermissive == pc = "done" => trans = Composed(states)

\* One pass of SupConClosedUnchecked() is enough to have no uncontrollable event disabled
\* (what SupConClosed() relies on), unless the initial state is lost.
PassControllable ==
    pc = "trim" /\ InitialPairs \cap states # {} => Controllable(states)

\* The rounds come to an end.
Terminates == <>(pc = "done")
==============================================================================
