------------------------------ MODULE MCSupCon ------------------------------
(* Bounded instances of SupCon for TLC: all problems with two states in     *)
(* plant and specification and two events, each of which may be             *)
(* controllable. State 2 of the specification is marked, and state 1 may be. *)
(* A state that no transition reaches has no transitions: no search would   *)
(* see them. The specification without an initial state is included.        *)
EXTENDS SupCon

TwoStates == {1, 2}
TwoEvents == {1, 2}
NoState   == 0

Reached(gen)  == \E e \in Event : gen.next[1][e] = 2
Generators    == {gen \in Deterministic :
                     gen.init = {1} /\ (Reached(gen) \/ \A e \in Event : gen.next[2][e] = None)}

AllPlants == {gen \in Generators : gen.marked = State}
NoInit    == [init |-> {}, marked |-> State, next |-> [x \in State |-> [e \in Event |-> None]]]
AllSpecs  == {gen \in Generators : 2 \in gen.marked} \cup {NoInit}
=============================================================================
