---------------------------- MODULE TimedProduct ----------------------------
(***************************************************************************)
(* What a ParallelExecutor promises: timed generators run in parallel,     *)
(* synchronised by time and by their shared events. Time passes as long as *)
(* all invariants hold. An event is executed by all generators that have   *)
(* it in their alphabets, if their guards and invariants hold.             *)
(***************************************************************************)
EXTENDS TimedGenerator

CONSTANTS
    Id,         \* indices of the generators
    Gen,        \* Gen[i], a generator
    Preset,     \* parallel timed states that may be assigned
    PresetTime  \* times that may be assigned

VARIABLES state, clock, now
vars == <<state, clock, now>>

Assignable(s) ==
    \A i \in Id : s.state[i] \in Gen[i].states /\ DOMAIN s.clock[i] = Gen[i].clocks

Init ==
    /\ state = [i \in Id |-> Gen[i].init]
    /\ clock = [i \in Id |-> [c \in Gen[i].clocks |-> 0]]
    /\ now = 0

MayPass(i, d) ==
    LET inv == Gen[i].invariant[state[i]]
    IN  /\ now < Infinity
        /\ Satisfies(inv, clock[i], 0)
        /\ IF d = Infinity THEN Unbounded(inv) ELSE Satisfies(inv, clock[i], d)

Enabled(i, d) ==
    {e \in Active(Gen[i], state[i]) :
        MayPass(i, d) /\ Satisfies(Gen[i].guard[state[i]][e], clock[i], d)}

Pass(d) ==
    /\ \A i \in Id : MayPass(i, d)
    /\ clock' = [i \in Id |-> [c \in Gen[i].clocks |-> Plus(clock[i][c], d)]]
    /\ now' = Plus(now, d)
    /\ UNCHANGED state

Execute(e) ==
    LET taking == {i \in Id : e \in Gen[i].events}
    IN  /\ taking # {}
        /\ \A i \in taking : e \in Enabled(i, 0)
        /\ state' = [i \in Id |-> IF i \in taking THEN Gen[i].next[state[i]][e] ELSE state[i]]
        /\ clock' = [i \in Id |-> [c \in Gen[i].clocks |->
                        IF i \in taking /\ c \in Gen[i].resets[state[i]][e] THEN 0
                        ELSE clock[i][c]]]
        /\ UNCHANGED now

\* Assign a state, or the current one if that cannot be assigned.
Assign(s) ==
    /\ IF Assignable(s) THEN state' = s.state /\ clock' = s.clock ELSE UNCHANGED <<state, clock>>
    /\ now' = 0

AssignTime(t) == now' = t /\ UNCHANGED <<state, clock>>

Reset ==
    /\ state' = [i \in Id |-> Gen[i].init]
    /\ clock' = [i \in Id |-> [c \in Gen[i].clocks |-> 0]]
    /\ now' = 0

Next ==
    \/ \E d \in Time : Pass(d)
    \/ \E e \in Event : Execute(e)
    \/ \E s \in Preset : Assign(s)
    \/ \E t \in PresetTime : AssignTime(t)
    \/ Reset

Spec == Init /\ [][Next]_vars
=============================================================================
