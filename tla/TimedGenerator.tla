--------------------------- MODULE TimedGenerator ---------------------------
(***************************************************************************)
(* Timed generators, as far as their execution looks at them: states with  *)
(* invariants, transitions with guards and resets. Invariants and guards   *)
(* restrict clocks to intervals.                                           *)
(***************************************************************************)
EXTENDS TimeInterval

CONSTANTS State, Event, Clock, None     \* None: no successor

\* A constraint maps the clocks that it restricts to intervals.
IsConstraint(k, clocks) ==
    /\ DOMAIN k \subseteq clocks
    /\ k \in [DOMAIN k -> Interval]

\* Executor::Compile(): generators are deterministic and have an initial state.
WellFormed(gen) ==
    /\ gen.states \subseteq State /\ gen.events \subseteq Event /\ gen.clocks \subseteq Clock
    /\ IsFiniteSet(gen.events) /\ IsFiniteSet(gen.clocks)
    /\ None \notin gen.states
    /\ gen.init \in gen.states
    /\ gen.next \in [gen.states -> [gen.events -> gen.states \cup {None}]]
    /\ gen.resets \in [gen.states -> [gen.events -> SUBSET gen.clocks]]
    /\ \A x \in gen.states :
        /\ IsConstraint(gen.invariant[x], gen.clocks)
        /\ \A e \in gen.events : IsConstraint(gen.guard[x][e], gen.clocks)

Active(gen, x) == {e \in gen.events : gen.next[x][e] # None}

\* The constraint is satisfied after time d; and for all time to come, if it is now.
Satisfies(constraint, clock, d) ==
    \A c \in DOMAIN constraint : In(constraint[c], clock[c] + d)
Unbounded(constraint) == \A c \in DOMAIN constraint : UBinf(constraint[c])
=============================================================================
