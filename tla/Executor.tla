------------------------------ MODULE Executor ------------------------------
(***************************************************************************)
(* The execution of one timed generator. An Executor caches its enabled    *)
(* status: how much time may pass, which events are enabled, for how long  *)
(* that stays so, and when the guards of events are satisfied. The status  *)
(* is computed when it is asked for, moved along with time as long as the  *)
(* enabled events stay the same, and invalidated by any other change.      *)
(*                                                                         *)
(* An Executor is a record; each operation maps it to the one afterwards.  *)
(* What is left of a status that has been invalidated is never read, and   *)
(* is dropped here. The logical time, a counter of events, is left out.    *)
(***************************************************************************)
EXTENDS TimedGenerator

Status(gen)   == [valid : BOOLEAN, etime : Interval, einterval : Interval,
                  eevents : SUBSET gen.events, eguard : [gen.events -> Interval]]
Executor(gen) == [state : gen.states, clock : [gen.clocks -> Time], time : Time,
                  status : Status(gen)]

\* mEGuardInterval has entries for the active events; the other ones read as Nothing.
NoStatus(gen) ==
    [valid |-> FALSE, etime |-> Nothing, einterval |-> Nothing, eevents |-> {},
     eguard |-> [e \in gen.events |-> Nothing]]

\* Reset()
Fresh(gen) == [state |-> gen.init, clock |-> [c \in gen.clocks |-> 0], time |-> 0,
               status |-> NoStatus(gen)]

------------------------------------------------------------------------------

\* The interval of time that satisfies a constraint, relative to the current time.
TimeOf(constraint, clock) ==
    Intersection({Positive} \cup
                 {PositiveLeftShift(constraint[c], clock[c]) : c \in DOMAIN constraint})

\* The time until interval i begins, everything if it is empty.
UpTo(i) == IF Empty(i) THEN Positive ELSE [Positive EXCEPT !.ub = i.lb, !.ubincl = ~i.lbincl]

\* The status of x, which is constant until the first enabled event is no longer enabled or the
\* first other active one becomes so.
ComputeEnabled(gen, x) ==
    LET inv     == gen.invariant[x.state]
        guard   == gen.guard[x.state]
        active  == Active(gen, x.state)
        etime   == TimeOf(inv, x.clock)
        eguard  == [e \in gen.events |-> IF e \in active THEN TimeOf(guard[e], x.clock)
                                         ELSE Nothing]
        enabled == {e \in active : Satisfies(guard[e], x.clock, 0)}
        during(e) == Intersection({eguard[e], etime})
        same(e) == IF e \in enabled THEN during(e) ELSE UpTo(during(e))
        none    == [NoStatus(gen) EXCEPT !.valid = TRUE]
    IN  CASE x.time >= Infinity -> none
          [] x.time < Infinity /\ ~Satisfies(inv, x.clock, 0) -> [none EXCEPT !.einterval = Positive]
          [] OTHER -> [valid |-> TRUE, etime |-> etime, eevents |-> enabled, eguard |-> eguard,
                       einterval |-> Intersection({etime} \cup {same(e) : e \in active})]

\* Any of the queries computes the status.
Query(gen, x) == IF x.status.valid THEN x ELSE [x EXCEPT !.status = ComputeEnabled(gen, x)]

Invalidated(gen, x) == [x EXCEPT !.status = NoStatus(gen)]

MayExecuteTime(status, t) == In(status.etime, t) \/ (t = Infinity /\ UBinf(status.etime))

\* Move the status along with time.
Shifted(status, t) ==
    [status EXCEPT !.etime = PositiveLeftShift(@, t), !.einterval = PositiveLeftShift(@, t),
                   !.eguard = [e \in DOMAIN @ |-> PositiveLeftShift(@[e], t)]]

FaultExecuteTime(gen, x, t) ==                               \* beyond the enabled interval
    LET y == Query(gen, x)
    IN  IF x.time < Infinity /\ MayExecuteTime(y.status, t)
        THEN [y EXCEPT !.time = Plus(@, t),
                       !.clock = [c \in gen.clocks |-> Plus(@[c], t)],
                       !.status = Shifted(@, t)]
        ELSE IF x.time < Infinity THEN y ELSE x

ExecuteTime(gen, x, t) ==
    LET y == Query(gen, x)
    IN  IF x.time < Infinity /\ MayExecuteTime(y.status, t)
        THEN [y EXCEPT !.time = Plus(@, t),
                       !.clock = [c \in gen.clocks |-> Plus(@[c], t)],
                       !.status = IF t < Infinity /\ In(@.einterval, t) THEN Shifted(@, t) ELSE NoStatus(gen)]
        ELSE IF x.time < Infinity THEN y ELSE x

ExecuteEvent(gen, x, e) ==
    LET y == Query(gen, x)
    IN  IF x.time < Infinity /\ e \in y.status.eevents
        THEN [state  |-> gen.next[x.state][e],
              clock  |-> [c \in gen.clocks |->
                             IF c \in gen.resets[x.state][e] THEN 0 ELSE x.clock[c]],
              time   |-> x.time,
              status |-> NoStatus(gen)]
        ELSE IF x.time < Infinity THEN y ELSE x

\* CurrentTimedState(): a state that does not exist, or other clocks, are refused.
FaultAccepts(gen, x, clock) == DOMAIN clock = gen.clocks     \* clocks only
Accepts(gen, x, clock) == x \in gen.states /\ DOMAIN clock = gen.clocks
CurrentTimedState(gen, x, y, clock) ==
    [state |-> y, clock |-> clock, time |-> x.time, status |-> NoStatus(gen)]

CurrentTime(gen, x, t) == [Invalidated(gen, x) EXCEPT !.time = t]
=============================================================================
