-------------------------- MODULE ParallelExecutor --------------------------
(***************************************************************************)
(* The synchronised execution of a number of Executors. Time passes in all *)
(* of them, an event is executed by those that have it in their alphabet.  *)
(* A ParallelExecutor caches an enabled status as well, computed from the  *)
(* cached ones of its members, and a copy of the states of its members.    *)
(* The members can be inspected, which makes them compute their status,    *)
(* but not be changed from outside.                                        *)
(***************************************************************************)
EXTENDS Executor, FiniteSets

CONSTANTS
    Id,         \* indices of the members
    Gen,        \* Gen[i], the generator of member i
    Duration,   \* times to be executed
    Preset,     \* states to be assigned, not all of them fit the generators
    PresetTime  \* times to be assigned

ASSUME IdAssumption       == IsFiniteSet(Id) /\ Id # {}
ASSUME GenAssumption      == \A i \in Id : WellFormed(Gen[i])
ASSUME DurationAssumption == Duration \subseteq Time /\ PresetTime \subseteq Time
ASSUME PresetAssumption   ==
    \A s \in Preset :
        /\ s.state = [i \in Id |-> s.state[i]] /\ s.clock = [i \in Id |-> s.clock[i]]
        /\ \A i \in Id : Accepts(Gen[i], s.state[i], s.clock[i])
                            => s.clock[i] \in [Gen[i].clocks -> Time]

VARIABLES
    mExecutors,
    mCurrentTime,
    mCurrentParallelTimedState,
    mEnabled        \* mEValid, mETime, mEInterval and mEEvents

vars == <<mExecutors, mCurrentTime, mCurrentParallelTimedState, mEnabled>>

mAlphabet == UNION {Gen[i].events : i \in Id}

Unknown == [valid |-> FALSE, etime |-> Nothing, einterval |-> Nothing, eevents |-> {}]

TypeOK ==
    /\ DOMAIN mExecutors = Id
    /\ \A i \in Id : mExecutors[i] \in Executor(Gen[i])
    /\ mCurrentTime \in Time
    /\ mEnabled \in [valid : BOOLEAN, etime : Interval, einterval : Interval,
                     eevents : SUBSET mAlphabet]

\* UpdateParallelTimedState()
Copy(members) == [state |-> [i \in Id |-> members[i].state],
                  clock |-> [i \in Id |-> members[i].clock]]

Init ==
    /\ mExecutors = [i \in Id |-> Fresh(Gen[i])]
    /\ mCurrentTime = 0
    /\ mCurrentParallelTimedState = Copy(mExecutors)
    /\ mEnabled = Unknown

------------------------------------------------------------------------------

\* The members' status, computed where it is missing, and the status of their composition. A
\* disabled event is one that a member has in its alphabet and has not enabled.
Queried == [i \in Id |-> Query(Gen[i], mExecutors[i])]

FaultComposed(members) ==                                    \* one member is enough
    [valid     |-> TRUE,
     etime     |-> Intersection({Positive} \cup {members[i].status.etime : i \in Id}),
     einterval |-> Intersection({Positive} \cup {members[i].status.einterval : i \in Id}),
     eevents   |-> UNION {members[i].status.eevents : i \in Id}]

Composed(members) ==
    [valid     |-> TRUE,
     etime     |-> Intersection({Positive} \cup {members[i].status.etime : i \in Id}),
     einterval |-> Intersection({Positive} \cup {members[i].status.einterval : i \in Id}),
     eevents   |-> mAlphabet \ UNION {Gen[i].events \ members[i].status.eevents : i \in Id}]

\* The members and the status that an operation continues with.
Members == IF mEnabled.valid THEN mExecutors ELSE Queried
Enabled == IF mEnabled.valid THEN mEnabled ELSE Composed(Queried)

\* Change the members: the copy of their states follows, the status becomes invalid.
Update(members) ==
    /\ mExecutors' = members
    /\ mCurrentParallelTimedState' = Copy(members)
    /\ mEnabled' = Unknown

\* Only the status is computed, by a query or by an operation that then fails.
StatusOnly ==
    /\ mExecutors' = Members
    /\ mEnabled' = Enabled
    /\ UNCHANGED <<mCurrentTime, mCurrentParallelTimedState>>

QueryMember(i) ==
    /\ mExecutors' = [mExecutors EXCEPT ![i] = Query(Gen[i], @)]
    /\ UNCHANGED <<mCurrentTime, mCurrentParallelTimedState, mEnabled>>

\* Time and clocks are kept below Infinity, which is reached at once or not at all.
NoOverflow(d) ==
    d = Infinity \/ /\ mCurrentTime + d < Infinity
                    /\ \A i \in Id : \A c \in Gen[i].clocks : mExecutors[i].clock[c] + d < Infinity

PassTime(d) ==
    /\ mCurrentTime' = Plus(mCurrentTime, d)
    /\ Update([i \in Id |-> ExecuteTime(Gen[i], Members[i], d)])

ExecuteParallelTime(d) ==
    /\ mCurrentTime < Infinity
    /\ d # 0
    /\ NoOverflow(d)
    /\ IF MayExecuteTime(Enabled, d) THEN PassTime(d) ELSE StatusOnly

FaultExecuteParallelEvent(e) ==                              \* status not invalidated
    IF e \in Enabled.eevents
    THEN LET members == [i \in Id |-> IF e \in Gen[i].events
                                      THEN ExecuteEvent(Gen[i], Members[i], e) ELSE Members[i]]
         IN  /\ mExecutors' = members
             /\ mCurrentParallelTimedState' = Copy(members)
             /\ mEnabled' = Enabled
             /\ UNCHANGED mCurrentTime
    ELSE StatusOnly

\* The members that take part all execute the event: a failure of one of them, which would
\* leave the others ahead, is checked by RefinesTimedProduct.
ExecuteParallelEvent(e) ==
    IF e \in Enabled.eevents
    THEN /\ Update([i \in Id |-> IF e \in Gen[i].events
                                 THEN ExecuteEvent(Gen[i], Members[i], e) ELSE Members[i]])
         /\ UNCHANGED mCurrentTime
    ELSE StatusOnly

\* Assign the states in s one by one. If a member refuses, the present states are
\* assigned again; the time is reset in both cases.
SetCurrentParallelTimedState(s) ==
    LET accepted == \A i \in Id : Accepts(Gen[i], s.state[i], s.clock[i])
        source   == IF accepted THEN s ELSE mCurrentParallelTimedState
    IN  /\ Update([i \in Id |->
                CurrentTime(Gen[i], CurrentTimedState(Gen[i], mExecutors[i],
                                                      source.state[i], source.clock[i]), 0)])
        /\ mCurrentTime' = 0

SetCurrentTime(t) ==
    /\ mCurrentTime' = t
    /\ mExecutors' = [i \in Id |-> CurrentTime(Gen[i], mExecutors[i], t)]
    /\ mEnabled' = Unknown
    /\ UNCHANGED mCurrentParallelTimedState

\* CurrentStep(step) invalidates, too.
SetCurrentStep ==
    /\ mExecutors' = [i \in Id |-> Invalidated(Gen[i], mExecutors[i])]
    /\ mEnabled' = Unknown
    /\ UNCHANGED <<mCurrentTime, mCurrentParallelTimedState>>

Reset ==
    /\ Update([i \in Id |-> Fresh(Gen[i])])
    /\ mCurrentTime' = 0

Next ==
    \/ StatusOnly
    \/ \E i \in Id : QueryMember(i)
    \/ \E d \in Duration : ExecuteParallelTime(d)
    \/ \E e \in mAlphabet : ExecuteParallelEvent(e)
    \/ \E s \in Preset : SetCurrentParallelTimedState(s)
    \/ \E t \in PresetTime : SetCurrentTime(t)
    \/ SetCurrentStep \/ Reset

Spec == Init /\ [][Next]_vars
------------------------------------------------------------------------------
(* Properties.                                                             *)

Product == INSTANCE TimedProduct
           WITH state <- [i \in Id |-> mExecutors[i].state],
                clock <- [i \in Id |-> mExecutors[i].clock],
                now   <- mCurrentTime

\* The status of a member that is valid is the one of its present state, whether it has
\* been computed or moved along with time: the time that may pass, the events that are
\* enabled now, and an interval in which they stay the same.
\* (For any duration that does not take the member to the end of time.)
Ahead(i) ==
    {d \in Time : /\ mExecutors[i].time + d < Infinity
                  /\ \A c \in Gen[i].clocks : mExecutors[i].clock[c] + d < Infinity}
MemberStatusRight ==
    \A i \in Id :
        LET status == mExecutors[i].status
        IN  status.valid =>
            /\ \A d \in Ahead(i) : In(status.etime, d) <=> Product!MayPass(i, d)
            /\ status.eevents = Product!Enabled(i, 0)
            /\ \A d \in Ahead(i) : In(status.etime, d) /\ In(status.einterval, d)
                                       => Product!Enabled(i, d) = status.eevents

\* The same for the composition: no operation leaves a valid status behind that some member
\* no longer agrees with.
AllAhead == {d \in Time : \A i \in Id : d \in Ahead(i)}
StatusRight ==
    mEnabled.valid =>
        /\ \A d \in AllAhead : In(mEnabled.etime, d) <=> \A i \in Id : Product!MayPass(i, d)
        /\ mEnabled.eevents =
               {e \in mAlphabet : \A i \in Id : e \in Gen[i].events => e \in Product!Enabled(i, 0)}
        /\ \A d \in AllAhead : In(mEnabled.etime, d) /\ In(mEnabled.einterval, d) =>
               \A i \in Id : Product!Enabled(i, d) = Product!Enabled(i, 0)

\* The members agree on the time, and their states with the copy that is restored when an
\* assignment is refused.
CopyRight ==
    /\ mCurrentParallelTimedState = Copy(mExecutors)
    /\ \A i \in Id : mExecutors[i].time = mCurrentTime

\* The cached status, and the order in which members are asked and advanced, do not show: time
\* passes and events are executed in all members that take part or in none, if and only if
\* invariants and guards allow.
RefinesTimedProduct == Product!Spec

\* EnabledGuardTime(): the interval on which an active event satisfies its guard.
GuardTimeRight ==
    \A i \in Id :
        LET x == mExecutors[i]
        IN  x.status.valid /\ x.status.etime # Nothing =>
            \A e \in Active(Gen[i], x.state), d \in Ahead(i) :
                In(x.status.eguard[e], d) <=> Satisfies(Gen[i].guard[x.state][e], x.clock, d)
=============================================================================
