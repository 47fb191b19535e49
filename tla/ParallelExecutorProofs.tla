----------------------- MODULE ParallelExecutorProofs -----------------------
(***************************************************************************)
(* What a ParallelExecutor does, for any number of timed generators, any   *)
(* constraints and any sequence of calls: the enabled status it answers    *)
(* with is right, its copy of the state is right, and it implements the    *)
(* parallel composition of the generators.                                 *)
(***************************************************************************)
EXTENDS ParallelExecutor, ExecutorProofs

EnabledStatus == [valid : BOOLEAN, etime : Interval, einterval : Interval,
                  eevents : SUBSET mAlphabet]

\* Every member is well typed and has a right status or none.
MembersInv ==
    /\ mExecutors = [i \in Id |-> mExecutors[i]]
    /\ \A i \in Id : Good(Gen[i], mExecutors[i])

\* As long as the status of the composition is valid, the members have the statuses that it
\* has been computed from.
CacheInv ==
    /\ mEnabled \in EnabledStatus
    /\ mEnabled.valid => /\ \A i \in Id : mExecutors[i].status.valid
                         /\ mEnabled = Composed(mExecutors)

IInv == mCurrentTime \in Time /\ MembersInv /\ CacheInv /\ CopyRight

------------------------------------------------------------------------------

\* The status of the composition in terms of those of the members.
LEMMA ComposedRight ==
    ASSUME NEW m, \A i \in Id : Good(Gen[i], m[i])
    PROVE  /\ Composed(m) \in EnabledStatus /\ Composed(m).valid = TRUE
           /\ \A d \in Time : d < Infinity =>
                /\ In(Composed(m).etime, d) <=> \A i \in Id : In(m[i].status.etime, d)
                /\ In(Composed(m).einterval, d) <=> \A i \in Id : In(m[i].status.einterval, d)
           /\ UBinf(Composed(m).etime) <=> \A i \in Id : UBinf(m[i].status.etime)
           /\ Composed(m).eevents =
                {e \in mAlphabet : \A i \in Id : e \in Gen[i].events => e \in m[i].status.eevents}
<1> DEFINE times == [i \in Id |-> m[i].status.etime]
           intervals == [i \in Id |-> m[i].status.einterval]
           T == {Positive} \cup {times[i] : i \in Id}
           V == {Positive} \cup {intervals[i] : i \in Id}
<1>1. Composed(m).etime = Intersection(T) /\ Composed(m).einterval = Intersection(V)
  BY DEF Composed
<1>2. \A i \in Id : /\ times[i] = m[i].status.etime /\ times[i] \in Interval
                    /\ intervals[i] = m[i].status.einterval /\ intervals[i] \in Interval
  BY DEF Good, Executor, Status
<1>3. Positive \in Interval /\ UBinf(Positive) /\ \A d \in Time : d < Infinity => In(Positive, d)
  BY InfinityAssumption DEF Positive, Interval, Bound, UBinf, In, Time
<1>4. /\ IsFiniteSet({Positive}) /\ IsFiniteSet({times[i] : i \in Id})
      /\ IsFiniteSet({intervals[i] : i \in Id})
  <2> HIDE DEF times, intervals
  <2>1. IsFiniteSet(Id)
    BY IdAssumption
  <2>2. IsFiniteSet({times[i] : i \in Id})
    BY <2>1, ImageFinite
  <2>3. IsFiniteSet({intervals[i] : i \in Id})
    BY <2>1, ImageFinite
  <2> QED BY <2>2, <2>3, FS_Singleton
<1>5. /\ T \subseteq Interval /\ T # {} /\ IsFiniteSet(T)
      /\ V \subseteq Interval /\ V # {} /\ IsFiniteSet(V)
  <2> HIDE DEF times, intervals
  <2> QED BY <1>2, <1>3, <1>4, FS_Union
<1>6. Composed(m) \in EnabledStatus /\ Composed(m).valid = TRUE
  <2>1. Intersection(T) \in Interval /\ Intersection(V) \in Interval
    <3> HIDE DEF T, V
    <3> QED BY <1>5, IntersectionType
  <2>2. mAlphabet \ UNION {Gen[i].events \ m[i].status.eevents : i \in Id} \in SUBSET mAlphabet
    OBVIOUS
  <2>3. Composed(m) = [valid |-> TRUE, etime |-> Intersection(T), einterval |-> Intersection(V),
            eevents |-> mAlphabet \ UNION {Gen[i].events \ m[i].status.eevents : i \in Id}]
    BY DEF Composed
  <2> HIDE DEF T, V
  <2> QED BY <2>1, <2>2, <2>3 DEF EnabledStatus
<1>7. ASSUME NEW d \in Time, d < Infinity
      PROVE  /\ In(Intersection(T), d) <=> \A i \in Id : In(m[i].status.etime, d)
             /\ In(Intersection(V), d) <=> \A i \in Id : In(m[i].status.einterval, d)
  <2>1. d \in Int
    BY InfinityAssumption DEF Time
  <2>2. /\ In(Intersection(T), d) <=> \A j \in T : In(j, d)
        /\ In(Intersection(V), d) <=> \A j \in V : In(j, d)
    <3> HIDE DEF T, V
    <3> QED BY <1>5, <2>1, IntersectionIn
  <2>3. In(Positive, d)
    BY <1>3, <1>7
  <2> QED BY <2>2, <2>3
<1>8. UBinf(Intersection(T)) <=> \A i \in Id : UBinf(m[i].status.etime)
  <2>1. UBinf(Intersection(T)) <=> \A j \in T : UBinf(j)
    <3> HIDE DEF T
    <3> QED BY <1>5, IntersectionUBinf
  <2> QED BY <1>3, <2>1
<1>9. Composed(m).eevents =
        {e \in mAlphabet : \A i \in Id : e \in Gen[i].events => e \in m[i].status.eevents}
  BY DEF Composed
<1> HIDE DEF T, V
<1> QED BY <1>1, <1>6, <1>7, <1>8, <1>9

\* Asking a member for its status.
LEMMA MemberQueried ==
    ASSUME IInv, NEW i \in Id
    PROVE  /\ Good(Gen[i], Query(Gen[i], mExecutors[i]))
           /\ Query(Gen[i], mExecutors[i]).status.valid = TRUE
           /\ Query(Gen[i], mExecutors[i]).state = mExecutors[i].state
           /\ Query(Gen[i], mExecutors[i]).clock = mExecutors[i].clock
           /\ Query(Gen[i], mExecutors[i]).time = mExecutors[i].time
<1>1. WellFormed(Gen[i]) /\ Good(Gen[i], mExecutors[i])
  BY GenAssumption DEF IInv, MembersInv
<1>2. \A x : Good(Gen[i], x) =>
        /\ Good(Gen[i], Query(Gen[i], x)) /\ Query(Gen[i], x).status.valid = TRUE
        /\ Query(Gen[i], x).state = x.state /\ Query(Gen[i], x).clock = x.clock
        /\ Query(Gen[i], x).time = x.time
  BY <1>1, QueryGood
<1> QED BY <1>1, <1>2

\* What an operation continues with: members that have a right status, in the states they are
\* in, and the status of their composition.
LEMMA AskedRight ==
    ASSUME IInv
    PROVE  /\ Members = [i \in Id |-> Members[i]]
           /\ \A i \in Id : /\ Good(Gen[i], Members[i])
                            /\ Members[i].status.valid = TRUE
                            /\ Members[i].state = mExecutors[i].state
                            /\ Members[i].clock = mExecutors[i].clock
                            /\ Members[i].time = mExecutors[i].time
           /\ Enabled = Composed(Members)
<1>1. CASE mEnabled.valid
  <2>1. Members = mExecutors /\ Enabled = mEnabled
    BY <1>1 DEF Members, Enabled
  <2>2. \A i \in Id : mExecutors[i].status.valid = TRUE
    BY <1>1 DEF IInv, CacheInv, MembersInv, Good, Executor, Status
  <2> QED BY <1>1, <2>1, <2>2 DEF IInv, MembersInv, CacheInv
<1>2. CASE ~mEnabled.valid
  <2>1. Members = Queried /\ Enabled = Composed(Queried)
    BY <1>2 DEF Members, Enabled
  <2>2. \A i \in Id : Queried[i] = Query(Gen[i], mExecutors[i])
    BY DEF Queried
  <2>3. Queried = [i \in Id |-> Queried[i]]
    BY DEF Queried
  <2>5. ASSUME NEW i \in Id
        PROVE  /\ Good(Gen[i], Queried[i]) /\ Queried[i].status.valid = TRUE
               /\ Queried[i].state = mExecutors[i].state
               /\ Queried[i].clock = mExecutors[i].clock
               /\ Queried[i].time = mExecutors[i].time
    BY <2>2, MemberQueried
  <2> QED BY <2>1, <2>3, <2>5, Zenon
<1> QED BY <1>1, <1>2

\* The composition lets time pass, or not, as every member and its generator do.
LEMMA TimeAllowed ==
    ASSUME IInv, NEW d \in Time, NoOverflow(d)
    PROVE  /\ \A i \in Id : Passable(Gen[i], Members[i], d)
           /\ MayExecuteTime(Enabled, d)
                <=> \A i \in Id : MayExecuteTime(Members[i].status, d)
           /\ \A i \in Id : MayExecuteTime(Members[i].status, d)
                <=> MayPassIn(Gen[i], mExecutors[i], d)
<1>1. \A i \in Id : Good(Gen[i], Members[i]) /\ Members[i].status.valid
  BY AskedRight
<1>2. ASSUME NEW i \in Id PROVE Passable(Gen[i], Members[i], d)
  BY <1>1, AskedRight DEF NoOverflow, Passable, AheadIn, IInv, CopyRight
<1>3. MayExecuteTime(Enabled, d) <=> \A i \in Id : MayExecuteTime(Members[i].status, d)
  <2>1. Enabled = Composed(Members) /\ Enabled \in EnabledStatus
    BY <1>1, AskedRight, ComposedRight
  <2>2. CASE d < Infinity
    <3>1. d # Infinity
      BY <2>2, InfinityAssumption DEF Time
    <3>2. In(Enabled.etime, d) <=> \A i \in Id : In(Members[i].status.etime, d)
      BY <1>1, <2>1, <2>2, ComposedRight
    <3> QED BY <3>1, <3>2 DEF MayExecuteTime
  <2>3. CASE d = Infinity
    <3>1. \A j \in Interval : In(j, Infinity) => UBinf(j)
      BY InfinityAssumption DEF In, UBinf, Interval, Bound
    <3>2. Enabled.etime \in Interval /\ \A i \in Id : Members[i].status.etime \in Interval
      BY <1>1, <2>1 DEF EnabledStatus, Good, Executor, Status
    <3>3. UBinf(Enabled.etime) <=> \A i \in Id : UBinf(Members[i].status.etime)
      BY <1>1, <2>1, ComposedRight
    <3> QED BY <2>3, <3>1, <3>2, <3>3 DEF MayExecuteTime
  <2>4. d < Infinity \/ d = Infinity
    BY InfinityAssumption DEF Time
  <2> QED BY <2>2, <2>3, <2>4
<1>4. ASSUME NEW i \in Id
      PROVE  MayExecuteTime(Members[i].status, d) <=> MayPassIn(Gen[i], mExecutors[i], d)
  <2>1. Members[i].status \in Status(Gen[i]) /\ Right(Gen[i], Members[i], Members[i].status)
    BY <1>1 DEF Good, Executor
  <2>2. MayExecuteTime(Members[i].status, d) <=> MayPassIn(Gen[i], Members[i], d)
    BY <1>2, <2>1, MayExecuteRight
  <2>3. MayPassIn(Gen[i], Members[i], d) <=> MayPassIn(Gen[i], mExecutors[i], d)
    BY AskedRight DEF MayPassIn
  <2> QED BY <2>2, <2>3
<1> QED BY <1>2, <1>3, <1>4

\* An event is enabled in the composition if it is in all generators that have it.
LEMMA EventAllowed ==
    ASSUME IInv
    PROVE  /\ Enabled.eevents = {e \in mAlphabet : \A i \in Id :
                    e \in Gen[i].events => e \in Members[i].status.eevents}
           /\ \A i \in Id : Members[i].status.eevents = EnabledIn(Gen[i], mExecutors[i], 0)
<1>1. \A i \in Id : Good(Gen[i], Members[i]) /\ Members[i].status.valid
  BY AskedRight
<1>2. Enabled.eevents = {e \in mAlphabet : \A i \in Id :
                    e \in Gen[i].events => e \in Members[i].status.eevents}
  BY <1>1, AskedRight, ComposedRight
<1>3. ASSUME NEW i \in Id
      PROVE  Members[i].status.eevents = EnabledIn(Gen[i], mExecutors[i], 0)
  <2>1. Members[i].status.eevents = EnabledIn(Gen[i], Members[i], 0)
    BY <1>1 DEF Good, Right
  <2>2. EnabledIn(Gen[i], Members[i], 0) = EnabledIn(Gen[i], mExecutors[i], 0)
    BY AskedRight DEF EnabledIn, MayPassIn
  <2> QED BY <2>1, <2>2
<1> QED BY <1>2, <1>3

------------------------------------------------------------------------------
(* The invariant is inductive.                                             *)

\* The parallel status that is not valid is well typed.
LEMMA UnknownType == Unknown \in EnabledStatus /\ Unknown.valid = FALSE
<1>1. Nothing \in Interval
  BY InfinityAssumption DEF Nothing, Interval, Bound
<1> QED BY <1>1 DEF Unknown, EnabledStatus

\* Any change of the members that keeps them right and agreed on the time.
LEMMA UpdateInv ==
    ASSUME NEW m, m = [i \in Id |-> m[i]], \A i \in Id : Good(Gen[i], m[i]),
           mCurrentTime' \in Time, \A i \in Id : m[i].time = mCurrentTime',
           mExecutors' = m, mEnabled' = Unknown, mCurrentParallelTimedState' = Copy(m)
    PROVE  IInv'
<1>1. MembersInv'
  BY DEF MembersInv
<1>2. CacheInv'
  BY UnknownType DEF CacheInv
<1>3. CopyRight'
  BY DEF CopyRight, Copy
<1> QED BY <1>1, <1>2, <1>3 DEF IInv

\* The copy does not change if the states do not.
LEMMA SameCopy ==
    ASSUME NEW m, NEW n, \A i \in Id : n[i].state = m[i].state /\ n[i].clock = m[i].clock
    PROVE  Copy(n) = Copy(m)
BY Zenon DEF Copy

\* Reset() of all members establishes the invariant.
LEMMA InitInv == Init => IInv
<1> SUFFICES ASSUME Init PROVE IInv
  OBVIOUS
<1>1. mCurrentTime = 0 /\ 0 \in Time
  BY InfinityAssumption DEF Init, Time
<1>2. \A i \in Id : mExecutors[i] = Fresh(Gen[i]) /\ WellFormed(Gen[i])
  BY GenAssumption DEF Init
<1>3. \A i \in Id : Good(Gen[i], mExecutors[i]) /\ mExecutors[i].time = 0
  BY <1>2, FreshGood
<1>4. mExecutors = [i \in Id |-> mExecutors[i]]
  BY DEF Init
<1>5. mEnabled = Unknown /\ mCurrentParallelTimedState = Copy(mExecutors)
  BY DEF Init
<1> QED BY <1>1, <1>3, <1>4, <1>5, UnknownType DEF IInv, MembersInv, CacheInv, CopyRight

\* A query of the parallel status fills caches and keeps the invariant.
LEMMA StatusOnlyInv == IInv /\ StatusOnly => IInv'
<1> SUFFICES ASSUME IInv, StatusOnly PROVE IInv'
  OBVIOUS
<1> DEFINE m == Members
<1>1. /\ mExecutors' = m /\ mEnabled' = Composed(m)
      /\ mCurrentTime' = mCurrentTime
      /\ mCurrentParallelTimedState' = mCurrentParallelTimedState
  BY AskedRight DEF StatusOnly
<1>2. m = [i \in Id |-> m[i]]
  BY AskedRight
<1>3. \A i \in Id : /\ Good(Gen[i], m[i]) /\ m[i].status.valid
                    /\ m[i].state = mExecutors[i].state /\ m[i].clock = mExecutors[i].clock
                    /\ m[i].time = mExecutors[i].time
  BY AskedRight
<1> HIDE DEF m
<1>4. Composed(m) \in EnabledStatus
  BY <1>3, ComposedRight
<1>5. MembersInv'
  BY <1>1, <1>2, <1>3 DEF MembersInv
<1>6. CacheInv'
  BY <1>1, <1>3, <1>4 DEF CacheInv
<1>7. CopyRight'
  <2>1. Copy(m) = Copy(mExecutors)
    BY <1>3, SameCopy
  <2> QED BY <1>1, <1>3, <2>1 DEF IInv, CopyRight
<1> QED BY <1>1, <1>5, <1>6, <1>7 DEF IInv

\* So does a query of one member on its own.
LEMMA QueryMemberInv == \A i \in Id : IInv /\ QueryMember(i) => IInv'
<1> SUFFICES ASSUME NEW i \in Id, IInv, QueryMember(i) PROVE IInv'
  OBVIOUS
<1> DEFINE m == [mExecutors EXCEPT ![i] = Query(Gen[i], @)]
<1>1. /\ mExecutors' = m /\ mEnabled' = mEnabled /\ mCurrentTime' = mCurrentTime
      /\ mCurrentParallelTimedState' = mCurrentParallelTimedState
  BY DEF QueryMember
<1>2. /\ m = [j \in Id |-> m[j]]
      /\ \A j \in Id : m[j] = IF j = i THEN Query(Gen[i], mExecutors[i]) ELSE mExecutors[j]
  BY DEF IInv, MembersInv
<1> HIDE DEF m
<1>3. \A j \in Id : Good(Gen[j], mExecutors[j])
  BY DEF IInv, MembersInv
<1>4. ASSUME NEW j \in Id
      PROVE  /\ Good(Gen[j], m[j])
             /\ m[j].state = mExecutors[j].state /\ m[j].clock = mExecutors[j].clock
             /\ m[j].time = mExecutors[j].time
  BY <1>2, <1>3, MemberQueried
<1>5. MembersInv'
  BY <1>1, <1>2, <1>4 DEF MembersInv
<1>6. CacheInv'
  <2>1. ASSUME mEnabled.valid PROVE m = mExecutors
    <3>1. mExecutors[i].status.valid
      BY <2>1 DEF IInv, CacheInv
    <3>2. Query(Gen[i], mExecutors[i]) = mExecutors[i]
      BY <3>1 DEF Query
    <3>3. mExecutors = [j \in Id |-> mExecutors[j]]
      BY DEF IInv, MembersInv
    <3> QED BY <3>2, <3>3 DEF m
  <2> QED BY <1>1, <2>1 DEF IInv, CacheInv
<1>7. CopyRight'
  <2>1. Copy(m) = Copy(mExecutors)
    BY <1>4, SameCopy
  <2> QED BY <1>1, <1>4, <2>1 DEF IInv, CopyRight
<1> QED BY <1>1, <1>5, <1>6, <1>7 DEF IInv

\* What ExecuteTime() does to a member, once the composition lets time pass.
LEMMA TimePassed ==
    ASSUME IInv, NEW d \in Time, NoOverflow(d), mCurrentTime < Infinity,
           MayExecuteTime(Enabled, d), NEW i \in Id
    PROVE  /\ Good(Gen[i], ExecuteTime(Gen[i], Members[i], d))
           /\ ExecuteTime(Gen[i], Members[i], d).state = mExecutors[i].state
           /\ ExecuteTime(Gen[i], Members[i], d).clock
                = [c \in Gen[i].clocks |-> Plus(mExecutors[i].clock[c], d)]
           /\ ExecuteTime(Gen[i], Members[i], d).time = Plus(mCurrentTime, d)
<1>1. PICK x : x = Members[i]
  OBVIOUS
<1>2. /\ Good(Gen[i], x) /\ x.status.valid
      /\ x.state = mExecutors[i].state /\ x.clock = mExecutors[i].clock
      /\ x.time = mCurrentTime
  BY <1>1, AskedRight DEF IInv, CopyRight
<1>3. Passable(Gen[i], x, d) /\ MayExecuteTime(x.status, d)
  BY <1>1, TimeAllowed
<1>4. /\ Good(Gen[i], ExecuteTime(Gen[i], x, d))
      /\ ExecuteTime(Gen[i], x, d).state = x.state
      /\ ExecuteTime(Gen[i], x, d).clock = [c \in Gen[i].clocks |-> Plus(x.clock[c], d)]
      /\ ExecuteTime(Gen[i], x, d).time = Plus(x.time, d)
  <2>1. WellFormed(Gen[i]) /\ x.time < Infinity
    BY <1>2, GenAssumption
  <2> QED BY <1>2, <1>3, <2>1, ExecuteTimeGood
<1> QED BY <1>1, <1>2, <1>4

\* What ExecuteEvent() does to a member that takes part, once the composition allows it.
LEMMA EventExecuted ==
    ASSUME IInv, NEW e \in Enabled.eevents, NEW i \in Id, e \in Gen[i].events
    PROVE  /\ Good(Gen[i], ExecuteEvent(Gen[i], Members[i], e))
           /\ ExecuteEvent(Gen[i], Members[i], e).state = Gen[i].next[mExecutors[i].state][e]
           /\ ExecuteEvent(Gen[i], Members[i], e).clock
                = [c \in Gen[i].clocks |-> IF c \in Gen[i].resets[mExecutors[i].state][e] THEN 0
                                           ELSE mExecutors[i].clock[c]]
           /\ ExecuteEvent(Gen[i], Members[i], e).time = mCurrentTime
<1>1. PICK x : x = Members[i]
  OBVIOUS
<1>2. /\ Good(Gen[i], x) /\ x.status.valid
      /\ x.state = mExecutors[i].state /\ x.clock = mExecutors[i].clock
      /\ x.time = mCurrentTime
  BY <1>1, AskedRight DEF IInv, CopyRight
<1>3. e \in x.status.eevents
  BY <1>1, EventAllowed
<1>4. /\ Good(Gen[i], ExecuteEvent(Gen[i], x, e))
      /\ ExecuteEvent(Gen[i], x, e).state = Gen[i].next[x.state][e]
      /\ ExecuteEvent(Gen[i], x, e).clock
            = [c \in Gen[i].clocks |-> IF c \in Gen[i].resets[x.state][e] THEN 0
                                       ELSE x.clock[c]]
      /\ ExecuteEvent(Gen[i], x, e).time = x.time
  BY <1>2, <1>3, GenAssumption, ExecuteEventGood
<1> QED BY <1>1, <1>2, <1>4

\* An assignment to a member, after which the time is reset.
LEMMA MemberAssigned ==
    ASSUME IInv, NEW i \in Id, NEW a \in Gen[i].states, NEW k \in [Gen[i].clocks -> Time]
    PROVE  LET y == CurrentTime(Gen[i], CurrentTimedState(Gen[i], mExecutors[i], a, k), 0)
           IN  Good(Gen[i], y) /\ y.state = a /\ y.clock = k /\ y.time = 0
<1>1. PICK x : x = mExecutors[i]
  OBVIOUS
<1>2. x \in Executor(Gen[i])
  BY <1>1 DEF IInv, MembersInv, Good
<1>3. PICK z : z = CurrentTimedState(Gen[i], x, a, k)
  OBVIOUS
<1>4. z \in Executor(Gen[i]) /\ z.state = a /\ z.clock = k
  BY <1>2, <1>3, CurrentTimedStateGood DEF Good
<1>5. PICK y : y = CurrentTime(Gen[i], z, 0)
  OBVIOUS
<1>6. 0 \in Time
  BY InfinityAssumption DEF Time
<1>7. Good(Gen[i], y) /\ y.state = a /\ y.clock = k /\ y.time = 0
  BY <1>4, <1>5, <1>6, CurrentTimeGood
<1> QED BY <1>1, <1>3, <1>5, <1>7

\* ExecuteParallelTime(): all members take the duration, or none.
LEMMA TimeInv == \A d \in Duration : IInv /\ ExecuteParallelTime(d) => IInv'
<1> SUFFICES ASSUME NEW d \in Duration, IInv, ExecuteParallelTime(d) PROVE IInv'
  OBVIOUS
<1>1. d \in Time /\ NoOverflow(d) /\ mCurrentTime < Infinity
  BY DurationAssumption DEF ExecuteParallelTime
<1>2. CASE ~MayExecuteTime(Enabled, d)
  BY <1>2, StatusOnlyInv DEF ExecuteParallelTime
<1>3. CASE MayExecuteTime(Enabled, d)
  <2> DEFINE m == [i \in Id |-> ExecuteTime(Gen[i], Members[i], d)]
  <2>1. /\ mCurrentTime' = Plus(mCurrentTime, d)
        /\ mExecutors' = m /\ mEnabled' = Unknown /\ mCurrentParallelTimedState' = Copy(m)
    BY <1>3 DEF ExecuteParallelTime, PassTime, Update
  <2>2. \A i \in Id : Good(Gen[i], m[i]) /\ m[i].time = mCurrentTime'
    BY <1>1, <1>3, <2>1, TimePassed
  <2>3. mCurrentTime' \in Time
    <3>1. PICK i \in Id : TRUE
      BY IdAssumption
    <3> QED BY <2>2, <3>1 DEF Good, Executor
  <2>4. m = [i \in Id |-> m[i]]
    OBVIOUS
  <2> HIDE DEF m
  <2> QED BY <2>1, <2>2, <2>3, <2>4, UpdateInv
<1> QED BY <1>2, <1>3

\* ExecuteParallelEvent(): all members that share the event take it, or none.
LEMMA EventInv == \A e \in mAlphabet : IInv /\ ExecuteParallelEvent(e) => IInv'
<1> SUFFICES ASSUME NEW e \in mAlphabet, IInv, ExecuteParallelEvent(e) PROVE IInv'
  OBVIOUS
<1>1. CASE e \notin Enabled.eevents
  BY <1>1, StatusOnlyInv DEF ExecuteParallelEvent
<1>2. CASE e \in Enabled.eevents
  <2> DEFINE m == [i \in Id |-> IF e \in Gen[i].events THEN ExecuteEvent(Gen[i], Members[i], e)
                                ELSE Members[i]]
  <2>1. /\ mCurrentTime' = mCurrentTime
        /\ mExecutors' = m /\ mEnabled' = Unknown /\ mCurrentParallelTimedState' = Copy(m)
    BY <1>2 DEF ExecuteParallelEvent, Update
  <2>2. ASSUME NEW i \in Id PROVE Good(Gen[i], m[i]) /\ m[i].time = mCurrentTime
    <3>1. CASE e \in Gen[i].events
      BY <1>2, <3>1, EventExecuted
    <3>2. CASE e \notin Gen[i].events
      BY <3>2, AskedRight DEF IInv, CopyRight
    <3> QED BY <3>1, <3>2
  <2>3. m = [i \in Id |-> m[i]]
    OBVIOUS
  <2> HIDE DEF m
  <2> QED BY <2>1, <2>2, <2>3, UpdateInv DEF IInv
<1> QED BY <1>1, <1>2

\* The state that is assigned: the given one, or the copy, that is the present one.
Source(s) == IF \A i \in Id : Accepts(Gen[i], s.state[i], s.clock[i])
             THEN s ELSE mCurrentParallelTimedState

\* The states and clocks that the members are set to, the given ones or the present ones,
\* are well typed.
LEMMA SourceType ==
    ASSUME IInv, NEW s \in Preset, NEW i \in Id
    PROVE  Source(s).state[i] \in Gen[i].states
           /\ Source(s).clock[i] \in [Gen[i].clocks -> Time]
<1>1. CASE \A j \in Id : Accepts(Gen[j], s.state[j], s.clock[j])
  BY <1>1, PresetAssumption DEF Source, Accepts
<1>2. CASE ~\A j \in Id : Accepts(Gen[j], s.state[j], s.clock[j])
  <2>1. Source(s).state[i] = mExecutors[i].state /\ Source(s).clock[i] = mExecutors[i].clock
    BY <1>2 DEF Source, IInv, CopyRight, Copy
  <2> QED BY <2>1 DEF IInv, MembersInv, Good, Executor
<1> QED BY <1>1, <1>2

\* CurrentParallelTimedState(s) sets all members, or sets them back.
LEMMA SetStateInv == \A s \in Preset : IInv /\ SetCurrentParallelTimedState(s) => IInv'
<1> SUFFICES ASSUME NEW s \in Preset, IInv, SetCurrentParallelTimedState(s) PROVE IInv'
  OBVIOUS
<1> DEFINE m == [i \in Id |-> CurrentTime(Gen[i], CurrentTimedState(Gen[i], mExecutors[i],
                                    Source(s).state[i], Source(s).clock[i]), 0)]
<1>1. /\ mCurrentTime' = 0
      /\ mExecutors' = m /\ mEnabled' = Unknown /\ mCurrentParallelTimedState' = Copy(m)
  BY DEF SetCurrentParallelTimedState, Update, Source
<1>2. ASSUME NEW i \in Id PROVE Good(Gen[i], m[i]) /\ m[i].time = 0
  BY SourceType, MemberAssigned
<1>3. m = [i \in Id |-> m[i]] /\ 0 \in Time
  BY InfinityAssumption DEF Time
<1> HIDE DEF m
<1> QED BY <1>1, <1>2, <1>3, UpdateInv

\* Members whose status is invalidated and whose states stay as they are.
LEMMA InvalidateInv ==
    ASSUME IInv, NEW m, m = [i \in Id |-> m[i]],
           \A i \in Id : /\ Good(Gen[i], m[i])
                         /\ m[i].state = mExecutors[i].state /\ m[i].clock = mExecutors[i].clock
                         /\ m[i].time = mCurrentTime',
           mCurrentTime' \in Time, mExecutors' = m, mEnabled' = Unknown,
           mCurrentParallelTimedState' = mCurrentParallelTimedState
    PROVE  IInv'
<1>1. Copy(m) = Copy(mExecutors)
  BY SameCopy
<1>2. mCurrentParallelTimedState' = Copy(m)
  BY <1>1 DEF IInv, CopyRight
<1> QED BY <1>2, UpdateInv

\* CurrentTime(t) sets the time of all members.
LEMMA SetTimeInv == \A t \in PresetTime : IInv /\ SetCurrentTime(t) => IInv'
<1> SUFFICES ASSUME NEW t \in PresetTime, IInv, SetCurrentTime(t) PROVE IInv'
  OBVIOUS
<1> DEFINE m == [i \in Id |-> CurrentTime(Gen[i], mExecutors[i], t)]
<1>1. /\ mCurrentTime' = t /\ t \in Time /\ mExecutors' = m /\ mEnabled' = Unknown
      /\ mCurrentParallelTimedState' = mCurrentParallelTimedState
  BY DurationAssumption DEF SetCurrentTime
<1>2. ASSUME NEW i \in Id
      PROVE  /\ Good(Gen[i], m[i])
             /\ m[i].state = mExecutors[i].state /\ m[i].clock = mExecutors[i].clock
             /\ m[i].time = t
  <2>1. mExecutors[i] \in Executor(Gen[i])
    BY DEF IInv, MembersInv, Good
  <2> QED BY <1>1, <2>1, CurrentTimeGood
<1>3. m = [i \in Id |-> m[i]]
  OBVIOUS
<1> HIDE DEF m
<1> QED BY <1>1, <1>2, <1>3, InvalidateInv

\* Setting the step only drops the statuses.
LEMMA SetStepInv == IInv /\ SetCurrentStep => IInv'
<1> SUFFICES ASSUME IInv, SetCurrentStep PROVE IInv'
  OBVIOUS
<1> DEFINE m == [i \in Id |-> Invalidated(Gen[i], mExecutors[i])]
<1>1. /\ mCurrentTime' = mCurrentTime /\ mExecutors' = m /\ mEnabled' = Unknown
      /\ mCurrentParallelTimedState' = mCurrentParallelTimedState
  BY DEF SetCurrentStep
<1>2. ASSUME NEW i \in Id
      PROVE  /\ Good(Gen[i], m[i])
             /\ m[i].state = mExecutors[i].state /\ m[i].clock = mExecutors[i].clock
             /\ m[i].time = mCurrentTime
  <2>1. mExecutors[i] \in Executor(Gen[i]) /\ mExecutors[i].time = mCurrentTime
    BY DEF IInv, MembersInv, Good, CopyRight
  <2> QED BY <2>1, InvalidatedGood
<1>3. m = [i \in Id |-> m[i]] /\ mCurrentTime \in Time
  BY DEF IInv
<1> HIDE DEF m
<1> QED BY <1>1, <1>2, <1>3, InvalidateInv

\* Reset() establishes the invariant from anywhere.
LEMMA ResetInv == Reset => IInv'
<1> SUFFICES ASSUME Reset PROVE IInv'
  OBVIOUS
<1> DEFINE m == [i \in Id |-> Fresh(Gen[i])]
<1>1. /\ mCurrentTime' = 0
      /\ mExecutors' = m /\ mEnabled' = Unknown /\ mCurrentParallelTimedState' = Copy(m)
  BY DEF Reset, Update
<1>2. ASSUME NEW i \in Id PROVE Good(Gen[i], m[i]) /\ m[i].time = 0
  BY GenAssumption, FreshGood
<1>3. m = [i \in Id |-> m[i]] /\ 0 \in Time
  BY InfinityAssumption DEF Time
<1> HIDE DEF m
<1> QED BY <1>1, <1>2, <1>3, UpdateInv

\* A step that changes no variable keeps the invariant.
LEMMA StutterInv == IInv /\ UNCHANGED vars => IInv'
BY DEF vars, IInv, MembersInv, CacheInv, CopyRight, Composed, Copy

\* Every step keeps the invariant: one case per operation.
LEMMA Inductive == IInv /\ [Next]_vars => IInv'
BY StatusOnlyInv, QueryMemberInv, TimeInv, EventInv, SetStateInv, SetTimeInv, SetStepInv,
   ResetInv, StutterInv DEF Next

\* The invariant holds in every behaviour.
LEMMA Invariance == Spec => []IInv
<1>1. Init => IInv
  BY InitInv
<1>2. IInv /\ [Next]_vars => IInv'
  BY Inductive
<1> QED BY <1>1, <1>2, PTL DEF Spec

------------------------------------------------------------------------------
(* The theorems.                                                           *)

\* Every reachable state is well typed.
THEOREM TypeCorrect == Spec => []TypeOK
<1>1. IInv => TypeOK
  BY DEF IInv, MembersInv, CacheInv, Good, TypeOK, EnabledStatus
<1> QED BY <1>1, Invariance, PTL

\* The copy of the states, to which a refused assignment returns, is the present one, and
\* the members are never apart in time.
THEOREM CopyCorrect == Spec => []CopyRight
<1>1. IInv => CopyRight
  BY DEF IInv
<1> QED BY <1>1, Invariance, PTL

\* What the composition allows of a member, in terms of its generator.
LEMMA ProductMember ==
    ASSUME IInv, NEW i \in Id
    PROVE  /\ \A d : Product!MayPass(i, d) <=> MayPassIn(Gen[i], mExecutors[i], d)
           /\ \A d : Product!Enabled(i, d) = EnabledIn(Gen[i], mExecutors[i], d)
           /\ Ahead(i) = AheadIn(Gen[i], mExecutors[i])
<1>1. mExecutors[i].time = mCurrentTime
  BY DEF IInv, CopyRight
<1>2. \A d : Product!MayPass(i, d) <=> MayPassIn(Gen[i], mExecutors[i], d)
  BY <1>1 DEF Product!MayPass, Product!Satisfies, Product!In, Product!Unbounded, Product!UBinf,
              MayPassIn, Satisfies, In, Unbounded, UBinf
<1>3. \A d : Product!Enabled(i, d) = EnabledIn(Gen[i], mExecutors[i], d)
  <2>1. \A g, x : Product!Active(g, x) = Active(g, x)
    BY DEF Product!Active, Active
  <2>2. \A k, clock, d : Product!Satisfies(k, clock, d) <=> Satisfies(k, clock, d)
    BY DEF Product!Satisfies, Product!In, Satisfies, In
  <2>3. ASSUME NEW d, NEW e
        PROVE  e \in Product!Enabled(i, d) <=> e \in EnabledIn(Gen[i], mExecutors[i], d)
    BY <1>2, <2>1, <2>2 DEF Product!Enabled, EnabledIn
  <2> QED BY <2>3
<1>4. Ahead(i) = AheadIn(Gen[i], mExecutors[i])
  BY DEF Ahead, AheadIn
<1> QED BY <1>2, <1>3, <1>4

\* The invariant gives that every valid status of a member is right.
LEMMA MembersAreRight == IInv => MemberStatusRight
<1> SUFFICES ASSUME IInv, NEW i \in Id, mExecutors[i].status.valid
             PROVE  LET status == mExecutors[i].status
                    IN  /\ \A d \in Ahead(i) : In(status.etime, d) <=> Product!MayPass(i, d)
                        /\ status.eevents = Product!Enabled(i, 0)
                        /\ \A d \in Ahead(i) : In(status.etime, d) /\ In(status.einterval, d)
                                                  => Product!Enabled(i, d) = status.eevents
  BY DEF MemberStatusRight
<1>1. Right(Gen[i], mExecutors[i], mExecutors[i].status)
  BY DEF IInv, MembersInv, Good
<1> QED BY <1>1, ProductMember DEF Right

\* The status of a member is right whenever it is valid, computed or moved along with time.
THEOREM MemberStatusCorrect == Spec => []MemberStatusRight
BY MembersAreRight, Invariance, PTL

\* The invariant gives that a valid parallel status is right.
LEMMA CompositionIsRight == IInv => StatusRight
<1> SUFFICES ASSUME IInv, mEnabled.valid PROVE StatusRight
  BY DEF StatusRight
<1>1. /\ \A i \in Id : Good(Gen[i], mExecutors[i]) /\ mExecutors[i].status.valid
      /\ mEnabled = Composed(mExecutors)
  BY DEF IInv, MembersInv, CacheInv
<1>2. \A i \in Id : Right(Gen[i], mExecutors[i], mExecutors[i].status)
  BY <1>1 DEF Good
<1>3. ASSUME NEW d \in AllAhead
      PROVE  /\ d \in Time /\ d < Infinity
             /\ \A i \in Id : d \in AheadIn(Gen[i], mExecutors[i])
  <2>1. d \in Time /\ \A i \in Id : d \in AheadIn(Gen[i], mExecutors[i])
    BY ProductMember DEF AllAhead
  <2>2. PICK i \in Id : TRUE
    BY IdAssumption
  <2>3. mExecutors[i].time \in Time
    BY <1>1 DEF Good, Executor
  <2>4. d < Infinity
    BY <2>1, <2>3, AheadTime
  <2> QED BY <2>1, <2>4
<1>4. ASSUME NEW d \in AllAhead
      PROVE  In(mEnabled.etime, d) <=> \A i \in Id : Product!MayPass(i, d)
  <2>1. In(mEnabled.etime, d) <=> \A i \in Id : In(mExecutors[i].status.etime, d)
    BY <1>1, <1>3, ComposedRight
  <2>2. \A i \in Id : In(mExecutors[i].status.etime, d) <=> Product!MayPass(i, d)
    BY <1>2, <1>3, ProductMember DEF Right
  <2> QED BY <2>1, <2>2
<1>5. mEnabled.eevents =
        {e \in mAlphabet : \A i \in Id : e \in Gen[i].events => e \in Product!Enabled(i, 0)}
  <2>1. mEnabled.eevents = {e \in mAlphabet : \A i \in Id :
                e \in Gen[i].events => e \in mExecutors[i].status.eevents}
    BY <1>1, ComposedRight
  <2>2. \A i \in Id : mExecutors[i].status.eevents = Product!Enabled(i, 0)
    BY <1>2, ProductMember DEF Right
  <2> QED BY <2>1, <2>2
<1>6. ASSUME NEW d \in AllAhead, In(mEnabled.etime, d), In(mEnabled.einterval, d), NEW i \in Id
      PROVE  Product!Enabled(i, d) = Product!Enabled(i, 0)
  <2>1. In(mExecutors[i].status.etime, d) /\ In(mExecutors[i].status.einterval, d)
    BY <1>1, <1>3, <1>6, ComposedRight
  <2> QED BY <1>2, <1>3, <2>1, ProductMember DEF Right
<1> QED BY <1>4, <1>5, <1>6 DEF StatusRight

\* The status of the composition is right whenever it is valid: no member's status or state
\* changes without it.
THEOREM StatusCorrect == Spec => []StatusRight
BY CompositionIsRight, Invariance, PTL

------------------------------------------------------------------------------
(* The composition implements the parallel product. Whatever is computed   *)
(* in between does not change states, clocks or the time.                  *)

\* A step that keeps states, clocks and the time is none of the product.
LEMMA Unseen ==
    ASSUME mCurrentTime' = mCurrentTime,
           \A i \in Id : /\ mExecutors'[i].state = mExecutors[i].state
                         /\ mExecutors'[i].clock = mExecutors[i].clock
    PROVE  UNCHANGED Product!vars
<1>1. [i \in Id |-> mExecutors'[i].state] = [i \in Id |-> mExecutors[i].state]
  OBVIOUS
<1>2. [i \in Id |-> mExecutors'[i].clock] = [i \in Id |-> mExecutors[i].clock]
  OBVIOUS
<1> QED BY <1>1, <1>2 DEF Product!vars

\* Computing the status of the composition is not seen.
LEMMA StatusOnlyUnseen == IInv /\ StatusOnly => UNCHANGED Product!vars
<1> SUFFICES ASSUME IInv, StatusOnly PROVE UNCHANGED Product!vars
  OBVIOUS
<1>1. mExecutors' = Members /\ mCurrentTime' = mCurrentTime
  BY DEF StatusOnly
<1> QED BY <1>1, AskedRight, Unseen

\* Nor is computing the one of a member.
LEMMA QueryMemberUnseen == \A i \in Id : IInv /\ QueryMember(i) => UNCHANGED Product!vars
<1> SUFFICES ASSUME NEW i \in Id, IInv, QueryMember(i) PROVE UNCHANGED Product!vars
  OBVIOUS
<1>1. /\ mCurrentTime' = mCurrentTime
      /\ mExecutors' = [mExecutors EXCEPT ![i] = Query(Gen[i], mExecutors[i])]
      /\ mExecutors = [j \in Id |-> mExecutors[j]]
  BY DEF QueryMember, IInv, MembersInv
<1>2. \A j \in Id : mExecutors'[j] = IF j = i THEN Query(Gen[i], mExecutors[i]) ELSE mExecutors[j]
  BY <1>1
<1>3. /\ Query(Gen[i], mExecutors[i]).state = mExecutors[i].state
      /\ Query(Gen[i], mExecutors[i]).clock = mExecutors[i].clock
  BY MemberQueried
<1>4. \A j \in Id : /\ mExecutors'[j].state = mExecutors[j].state
                    /\ mExecutors'[j].clock = mExecutors[j].clock
  BY <1>2, <1>3
<1> QED BY <1>1, <1>4, Unseen

\* Nor is a change of the logical time.
LEMMA SetStepUnseen == IInv /\ SetCurrentStep => UNCHANGED Product!vars
<1> SUFFICES ASSUME IInv, SetCurrentStep PROVE UNCHANGED Product!vars
  OBVIOUS
<1>1. /\ mCurrentTime' = mCurrentTime
      /\ mExecutors' = [i \in Id |-> Invalidated(Gen[i], mExecutors[i])]
  BY DEF SetCurrentStep
<1>2. ASSUME NEW i \in Id
      PROVE  /\ mExecutors'[i].state = mExecutors[i].state
             /\ mExecutors'[i].clock = mExecutors[i].clock
  <2>1. mExecutors[i] \in Executor(Gen[i])
    BY DEF IInv, MembersInv, Good
  <2>2. \A x \in Executor(Gen[i]) : /\ Invalidated(Gen[i], x).state = x.state
                                    /\ Invalidated(Gen[i], x).clock = x.clock
    BY InvalidatedRecord
  <2> QED BY <1>1, <2>1, <2>2
<1> QED BY <1>1, <1>2, Unseen

\* Time passes if all invariants hold, and then for every generator.
LEMMA TimeStep ==
    \A d \in Duration : IInv /\ ExecuteParallelTime(d) => [Product!Next]_(Product!vars)
<1> SUFFICES ASSUME NEW d \in Duration, IInv, ExecuteParallelTime(d)
             PROVE  [Product!Next]_(Product!vars)
  OBVIOUS
<1>1. d \in Time /\ NoOverflow(d) /\ mCurrentTime < Infinity
  BY DurationAssumption DEF ExecuteParallelTime
<1>2. CASE ~MayExecuteTime(Enabled, d)
  BY <1>2, StatusOnlyUnseen DEF ExecuteParallelTime
<1>3. CASE MayExecuteTime(Enabled, d)
  <2>1. /\ mCurrentTime' = Plus(mCurrentTime, d)
        /\ mExecutors' = [i \in Id |-> ExecuteTime(Gen[i], Members[i], d)]
    BY <1>3 DEF ExecuteParallelTime, PassTime, Update
  <2>2. \A i \in Id : /\ mExecutors'[i].state = mExecutors[i].state
                      /\ mExecutors'[i].clock = [c \in Gen[i].clocks |->
                                                    Plus(mExecutors[i].clock[c], d)]
    BY <1>1, <1>3, <2>1, TimePassed
  <2>3. \A i \in Id : Product!MayPass(i, d)
    <3>1. \A i \in Id : MayPassIn(Gen[i], mExecutors[i], d)
      BY <1>1, <1>3, TimeAllowed
    <3> QED BY <3>1, ProductMember
  <2>4. [i \in Id |-> mExecutors'[i].state] = [i \in Id |-> mExecutors[i].state]
    BY <2>2
  <2>5. [i \in Id |-> mExecutors'[i].clock] =
            [i \in Id |-> [c \in Gen[i].clocks |->
                Product!Plus([j \in Id |-> mExecutors[j].clock][i][c], d)]]
    BY <2>2 DEF Product!Plus, Plus
  <2>6. mCurrentTime' = Product!Plus(mCurrentTime, d)
    BY <2>1 DEF Product!Plus, Plus
  <2>7. Product!Pass(d)
    BY <2>3, <2>4, <2>5, <2>6 DEF Product!Pass
  <2>8. d \in Product!Time
    BY <1>1 DEF Product!Time, Time
  <2> QED BY <2>7, <2>8 DEF Product!Next
<1> QED BY <1>2, <1>3

\* An event is executed by all generators that have it, if all of them have it enabled.
LEMMA EventStep ==
    \A e \in mAlphabet : IInv /\ ExecuteParallelEvent(e) => [Product!Next]_(Product!vars)
<1> SUFFICES ASSUME NEW e \in mAlphabet, IInv, ExecuteParallelEvent(e)
             PROVE  [Product!Next]_(Product!vars)
  OBVIOUS
<1>1. CASE e \notin Enabled.eevents
  BY <1>1, StatusOnlyUnseen DEF ExecuteParallelEvent
<1>2. CASE e \in Enabled.eevents
  <2> DEFINE taking == {i \in Id : e \in Gen[i].events}
  <2>1. /\ mCurrentTime' = mCurrentTime
        /\ mExecutors' = [i \in Id |-> IF e \in Gen[i].events
                                       THEN ExecuteEvent(Gen[i], Members[i], e) ELSE Members[i]]
    BY <1>2 DEF ExecuteParallelEvent, Update
  <2>2. PICK i \in Id : e \in Gen[i].events
    BY DEF mAlphabet
  <2>3. e \in Event
    BY <2>2, GenAssumption DEF WellFormed
  <2>4. taking # {}
    BY <2>2
  <2>5. \A j \in taking : e \in Product!Enabled(j, 0)
    BY <1>2, EventAllowed, ProductMember
  <2>6. ASSUME NEW j \in Id
        PROVE  /\ mExecutors'[j].state = IF j \in taking THEN Gen[j].next[mExecutors[j].state][e]
                                         ELSE mExecutors[j].state
               /\ mExecutors'[j].clock = [c \in Gen[j].clocks |->
                      IF j \in taking /\ c \in Gen[j].resets[mExecutors[j].state][e] THEN 0
                      ELSE mExecutors[j].clock[c]]
    <3>1. CASE j \in taking
      BY <1>2, <2>1, <3>1, EventExecuted
    <3>2. CASE j \notin taking
      <4>1. mExecutors'[j] = Members[j]
        BY <2>1, <3>2
      <4>2. mExecutors[j].clock = [c \in Gen[j].clocks |-> mExecutors[j].clock[c]]
        BY DEF IInv, MembersInv, Good, Executor
      <4> QED BY <3>2, <4>1, <4>2, AskedRight
    <3> QED BY <3>1, <3>2
  <2> HIDE DEF taking
  <2>7. [j \in Id |-> mExecutors'[j].state] =
            [j \in Id |-> IF j \in taking
                          THEN Gen[j].next[[n \in Id |-> mExecutors[n].state][j]][e]
                          ELSE [n \in Id |-> mExecutors[n].state][j]]
    BY <2>6
  <2>8. [j \in Id |-> mExecutors'[j].clock] =
            [j \in Id |-> [c \in Gen[j].clocks |->
                IF j \in taking /\ c \in Gen[j].resets[[n \in Id |-> mExecutors[n].state][j]][e]
                THEN 0 ELSE [n \in Id |-> mExecutors[n].clock][j][c]]]
    BY <2>6
  <2>9. Product!Execute(e)
    BY <2>1, <2>4, <2>5, <2>7, <2>8 DEF Product!Execute, taking
  <2> QED BY <2>3, <2>9 DEF Product!Next
<1> QED BY <1>1, <1>2

\* A state is assigned if all members accept it, and the present one is kept otherwise.
LEMMA SetStateStep ==
    \A s \in Preset : IInv /\ SetCurrentParallelTimedState(s) => [Product!Next]_(Product!vars)
<1> SUFFICES ASSUME NEW s \in Preset, IInv, SetCurrentParallelTimedState(s)
             PROVE  [Product!Next]_(Product!vars)
  OBVIOUS
<1>1. /\ mCurrentTime' = 0
      /\ mExecutors' = [i \in Id |-> CurrentTime(Gen[i], CurrentTimedState(Gen[i], mExecutors[i],
                                    Source(s).state[i], Source(s).clock[i]), 0)]
  BY DEF SetCurrentParallelTimedState, Update, Source
<1>2. \A i \in Id : /\ mExecutors'[i].state = Source(s).state[i]
                    /\ mExecutors'[i].clock = Source(s).clock[i]
  BY <1>1, SourceType, MemberAssigned
<1>3. Product!Assignable(s) <=> \A i \in Id : Accepts(Gen[i], s.state[i], s.clock[i])
  BY DEF Product!Assignable, Accepts
<1>4. CASE Product!Assignable(s)
  <2>1. Source(s) = s
    BY <1>3, <1>4 DEF Source
  <2> DEFINE states == s.state
             clocks == s.clock
  <2>2. states = [i \in Id |-> states[i]] /\ clocks = [i \in Id |-> clocks[i]]
    BY PresetAssumption
  <2>3. \A i \in Id : mExecutors'[i].state = states[i] /\ mExecutors'[i].clock = clocks[i]
    BY <1>2, <2>1
  <2> HIDE DEF states, clocks
  <2>4. [i \in Id |-> mExecutors'[i].state] = states
    BY <2>2, <2>3
  <2>5. [i \in Id |-> mExecutors'[i].clock] = clocks
    BY <2>2, <2>3
  <2>6. Product!Assign(s)
    BY <1>1, <1>4, <2>4, <2>5 DEF Product!Assign, states, clocks
  <2> QED BY <2>6 DEF Product!Next
<1>5. CASE ~Product!Assignable(s)
  <2>1. Source(s) = Copy(mExecutors)
    BY <1>3, <1>5 DEF Source, IInv, CopyRight
  <2>2. [i \in Id |-> mExecutors'[i].state] = [i \in Id |-> mExecutors[i].state]
    BY <1>2, <2>1 DEF Copy
  <2>3. [i \in Id |-> mExecutors'[i].clock] = [i \in Id |-> mExecutors[i].clock]
    BY <1>2, <2>1 DEF Copy
  <2>4. Product!Assign(s)
    BY <1>1, <1>5, <2>2, <2>3 DEF Product!Assign
  <2> QED BY <2>4 DEF Product!Next
<1> QED BY <1>4, <1>5

\* The time is assigned to all members.
LEMMA SetTimeStep ==
    \A t \in PresetTime : IInv /\ SetCurrentTime(t) => [Product!Next]_(Product!vars)
<1> SUFFICES ASSUME NEW t \in PresetTime, IInv, SetCurrentTime(t)
             PROVE  [Product!Next]_(Product!vars)
  OBVIOUS
<1>1. mCurrentTime' = t /\ mExecutors' = [i \in Id |-> CurrentTime(Gen[i], mExecutors[i], t)]
  BY DEF SetCurrentTime
<1>2. ASSUME NEW i \in Id
      PROVE  /\ mExecutors'[i].state = mExecutors[i].state
             /\ mExecutors'[i].clock = mExecutors[i].clock
  <2>1. mExecutors[i] \in Executor(Gen[i]) /\ t \in Time
    BY DurationAssumption DEF IInv, MembersInv, Good
  <2>2. \A x \in Executor(Gen[i]) : /\ CurrentTime(Gen[i], x, t).state = x.state
                                    /\ CurrentTime(Gen[i], x, t).clock = x.clock
    BY <2>1, CurrentTimeGood
  <2> QED BY <1>1, <2>1, <2>2
<1>3. [i \in Id |-> mExecutors'[i].state] = [i \in Id |-> mExecutors[i].state]
  BY <1>2
<1>4. [i \in Id |-> mExecutors'[i].clock] = [i \in Id |-> mExecutors[i].clock]
  BY <1>2
<1>5. Product!AssignTime(t)
  BY <1>1, <1>3, <1>4 DEF Product!AssignTime
<1> QED BY <1>5 DEF Product!Next

\* A reset brings all members back to the start.
LEMMA ResetStep == Reset => [Product!Next]_(Product!vars)
<1> SUFFICES ASSUME Reset PROVE [Product!Next]_(Product!vars)
  OBVIOUS
<1>1. mCurrentTime' = 0 /\ mExecutors' = [i \in Id |-> Fresh(Gen[i])]
  BY DEF Reset, Update
<1>2. \A i \in Id : /\ mExecutors'[i].state = Gen[i].init
                    /\ mExecutors'[i].clock = [c \in Gen[i].clocks |-> 0]
  BY <1>1 DEF Fresh
<1>3. [i \in Id |-> mExecutors'[i].state] = [i \in Id |-> Gen[i].init]
  BY <1>2
<1>4. [i \in Id |-> mExecutors'[i].clock] = [i \in Id |-> [c \in Gen[i].clocks |-> 0]]
  BY <1>2
<1>5. Product!Reset
  BY <1>1, <1>3, <1>4 DEF Product!Reset
<1> QED BY <1>5 DEF Product!Next

\* A ParallelExecutor implements the parallel product of its generators: no sequence of
\* queries, executions, assignments and resets makes a cached status show.
THEOREM ImplementsProduct == Spec => RefinesTimedProduct
<1>1. Init => Product!Init
  <2> SUFFICES ASSUME Init PROVE Product!Init
    OBVIOUS
  <2>1. mCurrentTime = 0 /\ mExecutors = [i \in Id |-> Fresh(Gen[i])]
    BY DEF Init
  <2>2. \A i \in Id : /\ mExecutors[i].state = Gen[i].init
                      /\ mExecutors[i].clock = [c \in Gen[i].clocks |-> 0]
    BY <2>1 DEF Fresh
  <2>3. [i \in Id |-> mExecutors[i].state] = [i \in Id |-> Gen[i].init]
    BY <2>2
  <2>4. [i \in Id |-> mExecutors[i].clock] = [i \in Id |-> [c \in Gen[i].clocks |-> 0]]
    BY <2>2
  <2> QED BY <2>1, <2>3, <2>4 DEF Product!Init
<1>2. IInv /\ [Next]_vars => [Product!Next]_(Product!vars)
  <2>1. UNCHANGED vars => UNCHANGED Product!vars
    BY DEF vars, Product!vars
  <2> QED BY <2>1, StatusOnlyUnseen, QueryMemberUnseen, TimeStep, EventStep, SetStateStep,
             SetTimeStep, SetStepUnseen, ResetStep DEF Next
<1> QED BY <1>1, <1>2, Invariance, PTL DEF Spec, RefinesTimedProduct, Product!Spec
=============================================================================
