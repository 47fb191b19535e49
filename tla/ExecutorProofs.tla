--------------------------- MODULE ExecutorProofs ---------------------------
(***************************************************************************)
(* What the enabled status of an Executor says, for every timed generator  *)
(* and every state: lemmas about intervals, and about each operation that  *)
(* computes a status or moves it along with time.                          *)
(***************************************************************************)
EXTENDS Executor, FiniteSetTheorems, WellFoundedInduction, TLAPS

\* A finite set of integers has a largest and a smallest element. The sets of larger
\* elements are ordered by inclusion, and the smallest one is that of the maximum.
LEMMA MaxExists ==
    ASSUME NEW S, S \subseteq Int, S # {}, IsFiniteSet(S)
    PROVE  Max(S) \in S /\ \A y \in S : y <= Max(S)
<1> DEFINE above == [x \in S |-> {y \in S : y > x}]
           T == {above[x] : x \in S}
<1>1. FiniteSubsetsOf(S) = SUBSET S
  BY FS_FiniteSubsetsOfFinite
<1>2. IsWellFoundedOn(StrictSubsetOrdering(S), SUBSET S)
  BY <1>1, FS_StrictSubsetOrderingWellFounded
<1>3. T \subseteq SUBSET S /\ T # {}
  OBVIOUS
<1>4. PICK t \in T : \A u \in T : <<u, t>> \notin StrictSubsetOrdering(S)
  <2> HIDE DEF T
  <2> QED BY <1>2, <1>3, WFMin
<1>5. PICK x \in S : t = above[x]
  BY <1>4
<1>6. ASSUME NEW y \in S, y > x PROVE FALSE
  <2>a. above[x] = {z \in S : z > x} /\ above[y] = {z \in S : z > y}
    OBVIOUS
  <2>b. \A z \in S : (z > y => z > x) /\ ~(y > y)
    BY <1>6
  <2>1. above[y] \subseteq above[x] /\ y \in above[x] /\ y \notin above[y]
    <3> HIDE DEF above
    <3> QED BY <2>a, <2>b, <1>6, Zenon
  <2>2. <<above[y], above[x]>> \in StrictSubsetOrdering(S)
    BY <2>1, <1>3 DEF StrictSubsetOrdering
  <2> QED BY <2>2, <1>4, <1>5
<1>7. \A y \in S : x >= y
  BY <1>6
<1> QED BY <1>7 DEF Max

\* A finite nonempty set of integers has a minimum.
LEMMA MinExists ==
    ASSUME NEW S, S \subseteq Int, S # {}, IsFiniteSet(S)
    PROVE  Min(S) \in S /\ \A y \in S : Min(S) <= y
<1> DEFINE below == [x \in S |-> {y \in S : y < x}]
           T == {below[x] : x \in S}
<1>1. FiniteSubsetsOf(S) = SUBSET S
  BY FS_FiniteSubsetsOfFinite
<1>2. IsWellFoundedOn(StrictSubsetOrdering(S), SUBSET S)
  BY <1>1, FS_StrictSubsetOrderingWellFounded
<1>3. T \subseteq SUBSET S /\ T # {}
  OBVIOUS
<1>4. PICK t \in T : \A u \in T : <<u, t>> \notin StrictSubsetOrdering(S)
  <2> HIDE DEF T
  <2> QED BY <1>2, <1>3, WFMin
<1>5. PICK x \in S : t = below[x]
  BY <1>4
<1>6. ASSUME NEW y \in S, y < x PROVE FALSE
  <2>a. below[x] = {z \in S : z < x} /\ below[y] = {z \in S : z < y}
    OBVIOUS
  <2>b. \A z \in S : (z < y => z < x) /\ ~(y < y)
    BY <1>6
  <2>1. below[y] \subseteq below[x] /\ y \in below[x] /\ y \notin below[y]
    <3> HIDE DEF below
    <3> QED BY <2>a, <2>b, <1>6, Zenon
  <2>2. <<below[y], below[x]>> \in StrictSubsetOrdering(S)
    BY <2>1, <1>3 DEF StrictSubsetOrdering
  <2> QED BY <2>2, <1>4, <1>5
<1>7. \A y \in S : x =< y
  BY <1>6
<1> QED BY <1>7 DEF Min

\* The values of a function on a finite set are finitely many.
LEMMA ImageFinite ==
    ASSUME NEW S, IsFiniteSet(S), NEW f
    PROVE  IsFiniteSet({f[x] : x \in S})
<1> DEFINE g == [x \in S |-> f[x]]
           T == {f[x] : x \in S}
<1>1. g \in Surjection(S, T)
  BY DEF Surjection
<1>2. IsFiniteSet(T)
  <2> HIDE DEF g, T
  <2> QED BY <1>1, FS_Surjection
<1> QED BY <1>2

\* A set of two elements is finite.
LEMMA PairFinite == ASSUME NEW a, NEW b PROVE IsFiniteSet({a, b})
<1>1. IsFiniteSet({a}) /\ IsFiniteSet({b})
  BY FS_Singleton
<1>2. IsFiniteSet({a} \cup {b})
  BY <1>1, FS_Union
<1>3. {a, b} = {a} \cup {b}
  OBVIOUS
<1> QED BY <1>2, <1>3

------------------------------------------------------------------------------
(* Intervals.                                                              *)

\* The bounds of an intersection are bounds of members.
LEMMA IntersectionBounds ==
    ASSUME NEW I, I \subseteq Interval, I # {}, IsFiniteSet(I)
    PROVE  /\ \E i \in I : Intersection(I).lb = i.lb
           /\ \E i \in I : Intersection(I).ub = i.ub
           /\ \A i \in I : i.lb <= Intersection(I).lb /\ Intersection(I).ub <= i.ub
<1> DEFINE lbs == [i \in I |-> i.lb]
           ubs == [i \in I |-> i.ub]
           L == {lbs[i] : i \in I}
           U == {ubs[i] : i \in I}
<1>1. L = {i.lb : i \in I} /\ U = {i.ub : i \in I}
  OBVIOUS
<1>2. IsFiniteSet(L) /\ IsFiniteSet(U)
  <2> HIDE DEF lbs, ubs
  <2> QED BY ImageFinite
<1>3. L \subseteq Int /\ U \subseteq Int /\ L # {} /\ U # {}
  BY <1>1 DEF Interval, Bound
<1>4. Max(L) \in L /\ \A y \in L : y <= Max(L)
  <2> HIDE DEF L
  <2> QED BY <1>2, <1>3, MaxExists
<1>5. Min(U) \in U /\ \A y \in U : Min(U) <= y
  <2> HIDE DEF U
  <2> QED BY <1>2, <1>3, MinExists
<1>6. Intersection(I).lb = Max(L) /\ Intersection(I).ub = Min(U)
  BY <1>1 DEF Intersection
<1> QED BY <1>1, <1>4, <1>5, <1>6

\* The loop of intersections returns an interval.
LEMMA IntersectionType ==
    ASSUME NEW I, I \subseteq Interval, I # {}, IsFiniteSet(I)
    PROVE  Intersection(I) \in Interval
<1>1. Intersection(I).lb \in Bound /\ Intersection(I).ub \in Bound
  BY IntersectionBounds DEF Interval
<1>2. /\ Intersection(I).lbincl \in BOOLEAN /\ Intersection(I).ubincl \in BOOLEAN
      /\ Intersection(I) = [lb |-> Intersection(I).lb, lbincl |-> Intersection(I).lbincl,
                            ub |-> Intersection(I).ub, ubincl |-> Intersection(I).ubincl]
  BY DEF Intersection
<1> QED BY <1>1, <1>2 DEF Interval

\* It contains exactly the durations that all of the intervals contain.
LEMMA IntersectionIn ==
    ASSUME NEW I, I \subseteq Interval, I # {}, IsFiniteSet(I), NEW d \in Int
    PROVE  In(Intersection(I), d) <=> \A i \in I : In(i, d)
<1> DEFINE J == Intersection(I)
<1>1. /\ J.lbincl = \A i \in I : i.lb = J.lb => i.lbincl
      /\ J.ubincl = \A i \in I : i.ub = J.ub => i.ubincl
  BY DEF Intersection
<1>2. J \in Interval
  BY IntersectionType
<1>3. ASSUME In(J, d), NEW i \in I PROVE In(i, d)
  BY <1>1, <1>2, <1>3, IntersectionBounds DEF In, Interval, Bound
<1>4. ASSUME \A i \in I : In(i, d) PROVE In(J, d)
  BY <1>1, <1>2, <1>4, IntersectionBounds DEF In, Interval, Bound
<1> QED BY <1>3, <1>4

\* It is unbounded if and only if all of the intervals are.
LEMMA IntersectionUBinf ==
    ASSUME NEW I, I \subseteq Interval, I # {}, IsFiniteSet(I)
    PROVE  UBinf(Intersection(I)) <=> \A i \in I : UBinf(i)
BY IntersectionBounds, IntersectionType, InfinityAssumption DEF UBinf, Interval, Bound

\* Shifting an interval that a clock is in: nothing is lost at the lower bound.
LEMMA ShiftType ==
    ASSUME NEW i \in Interval, NEW t \in Time
    PROVE  PositiveLeftShift(i, t) \in Interval
BY InfinityAssumption DEF PositiveLeftShift, Interval, Bound, Time, UBinf

\* A duration is in the shifted interval if the interval contains it later; the converse
\* needs that the clock is in the interval now, since a lower bound at zero becomes inclusive.
LEMMA ShiftIn ==
    ASSUME NEW i \in Interval, NEW t \in Time, NEW d \in Nat, t + d < Infinity
    PROVE  /\ In(i, t + d) => In(PositiveLeftShift(i, t), d)
           /\ In(i, t) /\ In(PositiveLeftShift(i, t), d) => In(i, t + d)
<1> DEFINE j == PositiveLeftShift(i, t)
<1>1. /\ i.lb \in Int /\ i.ub \in Int /\ i.ub <= Infinity
      /\ i.lbincl \in BOOLEAN /\ i.ubincl \in BOOLEAN
  BY DEF Interval, Bound
<1>2. /\ j.lb = IF i.lb - t <= 0 THEN 0 ELSE i.lb - t
      /\ j.ub = IF i.ub = Infinity THEN i.ub ELSE i.ub - t
      /\ j.ubincl = i.ubincl
  BY DEF PositiveLeftShift, UBinf
<1>3. j.lbincl <=> i.lb - t <= 0 \/ i.lbincl
  BY DEF PositiveLeftShift
<1>4. t \in Int /\ d \in Int /\ Infinity \in Int /\ t >= 0 /\ d >= 0
  BY InfinityAssumption DEF Time
<1>5. /\ i.lb <= t + d => j.lb <= d
      /\ i.lb <= t /\ j.lb <= d => i.lb <= t + d
      /\ i.ub >= t + d <=> j.ub >= d
      /\ i.ub = t + d <=> j.ub = d
  BY <1>1, <1>2, <1>4
<1>6. ASSUME In(i, t + d) PROVE In(j, d)
  <2>1. d = j.lb => j.lbincl
    BY <1>1, <1>2, <1>3, <1>4, <1>6 DEF In
  <2> QED BY <2>1, <1>1, <1>2, <1>4, <1>5, <1>6 DEF In
<1>7. ASSUME In(i, t), In(j, d) PROVE In(i, t + d)
  <2>1. t + d = i.lb => i.lbincl
    BY <1>1, <1>2, <1>3, <1>4, <1>7 DEF In
  <2> QED BY <2>1, <1>1, <1>2, <1>4, <1>5, <1>7 DEF In
<1> QED BY <1>6, <1>7

\* A shift leaves an unbounded interval unbounded, and a bounded one bounded.
LEMMA ShiftUBinf ==
    ASSUME NEW i \in Interval, NEW t \in Time
    PROVE  UBinf(PositiveLeftShift(i, t)) <=> UBinf(i)
BY InfinityAssumption DEF PositiveLeftShift, Interval, Bound, Time, UBinf

------------------------------------------------------------------------------
(* Constraints.                                                            *)

\* The time of a constraint: every moment that satisfies it is in, and if it is satisfied
\* now, no other one.
LEMMA TimeOfConstraint ==
    ASSUME NEW clocks, IsFiniteSet(clocks), NEW k, IsConstraint(k, clocks),
           NEW clock \in [clocks -> Time]
    PROVE  /\ TimeOf(k, clock) \in Interval
           /\ UBinf(TimeOf(k, clock)) <=> Unbounded(k)
           /\ \A d \in Time :
                (d < Infinity /\ \A c \in clocks : clock[c] + d < Infinity) =>
                /\ Satisfies(k, clock, d) => In(TimeOf(k, clock), d)
                /\ Satisfies(k, clock, 0) /\ In(TimeOf(k, clock), d) => Satisfies(k, clock, d)
<1> DEFINE shifted == [c \in DOMAIN k |-> PositiveLeftShift(k[c], clock[c])]
           S == {shifted[c] : c \in DOMAIN k}
           I == {Positive} \cup S
<1>1. TimeOf(k, clock) = Intersection(I)
  BY DEF TimeOf
<1>2. \A c \in DOMAIN k : /\ c \in clocks /\ clock[c] \in Time
                          /\ k[c] \in Interval /\ shifted[c] \in Interval
                          /\ shifted[c] = PositiveLeftShift(k[c], clock[c])
  BY ShiftType DEF IsConstraint
<1>3. Positive \in Interval /\ UBinf(Positive)
  BY InfinityAssumption DEF Positive, Interval, Bound, UBinf
<1>4. IsFiniteSet(DOMAIN k)
  BY FS_Subset DEF IsConstraint
<1>5. IsFiniteSet(S)
  <2> HIDE DEF shifted
  <2> QED BY <1>4, ImageFinite
<1>6. I \subseteq Interval /\ I # {} /\ IsFiniteSet(I)
  <2> HIDE DEF shifted
  <2>1. IsFiniteSet({Positive})
    BY FS_Singleton
  <2> QED BY <1>2, <1>3, <1>5, <2>1, FS_Union
<1>7. TimeOf(k, clock) \in Interval
  <2> HIDE DEF I
  <2> QED BY <1>1, <1>6, IntersectionType
<1>8. UBinf(TimeOf(k, clock)) <=> Unbounded(k)
  <2>1. UBinf(TimeOf(k, clock)) <=> \A i \in I : UBinf(i)
    <3> HIDE DEF I
    <3> QED BY <1>1, <1>6, IntersectionUBinf
  <2>2. (\A i \in I : UBinf(i)) <=> \A c \in DOMAIN k : UBinf(shifted[c])
    <3> HIDE DEF shifted
    <3> QED BY <1>3
  <2>3. \A c \in DOMAIN k : UBinf(shifted[c]) <=> UBinf(k[c])
    <3> HIDE DEF shifted
    <3> QED BY <1>2, ShiftUBinf
  <2> HIDE DEF I, shifted
  <2> QED BY <2>1, <2>2, <2>3 DEF Unbounded
<1>9. ASSUME NEW d \in Time, d < Infinity, \A c \in clocks : clock[c] + d < Infinity
      PROVE  /\ Satisfies(k, clock, d) => In(TimeOf(k, clock), d)
             /\ Satisfies(k, clock, 0) /\ In(TimeOf(k, clock), d) => Satisfies(k, clock, d)
  <2>1. d \in Nat /\ d \in Int
    BY InfinityAssumption DEF Time
  <2>2. In(TimeOf(k, clock), d) <=> \A i \in I : In(i, d)
    <3> HIDE DEF I
    <3> QED BY <1>1, <1>6, <2>1, IntersectionIn
  <2>3. In(Positive, d)
    BY <1>9, <2>1, InfinityAssumption DEF In, Positive
  <2>4. In(TimeOf(k, clock), d) <=> \A c \in DOMAIN k : In(shifted[c], d)
    <3> HIDE DEF shifted
    <3> QED BY <2>2, <2>3
  <2>5. ASSUME NEW c \in DOMAIN k
        PROVE  /\ In(k[c], clock[c] + d) => In(shifted[c], d)
               /\ In(k[c], clock[c]) /\ In(shifted[c], d) => In(k[c], clock[c] + d)
    <3>1. clock[c] + d < Infinity /\ clock[c] \in Time /\ k[c] \in Interval
      BY <1>2, <1>9
    <3>2. /\ In(k[c], clock[c] + d) => In(PositiveLeftShift(k[c], clock[c]), d)
          /\ In(k[c], clock[c]) /\ In(PositiveLeftShift(k[c], clock[c]), d)
                => In(k[c], clock[c] + d)
      <4>1. \A i \in Interval, t \in Time : t + d < Infinity =>
                 /\ In(i, t + d) => In(PositiveLeftShift(i, t), d)
                 /\ In(i, t) /\ In(PositiveLeftShift(i, t), d) => In(i, t + d)
        BY <2>1, ShiftIn
      <4> QED BY <3>1, <4>1, Zenon
    <3>3. shifted[c] = PositiveLeftShift(k[c], clock[c])
      OBVIOUS
    <3> HIDE DEF shifted
    <3> QED BY <3>2, <3>3
  <2>6. \A c \in DOMAIN k : clock[c] + 0 = clock[c]
    BY <1>2, InfinityAssumption DEF Time
  <2> HIDE DEF I, shifted
  <2> QED BY <2>4, <2>5, <2>6 DEF Satisfies
<1> QED BY <1>7, <1>8, <1>9

\* An interval that lasts until another one begins is over when that one is reached.
LEMMA UpToIn ==
    ASSUME NEW i \in Interval
    PROVE  /\ UpTo(i) \in Interval
           /\ \A d \in Time : ~(In(i, d) /\ In(UpTo(i), d))
<1>1. UpTo(i) \in Interval
  <2>1. CASE Empty(i)
    BY <2>1, InfinityAssumption DEF UpTo, Interval, Bound, Positive
  <2>2. CASE ~Empty(i)
    <3>1. UpTo(i) = [lb |-> 0, lbincl |-> TRUE, ub |-> i.lb, ubincl |-> ~i.lbincl]
      BY <2>2 DEF UpTo, Positive
    <3> QED BY <3>1, InfinityAssumption DEF Interval, Bound
  <2> QED BY <2>1, <2>2
<1>2. ASSUME NEW d \in Time, In(i, d), In(UpTo(i), d) PROVE FALSE
  <2>1. d \in Int /\ i.lb \in Int /\ i.ub \in Int /\ i.lbincl \in BOOLEAN /\ i.ubincl \in BOOLEAN
    BY InfinityAssumption DEF Time, Interval, Bound
  <2>2. ~Empty(i)
    BY <1>2, <2>1 DEF In, Empty
  <2>3. UpTo(i).ub = i.lb /\ (UpTo(i).ubincl <=> ~i.lbincl)
    BY <2>2 DEF UpTo, Positive
  <2> QED BY <1>2, <2>1, <2>3 DEF In
<1> QED BY <1>1, <1>2

------------------------------------------------------------------------------
(* The status.                                                             *)

\* What the generator allows in the state of x, cf. TimedProduct, and the times that do not
\* take x to the end of time.
MayPassIn(gen, x, d) ==
    LET inv == gen.invariant[x.state]
    IN  /\ x.time < Infinity
        /\ Satisfies(inv, x.clock, 0)
        /\ IF d = Infinity THEN Unbounded(inv) ELSE Satisfies(inv, x.clock, d)

EnabledIn(gen, x, d) ==
    {e \in Active(gen, x.state) :
        MayPassIn(gen, x, d) /\ Satisfies(gen.guard[x.state][e], x.clock, d)}

AheadIn(gen, x) ==
    {d \in Time : x.time + d < Infinity /\ \A c \in gen.clocks : x.clock[c] + d < Infinity}

\* The status s is right in the state of x.
Right(gen, x, s) ==
    /\ \A d \in AheadIn(gen, x) : In(s.etime, d) <=> MayPassIn(gen, x, d)
    /\ UBinf(s.etime) <=> MayPassIn(gen, x, Infinity)
    /\ s.eevents = EnabledIn(gen, x, 0)
    /\ \A d \in AheadIn(gen, x) : In(s.etime, d) /\ In(s.einterval, d) =>
            EnabledIn(gen, x, d) = s.eevents

\* What the lemmas need to know of a generator and of a state.
LEMMA Constraints ==
    ASSUME NEW gen, WellFormed(gen), NEW x \in Executor(gen)
    PROVE  /\ IsFiniteSet(gen.clocks) /\ IsFiniteSet(gen.events)
           /\ x.state \in gen.states /\ x.clock \in [gen.clocks -> Time] /\ x.time \in Time
           /\ x.status \in Status(gen)
           /\ IsConstraint(gen.invariant[x.state], gen.clocks)
           /\ \A e \in gen.events : IsConstraint(gen.guard[x.state][e], gen.clocks)
           /\ Active(gen, x.state) \subseteq gen.events
BY DEF WellFormed, Executor, Active

\* A time ahead is a moment that all clocks can show.
LEMMA AheadTime ==
    ASSUME NEW gen, NEW x, x.time \in Time, NEW d \in AheadIn(gen, x)
    PROVE  /\ d \in Time /\ d \in Nat /\ d < Infinity /\ x.time < Infinity
           /\ \A c \in gen.clocks : x.clock[c] + d < Infinity
BY InfinityAssumption DEF AheadIn, Time

\* The statuses that ComputeEnabled() starts from are well typed.
LEMMA NoStatusType ==
    ASSUME NEW gen
    PROVE  /\ NoStatus(gen) \in Status(gen)
           /\ [NoStatus(gen) EXCEPT !.valid = TRUE] \in Status(gen)
           /\ [[NoStatus(gen) EXCEPT !.valid = TRUE] EXCEPT !.einterval = Positive] \in Status(gen)
<1>1. Nothing \in Interval /\ Positive \in Interval
  BY InfinityAssumption DEF Nothing, Positive, Interval, Bound
<1>2. [e \in gen.events |-> Nothing] \in [gen.events -> Interval]
  BY <1>1
<1> QED BY <1>1, <1>2 DEF NoStatus, Status

\* The empty interval contains no duration and is bounded.
LEMMA NothingIn == \A d \in Time : ~In(Nothing, d) /\ ~UBinf(Nothing)
BY InfinityAssumption DEF Nothing, In, UBinf, Time

\* ComputeEnabled() in the ordinary case: time is not over and the invariant holds.
LEMMA ComputeOrdinary ==
    ASSUME NEW gen, WellFormed(gen), NEW x \in Executor(gen),
           x.time < Infinity, Satisfies(gen.invariant[x.state], x.clock, 0)
    PROVE  /\ ComputeEnabled(gen, x) \in Status(gen)
           /\ ComputeEnabled(gen, x).valid = TRUE
           /\ Right(gen, x, ComputeEnabled(gen, x))
<1> DEFINE inv == gen.invariant[x.state]
           guard == gen.guard[x.state]
           active == Active(gen, x.state)
           etime == TimeOf(inv, x.clock)
           eguard == [e \in gen.events |-> IF e \in active THEN TimeOf(guard[e], x.clock)
                                           ELSE Nothing]
           enabled == {e \in active : Satisfies(guard[e], x.clock, 0)}
           during == [e \in active |-> Intersection({eguard[e], etime})]
           same == [e \in active |-> IF e \in enabled THEN during[e] ELSE UpTo(during[e])]
           I == {etime} \cup {same[e] : e \in active}
           s == [valid |-> TRUE, etime |-> etime, eevents |-> enabled, eguard |-> eguard,
                 einterval |-> Intersection(I)]
<1>1. ComputeEnabled(gen, x) = s
  <2>1. {same[e] : e \in active} =
        {IF e \in enabled THEN Intersection({eguard[e], etime})
         ELSE UpTo(Intersection({eguard[e], etime})) : e \in active}
    OBVIOUS
  <2>2. ~(x.time >= Infinity)
    BY Constraints, InfinityAssumption DEF Time
  <2> QED BY <2>1, <2>2 DEF ComputeEnabled
<1>2. /\ IsFiniteSet(gen.clocks) /\ IsFiniteSet(gen.events)
      /\ x.clock \in [gen.clocks -> Time] /\ x.time \in Time
      /\ IsConstraint(inv, gen.clocks)
      /\ active \subseteq gen.events
      /\ \A e \in active : IsConstraint(guard[e], gen.clocks)
  BY Constraints
<1> HIDE DEF inv, guard, active
<1>3. /\ etime \in Interval
      /\ \A e \in active : TimeOf(guard[e], x.clock) \in Interval
      /\ \A e \in gen.events : eguard[e] \in Interval
  <2>1. etime \in Interval /\ \A e \in active : TimeOf(guard[e], x.clock) \in Interval
    BY <1>2, TimeOfConstraint
  <2>2. Nothing \in Interval
    BY InfinityAssumption DEF Nothing, Interval, Bound
  <2> QED BY <2>1, <2>2
<1>4. \A e \in active : /\ eguard[e] = TimeOf(guard[e], x.clock) /\ eguard[e] \in Interval
                        /\ during[e] = Intersection({eguard[e], etime})
                        /\ same[e] = IF e \in enabled THEN during[e] ELSE UpTo(during[e])
  BY <1>2, <1>3
<1> HIDE DEF etime, eguard, enabled, during, same
<1>5. ASSUME NEW e \in active
      PROVE  /\ during[e] \in Interval /\ same[e] \in Interval
             /\ \A d \in Time : In(during[e], d) <=> In(eguard[e], d) /\ In(etime, d)
  <2> DEFINE J == {eguard[e], etime}
  <2>1. J \subseteq Interval /\ J # {} /\ IsFiniteSet(J)
    <3>1. IsFiniteSet(J)
      BY PairFinite
    <3> QED BY <1>3, <1>4, <3>1
  <2>2. during[e] \in Interval
    <3> HIDE DEF J
    <3> QED BY <1>4, <2>1, IntersectionType DEF J
  <2>3. same[e] \in Interval
    BY <1>4, <2>2, UpToIn
  <2>4. ASSUME NEW d \in Time PROVE In(during[e], d) <=> In(eguard[e], d) /\ In(etime, d)
    <3>1. d \in Int
      BY InfinityAssumption DEF Time
    <3>2. In(Intersection(J), d) <=> \A i \in J : In(i, d)
      <4> HIDE DEF J
      <4> QED BY <2>1, <3>1, IntersectionIn
    <3> QED BY <1>4, <3>2
  <2> QED BY <2>2, <2>3, <2>4
<1>6. /\ I \subseteq Interval /\ I # {} /\ IsFiniteSet(I)
  <2>1. IsFiniteSet(active)
    BY <1>2, FS_Subset
  <2>2. IsFiniteSet({same[e] : e \in active})
    BY <2>1, ImageFinite
  <2>3. IsFiniteSet({etime})
    BY FS_Singleton
  <2> QED BY <1>3, <1>5, <2>2, <2>3, FS_Union
<1>7. Intersection(I) \in Interval
  <2> HIDE DEF I
  <2> QED BY <1>6, IntersectionType
<1>8. s \in Status(gen)
  <2>1. enabled \subseteq gen.events
    BY <1>2 DEF enabled
  <2>2. eguard \in [gen.events -> Interval]
    BY <1>3 DEF eguard
  <2> HIDE DEF I
  <2> QED BY <1>3, <1>7, <2>1, <2>2 DEF Status
<1>9. ASSUME NEW d \in AheadIn(gen, x)
      PROVE  /\ In(etime, d) <=> MayPassIn(gen, x, d)
             /\ \A e \in active : /\ Satisfies(guard[e], x.clock, d) => In(eguard[e], d)
                                  /\ Satisfies(guard[e], x.clock, 0) /\ In(eguard[e], d) =>
                                        Satisfies(guard[e], x.clock, d)
  <2>1. d \in Time /\ d < Infinity /\ \A c \in gen.clocks : x.clock[c] + d < Infinity
    BY <1>2, AheadTime
  <2>2. In(etime, d) <=> Satisfies(inv, x.clock, d)
    BY <1>2, <2>1, TimeOfConstraint DEF etime, inv
  <2>3. d # Infinity
    BY <2>1, InfinityAssumption DEF Time
  <2>4. MayPassIn(gen, x, d) <=> Satisfies(inv, x.clock, d)
    BY <2>3 DEF MayPassIn, inv
  <2>5. ASSUME NEW e \in active
        PROVE  /\ Satisfies(guard[e], x.clock, d) => In(eguard[e], d)
               /\ Satisfies(guard[e], x.clock, 0) /\ In(eguard[e], d) =>
                    Satisfies(guard[e], x.clock, d)
    <3>1. IsConstraint(guard[e], gen.clocks)
      BY <1>2
    <3>2. \A t \in Time :
            (t < Infinity /\ \A c \in gen.clocks : x.clock[c] + t < Infinity) =>
            /\ Satisfies(guard[e], x.clock, t) => In(TimeOf(guard[e], x.clock), t)
            /\ Satisfies(guard[e], x.clock, 0) /\ In(TimeOf(guard[e], x.clock), t) =>
                  Satisfies(guard[e], x.clock, t)
      BY <1>2, <3>1, TimeOfConstraint
    <3> QED BY <1>4, <2>1, <3>2
  <2> QED BY <2>2, <2>4, <2>5
<1>10. UBinf(etime) <=> MayPassIn(gen, x, Infinity)
  BY <1>2, TimeOfConstraint DEF MayPassIn, etime, inv
<1>11. enabled = EnabledIn(gen, x, 0)
  <2>1. MayPassIn(gen, x, 0)
    BY InfinityAssumption DEF MayPassIn
  <2> QED BY <2>1 DEF EnabledIn, enabled, guard, active
<1>12. ASSUME NEW d \in AheadIn(gen, x), In(etime, d), In(Intersection(I), d)
       PROVE  EnabledIn(gen, x, d) = enabled
  <2>1. d \in Time /\ d \in Int
    BY <1>2, AheadTime
  <2>2. \A i \in I : In(i, d)
    <3> HIDE DEF I
    <3> QED BY <1>6, <1>12, <2>1, IntersectionIn
  <2>3. \A e \in active : In(same[e], d)
    BY <2>2
  <2>4. ASSUME NEW e \in active PROVE Satisfies(guard[e], x.clock, d) <=> e \in enabled
    <3>1. CASE e \in enabled
      <4>1. In(eguard[e], d)
        BY <1>4, <1>5, <2>1, <2>3, <3>1
      <4> QED BY <1>9, <3>1, <4>1 DEF enabled
    <3>2. CASE e \notin enabled
      <4>1. ~In(during[e], d)
        BY <1>4, <1>5, <2>1, <2>3, <3>2, UpToIn
      <4> QED BY <1>5, <1>9, <1>12, <2>1, <3>2, <4>1
    <3> QED BY <3>1, <3>2
  <2>5. MayPassIn(gen, x, d)
    BY <1>9, <1>12
  <2>6. EnabledIn(gen, x, d) = {e \in active : Satisfies(guard[e], x.clock, d)}
    BY <2>5 DEF EnabledIn, active, guard
  <2>7. enabled \subseteq active
    BY DEF enabled
  <2> QED BY <2>4, <2>6, <2>7
<1>13. Right(gen, x, s)
  <2> HIDE DEF I
  <2> QED BY <1>9, <1>10, <1>11, <1>12 DEF Right
<1> QED BY <1>1, <1>8, <1>13

\* Whatever is computed is right.
LEMMA ComputeRight ==
    ASSUME NEW gen, WellFormed(gen), NEW x \in Executor(gen)
    PROVE  /\ ComputeEnabled(gen, x) \in Status(gen)
           /\ ComputeEnabled(gen, x).valid = TRUE
           /\ Right(gen, x, ComputeEnabled(gen, x))
<1> DEFINE none == [NoStatus(gen) EXCEPT !.valid = TRUE]
           s == ComputeEnabled(gen, x)
<1>1. x.time \in Time
  BY DEF Executor
<1>2. CASE x.time < Infinity /\ Satisfies(gen.invariant[x.state], x.clock, 0)
  BY <1>2, ComputeOrdinary
<1>3. CASE ~(x.time < Infinity /\ Satisfies(gen.invariant[x.state], x.clock, 0))
  <2>1. s = none \/ s = [none EXCEPT !.einterval = Positive]
    BY <1>1, <1>3, InfinityAssumption DEF ComputeEnabled, Time
  <2>2. s \in Status(gen)
    BY <2>1, NoStatusType
  <2>3. s.valid = TRUE /\ s.etime = Nothing /\ s.eevents = {}
    BY <2>1 DEF NoStatus
  <2>4. \A d : ~MayPassIn(gen, x, d)
    BY <1>3 DEF MayPassIn
  <2>5. \A d : EnabledIn(gen, x, d) = {}
    BY <2>4 DEF EnabledIn
  <2>6. \A d \in AheadIn(gen, x) : ~In(s.etime, d)
    BY <2>3, NothingIn DEF AheadIn
  <2>7. ~UBinf(s.etime)
    BY <2>3, NothingIn, InfinityAssumption DEF Time
  <2>8. Right(gen, x, s)
    BY <2>3, <2>4, <2>5, <2>6, <2>7 DEF Right
  <2> QED BY <2>2, <2>3, <2>8
<1> QED BY <1>2, <1>3

\* An Executor that is well typed and has a right status, if any.
Good(gen, x) == x \in Executor(gen) /\ (x.status.valid => Right(gen, x, x.status))

\* A status that is right remains so for an equal state, clock and time.
LEMMA SameRight ==
    ASSUME NEW gen, NEW x, NEW y, NEW s,
           y.state = x.state, y.clock = x.clock, y.time = x.time, Right(gen, x, s)
    PROVE  Right(gen, y, s)
<1>1. \A d : MayPassIn(gen, y, d) <=> MayPassIn(gen, x, d)
  BY DEF MayPassIn
<1>2. \A d : EnabledIn(gen, y, d) = EnabledIn(gen, x, d)
  BY <1>1 DEF EnabledIn
<1>3. AheadIn(gen, y) = AheadIn(gen, x)
  BY DEF AheadIn
<1> QED BY <1>1, <1>2, <1>3 DEF Right

\* Only an invalid status is left: nothing more to show than the types.
LEMMA InvalidGood ==
    ASSUME NEW gen, NEW a \in gen.states, NEW k \in [gen.clocks -> Time], NEW t \in Time
    PROVE  Good(gen, [state |-> a, clock |-> k, time |-> t, status |-> NoStatus(gen)])
<1> DEFINE y == [state |-> a, clock |-> k, time |-> t, status |-> NoStatus(gen)]
<1>1. NoStatus(gen) \in Status(gen)
  BY NoStatusType
<1>2. y \in Executor(gen)
  BY <1>1 DEF Executor
<1>3. y.status.valid = FALSE
  BY DEF NoStatus
<1> QED BY <1>2, <1>3 DEF Good

\* A query computes a right status where there is none, and moves nothing else.
LEMMA QueryGood ==
    ASSUME NEW gen, WellFormed(gen), NEW x, Good(gen, x)
    PROVE  /\ Good(gen, Query(gen, x))
           /\ Query(gen, x).status.valid = TRUE
           /\ Query(gen, x).state = x.state /\ Query(gen, x).clock = x.clock
           /\ Query(gen, x).time = x.time
<1> DEFINE y == Query(gen, x)
<1>1. x \in Executor(gen)
  BY DEF Good
<1>2. CASE x.status.valid
  <2>1. y = x
    BY <1>2 DEF Query
  <2>2. x.status.valid = TRUE
    BY <1>1, <1>2 DEF Executor, Status
  <2> QED BY <2>1, <2>2
<1>3. CASE ~x.status.valid
  <2>1. y = [x EXCEPT !.status = ComputeEnabled(gen, x)]
    BY <1>3 DEF Query
  <2>2. /\ y.state = x.state /\ y.clock = x.clock /\ y.time = x.time
        /\ y.status = ComputeEnabled(gen, x)
    BY <1>1, <2>1 DEF Executor
  <2>3. y \in Executor(gen)
    <3>1. ComputeEnabled(gen, x) \in Status(gen)
      BY <1>1, ComputeRight
    <3> QED BY <1>1, <2>1, <3>1 DEF Executor
  <2>4. Right(gen, y, y.status)
    BY <1>1, <2>2, ComputeRight, SameRight
  <2> QED BY <1>1, <1>3, <2>2, <2>3, <2>4, ComputeRight DEF Good
<1> QED BY <1>2, <1>3

\* Constraints after time t has passed.
LEMMA LaterSatisfies ==
    ASSUME NEW clocks, NEW k, IsConstraint(k, clocks),
           NEW clock \in [clocks -> Time], NEW t \in Time, NEW d \in Time,
           NEW later, later = [c \in clocks |-> clock[c] + t]
    PROVE  Satisfies(k, later, d) <=> Satisfies(k, clock, t + d)
<1>1. ASSUME NEW c \in DOMAIN k PROVE later[c] + d = clock[c] + (t + d)
  <2>1. c \in clocks /\ clock[c] \in Time
    BY DEF IsConstraint
  <2>2. later[c] = clock[c] + t
    BY <2>1
  <2> QED BY <2>1, <2>2, InfinityAssumption DEF Time
<1> QED BY <1>1 DEF Satisfies

\* As long as the enabled events stay the same, moving the status along is as good as
\* computing it again.
LEMMA ShiftedRight ==
    ASSUME NEW gen, WellFormed(gen), NEW x \in Executor(gen), NEW s \in Status(gen),
           Right(gen, x, s), NEW t \in AheadIn(gen, x), In(s.etime, t), In(s.einterval, t),
           NEW y, y.state = x.state, y.time = x.time + t,
           y.clock = [c \in gen.clocks |-> x.clock[c] + t]
    PROVE  Shifted(s, t) \in Status(gen) /\ Right(gen, y, Shifted(s, t))
<1> DEFINE z == Shifted(s, t)
<1>1. /\ t \in Time /\ t \in Nat /\ t < Infinity /\ x.time < Infinity /\ x.time \in Time
      /\ \A c \in gen.clocks : x.clock[c] + t < Infinity
  BY Constraints, AheadTime
<1>2. /\ x.clock \in [gen.clocks -> Time]
      /\ IsConstraint(gen.invariant[x.state], gen.clocks)
      /\ \A e \in gen.events : IsConstraint(gen.guard[x.state][e], gen.clocks)
      /\ Active(gen, x.state) \subseteq gen.events
  BY Constraints
<1>3. /\ s.etime \in Interval /\ s.einterval \in Interval /\ s.valid \in BOOLEAN
      /\ s.eevents \in SUBSET gen.events /\ s.eguard \in [gen.events -> Interval]
      /\ s = [valid |-> s.valid, etime |-> s.etime, einterval |-> s.einterval,
              eevents |-> s.eevents, eguard |-> s.eguard]
  BY DEF Status
<1>4. z = [valid |-> s.valid, etime |-> PositiveLeftShift(s.etime, t),
           einterval |-> PositiveLeftShift(s.einterval, t), eevents |-> s.eevents,
           eguard |-> [e \in gen.events |-> PositiveLeftShift(s.eguard[e], t)]]
  <2>1. DOMAIN s.eguard = gen.events
    BY <1>3
  <2>2. [e \in DOMAIN s.eguard |-> PositiveLeftShift(s.eguard[e], t)]
        = [e \in gen.events |-> PositiveLeftShift(s.eguard[e], t)]
    BY <2>1, Zenon
  <2> DEFINE g == [e \in gen.events |-> PositiveLeftShift(s.eguard[e], t)]
  <2>3. z = [s EXCEPT !.etime = PositiveLeftShift(s.etime, t),
                      !.einterval = PositiveLeftShift(s.einterval, t), !.eguard = g]
    BY <2>2, Zenon DEF Shifted
  <2> HIDE DEF g, z
  <2>4. z = [valid |-> s.valid, etime |-> PositiveLeftShift(s.etime, t),
             einterval |-> PositiveLeftShift(s.einterval, t), eevents |-> s.eevents,
             eguard |-> g]
    BY <1>3, <2>3
  <2> QED BY <2>4 DEF g
<1>5. z \in Status(gen)
  <2>1. /\ PositiveLeftShift(s.etime, t) \in Interval
        /\ PositiveLeftShift(s.einterval, t) \in Interval
        /\ [e \in gen.events |-> PositiveLeftShift(s.eguard[e], t)] \in [gen.events -> Interval]
    BY <1>1, <1>3, ShiftType
  <2> QED BY <1>3, <1>4, <2>1 DEF Status
<1>6. ASSUME NEW d \in AheadIn(gen, y)
      PROVE  /\ d \in Time /\ d \in Nat /\ d # Infinity
             /\ t + d \in AheadIn(gen, x) /\ t + d < Infinity /\ t + d # Infinity
  <2>1. d \in Time /\ y.time + d < Infinity /\ \A c \in gen.clocks : y.clock[c] + d < Infinity
    BY DEF AheadIn
  <2>2. d \in Nat /\ d <= Infinity
    BY <2>1, InfinityAssumption DEF Time
  <2>3. x.time + (t + d) < Infinity /\ t + d < Infinity /\ d < Infinity
    BY <1>1, <2>1, <2>2, InfinityAssumption DEF Time
  <2>4. ASSUME NEW c \in gen.clocks PROVE x.clock[c] + (t + d) < Infinity
    <3>1. y.clock[c] = x.clock[c] + t /\ x.clock[c] \in Time
      BY <1>2
    <3> QED BY <1>1, <2>1, <2>2, <3>1, InfinityAssumption DEF Time
  <2>5. t + d \in Time
    BY <1>1, <2>2, <2>3, InfinityAssumption DEF Time
  <2> QED BY <1>1, <2>1, <2>2, <2>3, <2>4, <2>5, InfinityAssumption DEF AheadIn
<1>7. \A d \in Time : Satisfies(gen.invariant[x.state], y.clock, d)
                        <=> Satisfies(gen.invariant[x.state], x.clock, t + d)
  <2> TAKE d \in Time
  <2>1. PICK k : k = gen.invariant[x.state]
    OBVIOUS
  <2>2. IsConstraint(k, gen.clocks)
    BY <1>2, <2>1
  <2>3. Satisfies(k, y.clock, d) <=> Satisfies(k, x.clock, t + d)
    BY <1>1, <1>2, <2>2, LaterSatisfies
  <2> QED BY <2>1, <2>3
<1>8. \A e \in Active(gen, x.state), d \in Time :
        Satisfies(gen.guard[x.state][e], y.clock, d)
            <=> Satisfies(gen.guard[x.state][e], x.clock, t + d)
  <2> TAKE e \in Active(gen, x.state), d \in Time
  <2>1. PICK k : k = gen.guard[x.state][e]
    OBVIOUS
  <2>2. IsConstraint(k, gen.clocks)
    BY <1>2, <2>1
  <2>3. Satisfies(k, y.clock, d) <=> Satisfies(k, x.clock, t + d)
    BY <1>1, <1>2, <2>2, LaterSatisfies
  <2> QED BY <2>1, <2>3
<1>9. MayPassIn(gen, x, t) /\ Satisfies(gen.invariant[x.state], x.clock, 0)
  BY DEF Right, MayPassIn
<1>10. t # Infinity /\ t + 0 = t /\ 0 \in Time /\ 0 # Infinity
  BY <1>1, InfinityAssumption DEF Time
<1>11. y.time < Infinity /\ Satisfies(gen.invariant[x.state], y.clock, 0)
  <2>1. y.time < Infinity
    BY DEF AheadIn
  <2>2. Satisfies(gen.invariant[x.state], x.clock, t)
    BY <1>9, <1>10 DEF MayPassIn
  <2> QED BY <1>7, <1>10, <2>1, <2>2
<1>12. ASSUME NEW d \in Time, d # Infinity, t + d # Infinity
       PROVE  /\ MayPassIn(gen, y, d) <=> MayPassIn(gen, x, t + d)
              /\ EnabledIn(gen, y, d) = EnabledIn(gen, x, t + d)
  <2>1. MayPassIn(gen, y, d) <=> MayPassIn(gen, x, t + d)
    BY <1>1, <1>7, <1>9, <1>11, <1>12 DEF MayPassIn
  <2>2. EnabledIn(gen, y, d) = EnabledIn(gen, x, t + d)
    BY <1>8, <2>1 DEF EnabledIn
  <2> QED BY <2>1, <2>2
<1>13. ASSUME NEW d \in AheadIn(gen, y)
       PROVE  /\ In(z.etime, d) <=> In(s.etime, t + d)
              /\ In(z.einterval, d) => In(s.einterval, t + d)
  <2>1. \A i \in Interval : In(i, t) => (In(PositiveLeftShift(i, t), d) <=> In(i, t + d))
    BY <1>1, <1>6, ShiftIn
  <2> QED BY <1>3, <1>4, <2>1
<1>14. \A d \in AheadIn(gen, y) : In(z.etime, d) <=> MayPassIn(gen, y, d)
  BY <1>6, <1>12, <1>13 DEF Right
<1>15. UBinf(z.etime) <=> MayPassIn(gen, y, Infinity)
  <2>1. UBinf(z.etime) <=> UBinf(s.etime)
    BY <1>1, <1>3, <1>4, ShiftUBinf
  <2>2. MayPassIn(gen, y, Infinity) <=> MayPassIn(gen, x, Infinity)
    BY <1>1, <1>9, <1>11 DEF MayPassIn
  <2> QED BY <2>1, <2>2 DEF Right
<1>16. z.eevents = EnabledIn(gen, y, 0)
  <2>1. EnabledIn(gen, x, t) = s.eevents
    BY DEF Right
  <2> QED BY <1>4, <1>10, <1>12, <2>1
<1>17. \A d \in AheadIn(gen, y) : In(z.etime, d) /\ In(z.einterval, d) =>
            EnabledIn(gen, y, d) = z.eevents
  BY <1>4, <1>6, <1>12, <1>13 DEF Right
<1>18. Right(gen, y, z)
  <2> HIDE DEF z
  <2> QED BY <1>14, <1>15, <1>16, <1>17 DEF Right
<1> QED BY <1>5, <1>18

------------------------------------------------------------------------------
(* The operations.                                                         *)

\* A time that an Executor may be asked to execute: it is not taken to the end of time, or
\* at once.
Passable(gen, x, t) == t \in AheadIn(gen, x) \/ t = Infinity

\* The status tells how much time may pass.
LEMMA MayExecuteRight ==
    ASSUME NEW gen, NEW x, NEW s \in Status(gen), Right(gen, x, s),
           NEW t, Passable(gen, x, t)
    PROVE  MayExecuteTime(s, t) <=> MayPassIn(gen, x, t)
<1>1. s.etime.ub \in Int /\ s.etime.ub <= Infinity
  BY DEF Status, Interval, Bound
<1>2. CASE t \in AheadIn(gen, x) /\ t # Infinity
  BY <1>2 DEF MayExecuteTime, Right
<1>3. CASE t = Infinity
  <2>1. In(s.etime, Infinity) => UBinf(s.etime)
    BY <1>1, InfinityAssumption DEF In, UBinf
  <2> QED BY <1>3, <2>1 DEF MayExecuteTime, Right
<1> QED BY <1>2, <1>3 DEF Passable

\* An executor that accepts a duration adds it to clocks and time, and keeps or drops a
\* status such that it is right.
LEMMA ExecuteTimeGood ==
    ASSUME NEW gen, WellFormed(gen), NEW x, Good(gen, x), x.status.valid,
           NEW t, Passable(gen, x, t), x.time < Infinity, MayExecuteTime(x.status, t)
    PROVE  /\ Good(gen, ExecuteTime(gen, x, t))
           /\ ExecuteTime(gen, x, t).state = x.state
           /\ ExecuteTime(gen, x, t).clock = [c \in gen.clocks |-> Plus(x.clock[c], t)]
           /\ ExecuteTime(gen, x, t).time = Plus(x.time, t)
<1> DEFINE y == ExecuteTime(gen, x, t)
           k == [c \in gen.clocks |-> Plus(x.clock[c], t)]
           s == IF t < Infinity /\ In(x.status.einterval, t) THEN Shifted(x.status, t)
                ELSE NoStatus(gen)
<1>1. /\ x \in Executor(gen) /\ x.state \in gen.states /\ x.time \in Time
      /\ x.clock \in [gen.clocks -> Time] /\ x.status \in Status(gen)
      /\ x = [state |-> x.state, clock |-> x.clock, time |-> x.time, status |-> x.status]
  BY DEF Good, Executor
<1>2. y = [x EXCEPT !.time = Plus(x.time, t), !.clock = k, !.status = s]
  <2>1. Query(gen, x) = x
    BY DEF Query
  <2> QED BY <2>1 DEF ExecuteTime
<1>3. y = [state |-> x.state, clock |-> k, time |-> Plus(x.time, t), status |-> s]
  <2> HIDE DEF k, s, y
  <2> QED BY <1>1, <1>2
<1>4. k \in [gen.clocks -> Time] /\ Plus(x.time, t) \in Time
  <2>1. CASE t = Infinity
    BY <2>1, InfinityAssumption DEF Plus, Time
  <2>2. CASE t \in AheadIn(gen, x)
    <3>1. t \in Nat /\ x.time + t < Infinity
      BY <1>1, <2>2, AheadTime DEF AheadIn
    <3>2. \A c \in gen.clocks : x.clock[c] \in Time /\ x.clock[c] + t < Infinity
      BY <1>1, <2>2 DEF AheadIn
    <3> QED BY <1>1, <3>1, <3>2, InfinityAssumption DEF Plus, Time
  <2> QED BY <2>1, <2>2 DEF Passable
<1>5. ASSUME ~(t < Infinity /\ In(x.status.einterval, t)) PROVE Good(gen, y)
  <2>1. s = NoStatus(gen)
    BY <1>5
  <2> HIDE DEF k, s, y
  <2> QED BY <1>1, <1>3, <1>4, <2>1, InvalidGood
<1>6. ASSUME t < Infinity /\ In(x.status.einterval, t) PROVE Good(gen, y)
  <2>1. t \in AheadIn(gen, x) /\ t # Infinity
    BY <1>6, InfinityAssumption DEF Passable
  <2>2. s = Shifted(x.status, t)
    BY <1>6
  <2>3. In(x.status.etime, t)
    BY <2>1 DEF MayExecuteTime
  <2>4. k = [c \in gen.clocks |-> x.clock[c] + t] /\ Plus(x.time, t) = x.time + t
    BY <2>1 DEF Plus
  <2>5. y.state = x.state /\ y.time = x.time + t /\ y.status = s
        /\ y.clock = [c \in gen.clocks |-> x.clock[c] + t]
    <3> HIDE DEF k, s, y
    <3> QED BY <1>3, <2>4
  <2>6. s \in Status(gen) /\ Right(gen, y, s)
    <3>1. Right(gen, x, x.status)
      BY DEF Good
    <3> HIDE DEF k, s, y
    <3> QED BY <1>1, <1>6, <2>1, <2>2, <2>3, <2>5, <3>1, ShiftedRight
  <2>7. y \in Executor(gen)
    <3> HIDE DEF k, s, y
    <3> QED BY <1>1, <1>3, <1>4, <2>6 DEF Executor
  <2> HIDE DEF s, k, y
  <2> QED BY <2>5, <2>6, <2>7 DEF Good
<1>7. y.state = x.state /\ y.clock = k /\ y.time = Plus(x.time, t)
  <2> HIDE DEF s, k, y
  <2> QED BY <1>3
<1> QED BY <1>5, <1>6, <1>7

\* An executor that accepts an event goes to the successor, resets the clocks of the
\* transition and drops the status.
LEMMA ExecuteEventGood ==
    ASSUME NEW gen, WellFormed(gen), NEW x, Good(gen, x), x.status.valid,
           NEW e, e \in x.status.eevents
    PROVE  /\ Good(gen, ExecuteEvent(gen, x, e))
           /\ ExecuteEvent(gen, x, e).state = gen.next[x.state][e]
           /\ ExecuteEvent(gen, x, e).clock = [c \in gen.clocks |->
                            IF c \in gen.resets[x.state][e] THEN 0 ELSE x.clock[c]]
           /\ ExecuteEvent(gen, x, e).time = x.time
<1> DEFINE y == ExecuteEvent(gen, x, e)
           k == [c \in gen.clocks |-> IF c \in gen.resets[x.state][e] THEN 0 ELSE x.clock[c]]
<1>1. /\ x \in Executor(gen) /\ x.state \in gen.states /\ x.time \in Time
      /\ x.clock \in [gen.clocks -> Time]
      /\ x = [state |-> x.state, clock |-> x.clock, time |-> x.time, status |-> x.status]
  BY DEF Good, Executor
<1>2. e \in Active(gen, x.state) /\ x.time < Infinity
  BY DEF Good, Right, EnabledIn, MayPassIn
<1>3. gen.next[x.state][e] \in gen.states
  <2>1. e \in gen.events /\ gen.next[x.state][e] # None
    BY <1>2 DEF Active
  <2>2. gen.next[x.state] \in [gen.events -> gen.states \cup {None}]
    BY <1>1 DEF WellFormed
  <2> QED BY <2>1, <2>2
<1>4. Query(gen, x) = x
  BY DEF Query
<1>7. y = [state |-> gen.next[x.state][e], clock |-> k, time |-> x.time,
           status |-> NoStatus(gen)]
  BY <1>2, <1>4, Zenon DEF ExecuteEvent
<1>8. k \in [gen.clocks -> Time]
  BY <1>1, InfinityAssumption DEF Time
<1>9. /\ Good(gen, y)
      /\ y.state = gen.next[x.state][e] /\ y.clock = k /\ y.time = x.time
  <2> HIDE DEF y, k
  <2> QED BY <1>1, <1>3, <1>7, <1>8, InvalidGood
<1> QED BY <1>9

\* Dropping the status leaves state, clocks and time as they are.
LEMMA InvalidatedRecord ==
    ASSUME NEW gen, NEW x \in Executor(gen)
    PROVE  /\ Invalidated(gen, x) = [state |-> x.state, clock |-> x.clock, time |-> x.time,
                                     status |-> NoStatus(gen)]
           /\ x.state \in gen.states /\ x.clock \in [gen.clocks -> Time] /\ x.time \in Time
BY DEF Invalidated, Executor

\* An executor without a status has no wrong one.
LEMMA InvalidatedGood ==
    ASSUME NEW gen, NEW x \in Executor(gen)
    PROVE  /\ Good(gen, Invalidated(gen, x))
           /\ Invalidated(gen, x).state = x.state
           /\ Invalidated(gen, x).clock = x.clock
           /\ Invalidated(gen, x).time = x.time
BY InvalidatedRecord, InvalidGood

\* CurrentTime(t) sets the time and drops the status.
LEMMA CurrentTimeGood ==
    ASSUME NEW gen, NEW x \in Executor(gen), NEW t \in Time
    PROVE  /\ Good(gen, CurrentTime(gen, x, t))
           /\ CurrentTime(gen, x, t).state = x.state
           /\ CurrentTime(gen, x, t).clock = x.clock
           /\ CurrentTime(gen, x, t).time = t
<1>1. CurrentTime(gen, x, t) = [state |-> x.state, clock |-> x.clock, time |-> t,
                                   status |-> NoStatus(gen)]
  BY InvalidatedRecord DEF CurrentTime
<1> QED BY <1>1, InvalidatedRecord, InvalidGood

\* CurrentTimedState() sets state and clocks and drops the status.
LEMMA CurrentTimedStateGood ==
    ASSUME NEW gen, NEW x \in Executor(gen), NEW a \in gen.states,
           NEW k \in [gen.clocks -> Time]
    PROVE  /\ Good(gen, CurrentTimedState(gen, x, a, k))
           /\ CurrentTimedState(gen, x, a, k).state = a
           /\ CurrentTimedState(gen, x, a, k).clock = k
           /\ CurrentTimedState(gen, x, a, k).time = x.time
BY InvalidatedRecord, InvalidGood DEF CurrentTimedState

\* After Reset() an executor is in its initial state with all clocks at zero.
LEMMA FreshGood ==
    ASSUME NEW gen, WellFormed(gen)
    PROVE  /\ Good(gen, Fresh(gen))
           /\ Fresh(gen).state = gen.init
           /\ Fresh(gen).clock = [c \in gen.clocks |-> 0]
           /\ Fresh(gen).time = 0
<1>1. gen.init \in gen.states /\ [c \in gen.clocks |-> 0] \in [gen.clocks -> Time] /\ 0 \in Time
  BY InfinityAssumption DEF WellFormed, Time
<1> QED BY <1>1, InvalidGood DEF Fresh
=============================================================================
