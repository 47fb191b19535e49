---------------------------- MODULE TimeInterval ----------------------------
(***************************************************************************)
(* Discrete time and intervals of time, as in the timed plug-in. An upper  *)
(* bound that equals Infinity, the largest value of the data type, stands  *)
(* for no bound. Lower bounds are never used below zero, so there is no    *)
(* counterpart of -inf.                                                    *)
(***************************************************************************)
EXTENDS Integers, FiniteSets, FiniteSetsExt

CONSTANT Infinity       \* Time::Max()

ASSUME InfinityAssumption == Infinity \in Nat \ {0}

Time     == 0..Infinity
Bound    == {n \in Int : n <= Infinity}
Interval == [lb : Bound, lbincl : BOOLEAN, ub : Bound, ubincl : BOOLEAN]

Positive == [lb |-> 0, lbincl |-> TRUE, ub |-> Infinity, ubincl |-> FALSE]
Nothing  == [lb |-> 1, lbincl |-> FALSE, ub |-> -1, ubincl |-> FALSE]

In(i, t) ==
    /\ t >= i.lb /\ (t = i.lb => i.lbincl)
    /\ t <= i.ub /\ (t = i.ub => i.ubincl)

Empty(i) == i.lb > i.ub \/ (i.lb = i.ub /\ ~(i.lbincl /\ i.ubincl))
UBinf(i) == i.ub = Infinity

\* Shift to the left and cut at zero. A bound that arrives at zero becomes inclusive.
PositiveLeftShift(i, t) ==
    LET lb == i.lb - t
    IN  [lb     |-> IF lb <= 0 THEN 0 ELSE lb,
         lbincl |-> lb <= 0 \/ i.lbincl,
         ub     |-> IF UBinf(i) THEN i.ub ELSE i.ub - t,
         ubincl |-> i.ubincl]

\* The result of a loop of Intersect() over the non-empty set I.
Intersection(I) ==
    LET lb == Max({i.lb : i \in I})
        ub == Min({i.ub : i \in I})
    IN  [lb     |-> lb,
         lbincl |-> \A i \in I : i.lb = lb => i.lbincl,
         ub     |-> ub,
         ubincl |-> \A i \in I : i.ub = ub => i.ubincl]

\* Let time pass; Infinity is reached at once.
Plus(t, d) == IF d = Infinity THEN Infinity ELSE t + d
=============================================================================
