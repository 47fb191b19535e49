----------------------------- MODULE MCBaseSet -----------------------------
(***************************************************************************)
(* A small instance of BaseSet for TLC: three sets, so that data are       *)
(* shared by a host and two clients, and as many containers as sets.       *)
(***************************************************************************)
EXTENDS BaseSet, TLC

CONSTANTS o1, o2, o3, Typed

\* Three sets of one type, or two of them and a plain one.
OneType == [o \in Obj |-> Typed]
MixedTypes == [o \in Obj |-> IF o = o3 THEN Void ELSE Typed]
Typings == {OneType, MixedTypes}

\* Containers are interchangeable, and so are the two sets of one type.
Symmetry == Permutations(Cell) \cup Permutations({o1, o2})
=============================================================================
