----------------------------- MODULE SupConProofs -----------------------------
(***************************************************************************)
(* What SupCon() computes, for every finite set of states, every alphabet, *)
(* all deterministic generators and every order of the search: the result  *)
(* is a solution of the control problem, the supremal one, with all the    *)
(* transitions that plant and specification allow, and a measure falls     *)
(* with every step, so that the search ends.                               *)
(***************************************************************************)
EXTENDS SupCon, FiniteSetTheorems, TLAPS

\* No solution has a state of C; every solution is within S.
Avoided(C) == \A S \in SUBSET Pair : Solution(S) => S \cap C = {}
Covered(C) == \A S \in SUBSET Pair : Solution(S) => S \subseteq C

Pending == {s[2] : s \in todogh}

\* The product: a state that has been processed and is not critical has its transitions,
\* up to those to critical states.
ProductInv ==
    pc = "product" =>
        /\ InitialPairs \subseteq states
        /\ todo \subseteq states
        /\ critical \subseteq states \ todo
        /\ trans \subseteq Composed(states)
        /\ \A p \in states \ (todo \cup critical) : \A e \in Shared(p) :
              /\ Succ(p, e) \in states
              /\ <<p, e, Succ(p, e)>> \in trans \/ Succ(p, e) \in critical
        /\ Avoided(critical)

\* From then on the result is as permissive as it can be, and within it are all solutions.
ResultInv == pc # "product" => trans = Composed(states) /\ Covered(states)

\* A state that has been processed and is not critical disables no uncontrollable event,
\* and the reverse transition relation knows it.
ClosedInv ==
    pc = "closed" =>
        /\ \A s \in todogh : s[2] \in states /\ s = <<s[2][1], s[2]>>
        /\ processed \subseteq states
        /\ critical \subseteq states
        /\ rtransrel \subseteq trans
        /\ InitialPairs \cap states \subseteq processed \cup Pending
        /\ \A h \in processed \ critical :
              /\ \A e \in Shared(h) : Succ(h, e) \in states => Succ(h, e) \in processed \cup Pending
              /\ \A u \in Uncontrollable : Enabled(rPlantGen, h[1], u) =>
                    /\ u \in Shared(h)
                    /\ Succ(h, u) \in states \ critical
                    /\ <<h, u, Succ(h, u)>> \in rtransrel
        /\ Avoided(critical)
        /\ state_num = Cardinality(states)

IdleInv ==
    /\ pc \notin {"product", "closed"} => critical = {}
    /\ pc # "closed" => processed = {} /\ rtransrel = {}

TrimInv ==
    pc = "trim" =>
        /\ InitialPairs \cap states # {} => Controllable(states)
        /\ Cardinality(states) <= state_num

DoneInv == pc = "done" => Solution(states)

IInv == TypeOK /\ ProductInv /\ ResultInv /\ ClosedInv /\ IdleInv /\ TrimInv /\ DoneInv

------------------------------------------------------------------------------
(* Lemmas about the operators.                                             *)

\* What is defined by the problem stays as it is with the problem.
LEMMA Same ==
    ASSUME UNCHANGED problem
    PROVE  /\ InitialPairs' = InitialPairs /\ Uncontrollable' = Uncontrollable
           /\ \A p, e : Enabled(rPlantGen, p, e)' <=> Enabled(rPlantGen, p, e)
           /\ \A p : Shared(p)' = Shared(p)
           /\ \A p, e : Succ(p, e)' = Succ(p, e)
           /\ \A S : Composed(S)' = Composed(S)
           /\ \A S : Controllable(S)' <=> Controllable(S)
           /\ \A S : Solution(S)' <=> Solution(S)
           /\ \A C : Avoided(C)' <=> Avoided(C)
           /\ \A C : Covered(C)' <=> Covered(C)
<1>0. rPlantGen' = rPlantGen /\ rSpecGen' = rSpecGen /\ rCAlph' = rCAlph
    BY DEF problem
<1>1. InitialPairs' = InitialPairs /\ Uncontrollable' = Uncontrollable
    BY <1>0 DEF InitialPairs, Uncontrollable
<1>a. \A p, e : Enabled(rPlantGen, p, e)' <=> Enabled(rPlantGen, p, e)
    BY <1>0 DEF Enabled
<1>2. \A p : Shared(p)' = Shared(p)
    BY <1>0 DEF Shared, Enabled
<1>3. \A p, e : Succ(p, e)' = Succ(p, e)
    BY <1>0 DEF Succ
<1>4. \A S : Composed(S)' = Composed(S)
    BY <1>2, <1>3 DEF Composed
<1>5. \A S : Controllable(S)' <=> Controllable(S)
    BY <1>0, <1>1, <1>2, <1>3 DEF Controllable, Enabled
<1>6. \A S : Solution(S)' <=> Solution(S)
    BY <1>0, <1>1, <1>4, <1>5 DEF Solution, AccessibleSet, CoaccessibleSet, Marked
<1>7. \A C : Avoided(C)' <=> Avoided(C)
    BY <1>6 DEF Avoided
<1>8. \A C : Covered(C)' <=> Covered(C)
    BY <1>6 DEF Covered
<1> QED BY <1>1, <1>a, <1>2, <1>3, <1>4, <1>5, <1>6, <1>7, <1>8

\* The successor of a pair of states by an event that both enable is a pair of states.
LEMMA SuccPair ==
    ASSUME TypeOK, NEW p \in Pair, NEW e \in Shared(p)
    PROVE  Succ(p, e) \in Pair
<1>1. rPlantGen \in Deterministic /\ rSpecGen \in Deterministic
    BY GeneratorAssumption DEF TypeOK
<1>2. p[1] \in State /\ p[2] \in State /\ e \in Event
    BY DEF Pair, Shared
<1>3. rPlantGen.next[p[1]][e] \in State \cup {None} /\ rSpecGen.next[p[2]][e] \in State \cup {None}
    BY <1>1, <1>2 DEF Deterministic
<1>4. rPlantGen.next[p[1]][e] # None /\ rSpecGen.next[p[2]][e] # None
    BY DEF Shared, Enabled
<1> QED BY <1>3, <1>4 DEF Succ, Pair

\* The transitions of Composed(S).
LEMMA ComposedElement ==
    ASSUME NEW S, NEW t \in Composed(S)
    PROVE  /\ t[1] \in S /\ t[2] \in Event /\ t[3] \in S
           /\ t[2] \in Shared(t[1]) /\ t[3] = Succ(t[1], t[2])
           /\ t = <<t[1], t[2], t[3]>>
BY DEF Composed

\* A shared event between two states of S is a transition of Composed(S).
LEMMA ComposedIntro ==
    ASSUME NEW S, NEW p \in S, NEW e \in Shared(p), Succ(p, e) \in S
    PROVE  <<p, e, Succ(p, e)>> \in Composed(S)
<1>1. e \in Event
    BY DEF Shared
<1> QED BY <1>1 DEF Composed

\* More states have more transitions.
LEMMA ComposedMonotone ==
    ASSUME NEW T, NEW S \in SUBSET T
    PROVE  Composed(S) \subseteq Composed(T)
BY DEF Composed

\* Deleting states from the composition of T leaves the composition of what is left.
LEMMA AmongComposed ==
    ASSUME NEW T, NEW S \in SUBSET T
    PROVE  Among(S, Composed(T)) = Composed(S)
BY DEF Among, Composed

\* A set that has the initial states of a solution and is closed under its transitions
\* has all of its states.
LEMMA Forwards ==
    ASSUME NEW S, Solution(S), NEW X, InitialPairs \cap S \subseteq X,
           \A t \in Composed(S) : t[1] \in X => t[3] \in X
    PROVE  S \subseteq X
<1>1. AccessibleSet(S, Composed(S)) = S
    BY DEF Solution
<1>2. InitialPairs \cap S \subseteq X \cap S
    OBVIOUS
<1>3. \A t \in Composed(S) : t[1] \in X \cap S => t[3] \in X \cap S
    BY ComposedElement
<1>4. X \cap S \in SUBSET S
    OBVIOUS
<1> QED BY <1>1, <1>2, <1>3, <1>4 DEF AccessibleSet

\* The same from the marked states: a solution is coaccessible.
LEMMA Backwards ==
    ASSUME NEW S, Solution(S), NEW X, \A y \in S : Marked(y) => y \in X,
           \A t \in Composed(S) : t[3] \in X => t[1] \in X
    PROVE  S \subseteq X
<1>1. CoaccessibleSet(S, Composed(S)) = S
    BY DEF Solution
<1>2. \A y \in S : Marked(y) => y \in X \cap S
    OBVIOUS
<1>3. \A t \in Composed(S) : t[3] \in X \cap S => t[1] \in X \cap S
    BY ComposedElement
<1>4. X \cap S \in SUBSET S
    OBVIOUS
<1> QED BY <1>1, <1>2, <1>3, <1>4 DEF CoaccessibleSet

\* The empty set is a solution.
LEMMA EmptySolves == Solution({})
BY DEF Solution, Controllable, AccessibleSet, CoaccessibleSet

\* The states of the result are finitely many.
LEMMA Finite ==
    ASSUME NEW S \in SUBSET Pair
    PROVE  IsFiniteSet(S) /\ Cardinality(S) \in Nat
<1>1. IsFiniteSet(Pair)
    BY FiniteAssumption, FS_Product DEF Pair
<1>2. IsFiniteSet(S)
    BY <1>1, FS_Subset
<1> QED BY <1>2, FS_CardinalityType

------------------------------------------------------------------------------
(* The product.                                                            *)

\* A call of SupCon() establishes the invariant.
LEMMA InitCorrect == Init => IInv
<1> SUFFICES ASSUME Init PROVE IInv
    OBVIOUS
<1>1. InitialPairs \subseteq Pair
    BY GeneratorAssumption DEF Init, InitialPairs, Pair, Deterministic
<1>2. TypeOK
    BY <1>1 DEF Init, TypeOK
<1>3. ProductInv
  <2>1. Avoided(critical)
      BY DEF Init, Avoided
  <2> QED BY <2>1 DEF Init, ProductInv
<1> QED BY <1>2, <1>3 DEF Init, IInv, ResultInv, ClosedInv, IdleInv, TrimInv, DoneInv

\* A state whose specification disables an uncontrollable event, or that leads to a critical
\* state by one, is in no solution.
LEMMA BadProduct ==
    ASSUME Avoided(critical), NEW p \in Pair, NEW u \in Uncontrollable,
           Enabled(rPlantGen, p[1], u), u \in Shared(p) => Succ(p, u) \in critical
    PROVE  Avoided({p})
<1> SUFFICES ASSUME NEW S \in SUBSET Pair, Solution(S), p \in S PROVE FALSE
    BY DEF Avoided
<1>1. u \in Shared(p) /\ Succ(p, u) \in S
    BY DEF Solution, Controllable
<1> QED BY <1>1 DEF Avoided

\* SupConProduct(), one state: its transitions are taken up to the first that is bad.
LEMMA ProductStepCorrect ==
    ASSUME IInv, NEW p \in todo, ProductStep(p)
    PROVE  IInv'
<1> DEFINE bad  == {u \in Uncontrollable : /\ Enabled(rPlantGen, p[1], u)
                                           /\ u \in Shared(p) => Succ(p, u) \in critical}
           seen == UpTo(Shared(p), bad)
           next == {Succ(p, e) : e \in seen}
<1>0. pc = "product" /\ TypeOK /\ ProductInv /\ p \in Pair /\ p \in states /\ p \notin critical
    BY DEF ProductStep, IInv, TypeOK, ProductInv
<1>1. /\ todo' = (todo \ {p}) \cup (next \ states)
      /\ states' = states \cup next
      /\ trans' = trans \cup {<<p, e, Succ(p, e)>> : e \in {f \in seen : Succ(p, f) \notin critical}}
      /\ critical' = IF bad = {} THEN critical ELSE critical \cup {p}
      /\ UNCHANGED problem /\ UNCHANGED <<pc, todogh, processed, rtransrel, state_num>>
    BY <1>0 DEF ProductStep, closed
<1>2. seen \subseteq Shared(p) /\ (bad = {} => seen = Shared(p)) /\ seen \subseteq Event
    BY DEF UpTo, Shared
<1>3. next \subseteq Pair
    BY <1>0, <1>2, SuccPair
<1> HIDE DEF bad, seen, next
<1>4. TypeOK'
  <2>1. trans' \subseteq Transition
    <3>1. \A e \in seen : Succ(p, e) \in Pair
        BY <1>3 DEF next
    <3> QED BY <1>0, <1>1, <1>2, <3>1 DEF TypeOK, Transition
  <2>2. states' \subseteq Pair /\ todo' \subseteq Pair /\ critical' \subseteq Pair
      BY <1>0, <1>1, <1>3 DEF TypeOK
  <2>3. rPlantGen' = rPlantGen /\ rSpecGen' = rSpecGen /\ rCAlph' = rCAlph
      BY <1>1 DEF problem
  <2> QED BY <1>0, <1>1, <2>1, <2>2, <2>3 DEF TypeOK
<1>5. ProductInv'
  <2>1. InitialPairs' \subseteq states' /\ todo' \subseteq states'
      BY <1>0, <1>1, Same DEF ProductInv
  <2>2. critical' \subseteq states' \ todo'
      BY <1>0, <1>1 DEF ProductInv
  <2>3. trans' \subseteq Composed(states')
    <3>1. trans \subseteq Composed(states')
        BY <1>0, <1>1, ComposedMonotone DEF ProductInv
    <3>2. ASSUME NEW e \in seen PROVE <<p, e, Succ(p, e)>> \in Composed(states')
        BY <1>0, <1>1, <1>2, ComposedIntro DEF next
    <3> QED BY <1>1, <3>1, <3>2
  <2>4. Composed(states)' = Composed(states')
      BY <1>1, Same
  <2>5. ASSUME NEW q \in states' \ (todo' \cup critical'), NEW e \in Shared(q)
        PROVE  /\ Succ(q, e) \in states'
               /\ <<q, e, Succ(q, e)>> \in trans' \/ Succ(q, e) \in critical'
    <3>1. CASE q = p
      <4>1. e \in seen
          BY <1>1, <1>2, <2>5, <3>1
      <4> QED BY <1>1, <3>1, <4>1 DEF next
    <3>2. CASE q # p
      <4>1. q \in states \ (todo \cup critical)
          BY <1>1, <3>2
      <4> QED BY <1>0, <1>1, <4>1 DEF ProductInv
    <3> QED BY <3>1, <3>2
  <2>6. Avoided(critical')
    <3>1. Avoided(critical)
        BY <1>0 DEF ProductInv
    <3>2. CASE bad # {}
      <4>1. Avoided({p})
          BY <1>0, <3>1, <3>2, BadProduct DEF bad
      <4> QED BY <1>1, <3>1, <4>1 DEF Avoided
    <3> QED BY <1>1, <3>1, <3>2
  <2> QED BY <1>1, <2>1, <2>2, <2>3, <2>4, <2>5, <2>6, Same DEF ProductInv
<1>6. IdleInv'
    BY <1>0, <1>1 DEF IInv, IdleInv
<1> QED BY <1>0, <1>1, <1>4, <1>5, <1>6 DEF IInv, ResultInv, ClosedInv, TrimInv, DoneInv

\* SupConProduct(), the end: the critical states are deleted, and no solution has one.
LEMMA ProductEndCorrect ==
    ASSUME IInv, ProductEnd
    PROVE  IInv'
<1>0. pc = "product" /\ TypeOK /\ ProductInv /\ IdleInv /\ todo = {}
    BY DEF ProductEnd, IInv
<1>1. /\ states' = states \ critical
      /\ trans' = Among(states', trans)
      /\ critical' = {} /\ pc' = "loop"
      /\ UNCHANGED problem /\ UNCHANGED <<todo, todogh, processed, rtransrel, state_num>>
    BY DEF ProductEnd, closed
<1>2. TypeOK'
    BY <1>0, <1>1 DEF TypeOK, Among, problem
<1>3. trans' = Composed(states')
  <2>1. trans' \subseteq Composed(states')
    <3>1. trans' \subseteq Among(states', Composed(states))
        BY <1>0, <1>1 DEF ProductInv, Among
    <3> QED BY <1>1, <3>1, AmongComposed
  <2>2. ASSUME NEW t \in Composed(states') PROVE t \in trans'
    <3>1. /\ t[1] \in states \ critical /\ t[3] \in states \ critical
          /\ t[2] \in Shared(t[1]) /\ t = <<t[1], t[2], Succ(t[1], t[2])>>
        BY <1>1, ComposedElement
    <3>2. t \in trans
        BY <1>0, <3>1 DEF ProductInv
    <3> QED BY <1>1, <3>1, <3>2 DEF Among
  <2> QED BY <2>1, <2>2
<1>4. Covered(states')
  <2> SUFFICES ASSUME NEW S \in SUBSET Pair, Solution(S) PROVE S \subseteq states'
      BY DEF Covered
  <2>1. S \cap critical = {}
      BY <1>0 DEF ProductInv, Avoided
  <2>2. InitialPairs \cap S \subseteq states'
      BY <1>0, <1>1, <2>1 DEF ProductInv
  <2>3. ASSUME NEW t \in Composed(S), t[1] \in states' PROVE t[3] \in states'
    <3>1. t[2] \in Shared(t[1]) /\ t[3] = Succ(t[1], t[2]) /\ t[3] \in S
        BY ComposedElement
    <3>2. t[3] \in states
        BY <1>0, <1>1, <2>3, <3>1 DEF ProductInv
    <3> QED BY <1>1, <2>1, <3>1, <3>2
  <2> QED BY <2>2, <2>3, Forwards
<1>5. ResultInv'
    BY <1>1, <1>3, <1>4, Same DEF ResultInv
<1>6. IdleInv'
    BY <1>0, <1>1 DEF IdleInv
<1> QED BY <1>1, <1>2, <1>5, <1>6 DEF IInv, ProductInv, ClosedInv, TrimInv, DoneInv

------------------------------------------------------------------------------
(* The rounds.                                                             *)

\* The loop of SupCon(): a round begins, or the result is empty and the loop ends.
LEMMA RoundCorrect ==
    ASSUME IInv, Round
    PROVE  IInv'
<1>0. pc = "loop" /\ TypeOK /\ ResultInv /\ IdleInv
    BY DEF Round, IInv
<1>1. UNCHANGED problem /\ UNCHANGED <<states, trans, todo, critical, processed, rtransrel>>
    BY DEF Round, result
<1>2. trans = Composed(states) /\ Covered(states)
    BY <1>0 DEF ResultInv
<1>3. critical = {} /\ processed = {} /\ rtransrel = {}
    BY <1>0 DEF IdleInv
<1>4. InitialPairs \cap states \subseteq Pair
    BY <1>0 DEF TypeOK
<1>5. CASE states = {}
  <2>1. pc' = "done" /\ UNCHANGED <<todogh, state_num>>
      BY <1>5 DEF Round
  <2>2. TypeOK'
      BY <1>0, <1>1, <2>1 DEF TypeOK, problem
  <2>3. Solution(states)'
      BY <1>1, <1>5, EmptySolves, Same
  <2> QED BY <1>1, <1>2, <1>3, <2>1, <2>2, <2>3, Same
          DEF IInv, ProductInv, ResultInv, ClosedInv, IdleInv, TrimInv, DoneInv
<1>6. CASE states # {}
  <2>1. /\ state_num' = Cardinality(states)
        /\ pc' = IF InitialPairs \cap states = {} THEN "trim" ELSE "closed"
        /\ todogh' = {<<p[1], p>> : p \in InitialPairs \cap states}
      BY <1>6 DEF Round
  <2>2. Cardinality(states) \in Nat
      BY <1>0, Finite DEF TypeOK
  <2>3. todogh' \subseteq State \X Pair
      BY <1>4, <2>1 DEF Pair
  <2>4. TypeOK'
      BY <1>0, <1>1, <2>1, <2>2, <2>3 DEF TypeOK, problem
  <2>5. ClosedInv'
    <3>1. InitialPairs \cap states \subseteq Pending'
      <4> SUFFICES ASSUME NEW p \in InitialPairs \cap states PROVE p \in Pending'
          OBVIOUS
      <4>1. <<p[1], p>> \in todogh' /\ <<p[1], p>>[2] = p
          BY <2>1
      <4> QED BY <4>1 DEF Pending
    <3>2. \A s \in todogh' : s[2] \in states /\ s = <<s[2][1], s[2]>>
        BY <2>1
    <3>3. Avoided(critical)
        BY <1>3 DEF Avoided
    <3> QED BY <1>1, <1>3, <2>1, <3>1, <3>2, <3>3, Same DEF ClosedInv
  <2>6. TrimInv'
      BY <1>1, <2>1, <2>2, Same DEF TrimInv
  <2>7. ResultInv'
      BY <1>1, <1>2, Same DEF ResultInv
  <2> QED BY <1>1, <1>3, <2>1, <2>4, <2>5, <2>6, <2>7 DEF IInv, ProductInv, IdleInv, DoneInv
<1> QED BY <1>5, <1>6

------------------------------------------------------------------------------
(* The pass that deletes states that disable an uncontrollable event.      *)

\* What lies backwards by uncontrollable events from a state outside of all solutions
\* lies outside of all solutions.
LEMMA TraverseAvoided ==
    ASSUME NEW rel, rel \subseteq Composed(states), NEW h \in states, Avoided({h}),
           Covered(states)
    PROVE  Avoided(TraverseUncontrollableBackwards(rel, h))
<1> SUFFICES ASSUME NEW S \in SUBSET Pair, Solution(S),
                    NEW x \in TraverseUncontrollableBackwards(rel, h), x \in S
             PROVE  FALSE
    BY DEF Avoided
<1> DEFINE X == states \ S
<1>1. h \notin S
    BY DEF Avoided
<1>3. ASSUME NEW t \in rel, t[2] \in Uncontrollable, t[3] \in X
      PROVE  t[1] \in X
  <2>1. t[1] \in states /\ t[2] \in Shared(t[1]) /\ t[3] = Succ(t[1], t[2])
      BY ComposedElement
  <2>2. CASE t[1] \in S
    <3>1. Enabled(rPlantGen, t[1][1], t[2])
        BY <2>1 DEF Shared
    <3>2. t[3] \in S
        BY <1>3, <2>1, <2>2, <3>1 DEF Solution, Controllable
    <3> QED BY <1>3, <3>2
  <2> QED BY <2>1, <2>2
<1>4. x \in X
    BY <1>1, <1>3 DEF TraverseUncontrollableBackwards
<1> QED BY <1>4

\* A state in which an uncontrollable event of the plant is missing in the result or leads
\* to a critical state is in no solution.
LEMMA BadClosed ==
    ASSUME Avoided(critical), Covered(states), NEW h \in states, states \subseteq Pair,
           trans = Composed(states), NEW u \in Uncontrollable, Enabled(rPlantGen, h[1], u),
           \A t \in trans : t[1] = h /\ t[2] = u => t[3] \in critical
    PROVE  Avoided({h})
<1> SUFFICES ASSUME NEW S \in SUBSET Pair, Solution(S), h \in S PROVE FALSE
    BY DEF Avoided
<1>1. u \in Shared(h) /\ Succ(h, u) \in S
    BY DEF Solution, Controllable
<1>2. Succ(h, u) \in states /\ Succ(h, u) \notin critical
    BY <1>1 DEF Covered, Avoided
<1>3. <<h, u, Succ(h, u)>> \in trans
    BY <1>1, <1>2, ComposedIntro
<1> QED BY <1>2, <1>3

\* A step that finds its state processed only takes it off the stack.
LEMMA ClosedSkipCorrect ==
    ASSUME IInv, NEW g, NEW h, ClosedStep(g, h), h \in processed
    PROVE  IInv'
<1>0. pc = "closed" /\ TypeOK /\ ResultInv /\ ClosedInv /\ IdleInv /\ <<g, h>> \in todogh
    BY DEF ClosedStep, IInv
<1>1. /\ todogh' = todogh \ {<<g, h>>}
      /\ UNCHANGED problem
      /\ UNCHANGED <<pc, states, trans, todo, critical, processed, rtransrel, state_num>>
    BY <1>0 DEF ClosedStep, result
<1>2. TypeOK'
    BY <1>0, <1>1 DEF TypeOK, problem
<1>3. processed \cup Pending \subseteq processed' \cup Pending'
  <2> SUFFICES ASSUME NEW s \in todogh, s[2] \notin processed PROVE s[2] \in Pending'
      BY <1>1 DEF Pending
  <2>1. s # <<g, h>>
      OBVIOUS
  <2>2. s \in todogh'
      BY <1>1, <2>1
  <2> QED BY <2>2 DEF Pending
<1>4. ClosedInv'
    BY <1>0, <1>1, <1>3, Same DEF ClosedInv
<1>5. ResultInv'
    BY <1>0, <1>1, Same DEF ResultInv
<1> QED BY <1>0, <1>1, <1>2, <1>4, <1>5 DEF IInv, ProductInv, IdleInv, TrimInv, DoneInv

\* SupConClosed(), one state: a state becomes critical only if no solution has it.
LEMMA ClosedStepCorrect ==
    ASSUME IInv, NEW g, NEW h, ClosedStep(g, h), h \notin processed
    PROVE  IInv'
<1> DEFINE enabled == {e \in Event : Enabled(rPlantGen, g, e)}
           follow  == {t \in trans : t[1] = h /\ t[2] \in enabled}
           bad     == {u \in enabled \cap Uncontrollable :
                          \A t \in follow : t[2] = u => t[3] \in critical}
           seen    == {t \in follow : t[2] \in UpTo(enabled, bad)}
           rel     == rtransrel \cup {t \in seen : t[3] \notin critical}
           push    == {<<rPlantGen.next[g][t[2]], t[3]>> : t \in {s \in seen : s[3] \notin processed}}
<1>0. pc = "closed" /\ TypeOK /\ ResultInv /\ ClosedInv /\ IdleInv /\ <<g, h>> \in todogh
    BY DEF ClosedStep, IInv
<1>a. /\ todogh' = (todogh \ {<<g, h>>}) \cup push
      /\ processed' = processed \cup {h}
      /\ rtransrel' = rel
      /\ critical' = IF bad = {} THEN critical
                     ELSE critical \cup TraverseUncontrollableBackwards(rel, h)
      /\ UNCHANGED problem /\ UNCHANGED <<pc, states, trans, todo, state_num>>
    BY <1>0 DEF ClosedStep, result
<1>b. h \in states /\ g = h[1] /\ h \in Pair /\ states \subseteq Pair
  <2>1. <<g, h>>[2] \in states /\ <<g, h>> = <<<<g, h>>[2][1], <<g, h>>[2]>>
      BY <1>0 DEF ClosedInv
  <2> QED BY <1>0, <2>1 DEF TypeOK
<1>c. /\ trans = Composed(states) /\ Covered(states) /\ Avoided(critical)
      /\ rtransrel \subseteq trans
    BY <1>0 DEF ResultInv, ClosedInv
<1>d. seen \subseteq follow /\ (bad = {} => seen = follow)
    BY DEF UpTo
<1>e. follow = {t \in trans : t[1] = h}
    BY <1>b, <1>c, ComposedElement DEF Shared
<1>f. rel \subseteq trans
    BY <1>c, <1>d
<1>g. ASSUME NEW t \in follow PROVE <<rPlantGen.next[g][t[2]], t[3]>> = <<t[3][1], t[3]>>
    BY <1>b, <1>c, ComposedElement DEF Succ
<1> HIDE DEF seen, rel
<1>1. /\ \A s \in todogh' : s[2] \in states /\ s = <<s[2][1], s[2]>>
      /\ todogh' \subseteq State \X Pair
  <2>1. ASSUME NEW s \in push PROVE s[2] \in states /\ s = <<s[2][1], s[2]>>
      BY <1>c, <1>d, <1>g, ComposedElement
  <2>2. \A s \in todogh' : s[2] \in states /\ s = <<s[2][1], s[2]>>
      BY <1>0, <1>a, <2>1 DEF ClosedInv
  <2> QED BY <1>b, <2>2 DEF Pair
<1>2. critical' \subseteq states
    BY <1>0, <1>a DEF ClosedInv, TraverseUncontrollableBackwards
<1>3. TypeOK'
    BY <1>0, <1>1, <1>2, <1>a, <1>b, <1>f DEF TypeOK, problem
<1>4. processed \cup Pending \subseteq processed' \cup Pending'
  <2> SUFFICES ASSUME NEW s \in todogh, s[2] # h PROVE s[2] \in Pending'
      BY <1>a DEF Pending
  <2>1. s \in todogh'
      BY <1>a
  <2> QED BY <2>1 DEF Pending
<1>5. ASSUME NEW t \in seen PROVE t[3] \in processed' \cup Pending'
  <2>1. CASE t[3] \notin processed
    <3>1. <<rPlantGen.next[g][t[2]], t[3]>> \in todogh'
        BY <1>a, <2>1
    <3>2. <<rPlantGen.next[g][t[2]], t[3]>>[2] = t[3]
        OBVIOUS
    <3> QED BY <3>1, <3>2 DEF Pending
  <2> QED BY <1>a, <2>1
<1>6. Avoided(critical')
  <2>1. CASE bad # {}
    <3>1. PICK u \in bad : TRUE
        BY <2>1
    <3>2. Avoided({h})
        BY <1>b, <1>c, <1>e, <3>1, BadClosed
    <3>3. Avoided(TraverseUncontrollableBackwards(rel, h))
        BY <1>b, <1>c, <1>f, <3>2, TraverseAvoided
    <3> QED BY <1>a, <1>c, <3>3 DEF Avoided
  <2> QED BY <1>a, <1>c, <2>1
<1>7. bad # {} => h \in critical'
    BY <1>a, <1>b DEF TraverseUncontrollableBackwards
<1>8. ASSUME NEW k \in processed' \ critical', NEW e \in Shared(k), Succ(k, e) \in states
      PROVE  Succ(k, e) \in processed' \cup Pending'
  <2>1. CASE k = h
    <3>1. <<h, e, Succ(h, e)>> \in seen
        BY <1>7, <1>8, <1>b, <1>c, <1>d, <1>e, <2>1, ComposedIntro
    <3> QED BY <1>5, <2>1, <3>1
  <2>2. CASE k # h
    <3>1. k \in processed \ critical
        BY <1>8, <1>a, <2>2
    <3> QED BY <1>0, <1>4, <1>8, <3>1 DEF ClosedInv
  <2> QED BY <2>1, <2>2
<1>9. ASSUME NEW k \in processed' \ critical', NEW u \in Uncontrollable, Enabled(rPlantGen, k[1], u)
      PROVE  /\ u \in Shared(k)
             /\ Succ(k, u) \in states \ critical'
             /\ <<k, u, Succ(k, u)>> \in rtransrel'
  <2>1. /\ u \in Shared(k) /\ Succ(k, u) \in states \ critical
        /\ <<k, u, Succ(k, u)>> \in rel
    <3>1. CASE k = h
      <4>1. bad = {}
          BY <1>7, <1>9, <3>1
      <4>2. u \in enabled \cap Uncontrollable
          BY <1>9, <1>b, <3>1 DEF Uncontrollable
      <4>3. PICK t \in follow : t[2] = u /\ t[3] \notin critical
          BY <4>1, <4>2
      <4>4. t[3] \in states /\ u \in Shared(h) /\ t[3] = Succ(h, u) /\ t = <<h, u, Succ(h, u)>>
          BY <1>c, <4>3, ComposedElement
      <4>5. t \in rel
          BY <1>d, <4>1, <4>3 DEF rel
      <4> QED BY <3>1, <4>3, <4>4, <4>5
    <3>2. CASE k # h
      <4>1. k \in processed \ critical
          BY <1>9, <1>a, <3>2
      <4> QED BY <1>0, <1>9, <4>1 DEF ClosedInv, rel
    <3> QED BY <3>1, <3>2
  <2>2. Succ(k, u) \notin critical'
    <3> SUFFICES ASSUME Succ(k, u) \in TraverseUncontrollableBackwards(rel, h), critical' =
                            critical \cup TraverseUncontrollableBackwards(rel, h)
                 PROVE  FALSE
        BY <1>a, <2>1
    <3>1. k \in states
        BY <1>0, <1>a, <1>b DEF ClosedInv
    <3>2. ASSUME NEW X \in SUBSET states, h \in X,
                 \A t \in rel : t[2] \in Uncontrollable /\ t[3] \in X /\ t[1] \notin critical
                    => t[1] \in X
          PROVE  k \in X
      <4>1. Succ(k, u) \in X
          BY <3>2 DEF TraverseUncontrollableBackwards
      <4>2. k \notin critical
          BY <1>9, <1>a
      <4> QED BY <2>1, <3>2, <4>1, <4>2
    <3>3. k \in TraverseUncontrollableBackwards(rel, h)
        BY <3>1, <3>2 DEF TraverseUncontrollableBackwards
    <3> QED BY <3>3
  <2> QED BY <1>a, <2>1, <2>2
<1>10. ClosedInv'
  <2>1. processed' \subseteq states /\ InitialPairs \cap states \subseteq processed' \cup Pending'
      BY <1>0, <1>4, <1>a, <1>b DEF ClosedInv
  <2>2. state_num = Cardinality(states)
      BY <1>0 DEF ClosedInv
  <2> QED BY <1>1, <1>2, <1>6, <1>8, <1>9, <1>a, <1>f, <2>1, <2>2, Same DEF ClosedInv
<1>11. ResultInv'
    BY <1>0, <1>a, Same DEF ResultInv
<1> QED BY <1>0, <1>3, <1>10, <1>11, <1>a DEF IInv, ProductInv, IdleInv, TrimInv, DoneInv

\* SupConClosed(), the end: what is deleted is critical or was not reached, and the
\* remaining states are controllable.
LEMMA ClosedEndCorrect ==
    ASSUME IInv, ClosedEnd
    PROVE  IInv'
<1>0. pc = "closed" /\ TypeOK /\ ResultInv /\ ClosedInv /\ todogh = {}
    BY DEF ClosedEnd, IInv
<1>1. /\ states' = states \cap (processed \ critical)
      /\ trans' = Among(states', trans)
      /\ critical' = {} /\ processed' = {} /\ rtransrel' = {} /\ pc' = "trim"
      /\ UNCHANGED problem /\ UNCHANGED <<todo, todogh, state_num>>
    BY DEF ClosedEnd
<1>2. Pending = {}
    BY <1>0 DEF Pending
<1>3. TypeOK'
    BY <1>0, <1>1 DEF TypeOK, Among, problem
<1>4. trans' = Composed(states')
    BY <1>0, <1>1, AmongComposed DEF ResultInv
<1>5. Covered(states')
  <2> SUFFICES ASSUME NEW S \in SUBSET Pair, Solution(S) PROVE S \subseteq states'
      BY DEF Covered
  <2>1. S \cap critical = {} /\ S \subseteq states
      BY <1>0 DEF ClosedInv, ResultInv, Avoided, Covered
  <2>2. InitialPairs \cap S \subseteq states'
      BY <1>0, <1>1, <1>2, <2>1 DEF ClosedInv
  <2>3. ASSUME NEW t \in Composed(S), t[1] \in states' PROVE t[3] \in states'
    <3>1. t[2] \in Shared(t[1]) /\ t[3] = Succ(t[1], t[2]) /\ t[3] \in S
        BY ComposedElement
    <3>2. t[3] \in processed
        BY <1>0, <1>1, <1>2, <2>1, <2>3, <3>1 DEF ClosedInv
    <3> QED BY <1>1, <2>1, <3>1, <3>2
  <2> QED BY <2>2, <2>3, Forwards
<1>6. Controllable(states')
  <2> SUFFICES ASSUME NEW p \in states', NEW u \in Uncontrollable, Enabled(rPlantGen, p[1], u)
               PROVE  u \in Shared(p) /\ Succ(p, u) \in states'
      BY DEF Controllable
  <2>1. p \in processed \ critical
      BY <1>1
  <2>2. u \in Shared(p) /\ Succ(p, u) \in states \ critical
      BY <1>0, <2>1 DEF ClosedInv
  <2>3. Succ(p, u) \in processed
      BY <1>0, <1>2, <2>1, <2>2 DEF ClosedInv
  <2> QED BY <1>1, <2>2, <2>3
<1>7. Cardinality(states') <= state_num
  <2>1. IsFiniteSet(states) /\ state_num = Cardinality(states) /\ states' \in SUBSET states
      BY <1>0, <1>1, Finite DEF TypeOK, ClosedInv
  <2> QED BY <2>1, FS_Subset
<1>8. ResultInv' /\ TrimInv' /\ IdleInv'
    BY <1>1, <1>4, <1>5, <1>6, <1>7, Same DEF ResultInv, TrimInv, IdleInv
<1> QED BY <1>1, <1>3, <1>8 DEF IInv, ProductInv, ClosedInv, DoneInv

------------------------------------------------------------------------------
(* Trim().                                                                 *)

\* Trim(): no state of a solution is deleted, since solutions are trim.
LEMMA TrimCorrect ==
    ASSUME IInv, Trim
    PROVE  IInv'
<1> DEFINE accessible == AccessibleSet(states, trans)
<1>0. pc = "trim" /\ TypeOK /\ ResultInv /\ TrimInv /\ IdleInv
    BY DEF Trim, IInv
<1>1. /\ states' = CoaccessibleSet(accessible, Among(accessible, trans))
      /\ trans' = Among(states', trans)
      /\ pc' = IF Cardinality(states') = state_num THEN "done" ELSE "loop"
      /\ UNCHANGED problem
      /\ UNCHANGED <<todo, critical, todogh, processed, rtransrel, state_num>>
    BY DEF Trim, closed
<1>2. accessible \subseteq states /\ states' \subseteq accessible
    BY <1>1 DEF AccessibleSet, CoaccessibleSet
<1>3. trans = Composed(states) /\ Covered(states)
    BY <1>0 DEF ResultInv
<1>4. Among(accessible, trans) = Composed(accessible)
    BY <1>2, <1>3, AmongComposed
<1>5. TypeOK'
    BY <1>0, <1>1, <1>2 DEF TypeOK, Among, problem
<1>6. trans' = Composed(states')
    BY <1>1, <1>2, <1>3, AmongComposed
<1>7. Covered(states')
  <2> SUFFICES ASSUME NEW S \in SUBSET Pair, Solution(S) PROVE S \subseteq states'
      BY DEF Covered
  <2>1. S \subseteq states
      BY <1>3 DEF Covered
  <2>2. S \subseteq accessible
    <3> SUFFICES ASSUME NEW X \in SUBSET states, InitialPairs \cap states \subseteq X,
                        \A t \in trans : t[1] \in X => t[3] \in X
                 PROVE  S \subseteq X
        BY <2>1 DEF AccessibleSet
    <3>1. \A t \in Composed(S) : t[1] \in X => t[3] \in X
        BY <1>3, <2>1, ComposedMonotone
    <3> QED BY <2>1, <3>1, Forwards
  <2>3. ASSUME NEW X \in SUBSET accessible, \A y \in accessible : Marked(y) => y \in X,
               \A t \in Among(accessible, trans) : t[3] \in X => t[1] \in X
        PROVE  S \subseteq X
    <3>1. \A t \in Composed(S) : t[3] \in X => t[1] \in X
        BY <1>4, <2>2, <2>3, ComposedMonotone
    <3> QED BY <2>2, <2>3, <3>1, Backwards
  <2> HIDE DEF accessible
  <2> QED BY <1>1, <2>2, <2>3 DEF CoaccessibleSet
<1>8. ASSUME Cardinality(states') = state_num PROVE Solution(states')
  <2>1. states' = states
    <3>1. IsFiniteSet(states) /\ states' \in SUBSET states /\ Cardinality(states) <= state_num
        BY <1>0, <1>2, Finite DEF TypeOK, TrimInv
    <3>2. Cardinality(states') <= Cardinality(states)
        BY <3>1, FS_Subset
    <3>3. Cardinality(states) = Cardinality(states')
        BY <1>0, <1>8, <3>1, <3>2, Finite DEF TypeOK
    <3> QED BY <3>1, <3>3, FS_Subset
  <2>2. accessible = states
      BY <1>2, <2>1
  <2>3. AccessibleSet(states, Composed(states)) = states
      BY <1>3, <2>2
  <2>4. CoaccessibleSet(states, Composed(states)) = states
      BY <1>1, <1>4, <2>1, <2>2
  <2>5. Controllable(states)
    <3>1. CASE InitialPairs \cap states = {}
      <4>1. states = {}
          BY <1>3, <2>3, <3>1, ComposedElement DEF AccessibleSet
      <4> QED BY <4>1 DEF Controllable
    <3> QED BY <1>0, <3>1 DEF TrimInv
  <2> QED BY <2>1, <2>3, <2>4, <2>5 DEF Solution
<1>9. ResultInv' /\ DoneInv' /\ IdleInv'
    BY <1>0, <1>1, <1>6, <1>7, <1>8, Same DEF ResultInv, DoneInv, IdleInv
<1> QED BY <1>1, <1>5, <1>9 DEF IInv, ProductInv, ClosedInv, TrimInv

------------------------------------------------------------------------------
(* The theorems.                                                           *)

\* A step that changes no variable keeps the invariant.
LEMMA StutterCorrect ==
    ASSUME IInv, UNCHANGED vars
    PROVE  IInv'
<1>1. /\ UNCHANGED problem
      /\ UNCHANGED <<pc, states, trans, todo, critical, todogh, processed, rtransrel, state_num>>
    BY DEF vars, result, closed
<1>2. TypeOK /\ ProductInv /\ ResultInv /\ ClosedInv /\ IdleInv /\ TrimInv /\ DoneInv
    BY DEF IInv
<1>3. TypeOK'
    BY <1>1, <1>2 DEF TypeOK, problem
<1>4. ProductInv' /\ ResultInv'
    BY <1>1, <1>2, Same DEF ProductInv, ResultInv
<1>5. ClosedInv'
    BY <1>1, <1>2, Same DEF ClosedInv, Pending
<1>6. IdleInv' /\ TrimInv' /\ DoneInv'
    BY <1>1, <1>2, Same DEF IdleInv, TrimInv, DoneInv
<1> QED BY <1>3, <1>4, <1>5, <1>6 DEF IInv

\* The inductive invariant.
THEOREM Invariance == Spec => []IInv
<1>1. IInv /\ [Next]_vars => IInv'
  <2> SUFFICES ASSUME IInv, [Next]_vars PROVE IInv'
      OBVIOUS
  <2>1. ASSUME NEW p \in todo, ProductStep(p) PROVE IInv'
      BY <2>1, ProductStepCorrect
  <2>2. CASE ProductEnd
      BY <2>2, ProductEndCorrect
  <2>3. CASE Round
      BY <2>3, RoundCorrect
  <2>4. ASSUME NEW s \in todogh, ClosedStep(s[1], s[2]) PROVE IInv'
      BY <2>4, ClosedSkipCorrect, ClosedStepCorrect
  <2>5. CASE ClosedEnd
      BY <2>5, ClosedEndCorrect
  <2>6. CASE Trim
      BY <2>6, TrimCorrect
  <2>7. CASE UNCHANGED vars
      BY <2>7, StutterCorrect
  <2> QED BY <2>1, <2>2, <2>3, <2>4, <2>5, <2>6, <2>7 DEF Next
<1> QED BY InitCorrect, <1>1, PTL DEF Spec

\* Every reachable state is well typed.
THEOREM TypeCorrect == Spec => []TypeOK
<1>1. IInv => TypeOK
    BY DEF IInv
<1> QED BY Invariance, <1>1, PTL

\* Whatever SupCon() returns solves the control problem: it disables no uncontrollable event
\* and is nonblocking and accessible.
THEOREM SolvesCorrect == Spec => []ResultSolves
<1>1. IInv => ResultSolves
    BY DEF IInv, DoneInv, ResultSolves
<1> QED BY Invariance, <1>1, PTL

\* Whatever SupCon() returns has the states of every other solution.
THEOREM SupremalCorrect == Spec => []ResultSupremal
<1>1. IInv => ResultSupremal
    BY DEF IInv, ResultInv, Covered, ResultSupremal
<1> QED BY Invariance, <1>1, PTL

\* Whatever SupCon() returns has all transitions of plant and specification among its states.
THEOREM PermissiveCorrect == Spec => []ResultPermissive
<1>1. IInv => ResultPermissive
    BY DEF IInv, ResultInv, ResultPermissive
<1> QED BY Invariance, <1>1, PTL

\* One pass of SupConClosedUnchecked() makes the result controllable, as SupConClosed() needs.
THEOREM PassCorrect == Spec => []PassControllable
<1>1. IInv => PassControllable
    BY DEF IInv, TrimInv, PassControllable
<1> QED BY Invariance, <1>1, PTL
------------------------------------------------------------------------------
(* The search ends.                                                        *)

\* What falls with every step, the first components counting most: the states that the
\* present round began with, the phases of the round to come, the states that have not been
\* seen yet in this phase, and what waits to be processed.
Rounds ==
    CASE pc = "product"            -> Cardinality(Pair) + 1
      [] pc = "loop"               -> Cardinality(states)
      [] pc \in {"closed", "trim"} -> state_num
      [] OTHER                     -> 0
Phases ==
    CASE pc = "product" -> 4 [] pc = "loop" -> 3 [] pc = "closed" -> 2 [] pc = "trim" -> 1
      [] OTHER -> 0
Unseen ==
    CASE pc = "product" -> Cardinality(Pair \ states)
      [] pc = "closed"  -> Cardinality(states \ processed)
      [] OTHER          -> 0
Waiting ==
    CASE pc = "product" -> Cardinality(todo)
      [] pc = "closed"  -> Cardinality(todogh)
      [] OTHER          -> 0

Measure == <<Rounds, Phases, Unseen, Waiting>>

\* The lexicographic order.
Less(a, b) == \E i \in 1 .. 4 : a[i] < b[i] /\ \A j \in 1 .. i - 1 : a[j] = b[j]

\* Every step makes the measure smaller.
MeasureFalls == [][Less(Measure', Measure)]_vars

\* What is to be shown of a step, without tuples.
Falls ==
    \/ Rounds' < Rounds
    \/ /\ Rounds' = Rounds
       /\ \/ Phases' < Phases
          \/ /\ Phases' = Phases
             /\ \/ Unseen' < Unseen
                \/ Unseen' = Unseen /\ Waiting' < Waiting

\* A set that is smaller has fewer elements.
LEMMA Fewer ==
    ASSUME NEW T, IsFiniteSet(T), NEW S \in SUBSET T
    PROVE  /\ Cardinality(S) \in Nat /\ Cardinality(T) \in Nat
           /\ Cardinality(S) <= Cardinality(T)
           /\ S # T => Cardinality(S) < Cardinality(T)
<1>1. IsFiniteSet(S) /\ Cardinality(S) <= Cardinality(T) /\ (Cardinality(T) = Cardinality(S) => T = S)
    BY FS_Subset
<1>2. Cardinality(S) \in Nat /\ Cardinality(T) \in Nat
    BY <1>1, FS_CardinalityType
<1> QED BY <1>1, <1>2

\* What waits in the pass is finite.
LEMMA WaitingFinite ==
    ASSUME TypeOK
    PROVE  IsFiniteSet(todogh) /\ Cardinality(todogh) \in Nat
<1>1. IsFiniteSet(Pair) /\ IsFiniteSet(State \X Pair)
    BY FiniteAssumption, FS_Product DEF Pair
<1> QED BY <1>1, FS_Subset, FS_CardinalityType DEF TypeOK

\* The components are natural numbers.
LEMMA MeasureType ==
    ASSUME TypeOK
    PROVE  Rounds \in Nat /\ Phases \in Nat /\ Unseen \in Nat /\ Waiting \in Nat
<1>1. /\ Pair \in SUBSET Pair /\ states \in SUBSET Pair /\ Pair \ states \in SUBSET Pair
      /\ states \ processed \in SUBSET Pair /\ todo \in SUBSET Pair
    BY DEF TypeOK
<1>2. /\ Cardinality(Pair) \in Nat /\ Cardinality(states) \in Nat /\ Cardinality(Pair \ states) \in Nat
      /\ Cardinality(states \ processed) \in Nat /\ Cardinality(todo) \in Nat
    BY <1>1, Finite
<1>3. Cardinality(todogh) \in Nat /\ state_num \in Nat
    BY WaitingFinite DEF TypeOK
<1> QED BY <1>2, <1>3 DEF Rounds, Phases, Unseen, Waiting

\* Each turn of the product sees a new pair of states or has one less to process.
LEMMA ProductFalls ==
    ASSUME IInv, IInv', NEW p \in todo, ProductStep(p)
    PROVE  Falls
<1>1. pc = "product" /\ pc' = "product" /\ TypeOK /\ TypeOK'
    BY DEF ProductStep, IInv
<1>2. /\ states \subseteq states'
      /\ states' = states => todo' = todo \ {p}
    BY DEF ProductStep
<1>3. Rounds' = Rounds /\ Phases' = Phases
    BY <1>1 DEF Rounds, Phases, Pair
<1>4. /\ Unseen = Cardinality(Pair \ states) /\ Unseen' = Cardinality(Pair \ states')
      /\ Waiting = Cardinality(todo) /\ Waiting' = Cardinality(todo')
    BY <1>1 DEF Unseen, Waiting, Pair
<1>5. CASE states' = states
  <2>1. IsFiniteSet(todo) /\ todo' \in SUBSET todo /\ todo' # todo
      BY <1>1, <1>2, <1>5, Finite DEF TypeOK
  <2>2. Waiting' < Waiting
      BY <1>4, <2>1, Fewer
  <2> QED BY <1>3, <1>4, <1>5, <2>2 DEF Falls
<1>6. CASE states' # states
  <2>1. states' \subseteq Pair
      BY <1>1 DEF TypeOK, Pair
  <2>2. Pair \ states' \in SUBSET (Pair \ states) /\ Pair \ states' # Pair \ states
      BY <1>2, <1>6, <2>1
  <2>3. IsFiniteSet(Pair \ states)
      BY Finite
  <2>4. Unseen' < Unseen
      BY <1>4, <2>2, <2>3, Fewer
  <2> QED BY <1>3, <2>4 DEF Falls
<1> QED BY <1>5, <1>6

\* The end of the product is the beginning of the rounds.
LEMMA ProductEndFalls ==
    ASSUME IInv, IInv', ProductEnd
    PROVE  Falls
<1>1. pc = "product" /\ pc' = "loop" /\ states' \subseteq Pair
    BY DEF ProductEnd, IInv, TypeOK, Pair
<1>2. IsFiniteSet(Pair) /\ states' \in SUBSET Pair
    BY <1>1, Finite
<1>3. Cardinality(states') <= Cardinality(Pair) /\ Cardinality(states') \in Nat /\ Cardinality(Pair) \in Nat
    BY <1>2, Fewer
<1>4. Rounds = Cardinality(Pair) + 1 /\ Rounds' = Cardinality(states')
    BY <1>1 DEF Rounds
<1> QED BY <1>3, <1>4 DEF Falls

\* A round begins with the states that the one before has left.
LEMMA RoundFalls ==
    ASSUME IInv, Round
    PROVE  Falls
<1>1. pc = "loop" /\ UNCHANGED states /\ TypeOK
    BY DEF Round, result, IInv
<1>2. Rounds = Cardinality(states) /\ Phases = 3
    BY <1>1 DEF Rounds, Phases
<1>3. CASE states = {}
  <2>1. pc' = "done"
      BY <1>3 DEF Round
  <2>2. Rounds' = 0 /\ Phases' = 0
      BY <2>1 DEF Rounds, Phases
  <2>3. Rounds = 0
      BY <1>2, <1>3, FS_EmptySet
  <2> QED BY <1>2, <2>2, <2>3 DEF Falls
<1>4. CASE states # {}
  <2>1. state_num' = Cardinality(states) /\ pc' \in {"trim", "closed"}
      BY <1>4 DEF Round
  <2>2. Rounds' = Cardinality(states) /\ (Phases' = 1 \/ Phases' = 2)
      BY <2>1 DEF Rounds, Phases
  <2> QED BY <1>2, <2>2 DEF Falls
<1> QED BY <1>3, <1>4

\* Each turn of the pass processes a state or has one less pair to look at.
LEMMA ClosedFalls ==
    ASSUME IInv, IInv', NEW g, NEW h, ClosedStep(g, h)
    PROVE  Falls
<1>1. /\ pc = "closed" /\ pc' = "closed" /\ TypeOK /\ ClosedInv
      /\ <<g, h>> \in todogh
      /\ UNCHANGED <<states, state_num>>
    BY DEF ClosedStep, IInv, result
<1>2. Rounds' = Rounds /\ Phases' = Phases
    BY <1>1 DEF Rounds, Phases
<1>3. /\ Unseen = Cardinality(states \ processed) /\ Unseen' = Cardinality(states \ processed')
      /\ Waiting = Cardinality(todogh) /\ Waiting' = Cardinality(todogh')
    BY <1>1 DEF Unseen, Waiting
<1>4. CASE h \in processed
  <2>1. todogh' = todogh \ {<<g, h>>} /\ processed' = processed
      BY <1>4 DEF ClosedStep
  <2>2. todogh' \in SUBSET todogh /\ todogh' # todogh /\ IsFiniteSet(todogh)
      BY <1>1, <2>1, WaitingFinite
  <2>3. Waiting' < Waiting
      BY <1>3, <2>2, Fewer
  <2> QED BY <1>2, <1>3, <2>1, <2>3 DEF Falls
<1>5. CASE h \notin processed
  <2>1. processed' = processed \cup {h}
      BY <1>5 DEF ClosedStep
  <2>2. <<g, h>>[2] \in states
      BY <1>1 DEF ClosedInv
  <2>3. states \ processed' \in SUBSET (states \ processed) /\ states \ processed' # states \ processed
      BY <1>5, <2>1, <2>2
  <2>4. IsFiniteSet(states \ processed)
      BY <1>1, Finite DEF TypeOK
  <2>5. Unseen' < Unseen
      BY <1>3, <2>3, <2>4, Fewer
  <2> QED BY <1>2, <2>5 DEF Falls
<1> QED BY <1>4, <1>5

\* After the pass the states are trimmed.
LEMMA ClosedEndFalls ==
    ASSUME ClosedEnd
    PROVE  Falls
<1>1. pc = "closed" /\ pc' = "trim" /\ UNCHANGED state_num
    BY DEF ClosedEnd
<1>2. Rounds' = Rounds /\ Phases' = 1 /\ Phases = 2
    BY <1>1 DEF Rounds, Phases
<1> QED BY <1>2 DEF Falls

\* There is another round only if this one has deleted a state.
LEMMA TrimFalls ==
    ASSUME IInv, IInv', Trim
    PROVE  Falls
<1>1. /\ pc = "trim" /\ TypeOK /\ TrimInv
      /\ pc' = IF Cardinality(states') = state_num THEN "done" ELSE "loop"
    BY DEF Trim, IInv
<1>2. states' \in SUBSET states
    BY DEF Trim, AccessibleSet, CoaccessibleSet
<1>3. IsFiniteSet(states)
    BY <1>1, Finite DEF TypeOK
<1>4. /\ Cardinality(states') \in Nat /\ Cardinality(states) \in Nat /\ state_num \in Nat
      /\ Cardinality(states') <= Cardinality(states) /\ Cardinality(states) <= state_num
    BY <1>1, <1>2, <1>3, Fewer DEF TypeOK, TrimInv
<1>5. Rounds = state_num /\ Phases = 1
    BY <1>1 DEF Rounds, Phases
<1>6. CASE pc' = "done"
  <2>1. Rounds' = 0 /\ Phases' = 0
      BY <1>6 DEF Rounds, Phases
  <2> QED BY <1>4, <1>5, <2>1 DEF Falls
<1>7. CASE pc' = "loop"
  <2>1. Rounds' = Cardinality(states') /\ Cardinality(states') # state_num
      BY <1>1, <1>7 DEF Rounds
  <2> QED BY <1>4, <1>5, <2>1 DEF Falls
<1> QED BY <1>1, <1>6, <1>7

\* The lexicographic order by cases.
LEMMA Lexicographic ==
    ASSUME NEW a, NEW b,
           \/ a[1] < b[1]
           \/ /\ a[1] = b[1]
              /\ \/ a[2] < b[2]
                 \/ /\ a[2] = b[2]
                    /\ \/ a[3] < b[3]
                       \/ a[3] = b[3] /\ a[4] < b[4]
    PROVE  Less(a, b)
<1>1. CASE a[1] < b[1]
  <2>1. \A j \in 1 .. 1 - 1 : a[j] = b[j]
      OBVIOUS
  <2>2. 1 \in 1 .. 4
      OBVIOUS
  <2> QED BY <1>1, <2>1, <2>2 DEF Less
<1>2. CASE a[1] = b[1] /\ a[2] < b[2]
  <2>1. \A j \in 1 .. 2 - 1 : a[j] = b[j]
      BY <1>2
  <2>2. 2 \in 1 .. 4
      OBVIOUS
  <2> QED BY <1>2, <2>1, <2>2 DEF Less
<1>3. CASE a[1] = b[1] /\ a[2] = b[2] /\ a[3] < b[3]
  <2>1. \A j \in 1 .. 3 - 1 : a[j] = b[j]
    <3>1. 1 .. 3 - 1 = {1, 2}
        OBVIOUS
    <3> QED BY <1>3, <3>1
  <2>2. 3 \in 1 .. 4
      OBVIOUS
  <2> QED BY <1>3, <2>1, <2>2 DEF Less
<1>4. CASE a[1] = b[1] /\ a[2] = b[2] /\ a[3] = b[3] /\ a[4] < b[4]
  <2>1. \A j \in 1 .. 4 - 1 : a[j] = b[j]
    <3>1. 1 .. 4 - 1 = {1, 2, 3}
        OBVIOUS
    <3> QED BY <1>4, <3>1
  <2>2. 4 \in 1 .. 4
      OBVIOUS
  <2> QED BY <1>4, <2>1, <2>2 DEF Less
<1> QED BY <1>1, <1>2, <1>3, <1>4

\* What falls without tuples falls in the order of tuples.
LEMMA FallsLess ==
    ASSUME Falls
    PROVE  Less(Measure', Measure)
<1>1. /\ Measure'[1] = Rounds' /\ Measure'[2] = Phases'
      /\ Measure'[3] = Unseen' /\ Measure'[4] = Waiting'
      /\ Measure[1] = Rounds /\ Measure[2] = Phases
      /\ Measure[3] = Unseen /\ Measure[4] = Waiting
    BY DEF Measure
<1>2. \/ Measure'[1] < Measure[1]
      \/ /\ Measure'[1] = Measure[1]
         /\ \/ Measure'[2] < Measure[2]
            \/ /\ Measure'[2] = Measure[2]
               /\ \/ Measure'[3] < Measure[3]
                  \/ Measure'[3] = Measure[3] /\ Measure'[4] < Measure[4]
    BY <1>1 DEF Falls
<1> QED BY <1>2, Lexicographic

\* Every step of SupCon() brings it nearer to its end: four natural numbers fall in the
\* lexicographic order, which is well-founded, so that no order of the search goes on for ever.
THEOREM MeasureFallsCorrect == Spec => MeasureFalls
<1>1. IInv /\ IInv' /\ Next => Less(Measure', Measure)
  <2> SUFFICES ASSUME IInv, IInv', Next PROVE Less(Measure', Measure)
      OBVIOUS
  <2>1. ASSUME NEW p \in todo, ProductStep(p) PROVE Falls
      BY <2>1, ProductFalls
  <2>2. CASE ProductEnd
      BY <2>2, ProductEndFalls, FallsLess
  <2>3. CASE Round
      BY <2>3, RoundFalls, FallsLess
  <2>4. ASSUME NEW s \in todogh, ClosedStep(s[1], s[2]) PROVE Falls
      BY <2>4, ClosedFalls
  <2>5. CASE ClosedEnd
      BY <2>5, ClosedEndFalls, FallsLess
  <2>6. CASE Trim
      BY <2>6, TrimFalls, FallsLess
  <2> QED BY <2>1, <2>2, <2>3, <2>4, <2>5, <2>6, FallsLess DEF Next
<1> QED BY <1>1, Invariance, PTL DEF Spec, MeasureFalls

\* The measure is made of natural numbers.
THEOREM MeasureCorrect == Spec => [](Measure \in Nat \X Nat \X Nat \X Nat)
<1>1. IInv => Measure \in Nat \X Nat \X Nat \X Nat
    BY MeasureType DEF IInv, Measure
<1> QED BY Invariance, <1>1, PTL
==============================================================================
