--------------------------- MODULE BaseSetProofs ---------------------------
(***************************************************************************)
(* Proofs about BaseSet, for any sets, containers, elements, iterators and *)
(* attribute types: the pointers are consistent (DValid), no set points to *)
(* a container that was freed (NoDanglingData), none is lost as long as    *)
(* the sets have attributes of one type (NoLostData), a locked set keeps   *)
(* its container (LockedStays), sets act as values (ActsAsValues), an      *)
(* operation changes the attributes of one set (AttributesOfOne), and the  *)
(* iterators a set tracks follow its container (IteratorsFollow), the last *)
(* two with the exceptions that the code makes.                            *)
(*                                                                         *)
(* The private functions pass through memories in which one set is neither *)
(* host nor client.  Hence the invariant is stated relative to the sets    *)
(* that are in order: Good(m, L).  A set leaves L with Independent(), and  *)
(* comes back with a container of its own, as a client, or empty.          *)
(***************************************************************************)
EXTENDS BaseSet, TLAPS

\* What holds of a set o of memory m, L being the sets that are in order: it
\* hosts itself or is in the list of its host; a host owns its container, or
\* has none; one that is marked as detached has no clients.
GoodSet(m, L, o) ==
    LET h == m.pHostSet[o] IN
    /\ h \in L
    /\ m.pHostSet[h] = h
    /\ m.pSet[o] = m.pSet[h]
    /\ m.mpClients[h] = {p \in L \ {h} : m.pHostSet[p] = h}
    /\ h # o => /\ m.mpSet[o] = NULL
                /\ m.mpClients[o] = NULL
                /\ ~m.mDetached[o]
    /\ h = o => \/ /\ m.pSet[o] = Ges
                   /\ m.mpSet[o] = NULL
                   /\ ~m.mDetached[o]
                \/ /\ m.pSet[o] = m.mpSet[o]
                   /\ m.mpSet[o] \in Cell
                   /\ m.heap[m.mpSet[o]] \in Content
    /\ m.mDetached[o] => m.mpClients[o] = {}

Good(m, L) ==
    /\ m \in Memory
    /\ L \subseteq Obj
    /\ \A o \in L : GoodSet(m, L, o)
    /\ \A o, p \in L : m.mpSet[o] # NULL /\ m.mpSet[o] = m.mpSet[p] => o = p

\* A locked set hosts its data, and is detached unless it has clients: then
\* they can take the copy.
Locks(m, L) ==
    \A o \in L : m.mLocked[o] =>
        /\ m.pHostSet[o] = o
        /\ m.pSet[o] # Ges
        /\ m.mDetached[o] \/ m.mpClients[o] # {}

LEMMA NotNull ==
    /\ \A s \in SUBSET Obj : s # NULL
    /\ NULL \notin Cell /\ Ges \notin Cell
    /\ \A x \in Content : x # NULL
BY NullAssumption, GesAssumption DEF Content

\* What the fields of r are, for r the memory RelinkClients(m, o, n).
RelinkEffect(m, o, n, r) ==
    /\ r \in Memory
    /\ r.heap = m.heap /\ r.iter = m.iter /\ r.mIterators = m.mIterators
    /\ r.mLocked = m.mLocked
    /\ \A p \in Obj : r.pHostSet[p] = IF p \in m.mpClients[o] \cup {o} THEN n
                                      ELSE m.pHostSet[p]
    /\ \A p \in Obj : r.pSet[p] = IF p = n THEN m.pSet[o] ELSE m.pSet[p]
    /\ \A p \in Obj : r.mpSet[p] = IF p = o THEN NULL ELSE
                                   IF p = n THEN m.mpSet[o] ELSE m.mpSet[p]
    /\ \A p \in Obj : r.mpClients[p] = IF p = o THEN NULL ELSE
                            IF p = n THEN (m.mpClients[o] \ {n}) \cup {o}
                            ELSE m.mpClients[p]
    /\ \A p \in Obj : r.mDetached[p] = IF p = n THEN FALSE ELSE m.mDetached[p]

LEMMA RelinkFields ==
    ASSUME NEW m \in Memory, NEW o \in Obj, HasClients(m, o), NEW n \in m.mpClients[o]
    PROVE  RelinkEffect(m, o, n, RelinkClients(m, o, n))
<1> DEFINE ph == Update(m.pHostSet, m.mpClients[o] \cup {o}, n)
           ps == Update(m.pSet, {n}, m.pSet[o])
           ms == [m.mpSet EXCEPT ![n] = m.mpSet[o], ![o] = NULL]
           mc == [m.mpClients EXCEPT ![n] = (m.mpClients[o] \ {n}) \cup {o}, ![o] = NULL]
           md == [m.mDetached EXCEPT ![n] = FALSE]
           r == RelinkClients(m, o, n)
<1>1. m.mpClients[o] \in SUBSET Obj /\ n \in Obj
  BY DEF HasClients, Memory
<1>2. r = [m EXCEPT !.pHostSet = ph, !.pSet = ps, !.mpSet = ms, !.mpClients = mc,
                    !.mDetached = md]
  BY DEF RelinkClients
<1>3. /\ ph \in [Obj -> Obj]
      /\ \A p \in Obj : ph[p] = IF p \in m.mpClients[o] \cup {o} THEN n ELSE m.pHostSet[p]
  BY <1>1 DEF Update, Memory
<1>4. /\ ps \in [Obj -> Cell \cup {Ges}]
      /\ \A p \in Obj : ps[p] = IF p = n THEN m.pSet[o] ELSE m.pSet[p]
  BY <1>1 DEF Update, Memory
<1>5. /\ ms \in [Obj -> Cell \cup {NULL}]
      /\ \A p \in Obj : ms[p] = IF p = o THEN NULL ELSE
                                 IF p = n THEN m.mpSet[o] ELSE m.mpSet[p]
  BY <1>1 DEF Memory
<1>6. /\ mc \in [Obj -> {NULL} \cup SUBSET Obj]
      /\ \A p \in Obj : mc[p] = IF p = o THEN NULL ELSE
                                 IF p = n THEN (m.mpClients[o] \ {n}) \cup {o}
                                 ELSE m.mpClients[p]
  BY <1>1 DEF Memory
<1>7. /\ md \in [Obj -> BOOLEAN]
      /\ \A p \in Obj : md[p] = IF p = n THEN FALSE ELSE m.mDetached[p]
  BY <1>1 DEF Memory
<1> HIDE DEF ph, ps, ms, mc, md, r
<1>8. /\ r \in Memory
      /\ r.pHostSet = ph /\ r.pSet = ps /\ r.mpSet = ms /\ r.mpClients = mc
      /\ r.mDetached = md /\ r.mLocked = m.mLocked /\ r.heap = m.heap
      /\ r.iter = m.iter /\ r.mIterators = m.mIterators
  BY <1>2, <1>3, <1>4, <1>5, <1>6, <1>7 DEF Memory
<1> QED
  BY <1>3, <1>4, <1>5, <1>6, <1>7, <1>8 DEF r, RelinkEffect

LEMMA RelinkGood ==
    ASSUME NEW m, NEW L, Good(m, L),
           NEW o \in L, HasClients(m, o), NEW n \in m.mpClients[o]
    PROVE  /\ Good(RelinkClients(m, o, n), L)
           /\ RelinkEffect(m, o, n, RelinkClients(m, o, n))
           /\ n \in L \ {o}
           /\ \A p \in L : RelinkClients(m, o, n).pSet[p] = m.pSet[p]
           /\ Locks(m, L) => Locks(RelinkClients(m, o, n), L \ {o})
<1> DEFINE r == RelinkClients(m, o, n)
<1>1. m \in Memory /\ o \in Obj /\ L \subseteq Obj
  BY DEF Good
<1>2. GoodSet(m, L, o) /\ m.pHostSet[o] = o
  <2>1. GoodSet(m, L, o)
    BY DEF Good
  <2> QED
    BY <2>1 DEF GoodSet, HasClients
<1>3. m.mpClients[o] = {p \in L \ {o} : m.pHostSet[p] = o}
  BY <1>2 DEF GoodSet
<1>4. n \in L \ {o} /\ m.pHostSet[n] = o
  BY <1>3
<1>5. RelinkEffect(m, o, n, r)
  BY <1>1, RelinkFields
<1> USE <1>5 DEF RelinkEffect
<1> HIDE DEF r
<1>6. \A p \in L : r.pSet[p] = m.pSet[p]
  <2>1. GoodSet(m, L, n)
    BY <1>4 DEF Good
  <2> QED
    BY <2>1, <1>1, <1>4, <1>5 DEF GoodSet
<1>7. \A q \in L : m.pHostSet[q] # n
  <2>1. \A q \in L : GoodSet(m, L, q)
    BY DEF Good
  <2> QED
    BY <2>1, <1>2, <1>4 DEF GoodSet
<1>8. r.mpClients[n] = {q \in L \ {n} : r.pHostSet[q] = n} /\ r.pHostSet[n] = n
  <2>1. r.mpClients[n] = (m.mpClients[o] \ {n}) \cup {o} /\ r.pHostSet[n] = n
    BY <1>1, <1>3, <1>4, <1>5
  <2>2. \A q \in L : r.pHostSet[q] = n <=> q \in m.mpClients[o] \cup {o}
    BY <1>1, <1>5, <1>7
  <2>3. m.mpClients[o] \subseteq L
    BY <1>3
  <2> QED
    BY <1>4, <2>1, <2>2, <2>3
<1>9. ASSUME NEW p \in L, m.pHostSet[p] = o
      PROVE  GoodSet(r, L, p)
  <2>1. GoodSet(m, L, o) /\ GoodSet(m, L, p) /\ GoodSet(m, L, n)
    BY <1>4 DEF Good
  <2>2. r.pHostSet[p] = n /\ n \in L /\ r.pSet[p] = r.pSet[n]
    BY <1>1, <1>2, <1>3, <1>4, <1>6, <1>9, <2>1 DEF GoodSet
  <2>3. CASE p = n
    <3>1. o \in r.mpClients[n]
      BY <1>1, <1>4
    <3>2. ~r.mDetached[n] /\ r.mpSet[n] = m.mpSet[o] /\ r.pSet[n] = m.pSet[o]
      BY <1>1, <1>4
    <3> QED
      BY <1>2, <1>8, <2>1, <2>2, <2>3, <3>1, <3>2 DEF GoodSet
  <2>4. CASE p # n
    <3>1. p = o \/ p \in m.mpClients[o]
      BY <1>3, <1>9
    <3>2. r.mpSet[p] = NULL /\ r.mpClients[p] = NULL
      <4>1. CASE p = o
        BY <1>1, <4>1
      <4>2. CASE p # o
        <5>1. m.mpSet[p] = NULL /\ m.mpClients[p] = NULL
          BY <1>9, <2>1, <4>2 DEF GoodSet
        <5> QED
          BY <1>1, <2>4, <4>2, <5>1
      <4> QED
        BY <4>1, <4>2
    <3>3. ~r.mDetached[p]
      BY <1>1, <1>4, <1>9, <2>1, <2>4, <3>1 DEF GoodSet, HasClients
    <3>4. NULL # {}
      BY NullAssumption
    <3> QED
      BY <1>8, <2>2, <2>4, <3>2, <3>3, <3>4 DEF GoodSet
  <2> QED
    BY <2>3, <2>4

<1>10. ASSUME NEW p \in L, m.pHostSet[p] # o
       PROVE  GoodSet(r, L, p)
  <2> DEFINE h == m.pHostSet[p]
  <2>1. GoodSet(m, L, p) /\ GoodSet(m, L, h)
    BY DEF Good, GoodSet
  <2>2. h \in L /\ h # o /\ h # n /\ p # n /\ p # o
    BY <1>2, <1>4, <1>7, <1>10, <2>1 DEF GoodSet
  <2>3. /\ r.pHostSet[p] = h /\ r.pHostSet[h] = h /\ r.pSet[p] = r.pSet[h]
        /\ r.mpSet[p] = m.mpSet[p] /\ r.mpClients[p] = m.mpClients[p]
        /\ r.mpClients[h] = m.mpClients[h] /\ r.mDetached[p] = m.mDetached[p]
        /\ r.pSet[p] = m.pSet[p]
    BY <1>1, <1>3, <1>4, <1>5, <1>6, <1>10, <2>1, <2>2 DEF GoodSet
  <2>4. {q \in L \ {h} : r.pHostSet[q] = h} = {q \in L \ {h} : m.pHostSet[q] = h}
    BY <1>1, <1>2, <1>3, <1>4, <1>5, <2>2
  <2> QED
    BY <1>5, <2>1, <2>2, <2>3, <2>4 DEF GoodSet
<1>11. \A p, q \in L : r.mpSet[p] # NULL /\ r.mpSet[p] = r.mpSet[q] => p = q
  <2>1. m.mpSet[n] = NULL
    BY <1>2, <1>4 DEF Good, GoodSet
  <2> QED
    BY <1>1, <1>5, <2>1 DEF Good
<1>12. ASSUME Locks(m, L)
       PROVE  Locks(r, L \ {o})
  <2> SUFFICES ASSUME NEW p \in L \ {o}, m.mLocked[p]
               PROVE  /\ r.pHostSet[p] = p /\ r.pSet[p] # Ges
                      /\ r.mDetached[p] \/ r.mpClients[p] # {}
    BY <1>5 DEF Locks
  <2>3. m.pHostSet[p] = p /\ m.pSet[p] # Ges /\ (m.mDetached[p] \/ m.mpClients[p] # {})
    BY <1>12 DEF Locks
  <2>4. p # n /\ p \notin m.mpClients[o]
    BY <1>3, <1>4, <2>3
  <2>5. r.pHostSet[p] = p /\ r.pSet[p] # Ges
    BY <1>1, <1>5, <1>6, <2>3, <2>4
  <2>6. r.mDetached[p] = m.mDetached[p] /\ r.mpClients[p] = m.mpClients[p]
    BY <1>1, <1>5, <2>4
  <2> QED
    BY <2>3, <2>5, <2>6
<1>13. Good(r, L)
  BY <1>1, <1>5, <1>9, <1>10, <1>11 DEF Good
<1> QED
  BY <1>4, <1>5, <1>6, <1>12, <1>13 DEF r

\* What the fields of r are, for r the memory DetachClient(m, h, o).
DetachEffect(m, h, o, r) ==
    /\ r \in Memory
    /\ r.heap = m.heap /\ r.iter = m.iter /\ r.mIterators = m.mIterators
    /\ r.mLocked = m.mLocked /\ r.pHostSet = m.pHostSet /\ r.pSet = m.pSet
    /\ r.mpSet = m.mpSet
    /\ \A p \in Obj : r.mpClients[p] = IF p = h THEN m.mpClients[h] \ {o} ELSE m.mpClients[p]
    /\ \A p \in Obj : r.mDetached[p] =
         IF p = h THEN m.mDetached[h] \/ (m.mpClients[h] \ {o} = {} /\ m.pSet[h] # Ges)
         ELSE m.mDetached[p]

LEMMA DetachFields ==
    ASSUME NEW m \in Memory, NEW h \in Obj, NEW o \in Obj, HasClients(m, h), m.pHostSet[o] = h
    PROVE  DetachEffect(m, h, o, DetachClient(m, h, o))
<1> DEFINE rest == m.mpClients[h] \ {o}
           det == m.mDetached[h] \/ (rest = {} /\ m.pSet[h] # Ges)
           mc == [m.mpClients EXCEPT ![h] = rest]
           md == [m.mDetached EXCEPT ![h] = det]
           r == DetachClient(m, h, o)
<1>1. rest \in SUBSET Obj /\ det \in BOOLEAN
  BY DEF HasClients, Memory
<1>2. r = [m EXCEPT !.mpClients = mc, !.mDetached = md]
  BY DEF DetachClient
<1>3. /\ mc \in [Obj -> {NULL} \cup SUBSET Obj]
      /\ \A p \in Obj : mc[p] = IF p = h THEN rest ELSE m.mpClients[p]
  BY <1>1 DEF Memory
<1>4. /\ md \in [Obj -> BOOLEAN]
      /\ \A p \in Obj : md[p] = IF p = h THEN det ELSE m.mDetached[p]
  BY <1>1 DEF Memory
<1> HIDE DEF mc, md, r
<1>5. /\ r \in Memory
      /\ r.mpClients = mc /\ r.mDetached = md /\ r.pHostSet = m.pHostSet
      /\ r.pSet = m.pSet /\ r.mpSet = m.mpSet /\ r.mLocked = m.mLocked /\ r.heap = m.heap
      /\ r.iter = m.iter /\ r.mIterators = m.mIterators
  BY <1>2, <1>3, <1>4 DEF Memory
<1> QED
  BY <1>3, <1>4, <1>5 DEF r, DetachEffect

\* A client that leaves its host leaves the others in order.
LEMMA DetachGood ==
    ASSUME NEW m, NEW L, Good(m, L), NEW o \in L, m.pHostSet[o] # o
    PROVE  /\ Good(DetachClient(m, m.pHostSet[o], o), L \ {o})
           /\ DetachEffect(m, m.pHostSet[o], o, DetachClient(m, m.pHostSet[o], o))
           /\ m.mpSet[o] = NULL
           /\ Locks(m, L \ {o}) => Locks(DetachClient(m, m.pHostSet[o], o), L \ {o})
<1> DEFINE h == m.pHostSet[o]
           r == DetachClient(m, h, o)
<1>1. m \in Memory /\ o \in Obj /\ L \subseteq Obj /\ GoodSet(m, L, o) /\ h \in L
  BY DEF Good, GoodSet
<1>2. /\ m.pHostSet[h] = h /\ h # o /\ m.mpSet[o] = NULL
      /\ m.mpClients[h] = {p \in L \ {h} : m.pHostSet[p] = h}
  BY <1>1 DEF GoodSet
<1>3. HasClients(m, h)
  BY <1>1, <1>2, NotNull DEF HasClients
<1>4. DetachEffect(m, h, o, r)
  BY <1>1, <1>3, DetachFields
<1> HIDE DEF r, h
<1>5. /\ r \in Memory /\ r.heap = m.heap /\ r.mLocked = m.mLocked
      /\ r.pHostSet = m.pHostSet /\ r.pSet = m.pSet /\ r.mpSet = m.mpSet
  BY <1>4 DEF DetachEffect
<1>6. \A p \in L : r.mpClients[p] = IF p = h THEN m.mpClients[h] \ {o} ELSE m.mpClients[p]
  BY <1>1, <1>4 DEF DetachEffect
<1>7. \A p \in L : r.mDetached[p] =
         IF p = h THEN m.mDetached[h] \/ (m.mpClients[h] \ {o} = {} /\ m.pSet[h] # Ges)
         ELSE m.mDetached[p]
  BY <1>1, <1>4 DEF DetachEffect
<1>8. m.pSet[h] = Ges => ~m.mDetached[h]
  <2>1. GoodSet(m, L, h)
    BY <1>1 DEF Good
  <2> QED
    BY <1>2, <2>1, NotNull DEF GoodSet
<1>9. ASSUME NEW p \in L \ {o}
      PROVE  GoodSet(r, L \ {o}, p)
  <2> DEFINE g == m.pHostSet[p]
  <2>1. GoodSet(m, L, p) /\ GoodSet(m, L, h)
    BY <1>1 DEF Good
  <2>2. /\ g \in L \ {o} /\ m.pHostSet[g] = g /\ m.pSet[p] = m.pSet[g]
        /\ m.mpClients[g] = {q \in L \ {g} : m.pHostSet[q] = g}
    BY <1>2, <2>1 DEF GoodSet, h
  <2> HIDE DEF g
  <2>3. r.mpClients[g] = {q \in (L \ {o}) \ {g} : r.pHostSet[q] = g}
    <3>1. CASE g = h
      <4>1. r.mpClients[g] = m.mpClients[g] \ {o}
        BY <1>6, <2>2, <3>1
      <4> QED
        BY <4>1, <2>2, <1>5
    <3>2. CASE g # h
      <4>1. r.mpClients[g] = m.mpClients[g] /\ m.pHostSet[o] # g
        BY <1>6, <2>2, <3>2 DEF h
      <4> QED
        BY <4>1, <2>2, <1>5
    <3> QED
      BY <3>1, <3>2
  <2>4. g # p => r.mpSet[p] = NULL /\ r.mpClients[p] = NULL /\ ~r.mDetached[p]
    <3>1. p # h \/ g = p
      BY <1>2 DEF g
    <3> QED
      BY <1>5, <1>6, <1>7, <2>1, <3>1 DEF GoodSet, g
  <2>5. r.mDetached[p] => r.mpClients[p] = {}
    <3>1. CASE p = h
      <4>1. m.mDetached[h] => m.mpClients[h] = {}
        BY <2>1 DEF GoodSet
      <4> QED
        BY <1>6, <1>7, <3>1, <4>1
    <3>2. CASE p # h
      BY <1>6, <1>7, <2>1, <3>2 DEF GoodSet
    <3> QED
      BY <3>1, <3>2
  <2>6. g = p => \/ /\ r.pSet[p] = Ges
                    /\ r.mpSet[p] = NULL
                    /\ ~r.mDetached[p]
                 \/ /\ r.pSet[p] = r.mpSet[p]
                    /\ r.mpSet[p] \in Cell
                    /\ r.heap[r.mpSet[p]] \in Content
    BY <1>5, <1>7, <1>8, <2>1 DEF GoodSet, g
  <2>7. r.pHostSet[p] = g
    BY <1>5 DEF g
  <2> QED
    BY <1>5, <2>2, <2>3, <2>4, <2>5, <2>6, <2>7 DEF GoodSet
<1>10. ASSUME Locks(m, L \ {o})
       PROVE  Locks(r, L \ {o})
  <2> SUFFICES ASSUME NEW p \in L \ {o}, m.mLocked[p]
               PROVE  /\ m.pHostSet[p] = p /\ m.pSet[p] # Ges
                      /\ r.mDetached[p] \/ r.mpClients[p] # {}
    BY <1>5 DEF Locks
  <2>1. /\ m.pHostSet[p] = p /\ m.pSet[p] # Ges
        /\ m.mDetached[p] \/ m.mpClients[p] # {}
    BY <1>10 DEF Locks
  <2>2. CASE p = h
    <3>1. r.mDetached[p] <=> m.mDetached[p] \/ r.mpClients[p] = {}
      BY <1>6, <1>7, <2>1, <2>2
    <3> QED
      BY <2>1, <3>1
  <2>3. CASE p # h
    BY <1>6, <1>7, <2>1, <2>3
  <2> QED
    BY <2>2, <2>3
<1>11. Good(r, L \ {o})
  BY <1>1, <1>5, <1>9 DEF Good
<1> QED
  BY <1>2, <1>4, <1>10, <1>11 DEF r, h

\* What Independent(m, o) achieves: o shares nothing any more, the others are
\* in order, no data changed, and what o owns, if anything, is its own.
IndependentEffect(m, L, o, r) ==
    /\ Good(r, L \ {o})
    /\ r.heap = m.heap /\ r.iter = m.iter /\ r.mIterators = m.mIterators
    /\ r.mLocked = m.mLocked
    /\ \A p \in L : r.pSet[p] = m.pSet[p]
    /\ \A p \in L \ {o} : r.mpSet[o] # NULL => r.mpSet[p] # r.mpSet[o] /\ r.pSet[p] # r.mpSet[o]
    /\ Locks(m, L) => Locks(r, L \ {o})

LEMMA IndependentGood ==
    ASSUME NEW m, NEW L, Good(m, L), NEW o \in L, NEW r \in Independent(m, o)
    PROVE  IndependentEffect(m, L, o, r)
<1>1. CASE HasClients(m, o)
  <2>1. PICK n \in m.mpClients[o] :
          r = DetachClient(RelinkClients(m, o, n), RelinkClients(m, o, n).pHostSet[o], o)
    BY <1>1 DEF Independent
  <2> DEFINE k == RelinkClients(m, o, n)
  <2>2. /\ Good(k, L) /\ RelinkEffect(m, o, n, k) /\ n \in L \ {o}
        /\ \A p \in L : k.pSet[p] = m.pSet[p]
        /\ Locks(m, L) => Locks(k, L \ {o})
    BY <1>1, RelinkGood
  <2> HIDE DEF k
  <2>3. k.pHostSet[o] = n /\ n # o
    BY <2>2 DEF RelinkEffect, Good
  <2>4. /\ Good(DetachClient(k, k.pHostSet[o], o), L \ {o})
        /\ DetachEffect(k, k.pHostSet[o], o, DetachClient(k, k.pHostSet[o], o))
        /\ k.mpSet[o] = NULL
        /\ Locks(k, L \ {o}) => Locks(DetachClient(k, k.pHostSet[o], o), L \ {o})
    BY <2>2, <2>3, DetachGood
  <2>5. r = DetachClient(k, k.pHostSet[o], o)
    BY <2>1 DEF k
  <2> QED
    BY <2>2, <2>4, <2>5 DEF IndependentEffect, RelinkEffect, DetachEffect
<1>2. CASE ~HasClients(m, o) /\ m.pHostSet[o] # o
  <2>1. r = DetachClient(m, m.pHostSet[o], o)
    BY <1>2 DEF Independent, RelinkClients
  <2>2. /\ Good(r, L \ {o}) /\ DetachEffect(m, m.pHostSet[o], o, r) /\ m.mpSet[o] = NULL
        /\ Locks(m, L \ {o}) => Locks(r, L \ {o})
    BY <1>2, <2>1, DetachGood
  <2>3. Locks(m, L) => Locks(m, L \ {o})
    BY DEF Locks
  <2> QED
    BY <2>2, <2>3 DEF IndependentEffect, DetachEffect
<1>3. CASE ~HasClients(m, o) /\ m.pHostSet[o] = o
  <2>1. r = m
    BY <1>3 DEF Independent, RelinkClients, DetachClient
  <2>2. GoodSet(m, L, o) /\ L \subseteq Obj /\ m \in Memory
    BY DEF Good
  <2>3. \A q \in L \ {o} : m.pHostSet[q] # o
    <3>1. m.mpClients[o] = {q \in L \ {o} : m.pHostSet[q] = o}
      BY <1>3, <2>2 DEF GoodSet
    <3>2. m.mpClients[o] = {}
      BY <1>3, <2>2, <3>1, NotNull DEF HasClients
    <3> QED
      BY <3>1, <3>2
  <2>4. ASSUME NEW p \in L \ {o}
        PROVE  GoodSet(m, L \ {o}, p)
    <3>1. GoodSet(m, L, p) /\ m.pHostSet[p] # o
      BY <2>3 DEF Good
    <3>2. {q \in (L \ {o}) \ {m.pHostSet[p]} : m.pHostSet[q] = m.pHostSet[p]}
            = {q \in L \ {m.pHostSet[p]} : m.pHostSet[q] = m.pHostSet[p]}
      BY <1>3, <3>1
    <3> QED
      BY <3>1, <3>2 DEF GoodSet
  <2>5. Good(m, L \ {o})
    BY <2>2, <2>4 DEF Good
  <2>6. ASSUME NEW p \in L \ {o}, m.mpSet[o] # NULL
        PROVE  m.mpSet[p] # m.mpSet[o] /\ m.pSet[p] # m.mpSet[o]
    <3>1. \A q \in L \ {o} : m.mpSet[q] # m.mpSet[o]
      BY <2>6 DEF Good
    <3>2. GoodSet(m, L, p) /\ m.pHostSet[p] \in L \ {o} /\ GoodSet(m, L, m.pHostSet[p])
      BY <2>3 DEF Good, GoodSet
    <3>3. m.pSet[p] \in {Ges, m.mpSet[m.pHostSet[p]]}
      BY <3>2 DEF GoodSet
    <3>4. m.mpSet[o] \in Cell
      BY <2>2, <2>6 DEF Memory
    <3> QED
      BY <3>1, <3>2, <3>3, <3>4, NotNull
  <2>7. Locks(m, L) => Locks(m, L \ {o})
    BY DEF Locks
  <2> QED
    BY <2>1, <2>5, <2>6, <2>7 DEF IndependentEffect
<1> QED
  BY <1>1, <1>2, <1>3

\* Only pointers, flags and data count.
SameLinks(m, r) ==
    /\ r \in Memory
    /\ r.pHostSet = m.pHostSet /\ r.pSet = m.pSet /\ r.mpSet = m.mpSet
    /\ r.mpClients = m.mpClients /\ r.mDetached = m.mDetached /\ r.heap = m.heap

LEMMA SameGood ==
    ASSUME NEW m, NEW r, NEW L, Good(m, L), SameLinks(m, r)
    PROVE  /\ Good(r, L)
           /\ \A o \in L : Data(r, o) = Data(m, o)
           /\ \A S : r.mLocked = m.mLocked /\ Locks(m, S) => Locks(r, S)
<1>1. Good(r, L)
  BY DEF Good, GoodSet, SameLinks
<1>2. \A S : r.mLocked = m.mLocked /\ Locks(m, S) => Locks(r, S)
  BY DEF Locks, SameLinks
<1> QED
  BY <1>1, <1>2 DEF SameLinks, Data

\* r agrees with m on the fields and containers of the sets in S.
Agree(m, r, S) ==
    /\ r \in Memory
    /\ \A p \in S : /\ r.pHostSet[p] = m.pHostSet[p]
                    /\ r.pSet[p] = m.pSet[p]
                    /\ r.mpSet[p] = m.mpSet[p]
                    /\ r.mpClients[p] = m.mpClients[p]
                    /\ r.mDetached[p] = m.mDetached[p]
                    /\ r.mpSet[p] # NULL => r.heap[r.mpSet[p]] = m.heap[r.mpSet[p]]

\* Sets are in order when their own fields and their containers are the same.
LEMMA AgreeGood ==
    ASSUME NEW m, NEW r, NEW S, Good(m, S), Agree(m, r, S)
    PROVE  /\ Good(r, S)
           /\ \A p \in S : Data(r, p) = Data(m, p)
           /\ (\A p \in S : r.mLocked[p] = m.mLocked[p]) /\ Locks(m, S) => Locks(r, S)
<1> USE DEF Agree
<1>1. ASSUME NEW p \in S
      PROVE  GoodSet(r, S, p)
  <2>1. GoodSet(m, S, p) /\ m.pHostSet[p] \in S
    BY DEF Good, GoodSet
  <2>2. {q \in S \ {m.pHostSet[p]} : r.pHostSet[q] = m.pHostSet[p]}
          = {q \in S \ {m.pHostSet[p]} : m.pHostSet[q] = m.pHostSet[p]}
    OBVIOUS
  <2> QED
    BY <2>1, <2>2, NotNull DEF GoodSet
<1>2. Good(r, S)
  BY <1>1 DEF Good
<1>3. ASSUME NEW p \in S
      PROVE  Data(r, p) = Data(m, p)
  <2>1. GoodSet(m, S, p) /\ m.pHostSet[p] \in S /\ GoodSet(m, S, m.pHostSet[p])
    BY DEF Good, GoodSet
  <2>2. m.pSet[p] = Ges \/ (/\ m.pSet[p] = m.mpSet[m.pHostSet[p]]
                           /\ m.mpSet[m.pHostSet[p]] \in Cell)
    BY <2>1 DEF GoodSet
  <2> QED
    BY <2>1, <2>2, NotNull DEF Data
<1>4. (\A p \in S : r.mLocked[p] = m.mLocked[p]) /\ Locks(m, S) => Locks(r, S)
  BY DEF Locks
<1> QED
  BY <1>2, <1>3, <1>4

\* o hosts itself, with a container of its own or with the empty set, and has
\* no clients.
Alone(r, S, o) ==
    /\ r.pHostSet[o] = o
    /\ r.mpClients[o] = {}
    /\ \/ r.pSet[o] = Ges /\ r.mpSet[o] = NULL /\ ~r.mDetached[o]
       \/ /\ r.pSet[o] = r.mpSet[o] /\ r.mpSet[o] \in Cell
          /\ r.heap[r.mpSet[o]] \in Content
    /\ \A p \in S : r.mpSet[o] # NULL => r.mpSet[p] # r.mpSet[o]

\* Such a set is in order, and the others stay so.
LEMMA HostGood ==
    ASSUME NEW m, NEW r, NEW S, NEW o \in Obj, o \notin S, Good(m, S),
           Agree(m, r, S), Alone(r, S, o), NEW M, M = S \cup {o}
    PROVE  /\ Good(r, M)
           /\ \A p \in S : Data(r, p) = Data(m, p)
<1> USE DEF Agree, Alone
<1>1. M \ {o} = S /\ M \subseteq Obj /\ o \in M
  BY DEF Good
<1>2. \A p \in M \ {o} : GoodSet(m, S, p)
  BY <1>1 DEF Good
<1>3. \A p \in M \ {o} : r.pHostSet[p] # o
  BY <1>1, <1>2 DEF GoodSet
<1>4. ASSUME NEW p \in M \ {o}
      PROVE  GoodSet(r, M, p)
  <2> DEFINE h == m.pHostSet[p]
  <2>1. GoodSet(m, S, p)
    BY <1>2
  <2>2. /\ h \in S /\ r.pHostSet[p] = h /\ r.pHostSet[h] = h /\ r.pSet[p] = r.pSet[h]
        /\ r.mpClients[h] = m.mpClients[h] /\ h # o
    BY <1>1, <2>1 DEF GoodSet
  <2>3. m.mpClients[h] = {q \in S \ {h} : m.pHostSet[q] = h}
    BY <2>1 DEF GoodSet
  <2> HIDE DEF h
  <2>4. r.mpClients[h] = {q \in M \ {h} : r.pHostSet[q] = h}
    <3>1. {q \in M \ {h} : r.pHostSet[q] = h} = {q \in S \ {h} : m.pHostSet[q] = h}
      BY <1>1, <2>2
    <3> QED
      BY <2>2, <2>3, <3>1
  <2>5. /\ h # p => /\ r.mpSet[p] = NULL
                    /\ r.mpClients[p] = NULL
                    /\ ~r.mDetached[p]
        /\ r.mDetached[p] => r.mpClients[p] = {}
    BY <1>1, <2>1 DEF GoodSet, h
  <2>6. h = p => \/ /\ r.pSet[p] = Ges
                    /\ r.mpSet[p] = NULL
                    /\ ~r.mDetached[p]
                 \/ /\ r.pSet[p] = r.mpSet[p]
                    /\ r.mpSet[p] \in Cell
                    /\ r.heap[r.mpSet[p]] \in Content
    BY <1>1, <2>1, NotNull DEF GoodSet, h
  <2>7. h \in M
    BY <1>1, <2>2
  <2> QED
    BY <2>2, <2>4, <2>5, <2>6, <2>7 DEF GoodSet
<1>5. GoodSet(r, M, o)
  <2>1. {q \in M \ {o} : r.pHostSet[q] = o} = {}
    BY <1>3
  <2> QED
    BY <1>1, <2>1 DEF GoodSet
<1>6. \A p, q \in M : r.mpSet[p] # NULL /\ r.mpSet[p] = r.mpSet[q] => p = q
  BY <1>1 DEF Good
<1>7. Good(r, M)
  BY <1>1, <1>4, <1>5, <1>6 DEF Good
<1>8. \A p \in S : Data(r, p) = Data(m, p)
  BY AgreeGood
<1> QED
  BY <1>7, <1>8

LEMMA DataType ==
    ASSUME NEW m, NEW L, Good(m, L), NEW o \in L
    PROVE  /\ Data(m, o) \in Content
           /\ m.pSet[o] # Ges => m.pSet[o] \in Cell /\ m.heap[m.pSet[o]] \in Content
<1>1. GoodSet(m, L, o) /\ m.pHostSet[o] \in L /\ GoodSet(m, L, m.pHostSet[o])
  BY DEF Good, GoodSet
<1>2. m.pSet[o] # Ges => m.pSet[o] \in Cell /\ m.heap[m.pSet[o]] \in Content
  BY <1>1, NotNull DEF GoodSet
<1>3. Empty \in Content
  BY DEF Empty, Content
<1> QED
  BY <1>2, <1>3 DEF Data

LEMMA CopyType ==
    ASSUME NEW x \in Content, NEW flag
    PROVE  /\ CopyOf(x, flag) \in Content /\ CopyOf(x, flag).elems = x.elems
           /\ CopyOf(x, flag).attr \in {x.attr, {}}
           /\ flag = "AttrIncl" => CopyOf(x, flag).attr = x.attr
BY DEF CopyOf, Content

\* What the fields of r are, for r the memory where o hosts itself with x in
\* container c: a copy that belongs to o alone.
OwnEffect(m, o, x, c, r) ==
    /\ r \in Memory
    /\ r.mLocked = m.mLocked
    /\ \A p \in Obj : r.pHostSet[p] = IF p = o THEN o ELSE m.pHostSet[p]
    /\ \A p \in Obj : r.pSet[p] = IF p = o THEN c ELSE m.pSet[p]
    /\ \A p \in Obj : r.mpSet[p] = IF p = o THEN c ELSE m.mpSet[p]
    /\ \A p \in Obj : r.mpClients[p] = IF p = o THEN {} ELSE m.mpClients[p]
    /\ \A p \in Obj \ {o} : r.mDetached[p] = m.mDetached[p]
    /\ \A a \in Cell : r.heap[a] = IF a = c THEN x ELSE m.heap[a]

LEMMA OwnFields ==
    ASSUME NEW m \in Memory, NEW o \in Obj, NEW x \in Content, NEW c \in Cell,
           NEW r,
           NEW md \in [Obj -> BOOLEAN], \A p \in Obj \ {o} : md[p] = m.mDetached[p],
           NEW it \in [Iter -> [pBaseSet : Obj \cup {NULL}, mAttached : BOOLEAN,
                                cell : Cell \cup {Ges}]],
           r = [m EXCEPT !.pHostSet = Update(m.pHostSet, {o}, o),
                         !.pSet = Update(m.pSet, {o}, c),
                         !.mpSet[o] = c, !.mpClients[o] = {}, !.mDetached = md,
                         !.heap = Update(m.heap, {c}, x), !.iter = it]
    PROVE  OwnEffect(m, o, x, c, r)
<1> DEFINE ph == Update(m.pHostSet, {o}, o)
           ps == Update(m.pSet, {o}, c)
           ms == [m.mpSet EXCEPT ![o] = c]
           mc == [m.mpClients EXCEPT ![o] = {}]
           hp == Update(m.heap, {c}, x)
<1>1. r = [m EXCEPT !.pHostSet = ph, !.pSet = ps, !.mpSet = ms, !.mpClients = mc,
                    !.mDetached = md, !.heap = hp, !.iter = it]
  OBVIOUS
<1>2. /\ ph \in [Obj -> Obj]
      /\ \A p \in Obj : ph[p] = IF p = o THEN o ELSE m.pHostSet[p]
  BY DEF Update, Memory
<1>3. /\ ps \in [Obj -> Cell \cup {Ges}]
      /\ \A p \in Obj : ps[p] = IF p = o THEN c ELSE m.pSet[p]
  BY DEF Update, Memory
<1>4. /\ ms \in [Obj -> Cell \cup {NULL}]
      /\ \A p \in Obj : ms[p] = IF p = o THEN c ELSE m.mpSet[p]
  BY DEF Memory
<1>5. /\ mc \in [Obj -> {NULL} \cup SUBSET Obj]
      /\ \A p \in Obj : mc[p] = IF p = o THEN {} ELSE m.mpClients[p]
  BY DEF Memory
<1>7. /\ hp \in [Cell -> {NULL} \cup Content]
      /\ \A a \in Cell : hp[a] = IF a = c THEN x ELSE m.heap[a]
  BY DEF Update, Memory
<1> HIDE DEF ph, ps, ms, mc, hp
<1>8. /\ r.pHostSet = ph /\ r.pSet = ps /\ r.mpSet = ms /\ r.mpClients = mc
      /\ r.mDetached = md /\ r.mLocked = m.mLocked /\ r.heap = hp
      /\ r.mIterators = m.mIterators /\ r.iter = it
  BY <1>1 DEF Memory
<1>9. r = [pHostSet |-> ph, pSet |-> ps, mpSet |-> ms, mpClients |-> mc,
           mDetached |-> md, mLocked |-> m.mLocked, mIterators |-> m.mIterators,
           heap |-> hp, iter |-> it]
  BY <1>1 DEF Memory
<1>10. m.mLocked \in [Obj -> BOOLEAN] /\ m.mIterators \in [Obj -> SUBSET Iter]
  BY DEF Memory
<1>11. r \in Memory
  <2>1. /\ ph \in [Obj -> Obj]
        /\ ps \in [Obj -> Cell \cup {Ges}]
        /\ ms \in [Obj -> Cell \cup {NULL}]
        /\ mc \in [Obj -> {NULL} \cup SUBSET Obj]
        /\ md \in [Obj -> BOOLEAN]
        /\ hp \in [Cell -> {NULL} \cup Content]
    BY <1>2, <1>3, <1>4, <1>5, <1>7
  <2> QED
    BY <1>9, <1>10, <2>1 DEF Memory
<1> QED
  BY <1>2, <1>3, <1>4, <1>5, <1>7, <1>8, <1>11 DEF OwnEffect

LEMMA OwnCopyFields ==
    ASSUME NEW m \in Memory, NEW o \in Obj, NEW x \in Content, NEW c \in Cell
    PROVE  OwnEffect(m, o, x, c, OwnCopy(m, o, x, c)) /\ OwnCopy(m, o, x, c).mDetached[o]
<1> DEFINE it == [i \in Iter |-> IF i \in m.mIterators[o]
                                 THEN [m.iter[i] EXCEPT !.cell = c] ELSE m.iter[i]]
           md == [m.mDetached EXCEPT ![o] = TRUE]
<1>1. it \in [Iter -> [pBaseSet : Obj \cup {NULL}, mAttached : BOOLEAN, cell : Cell \cup {Ges}]]
  BY DEF Memory
<1>2. OwnCopy(m, o, x, c) =
        [m EXCEPT !.pHostSet = Update(m.pHostSet, {o}, o), !.pSet = Update(m.pSet, {o}, c),
                  !.mpSet[o] = c, !.mpClients[o] = {}, !.mDetached = md,
                  !.heap = Update(m.heap, {c}, x), !.iter = it]
  BY DEF OwnCopy
<1>3. md \in [Obj -> BOOLEAN] /\ md[o] /\ \A p \in Obj \ {o} : md[p] = m.mDetached[p]
  BY DEF Memory
<1> HIDE DEF it, md
<1> DEFINE r == OwnCopy(m, o, x, c)
<1>4. r = [m EXCEPT !.pHostSet = Update(m.pHostSet, {o}, o), !.pSet = Update(m.pSet, {o}, c),
                    !.mpSet[o] = c, !.mpClients[o] = {}, !.mDetached = md,
                    !.heap = Update(m.heap, {c}, x), !.iter = it]
  BY <1>2
<1> HIDE DEF r
<1>5. \A p \in Obj \ {o} : md[p] = m.mDetached[p]
  BY <1>3
<1>6. md \in [Obj -> BOOLEAN]
  BY <1>3
<1>7. OwnEffect(m, o, x, c, r)
  BY <1>1, <1>4, <1>5, <1>6, OwnFields
<1>8. r.mDetached = md
  BY <1>4 DEF Memory
<1> QED
  BY <1>3, <1>7, <1>8 DEF r

LEMMA DeepCopyFields ==
    ASSUME NEW m \in Memory, NEW o \in Obj, NEW p \in Obj, Data(m, p) \in Content, NEW c \in Cell
    PROVE  \E x \in Content : /\ x.elems = Data(m, p).elems
                              /\ OwnEffect(m, o, x, c, DeepCopy(m, o, p, c))
<1> DEFINE x == CopyOf(Data(m, p), IF AttributeType[o] = Void THEN "SetOnly" ELSE "AttrIncl")
<1>1. x \in Content /\ x.elems = Data(m, p).elems
  BY CopyType
<1>2. m.iter \in [Iter -> [pBaseSet : Obj \cup {NULL}, mAttached : BOOLEAN,
                           cell : Cell \cup {Ges}]]
  BY DEF Memory
<1> DEFINE md == [m.mDetached EXCEPT ![o] = FALSE]
<1>3. DeepCopy(m, o, p, c) =
        [m EXCEPT !.pHostSet = Update(m.pHostSet, {o}, o), !.pSet = Update(m.pSet, {o}, c),
                  !.mpSet[o] = c, !.mpClients[o] = {}, !.mDetached = md,
                  !.heap = Update(m.heap, {c}, x)]
  BY DEF DeepCopy
<1>4. md \in [Obj -> BOOLEAN] /\ \A q \in Obj \ {o} : md[q] = m.mDetached[q]
  BY DEF Memory
<1> HIDE DEF x, md
<1>5. DeepCopy(m, o, p, c) =
        [m EXCEPT !.pHostSet = Update(m.pHostSet, {o}, o), !.pSet = Update(m.pSet, {o}, c),
                  !.mpSet[o] = c, !.mpClients[o] = {}, !.mDetached = md,
                  !.heap = Update(m.heap, {c}, x), !.iter = m.iter]
  BY <1>3 DEF Memory
<1>6. OwnEffect(m, o, x, c, DeepCopy(m, o, p, c))
  BY <1>1, <1>2, <1>4, <1>5, OwnFields
<1> QED
  BY <1>1, <1>6

\* A set that shared nothing is in order with a container of its own.
SameButFor(m, L, o, x, r) ==
    /\ \A p \in L \ {o} : Data(r, p) = Data(m, p)
    /\ Data(r, o) = x

LEMMA OwnGood ==
    ASSUME NEW m, NEW L, NEW o \in L, o \in Obj, Good(m, L \ {o}),
           NEW c \in FreeCells(m), NEW x \in Content,
           NEW r, OwnEffect(m, o, x, c, r)
    PROVE  /\ Good(r, L)
           /\ SameButFor(m, L, o, x, r)
           /\ Locks(m, L \ {o}) => Locks(r, L \ {o})
           /\ Locks(m, L \ {o}) /\ r.mDetached[o] => Locks(r, L)
<1> USE DEF OwnEffect
<1>1. c \in Cell /\ m.heap[c] = NULL /\ L \subseteq Obj /\ m \in Memory
  BY DEF FreeCells, Good
<1>2. \A p \in L \ {o} : m.mpSet[p] # NULL => m.mpSet[p] \in Cell /\ m.heap[m.mpSet[p]] # NULL
  BY NotNull DEF Good, GoodSet
<1>3. \A p \in L \ {o} : /\ r.pHostSet[p] = m.pHostSet[p]
                         /\ r.pSet[p] = m.pSet[p]
                         /\ r.mpSet[p] = m.mpSet[p]
                         /\ r.mpClients[p] = m.mpClients[p]
                         /\ r.mDetached[p] = m.mDetached[p]
                         /\ r.mpSet[p] # NULL => r.heap[r.mpSet[p]] = m.heap[r.mpSet[p]]
                         /\ r.mpSet[o] # NULL => r.mpSet[p] # r.mpSet[o]
  <2>1. TAKE p \in L \ {o}
  <2>2. p \in Obj /\ p # o
    BY <1>1
  <2>3. r.mpSet[p] = m.mpSet[p] /\ r.mpSet[o] = c
    BY <1>1, <2>2
  <2>4. m.mpSet[p] # NULL => m.mpSet[p] \in Cell /\ m.mpSet[p] # c
    BY <1>1, <1>2
  <2> QED
    BY <1>1, <2>2, <2>3, <2>4
<1>4. /\ r \in Memory /\ r.pHostSet[o] = o /\ r.mpClients[o] = {} /\ r.pSet[o] = c
      /\ r.mpSet[o] = c /\ r.heap[c] = x
  BY <1>1
<1> HIDE DEF OwnEffect
<1>5. Good(r, L) /\ \A p \in L \ {o} : Data(r, p) = Data(m, p)
  <2>1. Agree(m, r, L \ {o}) /\ Alone(r, L \ {o}, o)
    BY <1>1, <1>3, <1>4 DEF Agree, Alone
  <2>2. L = (L \ {o}) \cup {o} /\ o \notin L \ {o}
    OBVIOUS
  <2> QED
    BY <2>1, <2>2, HostGood
<1>6. Data(r, o) = x
  BY <1>1, <1>4, NotNull DEF Data
<1>7. ASSUME Locks(m, L \ {o})
      PROVE  Locks(r, L \ {o})
  BY <1>3, <1>7 DEF Locks, OwnEffect
<1>8. ASSUME Locks(r, L \ {o}), r.mDetached[o]
      PROVE  Locks(r, L)
  BY <1>1, <1>4, <1>8, NotNull DEF Locks
<1> QED
  BY <1>5, <1>6, <1>7, <1>8 DEF SameButFor

\* Releasing what o owns does not touch the others, if it is its own.
LEMMA ReleaseGood ==
    ASSUME NEW m, NEW S, Good(m, S), NEW o \in Obj, o \notin S,
           \A p \in S : m.mpSet[o] # NULL => m.mpSet[p] # m.mpSet[o]
    PROVE  /\ Good(Release(m, o), S)
           /\ \A p \in S : Data(Release(m, o), p) = Data(m, p)
           /\ Locks(m, S) => Locks(Release(m, o), S)
           /\ Release(m, o).pHostSet = m.pHostSet /\ Release(m, o).pSet = m.pSet
           /\ Release(m, o).mpSet[o] = NULL /\ Release(m, o).mLocked = m.mLocked
<1> DEFINE hp == Update(m.heap, {m.mpSet[o]}, NULL)
           ms == [m.mpSet EXCEPT ![o] = NULL]
           r == Release(m, o)
<1>1. r = [m EXCEPT !.heap = hp, !.mpSet = ms]
  BY DEF Release
<1>2. m \in Memory
  BY DEF Good
<1>3. /\ hp \in [Cell -> {NULL} \cup Content]
      /\ \A c \in Cell : c # m.mpSet[o] => hp[c] = m.heap[c]
  BY <1>2 DEF Update, Memory
<1>4. /\ ms \in [Obj -> Cell \cup {NULL}]
      /\ \A p \in Obj : ms[p] = IF p = o THEN NULL ELSE m.mpSet[p]
  BY <1>2 DEF Memory
<1> HIDE DEF hp, ms, r
<1>5. /\ r \in Memory
      /\ r.heap = hp /\ r.mpSet = ms /\ r.pHostSet = m.pHostSet /\ r.pSet = m.pSet
      /\ r.mpClients = m.mpClients /\ r.mDetached = m.mDetached /\ r.mLocked = m.mLocked
  BY <1>1, <1>2, <1>3, <1>4 DEF Memory
<1>6. ASSUME NEW p \in S
      PROVE  /\ r.mpSet[p] = m.mpSet[p]
             /\ r.mpSet[p] # NULL => r.heap[r.mpSet[p]] = m.heap[r.mpSet[p]]
  <2>1. p \in Obj /\ p # o
    BY DEF Good
  <2>2. r.mpSet[p] = m.mpSet[p] /\ m.mpSet[p] \in Cell \cup {NULL}
    BY <1>2, <1>4, <1>5, <2>1 DEF Memory
  <2>3. m.mpSet[p] # NULL => m.mpSet[p] # m.mpSet[o]
    OBVIOUS
  <2> QED
    BY <1>3, <1>5, <2>2, <2>3
<1>7. /\ Good(r, S)
      /\ \A p \in S : Data(r, p) = Data(m, p)
      /\ Locks(m, S) => Locks(r, S)
  <2>1. Agree(m, r, S)
    BY <1>5, <1>6 DEF Agree
  <2> QED
    BY <1>5, <2>1, AgreeGood
<1> QED
  BY <1>4, <1>5, <1>7 DEF r

LEMMA InvalidateSame ==
    ASSUME NEW m \in Memory, NEW o \in Obj
    PROVE  SameLinks(m, Invalidate(m, o)) /\ Invalidate(m, o).mLocked = m.mLocked
<1> DEFINE it == Update(m.iter, m.mIterators[o], NoIterator)
           mi == Update(m.mIterators, {o}, {})
           r == Invalidate(m, o)
<1>1. r = [m EXCEPT !.iter = it, !.mIterators = mi]
  BY DEF Invalidate
<1>2. it \in [Iter -> [pBaseSet : Obj \cup {NULL}, mAttached : BOOLEAN, cell : Cell \cup {Ges}]]
  BY DEF Update, Memory, NoIterator
<1>3. mi \in [Obj -> SUBSET Iter]
  BY DEF Update, Memory
<1> HIDE DEF it, mi, r
<1>4. SameLinks(m, r) /\ r.mLocked = m.mLocked
  BY <1>1, <1>2, <1>3 DEF SameLinks, Memory
<1> QED
  BY <1>4 DEF r

LEMMA UntrackSame ==
    ASSUME NEW m \in Memory, NEW o \in Obj
    PROVE  SameLinks(m, Untrack(m, o)) /\ Untrack(m, o).mLocked = m.mLocked
<1> DEFINE it == [i \in Iter |-> IF i \in m.mIterators[o]
                                 THEN [m.iter[i] EXCEPT !.mAttached = FALSE] ELSE m.iter[i]]
           mi == Update(m.mIterators, {o}, {})
           r == Untrack(m, o)
<1>1. r = [m EXCEPT !.iter = it, !.mIterators = mi]
  BY DEF Untrack
<1>2. it \in [Iter -> [pBaseSet : Obj \cup {NULL}, mAttached : BOOLEAN, cell : Cell \cup {Ges}]]
  BY DEF Memory
<1>3. mi \in [Obj -> SUBSET Iter]
  BY DEF Update, Memory
<1> HIDE DEF it, mi, r
<1>4. SameLinks(m, r) /\ r.mLocked = m.mLocked
  BY <1>1, <1>2, <1>3 DEF SameLinks, Memory
<1> QED
  BY <1>4 DEF r

\* Flags "locked" do not matter for Good.
LEMMA LockFlagSame ==
    ASSUME NEW m \in Memory, NEW o \in Obj, NEW b \in BOOLEAN
    PROVE  /\ SameLinks(m, [m EXCEPT !.mLocked[o] = b])
           /\ \A p \in Obj : [m EXCEPT !.mLocked[o] = b].mLocked[p]
                               = IF p = o THEN b ELSE m.mLocked[p]
<1> DEFINE ml == [m.mLocked EXCEPT ![o] = b]
           r == [m EXCEPT !.mLocked[o] = b]
<1>1. r = [m EXCEPT !.mLocked = ml]
  OBVIOUS
<1>2. ml \in [Obj -> BOOLEAN] /\ \A p \in Obj : ml[p] = IF p = o THEN b ELSE m.mLocked[p]
  BY DEF Memory
<1> HIDE DEF ml, r
<1>3. SameLinks(m, r) /\ r.mLocked = ml
  BY <1>1, <1>2 DEF SameLinks, Memory
<1> QED
  BY <1>2, <1>3 DEF r

\* A constructed set is empty, hosts itself and is not locked.
ConstructEffect(m, o, r) ==
    /\ r \in Memory
    /\ r.heap = m.heap
    /\ \A p \in Obj : r.pHostSet[p] = IF p = o THEN o ELSE m.pHostSet[p]
    /\ \A p \in Obj : r.pSet[p] = IF p = o THEN Ges ELSE m.pSet[p]
    /\ \A p \in Obj : r.mpSet[p] = IF p = o THEN NULL ELSE m.mpSet[p]
    /\ \A p \in Obj : r.mpClients[p] = IF p = o THEN {} ELSE m.mpClients[p]
    /\ \A p \in Obj : r.mDetached[p] = IF p = o THEN FALSE ELSE m.mDetached[p]
    /\ \A p \in Obj : r.mLocked[p] = IF p = o THEN FALSE ELSE m.mLocked[p]

LEMMA ConstructFields ==
    ASSUME NEW m \in Memory, NEW o \in Obj
    PROVE  ConstructEffect(m, o, Construct(m, o))
<1> DEFINE ph == Update(m.pHostSet, {o}, o)
           ps == Update(m.pSet, {o}, Ges)
           ms == [m.mpSet EXCEPT ![o] = NULL]
           mc == [m.mpClients EXCEPT ![o] = {}]
           md == [m.mDetached EXCEPT ![o] = FALSE]
           ml == [m.mLocked EXCEPT ![o] = FALSE]
           mi == Update(m.mIterators, {o}, {})
           r == Construct(m, o)
<1>1. r = [m EXCEPT !.pHostSet = ph, !.pSet = ps, !.mpSet = ms, !.mpClients = mc,
                    !.mDetached = md, !.mLocked = ml, !.mIterators = mi]
  BY DEF Construct
<1>2. /\ ph \in [Obj -> Obj]
      /\ \A p \in Obj : ph[p] = IF p = o THEN o ELSE m.pHostSet[p]
  BY DEF Update, Memory
<1>3. /\ ps \in [Obj -> Cell \cup {Ges}]
      /\ \A p \in Obj : ps[p] = IF p = o THEN Ges ELSE m.pSet[p]
  BY DEF Update, Memory
<1>4. /\ ms \in [Obj -> Cell \cup {NULL}]
      /\ \A p \in Obj : ms[p] = IF p = o THEN NULL ELSE m.mpSet[p]
  BY DEF Memory
<1>5. /\ mc \in [Obj -> {NULL} \cup SUBSET Obj]
      /\ \A p \in Obj : mc[p] = IF p = o THEN {} ELSE m.mpClients[p]
  BY DEF Memory
<1>6. /\ md \in [Obj -> BOOLEAN]
      /\ \A p \in Obj : md[p] = IF p = o THEN FALSE ELSE m.mDetached[p]
  BY DEF Memory
<1>7. /\ ml \in [Obj -> BOOLEAN]
      /\ \A p \in Obj : ml[p] = IF p = o THEN FALSE ELSE m.mLocked[p]
  BY DEF Memory
<1>8. mi \in [Obj -> SUBSET Iter]
  BY DEF Update, Memory
<1> HIDE DEF ph, ps, ms, mc, md, ml, mi, r
<1>9. /\ r.pHostSet = ph /\ r.pSet = ps /\ r.mpSet = ms /\ r.mpClients = mc
      /\ r.mDetached = md /\ r.mLocked = ml /\ r.heap = m.heap
  BY <1>1 DEF Memory
<1>10. r = [pHostSet |-> ph, pSet |-> ps, mpSet |-> ms, mpClients |-> mc,
            mDetached |-> md, mLocked |-> ml, mIterators |-> mi,
            heap |-> m.heap, iter |-> m.iter]
  BY <1>1 DEF Memory
<1>11. r \in Memory
  <2>1. /\ ph \in [Obj -> Obj]
        /\ ps \in [Obj -> Cell \cup {Ges}]
        /\ ms \in [Obj -> Cell \cup {NULL}]
        /\ mc \in [Obj -> {NULL} \cup SUBSET Obj]
        /\ md \in [Obj -> BOOLEAN]
        /\ ml \in [Obj -> BOOLEAN]
    BY <1>2, <1>3, <1>4, <1>5, <1>6, <1>7
  <2> QED
    BY <1>8, <1>10, <2>1 DEF Memory
<1> QED
  BY <1>2, <1>3, <1>4, <1>5, <1>6, <1>7, <1>9, <1>11 DEF ConstructEffect, r

LEMMA ConstructGood ==
    ASSUME NEW m, NEW S, NEW o \in Obj, o \notin S, Good(m, S), NEW r, ConstructEffect(m, o, r),
           NEW M, M = S \cup {o}
    PROVE  /\ Good(r, M)
           /\ Good(r, S)
           /\ \A p \in S : Data(r, p) = Data(m, p)
           /\ Data(r, o) = Empty
           /\ Locks(m, S) => /\ Locks(r, M)
                             /\ Locks(r, S)
<1>1. S \subseteq Obj
  BY DEF Good
<1>2. /\ r \in Memory /\ r.pHostSet[o] = o /\ r.mpClients[o] = {} /\ r.pSet[o] = Ges
      /\ r.mpSet[o] = NULL /\ ~r.mDetached[o] /\ ~r.mLocked[o]
  BY DEF ConstructEffect
<1>3. \A p \in S : /\ r.pHostSet[p] = m.pHostSet[p]
                   /\ r.pSet[p] = m.pSet[p]
                   /\ r.mpSet[p] = m.mpSet[p]
                   /\ r.mpClients[p] = m.mpClients[p]
                   /\ r.mDetached[p] = m.mDetached[p]
                   /\ r.mpSet[p] # NULL => r.heap[r.mpSet[p]] = m.heap[r.mpSet[p]]
                   /\ r.mpSet[o] # NULL => r.mpSet[p] # r.mpSet[o]
  BY <1>1, <1>2 DEF ConstructEffect
<1>4. \A p \in S : r.mLocked[p] = m.mLocked[p]
  BY <1>1 DEF ConstructEffect
<1>5. Good(r, M) /\ \A p \in S : Data(r, p) = Data(m, p)
  <2>1. Agree(m, r, S) /\ Alone(r, S, o)
    BY <1>2, <1>3 DEF Agree, Alone
  <2> QED
    BY <2>1, HostGood
<1>6. Good(r, S) /\ (Locks(m, S) => Locks(r, S))
  <2>1. Agree(m, r, S)
    BY <1>2, <1>3 DEF Agree
  <2> QED
    BY <1>4, <2>1, AgreeGood
<1>7. Locks(r, S) => Locks(r, M)
  BY <1>2 DEF Locks
<1>8. Data(r, o) = Empty
  BY <1>2 DEF Data
<1> QED
  BY <1>5, <1>6, <1>7, <1>8

\* What the fields of r are, for r the memory Share(m, o, p).
ShareEffect(m, o, p, r) ==
    LET h == m.pHostSet[p] IN
    /\ r \in Memory
    /\ r.heap = m.heap /\ r.mLocked = m.mLocked /\ r.mpSet = m.mpSet
    /\ \A q \in Obj : r.pHostSet[q] = IF q = o THEN h ELSE m.pHostSet[q]
    /\ \A q \in Obj : r.pSet[q] = IF q = o THEN m.pSet[p] ELSE m.pSet[q]
    /\ \A q \in Obj : r.mpClients[q] = IF q = h THEN m.mpClients[h] \cup {o} ELSE
                                       IF q = o THEN NULL ELSE m.mpClients[q]
    /\ \A q \in Obj : r.mDetached[q] = IF q \in {h, o} THEN FALSE ELSE m.mDetached[q]

LEMMA ShareFields ==
    ASSUME NEW m \in Memory, NEW o \in Obj, NEW p \in Obj, m.pHostSet[p] # o,
           m.mpClients[m.pHostSet[p]] \in SUBSET Obj
    PROVE  ShareEffect(m, o, p, Share(m, o, p))
<1> DEFINE h == m.pHostSet[p]
           ph == Update(m.pHostSet, {o}, h)
           ps == Update(m.pSet, {o}, m.pSet[p])
           mc == [m.mpClients EXCEPT ![o] = NULL]
           md == [m.mDetached EXCEPT ![o] = FALSE]
           a == [m EXCEPT !.pHostSet = Update(m.pHostSet, {o}, h),
                          !.pSet = Update(m.pSet, {o}, m.pSet[p]),
                          !.mpClients[o] = NULL, !.mDetached[o] = FALSE]
           nc == [mc EXCEPT ![h] = (IF @ = NULL THEN {} ELSE @) \cup {o}]
           nd == [md EXCEPT ![h] = FALSE]
           r == Share(m, o, p)
<1>1. h \in Obj /\ h # o /\ m.mpClients[h] # NULL
  BY NotNull DEF Memory
<1>2. /\ ph \in [Obj -> Obj]
      /\ \A q \in Obj : ph[q] = IF q = o THEN h ELSE m.pHostSet[q]
  BY <1>1 DEF Update, Memory
<1>3. /\ ps \in [Obj -> Cell \cup {Ges}]
      /\ \A q \in Obj : ps[q] = IF q = o THEN m.pSet[p] ELSE m.pSet[q]
  BY DEF Update, Memory
<1>4. /\ mc \in [Obj -> {NULL} \cup SUBSET Obj]
      /\ \A q \in Obj : mc[q] = IF q = o THEN NULL ELSE m.mpClients[q]
  BY DEF Memory
<1>5. /\ md \in [Obj -> BOOLEAN]
      /\ \A q \in Obj : md[q] = IF q = o THEN FALSE ELSE m.mDetached[q]
  BY DEF Memory
<1>6. a = [m EXCEPT !.pHostSet = ph, !.pSet = ps, !.mpClients = mc, !.mDetached = md]
  OBVIOUS
<1>7. r = AttachClient(a, h, o)
  BY DEF Share
<1> HIDE DEF a, ph, ps, mc, md, r
<1>8. /\ a \in Memory
      /\ a.pHostSet = ph /\ a.pSet = ps /\ a.mpClients = mc /\ a.mDetached = md
      /\ a.mpSet = m.mpSet /\ a.mLocked = m.mLocked /\ a.heap = m.heap
  BY <1>2, <1>3, <1>4, <1>5, <1>6 DEF Memory
<1>9. r = [a EXCEPT !.mpClients = nc, !.mDetached = nd]
  BY <1>7, <1>8 DEF AttachClient
<1>10. /\ nc \in [Obj -> {NULL} \cup SUBSET Obj]
       /\ \A q \in Obj : nc[q] = IF q = h THEN m.mpClients[h] \cup {o} ELSE mc[q]
  <2>1. mc[h] = m.mpClients[h] /\ m.mpClients[h] \cup {o} \in SUBSET Obj
    BY <1>1, <1>4
  <2> QED
    BY <1>1, <1>4, <2>1
<1>11. /\ nd \in [Obj -> BOOLEAN]
       /\ \A q \in Obj : nd[q] = IF q = h THEN FALSE ELSE md[q]
  BY <1>1, <1>5
<1> HIDE DEF nc, nd, h
<1>12. /\ r \in Memory
       /\ r.pHostSet = ph /\ r.pSet = ps /\ r.mpClients = nc /\ r.mDetached = nd
       /\ r.mpSet = m.mpSet /\ r.mLocked = m.mLocked /\ r.heap = m.heap
  BY <1>8, <1>9, <1>10, <1>11 DEF Memory
<1>13. \A q \in Obj : r.mpClients[q] = IF q = h THEN m.mpClients[h] \cup {o} ELSE
                                        IF q = o THEN NULL ELSE m.mpClients[q]
  BY <1>4, <1>10, <1>12
<1>14. \A q \in Obj : r.mDetached[q] = IF q \in {h, o} THEN FALSE ELSE m.mDetached[q]
  BY <1>5, <1>11, <1>12
<1> QED
  BY <1>2, <1>3, <1>12, <1>13, <1>14 DEF ShareEffect, h, r

\* A set that owns nothing joins the clients of the host of p.
LEMMA ShareGood ==
    ASSUME NEW m, NEW S, NEW o \in Obj, o \notin S, Good(m, S), NEW p \in S,
           m.mpSet[o] = NULL, NEW M, M = S \cup {o}
    PROVE  /\ Good(Share(m, o, p), M)
           /\ ShareEffect(m, o, p, Share(m, o, p))
           /\ \A q \in S : Data(Share(m, o, p), q) = Data(m, q)
           /\ Data(Share(m, o, p), o) = Data(m, p)
           /\ Locks(m, S) => Locks(Share(m, o, p), S)
<1> DEFINE h == m.pHostSet[p]
           r == Share(m, o, p)
<1>1. GoodSet(m, S, p) /\ m \in Memory /\ S \subseteq Obj /\ h \in S /\ h # o
  BY DEF Good, GoodSet
<1>2. /\ m.pHostSet[h] = h /\ m.pSet[p] = m.pSet[h]
      /\ m.mpClients[h] = {q \in S \ {h} : m.pHostSet[q] = h}
  BY <1>1 DEF GoodSet
<1>3. m.mpClients[h] \in SUBSET Obj
  BY <1>1, <1>2
<1>4. ShareEffect(m, o, p, r)
  BY <1>1, <1>3, ShareFields
<1> HIDE DEF r, h
<1>5. /\ r \in Memory /\ r.heap = m.heap /\ r.mLocked = m.mLocked /\ r.mpSet = m.mpSet
      /\ r.pHostSet[o] = h /\ r.pSet[o] = m.pSet[h]
      /\ r.mpClients[o] = NULL /\ ~r.mDetached[o]
  BY <1>1, <1>2, <1>4 DEF ShareEffect, h
<1>6. \A q \in S : /\ r.pHostSet[q] = m.pHostSet[q]
                   /\ r.pSet[q] = m.pSet[q]
                   /\ r.mpClients[q] = IF q = h THEN m.mpClients[h] \cup {o} ELSE m.mpClients[q]
                   /\ r.mDetached[q] = IF q = h THEN FALSE ELSE m.mDetached[q]
  BY <1>1, <1>4 DEF ShareEffect, h
<1>7. r.mpClients[h] = {q \in M \ {h} : r.pHostSet[q] = h}
  BY <1>1, <1>2, <1>5, <1>6
<1>8. ASSUME NEW q \in S
      PROVE  GoodSet(r, M, q)
  <2> DEFINE g == m.pHostSet[q]
  <2>1. GoodSet(m, S, q)
    BY DEF Good
  <2>2. /\ g \in S /\ m.pHostSet[g] = g /\ m.pSet[q] = m.pSet[g]
        /\ m.mpClients[g] = {s \in S \ {g} : m.pHostSet[s] = g}
    BY <2>1 DEF GoodSet
  <2>3. /\ g # q => m.mpSet[q] = NULL /\ m.mpClients[q] = NULL /\ ~m.mDetached[q]
        /\ g = q => \/ m.pSet[q] = Ges /\ m.mpSet[q] = NULL /\ ~m.mDetached[q]
                    \/ /\ m.pSet[q] = m.mpSet[q] /\ m.mpSet[q] \in Cell
                       /\ m.heap[m.mpSet[q]] \in Content
        /\ m.mDetached[q] => m.mpClients[q] = {}
    BY <2>1 DEF GoodSet
  <2>4. q = h => g = q
    BY <1>2 
  <2>5. r.pHostSet[q] = g
    BY <1>6
  <2> HIDE DEF g
  <2>6. r.mpClients[g] = {s \in M \ {g} : r.pHostSet[s] = g}
    <3>1. CASE g = h
      BY <1>7, <3>1
    <3>2. CASE g # h
      <4>1. r.mpClients[g] = m.mpClients[g]
        BY <1>6, <2>2, <3>2
      <4>2. {s \in M \ {g} : r.pHostSet[s] = g} = {s \in S \ {g} : m.pHostSet[s] = g}
        BY <1>5, <1>6, <3>2
      <4> QED
        BY <2>2, <4>1, <4>2
    <3> QED
      BY <3>1, <3>2
  <2>7. /\ r.pHostSet[g] = g /\ r.pSet[q] = r.pSet[g] /\ g \in M
    BY <1>6, <2>2
  <2>8. g # q => r.mpSet[q] = NULL /\ r.mpClients[q] = NULL /\ ~r.mDetached[q]
    BY <1>5, <1>6, <2>3, <2>4
  <2>9. g = q => \/ r.pSet[q] = Ges /\ r.mpSet[q] = NULL /\ ~r.mDetached[q]
                 \/ /\ r.pSet[q] = r.mpSet[q] /\ r.mpSet[q] \in Cell
                    /\ r.heap[r.mpSet[q]] \in Content
    BY <1>5, <1>6, <2>3
  <2>10. r.mDetached[q] => r.mpClients[q] = {}
    BY <1>6, <2>3
  <2> QED
    BY <2>5, <2>6, <2>7, <2>8, <2>9, <2>10 DEF GoodSet
<1>9. GoodSet(r, M, o)
  <2>1. r.pHostSet[h] = h /\ r.pSet[o] = r.pSet[h] /\ h \in M
    BY <1>1, <1>2, <1>5, <1>6
  <2> QED
    BY <1>1, <1>5, <1>7, <2>1 DEF GoodSet
<1>10. \A q, s \in M : r.mpSet[q] # NULL /\ r.mpSet[q] = r.mpSet[s] => q = s
  BY <1>5 DEF Good
<1>11. Good(r, M)
  BY <1>1, <1>5, <1>8, <1>9, <1>10 DEF Good
<1>12. (\A q \in S : Data(r, q) = Data(m, q)) /\ Data(r, o) = Data(m, p)
  BY <1>1, <1>2, <1>5, <1>6 DEF Data
<1>13. ASSUME Locks(m, S)
       PROVE  Locks(r, S)
  <2> SUFFICES ASSUME NEW q \in S, m.mLocked[q]
               PROVE  /\ r.pHostSet[q] = q /\ r.pSet[q] # Ges
                      /\ r.mDetached[q] \/ r.mpClients[q] # {}
    BY <1>5 DEF Locks
  <2>1. /\ m.pHostSet[q] = q /\ m.pSet[q] # Ges
        /\ m.mDetached[q] \/ m.mpClients[q] # {}
    BY <1>13 DEF Locks
  <2>2. q = h => r.mpClients[q] # {}
    BY <1>6
  <2> QED
    BY <1>6, <2>1, <2>2
<1> QED
  BY <1>4, <1>11, <1>12, <1>13 DEF r

\* What the fields of r are, for r the memory ClientsTakeCopy(m, o, ..., n, c, ...)
\* where x is the copy.
TakeEffect(m, o, x, n, c, r) ==
    LET clients == m.mpClients[o] IN
    /\ r \in Memory
    /\ r.mLocked = m.mLocked
    /\ \A p \in Obj : r.pHostSet[p] = IF p \in clients THEN n ELSE m.pHostSet[p]
    /\ \A p \in Obj : r.pSet[p] = IF p \in clients THEN c ELSE m.pSet[p]
    /\ \A p \in Obj : r.mpSet[p] = IF p = o THEN m.pSet[o] ELSE IF p = n THEN c ELSE m.mpSet[p]
    /\ \A p \in Obj : r.mpClients[p] = IF p = o THEN {} ELSE IF p = n THEN clients \ {n}
                                       ELSE m.mpClients[p]
    /\ \A p \in Obj : r.mDetached[p] = IF p = o THEN TRUE ELSE
                                       IF p = n THEN m.mDetached[n] \/ clients = {n}
                                       ELSE m.mDetached[p]
    /\ \A a \in Cell : r.heap[a] = IF a = c THEN x ELSE m.heap[a]

LEMMA TakeFields ==
    ASSUME NEW m \in Memory, NEW o \in Obj, m.mpClients[o] \in SUBSET Obj, o \notin m.mpClients[o],
           m.pSet[o] \in Cell, Data(m, o) \in Content,
           NEW flag, NEW n \in m.mpClients[o], NEW c \in Cell, NEW moved \in SUBSET Iter
    PROVE  TakeEffect(m, o, CopyOf(Data(m, o), flag), n, c,
                      ClientsTakeCopy(m, o, flag, n, c, moved))
<1> DEFINE clients == m.mpClients[o]
           x == CopyOf(Data(m, o), flag)
           ph == Update(m.pHostSet, clients, n)
           ps == Update(m.pSet, clients, c)
           ms == [m.mpSet EXCEPT ![n] = c, ![o] = m.pSet[o]]
           mc == [m.mpClients EXCEPT ![n] = clients \ {n}, ![o] = {}]
           md == [m.mDetached EXCEPT ![n] = @ \/ clients = {n}, ![o] = TRUE]
           hp == Update(m.heap, {c}, x)
           it == Update(m.iter, moved, [pBaseSet |-> o, mAttached |-> TRUE, cell |-> c])
           mi == [p \in Obj |-> m.mIterators[p] \ moved]
           a == [m EXCEPT !.pHostSet = ph, !.pSet = ps, !.mpSet = ms, !.mpClients = mc,
                          !.mDetached = md, !.heap = hp, !.iter = it, !.mIterators = mi]
           r == ClientsTakeCopy(m, o, flag, n, c, moved)
<1>1. x \in Content /\ n \in Obj /\ n # o /\ clients \in SUBSET Obj
  BY CopyType
<1>2. r = Untrack(a, o)
  BY DEF ClientsTakeCopy
<1>3. /\ ph \in [Obj -> Obj]
      /\ \A p \in Obj : ph[p] = IF p \in clients THEN n ELSE m.pHostSet[p]
  BY <1>1 DEF Update, Memory
<1>4. /\ ps \in [Obj -> Cell \cup {Ges}]
      /\ \A p \in Obj : ps[p] = IF p \in clients THEN c ELSE m.pSet[p]
  BY <1>1 DEF Update, Memory
<1>5. /\ ms \in [Obj -> Cell \cup {NULL}]
      /\ \A p \in Obj : ms[p] = IF p = o THEN m.pSet[o] ELSE IF p = n THEN c ELSE m.mpSet[p]
  BY <1>1 DEF Memory
<1>6. /\ mc \in [Obj -> {NULL} \cup SUBSET Obj]
      /\ \A p \in Obj : mc[p] = IF p = o THEN {} ELSE IF p = n THEN clients \ {n}
                                 ELSE m.mpClients[p]
  <2>1. clients \ {n} \in SUBSET Obj
    BY <1>1
  <2> HIDE DEF clients
  <2> QED
    BY <1>1, <2>1 DEF Memory
<1>7. /\ md \in [Obj -> BOOLEAN]
      /\ \A p \in Obj : md[p] = IF p = o THEN TRUE ELSE
                                 IF p = n THEN m.mDetached[n] \/ clients = {n}
                                 ELSE m.mDetached[p]
  <2> DEFINE b == m.mDetached[n] \/ clients = {n}
  <2>1. b \in BOOLEAN
    OBVIOUS
  <2>2. md = [m.mDetached EXCEPT ![n] = b, ![o] = TRUE]
    BY <1>1 DEF Memory
  <2> HIDE DEF b, clients, md
  <2>3. /\ md \in [Obj -> BOOLEAN]
        /\ \A p \in Obj : md[p] = IF p = o THEN TRUE ELSE IF p = n THEN b ELSE m.mDetached[p]
    BY <1>1, <2>1, <2>2 DEF Memory
  <2> QED
    BY <2>3 DEF b
<1>8. /\ hp \in [Cell -> {NULL} \cup Content]
      /\ \A b \in Cell : hp[b] = IF b = c THEN x ELSE m.heap[b]
  BY <1>1 DEF Update, Memory
<1>9. it \in [Iter -> [pBaseSet : Obj \cup {NULL}, mAttached : BOOLEAN, cell : Cell \cup {Ges}]]
  BY DEF Update, Memory
<1>10. mi \in [Obj -> SUBSET Iter]
  BY DEF Memory
<1> HIDE DEF clients, x, ph, ps, ms, mc, md, hp, it, mi
<1>11. a = [pHostSet |-> ph, pSet |-> ps, mpSet |-> ms, mpClients |-> mc,
            mDetached |-> md, mLocked |-> m.mLocked, mIterators |-> mi,
            heap |-> hp, iter |-> it]
  <2>1. a = [m EXCEPT !.pHostSet = ph, !.pSet = ps, !.mpSet = ms, !.mpClients = mc,
                      !.mDetached = md, !.heap = hp, !.iter = it, !.mIterators = mi]
    OBVIOUS
  <2> HIDE DEF a
  <2> QED
    BY <2>1 DEF Memory
<1>12. m.mLocked \in [Obj -> BOOLEAN]
  BY DEF Memory
<1> HIDE DEF a, r
<1>13. a \in Memory
  <2>1. /\ ph \in [Obj -> Obj]
        /\ ps \in [Obj -> Cell \cup {Ges}]
        /\ ms \in [Obj -> Cell \cup {NULL}]
        /\ mc \in [Obj -> {NULL} \cup SUBSET Obj]
        /\ md \in [Obj -> BOOLEAN]
        /\ hp \in [Cell -> {NULL} \cup Content]
    BY <1>3, <1>4, <1>5, <1>6, <1>7, <1>8
  <2> QED
    BY <1>9, <1>10, <1>11, <1>12, <2>1 DEF Memory
<1>14. SameLinks(a, r) /\ r.mLocked = a.mLocked
  BY <1>2, <1>13, UntrackSame
<1>15. /\ r \in Memory
       /\ r.pHostSet = ph /\ r.pSet = ps /\ r.mpSet = ms /\ r.mpClients = mc
       /\ r.mDetached = md /\ r.mLocked = m.mLocked /\ r.heap = hp
  BY <1>11, <1>14 DEF SameLinks
<1> QED
  BY <1>3, <1>4, <1>5, <1>6, <1>7, <1>8, <1>15 DEF TakeEffect, x, r, clients

\* The other sets keep their attributes (AttrsSame); or o is locked, and those
\* that share its data get a copy that may be without them (AttrsKept).
AttrsSame(m, L, o, r) == \A p \in L \ {o} : Data(r, p).attr = Data(m, p).attr

AttrsKept(m, L, o, r) ==
    \A p \in L \ {o} :
        \/ Data(r, p).attr = Data(m, p).attr
        \/ m.pHostSet[p] = o /\ m.mLocked[o] /\ ~m.mDetached[o] /\ Data(r, p).attr = {}

\* What a function promises that makes the copy for o: all sets are in order,
\* o is detached and has a container of its own, nobody's elements changed,
\* no flag "locked" did, no locked set moved, and attributes are kept.
Detached(m, L, o, r) ==
    /\ Good(r, L)
    /\ Locks(m, L) => Locks(r, L)
    /\ r.mDetached[o]
    /\ r.mLocked = m.mLocked
    /\ \A p \in L : Data(r, p).elems = Data(m, p).elems
    /\ \A p \in L : m.mLocked[p] => r.pSet[p] = m.pSet[p]
    /\ AttrsKept(m, L, o, r)

LEMMA TakeGood ==
    ASSUME NEW m, NEW L, Good(m, L), Locks(m, L), NEW o \in L, m.mLocked[o], ~m.mDetached[o],
           NEW n \in m.mpClients[o], NEW c \in FreeCells(m), NEW x \in Content,
           x.elems = Data(m, o).elems, x.attr \in {Data(m, o).attr, {}},
           NEW r, TakeEffect(m, o, x, n, c, r)
    PROVE  Detached(m, L, o, r) /\ (x.attr = Data(m, o).attr => AttrsSame(m, L, o, r))
<1> DEFINE clients == m.mpClients[o]
<1>1. /\ m.pHostSet[o] = o /\ m.pSet[o] # Ges /\ GoodSet(m, L, o)
      /\ m \in Memory /\ L \subseteq Obj /\ c \in Cell /\ m.heap[c] = NULL
  BY DEF Locks, Good, FreeCells
<1>2. /\ clients = {p \in L \ {o} : m.pHostSet[p] = o}
      /\ m.pSet[o] = m.mpSet[o] /\ m.mpSet[o] \in Cell /\ m.heap[m.mpSet[o]] \in Content
  BY <1>1 DEF GoodSet
<1>3. n \in L /\ n # o /\ m.pHostSet[n] = o /\ ~m.mDetached[n] /\ m.mpSet[n] = NULL
  <2>1. n \in L /\ n # o /\ m.pHostSet[n] = o
    BY <1>2
  <2> QED
    BY <2>1 DEF Good, GoodSet
<1>4. \A p \in L : m.mpSet[p] # NULL => m.mpSet[p] \in Cell /\ m.mpSet[p] # c
                                       /\ m.heap[m.mpSet[p]] \in Content
  BY <1>1, NotNull DEF Good, GoodSet
<1> HIDE DEF clients
<1>5. /\ r \in Memory /\ r.mLocked = m.mLocked
      /\ \A p \in L : r.pHostSet[p] = IF p \in clients THEN n ELSE m.pHostSet[p]
      /\ \A p \in L : r.pSet[p] = IF p \in clients THEN c ELSE m.pSet[p]
      /\ \A p \in L : r.mpSet[p] = IF p = o THEN m.mpSet[o] ELSE IF p = n THEN c ELSE m.mpSet[p]
      /\ \A p \in L : r.mpClients[p] = IF p = o THEN {} ELSE IF p = n THEN clients \ {n}
                                       ELSE m.mpClients[p]
      /\ \A a \in Cell : r.heap[a] = IF a = c THEN x ELSE m.heap[a]
  BY <1>1, <1>2 DEF TakeEffect, clients
<1>6. /\ r.mDetached[o]
      /\ r.mDetached[n] <=> clients = {n}
      /\ \A p \in L \ {o, n} : r.mDetached[p] = m.mDetached[p]
  BY <1>1, <1>3 DEF TakeEffect, clients
<1>7. \A p \in L : m.pHostSet[p] = o => p = o \/ p \in clients
  BY <1>2
<1>8. \A p \in L : m.pHostSet[p] # n
  <2>1. \A p \in L : GoodSet(m, L, p)
    BY DEF Good
  <2> QED
    BY <2>1, <1>3 DEF GoodSet
<1>9. r.mpClients[n] = {q \in L \ {n} : r.pHostSet[q] = n} /\ r.pHostSet[n] = n
  <2>1. r.mpClients[n] = clients \ {n} /\ r.pHostSet[n] = n
    BY <1>3, <1>5 DEF clients
  <2>2. \A q \in L : r.pHostSet[q] = n <=> q \in clients
    BY <1>5, <1>8
  <2>3. clients \subseteq L
    BY <1>2
  <2> QED
    BY <2>1, <2>2, <2>3
<1>10. GoodSet(r, L, o)
  <2>1. r.pHostSet[o] = o /\ r.mpClients[o] = {} /\ r.pSet[o] = m.mpSet[o]
        /\ r.mpSet[o] = m.mpSet[o]
    BY <1>1, <1>2, <1>5
  <2>2. r.heap[m.mpSet[o]] \in Content
    BY <1>2, <1>4, <1>5, NotNull
  <2>3. {q \in L \ {o} : r.pHostSet[q] = o} = {}
    BY <1>3, <1>5, <1>7
  <2> QED
    BY <1>2, <2>1, <2>2, <2>3 DEF GoodSet
<1>11. ASSUME NEW p \in clients
       PROVE  GoodSet(r, L, p)
  <2>1. p \in L /\ p # o /\ GoodSet(m, L, p) /\ m.pHostSet[p] = o
    BY <1>2 DEF Good
  <2>2. m.mpSet[p] = NULL /\ m.mpClients[p] = NULL /\ ~m.mDetached[p]
    BY <2>1 DEF GoodSet
  <2>3. r.pHostSet[p] = n /\ r.pSet[p] = c /\ r.pSet[n] = c
    BY <1>3, <1>5, <2>1 DEF clients
  <2>4. CASE p = n
    <3>1. r.mpSet[n] = c /\ r.heap[c] = x /\ r.mpClients[n] = clients \ {n}
      BY <1>1, <1>3, <1>5
    <3> QED
      BY <1>1, <1>3, <1>6, <1>9, <2>3, <2>4, <3>1 DEF GoodSet
  <2>5. CASE p # n
    BY <1>3, <1>5, <1>6, <1>9, <2>1, <2>2, <2>3, <2>5 DEF GoodSet
  <2> QED
    BY <2>4, <2>5
<1>12. ASSUME NEW p \in L, p # o, p \notin clients
       PROVE  GoodSet(r, L, p)
  <2> DEFINE h == m.pHostSet[p]
  <2>1. GoodSet(m, L, p) /\ GoodSet(m, L, h)
    BY DEF Good, GoodSet
  <2>2. /\ h \in L /\ h # o /\ h # n /\ p # n /\ h \notin clients /\ m.pHostSet[h] = h
    BY <1>2, <1>3, <1>7, <1>8, <1>12, <2>1 DEF GoodSet
  <2>3. /\ r.pHostSet[p] = h /\ r.pHostSet[h] = h /\ r.pSet[p] = m.pSet[p] /\ r.pSet[h] = m.pSet[h]
        /\ r.mpSet[p] = m.mpSet[p] /\ r.mpClients[p] = m.mpClients[p]
        /\ r.mpClients[h] = m.mpClients[h] /\ r.mDetached[p] = m.mDetached[p]
    BY <1>5, <1>6, <1>12, <2>2
  <2>4. {q \in L \ {h} : r.pHostSet[q] = h} = {q \in L \ {h} : m.pHostSet[q] = h}
    BY <1>2, <1>5, <2>2
  <2>5. m.mpSet[p] # NULL => r.heap[m.mpSet[p]] = m.heap[m.mpSet[p]]
    BY <1>4, <1>5
  <2> HIDE DEF h
  <2>6. /\ m.pSet[p] = m.pSet[h] /\ m.mpClients[h] = {q \in L \ {h} : m.pHostSet[q] = h}
        /\ h # p => m.mpSet[p] = NULL /\ m.mpClients[p] = NULL /\ ~m.mDetached[p]
        /\ m.mDetached[p] => m.mpClients[p] = {}
    BY <2>1 DEF GoodSet, h
  <2>7. h = p => \/ m.pSet[p] = Ges /\ m.mpSet[p] = NULL /\ ~m.mDetached[p]
                 \/ /\ m.pSet[p] = m.mpSet[p] /\ m.mpSet[p] \in Cell
                    /\ r.heap[m.mpSet[p]] \in Content
    BY <2>1, <2>5, NotNull DEF GoodSet, h
  <2> QED
    BY <2>2, <2>3, <2>4, <2>6, <2>7 DEF GoodSet
<1>13. \A p, q \in L : r.mpSet[p] # NULL /\ r.mpSet[p] = r.mpSet[q] => p = q
  <2>1. \A p, q \in L : m.mpSet[p] # NULL /\ m.mpSet[p] = m.mpSet[q] => p = q
    BY DEF Good
  <2> QED
    BY <1>1, <1>3, <1>4, <1>5, <2>1
<1>14. Good(r, L)
  BY <1>1, <1>5, <1>10, <1>11, <1>12, <1>13 DEF Good
<1>15. \A p \in L : m.mLocked[p] => p # n /\ p \notin clients
  BY <1>2, <1>3 DEF Locks
<1>16. Locks(r, L)
  <2> SUFFICES ASSUME NEW p \in L, m.mLocked[p]
               PROVE  /\ r.pHostSet[p] = p /\ r.pSet[p] # Ges
                      /\ r.mDetached[p] \/ r.mpClients[p] # {}
    BY <1>5 DEF Locks
  <2>1. /\ m.pHostSet[p] = p /\ m.pSet[p] # Ges
        /\ m.mDetached[p] \/ m.mpClients[p] # {}
    BY DEF Locks
  <2> QED
    BY <1>5, <1>6, <1>15, <2>1
<1>17. ASSUME NEW p \in L
       PROVE  \/ Data(r, p) = Data(m, p)
              \/ /\ p \in clients /\ Data(r, p) = x
                 /\ Data(m, p) = Data(m, o)
  <2>1. CASE p \in clients
    <3>1. m.pSet[p] = m.pSet[o]
      BY <1>2, <2>1 DEF Good, GoodSet
    <3> QED
      BY <1>1, <1>5, <2>1, <3>1, NotNull DEF Data
  <2>2. CASE p \notin clients
    <3>1. m.pSet[p] = Ges \/ (m.pSet[p] \in Cell /\ m.heap[m.pSet[p]] \in Content)
      BY DataType
    <3> QED
      BY <1>1, <1>5, <2>2, <3>1, NotNull DEF Data
  <2> QED
    BY <2>1, <2>2
<1>19. \A p \in L : Data(r, p).elems = Data(m, p).elems
  BY <1>17
<1>20. AttrsKept(m, L, o, r)
  BY <1>2, <1>17 DEF AttrsKept
<1>21. x.attr = Data(m, o).attr => AttrsSame(m, L, o, r)
  BY <1>17 DEF AttrsSame
<1>18. \A p \in L : m.mLocked[p] => r.pSet[p] = m.pSet[p]
  BY <1>5, <1>15
<1> QED
  BY <1>5, <1>6, <1>14, <1>16, <1>18, <1>19, <1>20, <1>21 DEF Detached

\* Whoever is detached is alone with its container, and may write to it.
LEMMA PutGood ==
    ASSUME NEW m, NEW L, Good(m, L), NEW o \in L, m.mDetached[o], NEW x \in Content
    PROVE  /\ Good(Put(m, o, x), L)
           /\ Locks(m, L) => Locks(Put(m, o, x), L)
           /\ Put(m, o, x).mDetached = m.mDetached /\ Put(m, o, x).mLocked = m.mLocked
           /\ Put(m, o, x).pSet = m.pSet
           /\ Data(Put(m, o, x), o) = x
           /\ \A p \in L \ {o} : Data(Put(m, o, x), p) = Data(m, p)
<1> DEFINE hp == Update(m.heap, {m.pSet[o]}, x)
           r == Put(m, o, x)
<1>1. m \in Memory /\ L \subseteq Obj /\ GoodSet(m, L, o)
  BY DEF Good
<1>2. r = [m EXCEPT !.heap = hp]
  BY DEF Put
<1>3. m.pHostSet[o] = o /\ m.mpClients[o] = {}
  BY <1>1, NotNull DEF GoodSet
<1>4. m.pSet[o] = m.mpSet[o] /\ m.mpSet[o] \in Cell
  BY <1>1, <1>3 DEF GoodSet
<1>5. /\ hp \in [Cell -> {NULL} \cup Content]
      /\ \A a \in Cell : hp[a] = IF a = m.pSet[o] THEN x ELSE m.heap[a]
  BY <1>1 DEF Update, Memory
<1> HIDE DEF hp, r
<1>6. /\ r \in Memory
      /\ r.pHostSet = m.pHostSet /\ r.pSet = m.pSet /\ r.mpSet = m.mpSet
      /\ r.mpClients = m.mpClients /\ r.mDetached = m.mDetached
      /\ r.mLocked = m.mLocked /\ r.heap = hp
  BY <1>1, <1>2, <1>5 DEF Memory
<1>7. ASSUME NEW p \in L
      PROVE  GoodSet(r, L, p)
  <2>1. GoodSet(m, L, p)
    BY DEF Good
  <2>2. {q \in L \ {m.pHostSet[p]} : r.pHostSet[q] = m.pHostSet[p]}
          = {q \in L \ {m.pHostSet[p]} : m.pHostSet[q] = m.pHostSet[p]}
    BY <1>6
  <2>3. ASSUME m.mpSet[p] \in Cell, m.heap[m.mpSet[p]] \in Content
        PROVE  r.heap[m.mpSet[p]] \in Content
    BY <1>5, <1>6, <2>3
  <2> QED
    BY <1>6, <2>1, <2>2, <2>3 DEF GoodSet
<1>8. Good(r, L)
  BY <1>1, <1>6, <1>7 DEF Good
<1>9. Data(r, o) = x
  BY <1>4, <1>5, <1>6, NotNull DEF Data
<1>10. ASSUME NEW p \in L \ {o}
       PROVE  Data(r, p) = Data(m, p)
  <2> DEFINE h == m.pHostSet[p]
  <2>1. GoodSet(m, L, p) /\ GoodSet(m, L, h) /\ h \in L
    BY DEF Good, GoodSet
  <2>2. h # o
    <3>1. m.mpClients[o] = {q \in L \ {o} : m.pHostSet[q] = o}
      BY <1>1, <1>3 DEF GoodSet
    <3> QED
      BY <1>3, <3>1
  <2>3. m.pSet[p] = Ges \/ (m.pSet[p] = m.mpSet[h] /\ m.mpSet[h] \in Cell)
    BY <2>1 DEF GoodSet
  <2>4. m.mpSet[h] \in Cell => m.mpSet[h] # m.mpSet[o]
    BY <2>1, <2>2, NotNull DEF Good
  <2> QED
    BY <1>4, <1>5, <1>6, <2>3, <2>4, NotNull DEF Data
<1>11. Locks(m, L) => Locks(r, L)
  BY <1>6 DEF Locks
<1> QED
  BY <1>6, <1>8, <1>9, <1>10, <1>11 DEF r

LEMMA DetachOK ==
    ASSUME NEW m, NEW L, Good(m, L), NEW o \in L, m.mLocked[o] => Locks(m, L),
           NEW flag, NEW r \in Detach(m, o, flag)
    PROVE  Detached(m, L, o, r) /\ (flag = "AttrIncl" => AttrsSame(m, L, o, r))
<1>1. m \in Memory /\ L \subseteq Obj /\ o \in Obj
  BY DEF Good
<1>2. Data(m, o) \in Content
  BY DataType
<1> DEFINE x == CopyOf(Data(m, o), flag)
<1>3. /\ x \in Content /\ x.elems = Data(m, o).elems /\ x.attr \in {Data(m, o).attr, {}}
      /\ flag = "AttrIncl" => x.attr = Data(m, o).attr
  BY <1>2, CopyType
<1>4. CASE m.mDetached[o]
  <2>1. r = Put(m, o, x)
    BY <1>4 DEF Detach, Put
  <2> HIDE DEF x
  <2>2. /\ Good(r, L) /\ (Locks(m, L) => Locks(r, L))
        /\ r.mDetached = m.mDetached /\ r.mLocked = m.mLocked /\ r.pSet = m.pSet
        /\ Data(r, o) = x
        /\ \A p \in L \ {o} : Data(r, p) = Data(m, p)
    BY <1>3, <1>4, <2>1, PutGood
  <2> QED
    BY <1>3, <1>4, <2>2 DEF Detached, AttrsKept, AttrsSame
<1>5. CASE ~m.mDetached[o] /\ m.mLocked[o]
  <2>1. PICK n \in m.mpClients[o], c \in FreeCells(m), moved \in Moved(m, o) :
          r = ClientsTakeCopy(m, o, flag, n, c, moved)
    BY <1>5 DEF Detach
  <2>2. moved \in SUBSET Iter
    <3>1. moved \subseteq UNION {m.mIterators[p] : p \in m.mpClients[o]}
      BY <2>1 DEF Moved
    <3>2. Locks(m, L) /\ GoodSet(m, L, o)
      BY <1>5 DEF Good
    <3>3. m.mpClients[o] \subseteq Obj
      BY <1>1, <1>5, <3>2 DEF Locks, GoodSet
    <3>4. \A p \in m.mpClients[o] : m.mIterators[p] \subseteq Iter
      BY <1>1, <3>3 DEF Memory
    <3> QED
      BY <3>1, <3>4
  <2>3. /\ m.mpClients[o] \in SUBSET Obj /\ o \notin m.mpClients[o]
        /\ m.pSet[o] \in Cell /\ c \in Cell
    <3>1. Locks(m, L) /\ GoodSet(m, L, o) /\ m.pHostSet[o] = o /\ m.pSet[o] # Ges
      BY <1>5 DEF Good, Locks
    <3> QED
      BY <1>1, <3>1 DEF GoodSet, FreeCells
  <2>4. TakeEffect(m, o, x, n, c, r)
    BY <1>1, <1>2, <2>1, <2>2, <2>3, TakeFields
  <2> HIDE DEF x
  <2> QED
    BY <1>3, <1>5, <2>1, <2>4, TakeGood
<1>6. CASE ~m.mDetached[o] /\ ~m.mLocked[o]
  <2>1. PICK i \in Independent(m, o), c \in FreeCells(m) : r = OwnCopy(i, o, x, c)
    BY <1>6 DEF Detach
  <2> HIDE DEF x
  <2>2. IndependentEffect(m, L, o, i)
    BY IndependentGood
  <2>3. i \in Memory /\ c \in Cell /\ c \in FreeCells(i) /\ Good(i, L \ {o})
    BY <2>1, <2>2 DEF IndependentEffect, Good, FreeCells
  <2>4. OwnEffect(i, o, x, c, r) /\ r.mDetached[o]
    BY <1>1, <1>3, <2>1, <2>3, OwnCopyFields
  <2>5. /\ Good(r, L) /\ SameButFor(i, L, o, x, r)
        /\ Locks(i, L \ {o}) /\ r.mDetached[o] => Locks(r, L)
    BY <1>1, <1>3, <2>3, <2>4, OwnGood
  <2>6. \A p \in L \ {o} : Data(i, p) = Data(m, p)
    BY <2>2 DEF IndependentEffect, Data
  <2>7. /\ r.mLocked = m.mLocked /\ r.mDetached[o]
        /\ \A p \in L \ {o} : r.pSet[p] = m.pSet[p]
    BY <1>1, <2>2, <2>4 DEF OwnEffect, IndependentEffect
  <2>8. Locks(m, L) => Locks(r, L)
    BY <2>2, <2>5, <2>7 DEF IndependentEffect
  <2> QED
    BY <1>3, <1>6, <2>5, <2>6, <2>7, <2>8 DEF Detached, SameButFor, AttrsKept, AttrsSame
<1> QED
  BY <1>4, <1>5, <1>6

LEMMA LockOK ==
    ASSUME NEW m, NEW L, Good(m, L), Locks(m, L), NEW o \in L, NEW r \in Lock(m, o)
    PROVE  /\ Good(r, L)
           /\ Locks(r, L)
           /\ \A p \in L : Data(r, p).elems = Data(m, p).elems
           /\ \A p \in L : m.mLocked[p] => r.pSet[p] = m.pSet[p]
           /\ \A p \in L \ {o} : r.mLocked[p] = m.mLocked[p]
           /\ AttrsSame(m, L, o, r)
           /\ ~m.mLocked[o] => r.mDetached[o]
<1>1. CASE m.mLocked[o]
  BY <1>1 DEF Lock, AttrsSame
<1>2. CASE ~m.mLocked[o]
  <2>1. PICK d \in Detach(m, o, "AttrIncl") : r = [Untrack(d, o) EXCEPT !.mLocked[o] = TRUE]
    BY <1>2 DEF Lock
  <2>2. Detached(m, L, o, d)
    BY DetachOK
  <2> DEFINE u == Untrack(d, o)
  <2>3. d \in Memory /\ L \subseteq Obj /\ Good(d, L)
    BY <2>2 DEF Detached, Good
  <2>4. SameLinks(d, u) /\ u.mLocked = d.mLocked
    BY <2>3, UntrackSame
  <2>5. r = [u EXCEPT !.mLocked[o] = TRUE]
    BY <2>1
  <2> HIDE DEF u
  <2>6. SameLinks(u, r) /\ \A p \in Obj : r.mLocked[p] = IF p = o THEN TRUE ELSE u.mLocked[p]
    BY <2>3, <2>4, <2>5, LockFlagSame DEF SameLinks
  <2>7. SameLinks(d, r) /\ \A p \in Obj : r.mLocked[p] = IF p = o THEN TRUE ELSE d.mLocked[p]
    BY <2>4, <2>6 DEF SameLinks
  <2>8. Good(r, L) /\ \A p \in L : Data(r, p) = Data(d, p)
    BY <2>3, <2>7, SameGood
  <2>9. Locks(r, L)
    <3>1. d.pHostSet[o] = o /\ d.pSet[o] # Ges /\ d.mDetached[o]
      <4>1. GoodSet(d, L, o) /\ d.mDetached[o]
        BY <2>2, <2>3 DEF Detached, Good
      <4> QED
        BY <4>1, NotNull DEF GoodSet
    <3>2. Locks(d, L)
      BY <2>2 DEF Detached
    <3> QED
      BY <2>3, <2>7, <3>1, <3>2 DEF Locks, SameLinks
  <2>10. \A p \in L \ {o} : r.mLocked[p] = m.mLocked[p]
    BY <2>2, <2>3, <2>7 DEF Detached
  <2>11. AttrsSame(m, L, o, r)
    BY <1>2, <2>2, <2>8 DEF Detached, AttrsKept, AttrsSame
  <2> QED
    BY <2>2, <2>7, <2>8, <2>9, <2>10, <2>11 DEF Detached, SameLinks
<1> QED
  BY <1>1, <1>2

\* What assigning p to o, which is not in order, makes of it.
AssignedEffect(m, L, o, p, r) ==
    /\ Good(r, L)
    /\ Locks(m, L \ {o}) => Locks(r, L \ {o})
    /\ r.mLocked = m.mLocked
    /\ \A q \in L \ {o} : Data(r, q) = Data(m, q) /\ r.pSet[q] = m.pSet[q]
    /\ Data(r, o).elems = Data(m, p).elems

LEMMA AssignedOK ==
    ASSUME NEW m, NEW L, NEW o \in L, NEW p \in L \ {o}, o \in Obj, Good(m, L \ {o}),
           \A q \in L \ {o} : m.mpSet[o] # NULL => m.mpSet[q] # m.mpSet[o],
           NEW r \in Assigned(m, o, p)
    PROVE  AssignedEffect(m, L, o, p, r)
<1> DEFINE S == L \ {o}
           k == Release(m, o)
<1>1. o \notin S /\ L = S \cup {o} /\ p \in S /\ Good(m, S) /\ S \subseteq Obj
  BY DEF Good
<1>2. \A q \in S : m.mpSet[o] # NULL => m.mpSet[q] # m.mpSet[o]
  OBVIOUS
<1> HIDE DEF S, k
<1>3. /\ Good(k, S)
      /\ \A q \in S : Data(k, q) = Data(m, q)
      /\ Locks(m, S) => Locks(k, S)
      /\ k.pHostSet = m.pHostSet /\ k.pSet = m.pSet
      /\ k.mpSet[o] = NULL /\ k.mLocked = m.mLocked
  BY <1>1, <1>2, ReleaseGood DEF k
<1>4. CASE AttributeType[o] = AttributeType[p]
  <2>1. r = Share(k, o, p)
    BY <1>4 DEF Assigned, k
  <2>2. /\ Good(r, L)
        /\ ShareEffect(k, o, p, r)
        /\ \A q \in S : Data(r, q) = Data(k, q)
        /\ Data(r, o) = Data(k, p)
        /\ Locks(k, S) => Locks(r, S)
    BY <1>1, <1>3, <2>1, ShareGood
  <2>3. r.mLocked = k.mLocked /\ \A q \in S : r.pSet[q] = k.pSet[q]
    BY <1>1, <2>2 DEF ShareEffect
  <2> QED
    BY <1>1, <1>3, <2>2, <2>3 DEF S, AssignedEffect
<1>5. CASE AttributeType[o] # AttributeType[p]
  <2>1. PICK c \in FreeCells(k) : r = DeepCopy(k, o, p, c)
    BY <1>5 DEF Assigned, k
  <2>2. k \in Memory /\ c \in Cell /\ p \in Obj /\ Data(k, p) \in Content
    BY <1>1, <1>3, DataType DEF FreeCells, Good
  <2>3. PICK x \in Content : x.elems = Data(k, p).elems /\ OwnEffect(k, o, x, c, r)
    BY <2>1, <2>2, DeepCopyFields
  <2>4. Good(k, L \ {o})
    BY <1>3 DEF S
  <2>5. /\ Good(r, L)
        /\ \A q \in L \ {o} : Data(r, q) = Data(k, q)
        /\ Data(r, o) = x
    <3>1. OwnEffect(k, o, x, c, r)
      BY <2>3
    <3>2. Good(r, L) /\ SameButFor(k, L, o, x, r)
      BY <2>4, <3>1, OwnGood
    <3> QED
      BY <3>2 DEF SameButFor
  <2>7. Locks(k, L \ {o}) => Locks(r, L \ {o})
    <3>1. OwnEffect(k, o, x, c, r)
      BY <2>3
    <3> QED
      BY <2>4, <3>1, OwnGood
  <2>6. r.mLocked = k.mLocked /\ \A q \in S : r.pSet[q] = k.pSet[q]
    BY <1>1, <2>3 DEF OwnEffect
  <2> QED
    BY <1>1, <1>3, <2>3, <2>5, <2>6, <2>7 DEF S, AssignedEffect
<1> QED
  BY <1>4, <1>5

LEMMA RelockOK ==
    ASSUME NEW m, NEW L, Good(m, L), NEW o \in L, Locks(m, L \ {o}), NEW r \in Relock(m, o)
    PROVE  /\ Good(r, L)
           /\ Locks(r, L)
           /\ \A q \in L : Data(r, q).elems = Data(m, q).elems
           /\ \A q \in L \ {o} : m.mLocked[q] => r.pSet[q] = m.pSet[q]
           /\ \A q \in L \ {o} : r.mLocked[q] = m.mLocked[q]
           /\ AttrsSame(m, L, o, r)
           /\ r.mLocked[o] => r.mDetached[o]
<1> DEFINE v == Invalidate(m, o)
           w == [v EXCEPT !.mLocked[o] = FALSE]
<1>1. m \in Memory /\ L \subseteq Obj /\ o \in Obj
  BY DEF Good
<1>2. SameLinks(m, v) /\ v.mLocked = m.mLocked
  BY <1>1, InvalidateSame
<1>3. r \in IF v.mLocked[o] THEN Lock(w, o) ELSE {v}
  BY DEF Relock
<1> HIDE DEF v
<1>4. /\ SameLinks(v, w)
      /\ \A p \in Obj : w.mLocked[p] = IF p = o THEN FALSE ELSE v.mLocked[p]
  BY <1>1, <1>2, LockFlagSame DEF SameLinks
<1> HIDE DEF w
<1>5. Good(v, L) /\ \A q \in L : Data(v, q) = Data(m, q)
  BY <1>2, SameGood
<1>6. Good(w, L) /\ \A q \in L : Data(w, q) = Data(v, q)
  BY <1>4, <1>5, SameGood
<1>7. Locks(w, L)
  <2> SUFFICES ASSUME NEW q \in L, w.mLocked[q]
               PROVE  /\ w.pHostSet[q] = q /\ w.pSet[q] # Ges
                      /\ w.mDetached[q] \/ w.mpClients[q] # {}
    BY DEF Locks
  <2>1. q \in L \ {o} /\ m.mLocked[q]
    BY <1>1, <1>2, <1>4
  <2>2. /\ m.pHostSet[q] = q /\ m.pSet[q] # Ges
        /\ m.mDetached[q] \/ m.mpClients[q] # {}
    BY <2>1 DEF Locks
  <2> QED
    BY <1>2, <1>4, <2>2 DEF SameLinks
<1>8. CASE v.mLocked[o]
  <2>1. r \in Lock(w, o)
    BY <1>3, <1>8
  <2>2. /\ Good(r, L)
        /\ Locks(r, L)
        /\ \A q \in L : Data(r, q).elems = Data(w, q).elems
        /\ \A q \in L : w.mLocked[q] => r.pSet[q] = w.pSet[q]
        /\ \A q \in L \ {o} : r.mLocked[q] = w.mLocked[q]
        /\ AttrsSame(w, L, o, r)
        /\ ~w.mLocked[o] => r.mDetached[o]
    BY <1>6, <1>7, <2>1, LockOK
  <2>3. \A q \in L \ {o} : w.mLocked[q] = m.mLocked[q] /\ w.pSet[q] = m.pSet[q]
    BY <1>1, <1>2, <1>4 DEF SameLinks
  <2>4. AttrsSame(m, L, o, r)
    BY <1>5, <1>6, <2>2 DEF AttrsSame
  <2>5. r.mDetached[o]
    BY <1>1, <1>4, <2>2
  <2> QED
    BY <1>5, <1>6, <2>2, <2>3, <2>4, <2>5
<1>9. CASE ~v.mLocked[o]
  <2>1. r = v
    BY <1>3, <1>9
  <2>2. Locks(v, L)
    BY <1>2, <1>9 DEF Locks, SameLinks
  <2>3. AttrsSame(m, L, o, r)
    BY <1>5, <2>1 DEF AttrsSame
  <2> QED
    BY <1>2, <1>5, <1>9, <2>1, <2>2, <2>3 DEF SameLinks
<1> QED
  BY <1>8, <1>9

\* What an operation on o promises, after which o has the elements s.
Becomes(m, L, o, s, r) ==
    /\ Good(r, L)
    /\ Locks(r, L)
    /\ Data(r, o).elems = s
    /\ \A p \in L \ {o} : Data(r, p).elems = Data(m, p).elems
    /\ \A p \in L \ {o} : r.mLocked[p] = m.mLocked[p]
    /\ \A p \in L \ {o} : m.mLocked[p] => r.pSet[p] = m.pSet[p]
    /\ AttrsKept(m, L, o, r)

LEMMA DoCopyOK ==
    ASSUME NEW m, NEW L, Good(m, L), Locks(m, L), NEW o \in L, NEW p \in L,
           NEW r \in DoCopy(m, o, p)
    PROVE  /\ Becomes(m, L, o, Data(m, p).elems, r)
           /\ r = m \/ (r.mLocked[o] => r.mDetached[o])
           /\ AttrsSame(m, L, o, r)
<1>1. CASE o = p \/ m.pHostSet[o] = m.pHostSet[p]
  <2>1. r = m
    BY <1>1 DEF DoCopy
  <2>2. m.pSet[o] = m.pSet[p]
    BY <1>1 DEF Good, GoodSet
  <2> QED
    BY <2>1, <2>2 DEF Becomes, Data, AttrsKept, AttrsSame
<1>2. CASE ~(o = p \/ m.pHostSet[o] = m.pHostSet[p])
  <2>0. PICK i \in Independent(m, o) : \E a \in Assigned(i, o, p) : r \in Relock(a, o)
    BY <1>2 DEF DoCopy
  <2>1. PICK a \in Assigned(i, o, p) : r \in Relock(a, o)
    BY <2>0
  <2>2. IndependentEffect(m, L, o, i)
    BY IndependentGood
  <2>3. /\ Good(i, L \ {o}) /\ Locks(i, L \ {o}) /\ i.mLocked = m.mLocked
        /\ \A q \in L \ {o} : i.mpSet[o] # NULL => i.mpSet[q] # i.mpSet[o]
        /\ \A q \in L : Data(i, q) = Data(m, q) /\ i.pSet[q] = m.pSet[q]
    BY <2>2 DEF IndependentEffect, Data
  <2>4. p \in L \ {o} /\ o \in Obj
    BY <1>2 DEF Good
  <2>5. /\ Good(a, L)
        /\ Locks(i, L \ {o}) => Locks(a, L \ {o})
        /\ a.mLocked = i.mLocked
        /\ \A q \in L \ {o} : Data(a, q) = Data(i, q) /\ a.pSet[q] = i.pSet[q]
        /\ Data(a, o).elems = Data(i, p).elems
    <3>1. AssignedEffect(i, L, o, p, a)
      BY <2>1, <2>3, <2>4, AssignedOK
    <3> QED
      BY <3>1 DEF AssignedEffect
  <2>6. /\ Good(r, L)
        /\ Locks(r, L)
        /\ \A q \in L : Data(r, q).elems = Data(a, q).elems
        /\ \A q \in L \ {o} : a.mLocked[q] => r.pSet[q] = a.pSet[q]
        /\ \A q \in L \ {o} : r.mLocked[q] = a.mLocked[q]
        /\ AttrsSame(a, L, o, r)
        /\ r.mLocked[o] => r.mDetached[o]
    BY <2>1, <2>3, <2>5, RelockOK
  <2>7. AttrsSame(m, L, o, r) /\ AttrsKept(m, L, o, r)
    BY <2>3, <2>5, <2>6 DEF AttrsKept, AttrsSame
  <2> QED
    BY <2>3, <2>4, <2>5, <2>6, <2>7 DEF Becomes
<1> QED
  BY <1>1, <1>2

LEMMA DissolveOK ==
    ASSUME NEW m, NEW L, Good(m, L), Locks(m, L), NEW o \in L, NEW r \in Dissolve(m, o)
    PROVE  /\ Becomes(m, L, o, {}, r)
           /\ Good(r, L \ {o})
           /\ Locks(r, L \ {o})
           /\ AttrsSame(m, L, o, r)
<1>1. PICK i \in Independent(m, o) : r = Construct(Invalidate(Release(i, o), o), o)
  BY DEF Dissolve
<1> DEFINE S == L \ {o}
           k == Release(i, o)
           v == Invalidate(k, o)
<1>2. IndependentEffect(m, L, o, i)
  BY IndependentGood
<1>3. /\ Good(i, S) /\ Locks(i, S)
      /\ \A q \in S : i.mpSet[o] # NULL => i.mpSet[q] # i.mpSet[o]
      /\ \A q \in S : Data(i, q) = Data(m, q) /\ i.pSet[q] = m.pSet[q]
      /\ i.mLocked = m.mLocked
  BY <1>2 DEF IndependentEffect, Data
<1>4. o \notin S /\ L = S \cup {o} /\ o \in Obj /\ S \subseteq Obj
  BY DEF Good
<1> HIDE DEF S
<1>5. /\ Good(k, S)
      /\ \A q \in S : Data(k, q) = Data(i, q)
      /\ Locks(i, S) => Locks(k, S)
      /\ k.pSet = i.pSet /\ k.mLocked = i.mLocked
  BY <1>3, <1>4, ReleaseGood
<1> HIDE DEF k
<1>6. SameLinks(k, v) /\ v.mLocked = k.mLocked
  BY <1>4, <1>5, InvalidateSame DEF Good
<1>7. r = Construct(v, o)
  BY <1>1 DEF k
<1> HIDE DEF v
<1>8. Good(v, S) /\ Locks(v, S) /\ \A q \in S : Data(v, q) = Data(k, q) /\ v.pSet[q] = k.pSet[q]
  BY <1>3, <1>5, <1>6, SameGood DEF SameLinks
<1>9. ConstructEffect(v, o, r)
  BY <1>4, <1>7, <1>8, ConstructFields DEF Good
<1>10. /\ Good(r, L)
       /\ Good(r, S)
       /\ \A q \in S : Data(r, q) = Data(v, q)
       /\ Data(r, o) = Empty
       /\ Locks(v, S) => Locks(r, L) /\ Locks(r, S)
  BY <1>4, <1>8, <1>9, ConstructGood
<1>11. \A q \in S : r.pSet[q] = v.pSet[q] /\ r.mLocked[q] = v.mLocked[q]
  BY <1>4, <1>9 DEF ConstructEffect
<1>12. Empty.elems = {}
  BY DEF Empty
<1>13. AttrsSame(m, L, o, r)
  BY <1>3, <1>5, <1>8, <1>10 DEF AttrsSame, S
<1>14. AttrsKept(m, L, o, r)
  BY <1>13 DEF AttrsSame, AttrsKept
<1> QED
  BY <1>3, <1>5, <1>6, <1>8, <1>10, <1>11, <1>12, <1>13, <1>14 DEF Becomes, S

\* A function that detaches o and then writes x.
LEMMA ModifyOK ==
    ASSUME NEW m, NEW L, Good(m, L), Locks(m, L), NEW o \in L, NEW d, Detached(m, L, o, d),
           NEW x \in Content, NEW r, r = Put(d, o, x)
    PROVE  /\ Becomes(m, L, o, x.elems, r) /\ (m.mLocked[o] => r.pSet[o] = m.pSet[o])
           /\ AttrsSame(m, L, o, d) => AttrsSame(m, L, o, r)
<1>1. /\ Good(d, L) /\ Locks(d, L) /\ d.mDetached[o] /\ d.mLocked = m.mLocked
      /\ \A p \in L : Data(d, p).elems = Data(m, p).elems
      /\ \A p \in L : m.mLocked[p] => d.pSet[p] = m.pSet[p]
  BY DEF Detached
<1>2. /\ Good(r, L) /\ Locks(r, L)
      /\ r.mDetached = d.mDetached /\ r.mLocked = d.mLocked /\ r.pSet = d.pSet
      /\ Data(r, o) = x
      /\ \A p \in L \ {o} : Data(r, p) = Data(d, p)
  BY <1>1, PutGood
<1>3. AttrsKept(m, L, o, r)
  BY <1>2 DEF Detached, AttrsKept
<1>4. AttrsSame(m, L, o, d) => AttrsSame(m, L, o, r)
  BY <1>2 DEF AttrsSame
<1> QED
  BY <1>1, <1>2, <1>3, <1>4 DEF Becomes

LEMMA DetachedBecomes ==
    ASSUME NEW m, NEW L, Locks(m, L), NEW o \in L, NEW r, Detached(m, L, o, r)
    PROVE  /\ Becomes(m, L, o, Data(m, o).elems, r)
           /\ m.mLocked[o] => r.pSet[o] = m.pSet[o]
BY DEF Detached, Becomes

LEMMA BecomesTwice ==
    ASSUME NEW m, NEW L, NEW o, NEW s, NEW t, NEW a, Becomes(m, L, o, s, a),
           NEW r, Becomes(a, L, o, t, r), a = m \/ AttrsSame(a, L, o, r)
    PROVE  Becomes(m, L, o, t, r)
<1>1. AttrsKept(m, L, o, r)
  BY DEF Becomes, AttrsKept, AttrsSame
<1> QED
  BY <1>1 DEF Becomes

-----------------------------------------------------------------------------
\* The inductive invariant: the sets that exist are in order.
IInv == Good(mem, live) /\ Locks(mem, live)

\* The step gives o the elements s and leaves everything else in order; if o
\* is locked, its container stays (Modified).
Changed(o, s) ==
    /\ o \in live /\ live' = live
    /\ Becomes(mem, live, o, s, mem')
    /\ AttrsSame(mem, live, o, mem') \/ DropsAttributes(o)
Modified(o, s) == Changed(o, s) /\ (mem.mLocked[o] => mem'.pSet[o] = mem.pSet[o])

LEMMA Initial == Init => IInv
<1> SUFFICES ASSUME Init PROVE IInv
  OBVIOUS
<1>1. live = {}
  BY DEF Init
<1>2. mem \in Memory
  BY DEF Init, Memory, NoIterator
<1> QED
  BY <1>1, <1>2 DEF IInv, Good, Locks

LEMMA NewOK ==
    ASSUME IInv, NEW o \in Obj, New(o)
    PROVE  /\ IInv'
           /\ Data(mem', o) = Empty
           /\ \A p \in live : Data(mem', p) = Data(mem, p) /\ mem'.pSet[p] = mem.pSet[p]
<1>1. o \notin live /\ live' = live \cup {o} /\ mem' = Construct(mem, o)
  BY DEF New
<1>2. Good(mem, live) /\ Locks(mem, live) /\ mem \in Memory /\ live \subseteq Obj
  BY DEF IInv, Good
<1>3. ConstructEffect(mem, o, mem')
  BY <1>1, <1>2, ConstructFields
<1>4. /\ Good(mem', live')
      /\ \A p \in live : Data(mem', p) = Data(mem, p)
      /\ Data(mem', o) = Empty
      /\ Locks(mem, live) => Locks(mem', live')
  BY <1>1, <1>2, <1>3, ConstructGood
<1>5. \A p \in live : mem'.pSet[p] = mem.pSet[p]
  BY <1>1, <1>2, <1>3 DEF ConstructEffect
<1> QED
  BY <1>2, <1>4, <1>5 DEF IInv

LEMMA DestroyOK ==
    ASSUME IInv, NEW o \in Obj, Destroy(o)
    PROVE  IInv' /\ Becomes(mem, live, o, {}, mem') /\ AttrsSame(mem, live, o, mem')
<1>1. o \in live /\ live' = live \ {o} /\ mem' \in Dissolve(mem, o)
  BY DEF Destroy
<1>2. /\ Becomes(mem, live, o, {}, mem') /\ AttrsSame(mem, live, o, mem')
      /\ Good(mem', live \ {o})
      /\ Locks(mem', live \ {o})
  BY <1>1, DissolveOK DEF IInv
<1> QED
  BY <1>1, <1>2 DEF IInv

LEMMA AssignOK ==
    ASSUME IInv, NEW o, NEW p, Assign(o, p)
    PROVE  Changed(o, Data(mem, p).elems)
<1>1. o \in live /\ p \in live /\ live' = live /\ mem' \in DoCopy(mem, o, p)
  BY DEF Assign
<1> QED
  BY <1>1, DoCopyOK DEF IInv, Changed

LEMMA CopyWithoutAttributesOK ==
    ASSUME IInv, NEW o, NEW p, CopyWithoutAttributes(o, p)
    PROVE  Changed(o, Data(mem, p).elems)
<1>1. o \in live /\ p \in live /\ p \in Obj /\ live' = live
  BY DEF CopyWithoutAttributes, IInv, Good
<1>2. PICK a \in DoCopy(mem, o, p) : mem' \in Detach(a, o, "SetOnly")
  BY DEF CopyWithoutAttributes
<1>3. /\ Becomes(mem, live, o, Data(mem, p).elems, a)
      /\ a = mem \/ (a.mLocked[o] => a.mDetached[o])
  BY <1>1, <1>2, DoCopyOK DEF IInv
<1>4. Good(a, live) /\ Locks(a, live) /\ Data(a, o).elems = Data(mem, p).elems
  BY <1>3 DEF Becomes
<1>5. Detached(a, live, o, mem')
  BY <1>1, <1>2, <1>4, DetachOK
<1>6. Becomes(a, live, o, Data(mem, p).elems, mem')
  BY <1>1, <1>4, <1>5, DetachedBecomes
<1>8. a = mem \/ AttrsSame(a, live, o, mem')
  BY <1>3, <1>5 DEF Detached, AttrsKept, AttrsSame
<1>7. Becomes(mem, live, o, Data(mem, p).elems, mem')
  BY <1>3, <1>6, <1>8, BecomesTwice
<1>9. DropsAttributes(o)
  BY <1>1 DEF DropsAttributes
<1> QED
  BY <1>1, <1>7, <1>9 DEF Changed

LEMMA ClearOK ==
    ASSUME IInv, NEW o, Clear(o)
    PROVE  Changed(o, {})
<1>1. o \in live /\ live' = live
  BY DEF Clear
<1>2. PICK d \in IF mem.mLocked[o] THEN Detach(mem, o, "SetOnly") ELSE {mem} :
        mem' \in Dissolve(d, o)
  BY DEF Clear
<1>3. Good(d, live) /\ Locks(d, live) /\ Becomes(mem, live, o, Data(mem, o).elems, d)
  <2>1. CASE mem.mLocked[o]
    <3>1. d \in Detach(mem, o, "SetOnly")
      BY <1>2, <2>1
    <3>2. Detached(mem, live, o, d)
      BY <1>1, <3>1, DetachOK DEF IInv
    <3>3. Becomes(mem, live, o, Data(mem, o).elems, d)
      BY <1>1, <3>2, DetachedBecomes DEF IInv
    <3> QED
      BY <3>3 DEF Becomes
  <2>2. CASE ~mem.mLocked[o]
    BY <1>2, <2>2 DEF IInv, Becomes, AttrsKept
  <2> QED
    BY <2>1, <2>2
<1>4. Becomes(d, live, o, {}, mem') /\ AttrsSame(d, live, o, mem')
  BY <1>1, <1>2, <1>3, DissolveOK
<1>5. Becomes(mem, live, o, {}, mem')
  BY <1>3, <1>4, BecomesTwice
<1> QED
  BY <1>1, <1>5 DEF Changed, DropsAttributes

LEMMA LockSetOK ==
    ASSUME IInv, NEW o, LockSet(o)
    PROVE  Modified(o, Data(mem, o).elems)
<1>1. o \in live /\ live' = live /\ mem' \in Lock(mem, o)
  BY DEF LockSet
<1>2. /\ Good(mem', live)
      /\ Locks(mem', live)
      /\ \A p \in live : Data(mem', p).elems = Data(mem, p).elems
      /\ \A p \in live : mem.mLocked[p] => mem'.pSet[p] = mem.pSet[p]
      /\ \A p \in live \ {o} : mem'.mLocked[p] = mem.mLocked[p]
      /\ AttrsSame(mem, live, o, mem')
  BY <1>1, LockOK DEF IInv
<1>3. AttrsKept(mem, live, o, mem')
  BY <1>2 DEF AttrsSame, AttrsKept
<1> QED
  BY <1>1, <1>2, <1>3 DEF Modified, Changed, Becomes

LEMMA ClearAttributesOK ==
    ASSUME IInv, NEW o, ClearAttributes(o)
    PROVE  Modified(o, Data(mem, o).elems)
<1>1. o \in live /\ live' = live /\ mem' \in Detach(mem, o, "SetOnly")
  BY DEF ClearAttributes
<1>2. Detached(mem, live, o, mem')
  BY <1>1, DetachOK DEF IInv
<1> QED
  BY <1>1, <1>2, DetachedBecomes DEF IInv, Modified, Changed, DropsAttributes

\* What the operations that detach o and write to it have in common.
LEMMA DetachedData ==
    ASSUME IInv, NEW o \in live, NEW d \in Detach(mem, o, "AttrIncl")
    PROVE  /\ Detached(mem, live, o, d) /\ AttrsSame(mem, live, o, d)
           /\ \A p \in live : Data(d, p) \in Content /\ Data(d, p).elems = Data(mem, p).elems
<1>1. Detached(mem, live, o, d) /\ AttrsSame(mem, live, o, d)
  BY DetachOK DEF IInv
<1>2. Good(d, live)
  BY <1>1 DEF Detached
<1> QED
  BY <1>1, <1>2, DataType DEF Detached

LEMMA WriteOK ==
    ASSUME IInv, NEW o \in live, NEW d, Detached(mem, live, o, d), AttrsSame(mem, live, o, d),
           NEW x \in Content, mem' = Put(d, o, x), live' = live
    PROVE  Modified(o, x.elems)
<1>1. /\ Becomes(mem, live, o, x.elems, mem') /\ (mem.mLocked[o] => mem'.pSet[o] = mem.pSet[o])
      /\ AttrsSame(mem, live, o, mem')
  BY ModifyOK DEF IInv
<1> QED
  BY <1>1 DEF Modified, Changed

LEMMA InsertOK ==
    ASSUME IInv, NEW o, NEW e \in Elem, Insert(o, e)
    PROVE  Modified(o, Data(mem, o).elems \cup {e})
<1>1. o \in live /\ live' = live
  BY DEF Insert
<1>2. PICK d \in Detach(mem, o, "AttrIncl") :
        mem' = Put(d, o, [Data(d, o) EXCEPT !.elems = @ \cup {e}])
  BY DEF Insert
<1> DEFINE x == [Data(d, o) EXCEPT !.elems = @ \cup {e}]
<1>3. /\ Detached(mem, live, o, d) /\ AttrsSame(mem, live, o, d)
      /\ Data(d, o) \in Content /\ Data(d, o).elems = Data(mem, o).elems
  BY <1>1, DetachedData
<1>4. x \in Content /\ x.elems = Data(mem, o).elems \cup {e}
  BY <1>3 DEF Content
<1>5. mem' = Put(d, o, x)
  BY <1>2
<1> HIDE DEF x
<1>6. Modified(o, x.elems)
  BY <1>1, <1>3, <1>4, <1>5, WriteOK
<1> QED
  BY <1>4, <1>6

LEMMA EraseOK ==
    ASSUME IInv, NEW o, NEW e \in Elem, Erase(o, e)
    PROVE  Modified(o, Data(mem, o).elems \ {e})
<1>1. o \in live /\ live' = live
  BY DEF Erase
<1>2. PICK d \in Detach(mem, o, "AttrIncl") :
        mem' = Put(d, o, [elems |-> Data(d, o).elems \ {e}, attr |-> Data(d, o).attr \ {e}])
  BY DEF Erase
<1> DEFINE x == [elems |-> Data(d, o).elems \ {e}, attr |-> Data(d, o).attr \ {e}]
<1>3. /\ Detached(mem, live, o, d) /\ AttrsSame(mem, live, o, d)
      /\ Data(d, o) \in Content /\ Data(d, o).elems = Data(mem, o).elems
  BY <1>1, DetachedData
<1>4. x \in Content /\ x.elems = Data(mem, o).elems \ {e}
  BY <1>3 DEF Content
<1>5. mem' = Put(d, o, x)
  BY <1>2
<1> HIDE DEF x
<1>6. Modified(o, x.elems)
  BY <1>1, <1>3, <1>4, <1>5, WriteOK
<1> QED
  BY <1>4, <1>6

LEMMA InsertSetOK ==
    ASSUME IInv, NEW o, NEW p, InsertSet(o, p)
    PROVE  p \in live /\ Modified(o, Data(mem, o).elems \cup Data(mem, p).elems)
<1>1. o \in live /\ p \in live /\ live' = live
  BY DEF InsertSet
<1> DEFINE new(d) == Data(d, p).elems \ Data(d, o).elems
           doattr == AttributeType[o] = AttributeType[p]
           x(d) == [elems |-> Data(d, o).elems \cup new(d),
                    attr |-> Data(d, o).attr
                             \cup IF doattr THEN new(d) \cap Data(d, p).attr ELSE {}]
<1>2. PICK d \in Detach(mem, o, "AttrIncl") : mem' = Put(d, o, x(d))
  BY DEF InsertSet
<1>3. /\ Detached(mem, live, o, d) /\ AttrsSame(mem, live, o, d)
      /\ Data(d, o) \in Content /\ Data(d, o).elems = Data(mem, o).elems
      /\ Data(d, p) \in Content /\ Data(d, p).elems = Data(mem, p).elems
  BY <1>1, DetachedData
<1>4. x(d) \in Content /\ x(d).elems = Data(mem, o).elems \cup Data(mem, p).elems
  BY <1>3 DEF Content
<1> HIDE DEF x
<1>5. Modified(o, x(d).elems)
  BY <1>1, <1>2, <1>3, <1>4, WriteOK
<1> QED
  BY <1>1, <1>4, <1>5

LEMMA EraseSetOK ==
    ASSUME IInv, NEW o, NEW p, EraseSet(o, p)
    PROVE  p \in live /\ Modified(o, Data(mem, o).elems \ Data(mem, p).elems)
<1>1. o \in live /\ p \in live /\ live' = live
  BY DEF EraseSet
<1> DEFINE x(d) == [elems |-> Data(d, o).elems \ Data(d, p).elems,
                    attr |-> Data(d, o).attr \ Data(d, p).elems]
<1>2. PICK d \in Detach(mem, o, "AttrIncl") : mem' = Put(d, o, x(d))
  BY DEF EraseSet
<1>3. /\ Detached(mem, live, o, d) /\ AttrsSame(mem, live, o, d)
      /\ Data(d, o) \in Content /\ Data(d, o).elems = Data(mem, o).elems
      /\ Data(d, p).elems = Data(mem, p).elems
  BY <1>1, DetachedData
<1>4. x(d) \in Content /\ x(d).elems = Data(mem, o).elems \ Data(mem, p).elems
  BY <1>3 DEF Content
<1> HIDE DEF x
<1>5. Modified(o, x(d).elems)
  BY <1>1, <1>2, <1>3, <1>4, WriteOK
<1> QED
  BY <1>1, <1>4, <1>5

LEMMA RestrictSetOK ==
    ASSUME IInv, NEW o, NEW p, RestrictSet(o, p)
    PROVE  p \in live /\ Modified(o, Data(mem, o).elems \cap Data(mem, p).elems)
<1>1. o \in live /\ p \in live /\ live' = live
  BY DEF RestrictSet
<1> DEFINE x(d) == [elems |-> Data(d, o).elems \cap Data(d, p).elems,
                    attr |-> Data(d, o).attr \ (Data(d, o).elems \ Data(d, p).elems)]
<1>2. PICK d \in Detach(mem, o, "AttrIncl") : mem' = Put(d, o, x(d))
  BY DEF RestrictSet
<1>3. /\ Detached(mem, live, o, d) /\ AttrsSame(mem, live, o, d)
      /\ Data(d, o) \in Content /\ Data(d, o).elems = Data(mem, o).elems
      /\ Data(d, p).elems = Data(mem, p).elems
  BY <1>1, DetachedData
<1>4. x(d) \in Content /\ x(d).elems = Data(mem, o).elems \cap Data(mem, p).elems
  BY <1>3 DEF Content
<1> HIDE DEF x
<1>5. Modified(o, x(d).elems)
  BY <1>1, <1>2, <1>3, <1>4, WriteOK
<1> QED
  BY <1>1, <1>4, <1>5

LEMMA SetAttributeOK ==
    ASSUME IInv, NEW o, NEW e \in Elem, NEW present, SetAttribute(o, e, present)
    PROVE  Modified(o, Data(mem, o).elems)
<1>1. o \in live /\ live' = live
  BY DEF SetAttribute
<1> DEFINE x(d) == [Data(d, o) EXCEPT !.attr = IF present THEN @ \cup {e} ELSE @ \ {e}]
<1>2. PICK d \in Detach(mem, o, "AttrIncl") : mem' = Put(d, o, x(d))
  BY DEF SetAttribute
<1>3. /\ Detached(mem, live, o, d) /\ AttrsSame(mem, live, o, d)
      /\ Data(d, o) \in Content /\ Data(d, o).elems = Data(mem, o).elems
  BY <1>1, DetachedData
<1>4. x(d) \in Content /\ x(d).elems = Data(mem, o).elems
  BY <1>3 DEF Content
<1> HIDE DEF x
<1>5. Modified(o, x(d).elems)
  BY <1>1, <1>2, <1>3, <1>4, WriteOK
<1> QED
  BY <1>4, <1>5

\* Iterators change neither pointers nor data.
LEMMA AttachIteratorSame ==
    ASSUME NEW m \in Memory, NEW i \in Iter, NEW o \in Obj
    PROVE  SameLinks(m, AttachIterator(m, i, o)) /\ AttachIterator(m, i, o).mLocked = m.mLocked
<1> DEFINE it == [m.iter EXCEPT ![i] = [pBaseSet |-> o, mAttached |-> TRUE, cell |-> m.pSet[o]]]
           mi == [m.mIterators EXCEPT ![o] = IF m.mLocked[o] THEN @ ELSE @ \cup {i}]
           r == AttachIterator(m, i, o)
<1>1. r = [m EXCEPT !.iter = it, !.mIterators = mi]
  BY DEF AttachIterator
<1>2. it \in [Iter -> [pBaseSet : Obj \cup {NULL}, mAttached : BOOLEAN, cell : Cell \cup {Ges}]]
  BY DEF Memory
<1>3. mi \in [Obj -> SUBSET Iter]
  BY DEF Memory
<1> HIDE DEF it, mi, r
<1>4. SameLinks(m, r) /\ r.mLocked = m.mLocked
  BY <1>1, <1>2, <1>3 DEF SameLinks, Memory
<1> QED
  BY <1>4 DEF r

LEMMA DetachIteratorSame ==
    ASSUME NEW m \in Memory, NEW i \in Iter
    PROVE  SameLinks(m, DetachIterator(m, i)) /\ DetachIterator(m, i).mLocked = m.mLocked
<1> DEFINE q == m.iter[i].pBaseSet
           mi == [m.mIterators EXCEPT ![q] = @ \ {i}]
           r == DetachIterator(m, i)
<1>1. CASE ~(m.iter[i].mAttached /\ ~m.mLocked[q])
  BY <1>1 DEF DetachIterator, SameLinks
<1>2. CASE m.iter[i].mAttached /\ ~m.mLocked[q]
  <2>1. r = [m EXCEPT !.mIterators = mi]
    BY <1>2 DEF DetachIterator
  <2>2. mi \in [Obj -> SUBSET Iter]
    BY DEF Memory
  <2> HIDE DEF mi, r
  <2>3. SameLinks(m, r) /\ r.mLocked = m.mLocked
    BY <2>1, <2>2 DEF SameLinks, Memory
  <2> QED
    BY <2>3 DEF r
<1> QED
  BY <1>1, <1>2

\* A set of links, iterators aside, that stays as it is.
Stays == live' = live /\ SameLinks(mem, mem') /\ mem'.mLocked = mem.mLocked

LEMMA FindStays ==
    ASSUME IInv, NEW i \in Iter, NEW o \in Obj, Find(i, o)
    PROVE  Stays
<1>1. mem \in Memory /\ live' = live
  BY DEF IInv, Good, Find
<1>2. CASE mem.iter[i].mAttached /\ mem.iter[i].pBaseSet = o
  <2> DEFINE it == [mem.iter EXCEPT ![i].cell = mem.pSet[o]]
  <2>1. mem' = [mem EXCEPT !.iter = it]
    BY <1>2 DEF Find
  <2>2. it \in [Iter -> [pBaseSet : Obj \cup {NULL}, mAttached : BOOLEAN,
                         cell : Cell \cup {Ges}]]
    BY <1>1 DEF Memory
  <2> HIDE DEF it
  <2> QED
    BY <1>1, <2>1, <2>2 DEF Stays, SameLinks, Memory
<1>3. CASE ~(mem.iter[i].mAttached /\ mem.iter[i].pBaseSet = o)
  <2> DEFINE d == DetachIterator(mem, i)
  <2>1. mem' = AttachIterator(d, i, o)
    BY <1>3 DEF Find
  <2>2. SameLinks(mem, d) /\ d.mLocked = mem.mLocked
    BY <1>1, DetachIteratorSame
  <2> HIDE DEF d
  <2>3. SameLinks(d, mem') /\ mem'.mLocked = d.mLocked
    BY <2>1, <2>2, AttachIteratorSame DEF SameLinks
  <2> QED
    BY <1>1, <2>2, <2>3 DEF Stays, SameLinks
<1> QED
  BY <1>2, <1>3

LEMMA DropStays ==
    ASSUME IInv, NEW i \in Iter, Drop(i)
    PROVE  Stays
<1> DEFINE d == DetachIterator(mem, i)
           it == [d.iter EXCEPT ![i] = NoIterator]
<1>1. mem \in Memory /\ live' = live
  BY DEF IInv, Good, Drop
<1>2. mem' = [d EXCEPT !.iter = it]
  BY DEF Drop
<1>3. SameLinks(mem, d) /\ d.mLocked = mem.mLocked
  BY <1>1, DetachIteratorSame
<1>4. it \in [Iter -> [pBaseSet : Obj \cup {NULL}, mAttached : BOOLEAN, cell : Cell \cup {Ges}]]
  <2> HIDE DEF d
  <2> QED
    BY <1>3 DEF SameLinks, Memory, NoIterator
<1> HIDE DEF d, it
<1>5. SameLinks(d, mem') /\ mem'.mLocked = d.mLocked
  BY <1>2, <1>3, <1>4 DEF SameLinks, Memory
<1> QED
  BY <1>1, <1>3, <1>5 DEF Stays, SameLinks

LEMMA StaysOK ==
    ASSUME IInv, Stays
    PROVE  IInv' /\ \A o \in live : Data(mem', o) = Data(mem, o)
<1>1. Good(mem', live) /\ Locks(mem', live) /\ \A o \in live : Data(mem', o) = Data(mem, o)
  BY SameGood DEF IInv, Stays
<1> QED
  BY <1>1 DEF IInv, Stays

-----------------------------------------------------------------------------
\* The action of LockedStays.
LockedSetsStay ==
    \A o \in live : mem.mLocked[o] /\ mem'.pSet[o] # mem.pSet[o] =>
        \/ Destroy(o) \/ Clear(o)
        \/ \E p \in live : Assign(o, p) \/ CopyWithoutAttributes(o, p)

\* The action of AttributesOfOne.
OneSetsAttributes ==
    \E o \in Obj : \A p \in (live \cap live') \ {o} :
        \/ Data(mem', p).attr = Data(mem, p).attr
        \/ mem.pHostSet[p] = o /\ mem.mLocked[o] /\ DropsAttributes(o)

\* What is shown of every step.
Step ==
    /\ IInv'
    /\ LockedSetsStay
    /\ UNCHANGED vars \/ OneSetsAttributes
    /\ [Values!Next]_<<live, [o \in Obj |-> Value(o)]>>

LEMMA ChangedStep ==
    ASSUME IInv, NEW o \in Obj, NEW s, Changed(o, s)
    PROVE  /\ IInv' /\ Values!Become(o, s) /\ OneSetsAttributes
           /\ \A p \in live \ {o} : mem.mLocked[p] => mem'.pSet[p] = mem.pSet[p]
<1>1. /\ o \in live /\ live' = live /\ Good(mem', live) /\ Locks(mem', live)
      /\ Data(mem', o).elems = s
      /\ \A p \in live \ {o} : Data(mem', p).elems = Data(mem, p).elems
      /\ \A p \in live \ {o} : mem.mLocked[p] => mem'.pSet[p] = mem.pSet[p]
  BY DEF Changed, Becomes
<1>2. \A p \in Obj : Value(p)' = IF p = o THEN s ELSE Value(p)
  BY <1>1 DEF Value, Data
<1>3. [p \in Obj |-> Value(p)]' = [[p \in Obj |-> Value(p)] EXCEPT ![o] = s]
  BY <1>2
<1>4. IInv'
  BY <1>1 DEF IInv
<1>5. OneSetsAttributes
  BY <1>1 DEF Changed, Becomes, AttrsKept, AttrsSame, OneSetsAttributes
<1> QED
  BY <1>1, <1>3, <1>4, <1>5 DEF Values!Become

\* A step that gives o new elements and keeps its container if it is locked.
LEMMA ModifiedStep ==
    ASSUME IInv, NEW o \in Obj, NEW s, Modified(o, s)
    PROVE  IInv' /\ LockedSetsStay /\ OneSetsAttributes /\ Values!Become(o, s)
<1>1. Changed(o, s) /\ (mem.mLocked[o] => mem'.pSet[o] = mem.pSet[o])
  BY DEF Modified
<1>2. /\ IInv' /\ Values!Become(o, s) /\ OneSetsAttributes
      /\ \A p \in live \ {o} : mem.mLocked[p] => mem'.pSet[p] = mem.pSet[p]
  BY <1>1, ChangedStep
<1> QED
  BY <1>1, <1>2 DEF LockedSetsStay

\* A step that leaves the elements of all sets as they are is a stutter.
LEMMA SameElements ==
    ASSUME IInv, NEW o \in Obj, Modified(o, Data(mem, o).elems)
    PROVE  Step
<1>1. /\ IInv' /\ LockedSetsStay /\ OneSetsAttributes
      /\ Values!Become(o, Data(mem, o).elems) /\ o \in live
  BY ModifiedStep DEF Modified, Changed
<1>2. [p \in Obj |-> Value(p)]' = [p \in Obj |-> Value(p)]
  BY <1>1 DEF Values!Become, Value
<1> QED
  BY <1>1, <1>2 DEF Step, Values!Become

LEMMA StaysStep ==
    ASSUME IInv, Stays, UNCHANGED vars \/ Obj # {}
    PROVE  Step
<1>1. IInv' /\ (\A o \in live : Data(mem', o) = Data(mem, o)) /\ live' = live
  BY StaysOK DEF Stays
<1>2. \A p \in Obj : Value(p)' = Value(p)
  BY <1>1 DEF Value, Data
<1>3. [p \in Obj |-> Value(p)]' = [p \in Obj |-> Value(p)]
  BY <1>2
<1>4. LockedSetsStay
  BY DEF LockedSetsStay, Stays, SameLinks
<1>5. UNCHANGED vars \/ OneSetsAttributes
  BY <1>1 DEF OneSetsAttributes
<1> QED
  BY <1>1, <1>3, <1>4, <1>5 DEF Step

LEMMA ValuesOf ==
    ASSUME NEW o \in Obj, o \in live
    PROVE  [p \in Obj |-> Value(p)][o] = Data(mem, o).elems
BY DEF Value

LEMMA OperationStep ==
    ASSUME NEW o \in Obj, Values!Operation(o), IInv', LockedSetsStay, OneSetsAttributes
    PROVE  Step
<1>1. Values!Next
  BY DEF Values!Next
<1> QED
  BY <1>1 DEF Step

\* Every step does what the theorems say of it.
LEMMA NextStep ==
    ASSUME IInv, [Next]_vars
    PROVE  Step
<1>1. live \subseteq Obj
  BY DEF IInv, Good
<1>2. CASE UNCHANGED vars
  <2>1. Stays
    BY <1>2 DEF vars, Stays, SameLinks, IInv, Good
  <2> QED
    BY <1>2, <2>1, StaysStep
<1>3. ASSUME NEW o \in Obj, New(o)
      PROVE  Step
  <2>1. /\ IInv'
        /\ Data(mem', o) = Empty
        /\ \A p \in live : Data(mem', p) = Data(mem, p) /\ mem'.pSet[p] = mem.pSet[p]
        /\ o \notin live /\ live' = live \cup {o}
    BY <1>3, NewOK DEF New
  <2>2. \A p \in Obj : Value(p)' = Value(p)
    BY <2>1 DEF Value, Data, Empty
  <2>3. [p \in Obj |-> Value(p)]' = [p \in Obj |-> Value(p)]
    BY <2>2
  <2>4. Values!Operation(o)
    BY <2>1, <2>3 DEF Values!Operation, Values!New
  <2>5. LockedSetsStay
    BY <2>1 DEF LockedSetsStay
  <2>6. OneSetsAttributes
    BY <2>1 DEF OneSetsAttributes
  <2> QED
    BY <2>1, <2>4, <2>5, <2>6, OperationStep
<1>4. ASSUME NEW o \in Obj, Destroy(o)
      PROVE  Step
  <2>1. /\ IInv' /\ Becomes(mem, live, o, {}, mem') /\ AttrsSame(mem, live, o, mem')
        /\ o \in live /\ live' = live \ {o}
    BY <1>4, DestroyOK DEF Destroy
  <2>2. \A p \in Obj : Value(p)' = IF p = o THEN {} ELSE Value(p)
    BY <2>1 DEF Value, Data, Becomes
  <2>3. [p \in Obj |-> Value(p)]' = [[p \in Obj |-> Value(p)] EXCEPT ![o] = {}]
    BY <2>2
  <2>4. Values!Operation(o)
    BY <2>1, <2>3 DEF Values!Operation, Values!Destroy
  <2>5. LockedSetsStay
    BY <1>4, <2>1 DEF LockedSetsStay, Becomes
  <2>6. OneSetsAttributes
    BY <2>1 DEF OneSetsAttributes, AttrsSame
  <2> QED
    BY <2>1, <2>4, <2>5, <2>6, OperationStep
<1>5. ASSUME NEW o \in Obj, NEW p \in Obj, Assign(o, p) \/ CopyWithoutAttributes(o, p)
      PROVE  Step
  <2>1. Changed(o, Data(mem, p).elems) /\ p \in live
    BY <1>5, AssignOK, CopyWithoutAttributesOK DEF Assign, CopyWithoutAttributes
  <2>2. /\ IInv' /\ Values!Become(o, Data(mem, p).elems) /\ OneSetsAttributes
        /\ \A q \in live \ {o} : mem.mLocked[q] => mem'.pSet[q] = mem.pSet[q]
    BY <2>1, ChangedStep
  <2>3. Values!Operation(o)
    BY <1>1, <2>1, <2>2, ValuesOf DEF Values!Operation
  <2>4. LockedSetsStay
    BY <1>5, <2>1, <2>2 DEF LockedSetsStay
  <2> QED
    BY <2>2, <2>3, <2>4, OperationStep
<1>6. ASSUME NEW o \in Obj, Clear(o)
      PROVE  Step
  <2>1. Changed(o, {})
    BY <1>6, ClearOK
  <2>2. /\ IInv' /\ Values!Become(o, {}) /\ OneSetsAttributes
        /\ \A q \in live \ {o} : mem.mLocked[q] => mem'.pSet[q] = mem.pSet[q]
    BY <2>1, ChangedStep
  <2>3. Values!Operation(o)
    BY <2>2 DEF Values!Operation
  <2>4. LockedSetsStay
    BY <1>6, <2>2 DEF LockedSetsStay
  <2> QED
    BY <2>2, <2>3, <2>4, OperationStep
<1>7. ASSUME NEW o \in Obj,
             \/ LockSet(o) \/ ClearAttributes(o)
             \/ \E e \in Elem : \E present \in BOOLEAN : SetAttribute(o, e, present)
      PROVE  Step
  <2>1. Modified(o, Data(mem, o).elems)
    BY <1>7, LockSetOK, ClearAttributesOK, SetAttributeOK
  <2> QED
    BY <2>1, SameElements
<1>8. ASSUME NEW o \in Obj, NEW e \in Elem, Insert(o, e) \/ Erase(o, e)
      PROVE  Step
  <2>1. PICK s : /\ Modified(o, s)
                 /\ s \in {Data(mem, o).elems \cup {e}, Data(mem, o).elems \ {e}}
    BY <1>8, InsertOK, EraseOK
  <2>2. IInv' /\ LockedSetsStay /\ OneSetsAttributes /\ Values!Become(o, s) /\ o \in live
    BY <2>1, ModifiedStep DEF Modified, Changed
  <2>3. Values!Operation(o)
    BY <1>1, <2>1, <2>2, ValuesOf DEF Values!Operation
  <2> QED
    BY <2>2, <2>3, OperationStep
<1>9. ASSUME NEW o \in Obj, NEW p \in Obj, InsertSet(o, p) \/ EraseSet(o, p) \/ RestrictSet(o, p)
      PROVE  Step
  <2>1. PICK s : /\ Modified(o, s) /\ p \in live
                 /\ s \in {Data(mem, o).elems \cup Data(mem, p).elems,
                           Data(mem, o).elems \ Data(mem, p).elems,
                           Data(mem, o).elems \cap Data(mem, p).elems}
    BY <1>9, InsertSetOK, EraseSetOK, RestrictSetOK
  <2>2. IInv' /\ LockedSetsStay /\ OneSetsAttributes /\ Values!Become(o, s) /\ o \in live
    BY <2>1, ModifiedStep DEF Modified, Changed
  <2>3. Values!Operation(o)
    <3>1. /\ [q \in Obj |-> Value(q)][o] = Data(mem, o).elems
          /\ [q \in Obj |-> Value(q)][p] = Data(mem, p).elems
      BY <2>1, <2>2, ValuesOf
    <3> QED
      BY <2>1, <2>2, <3>1 DEF Values!Operation
  <2> QED
    BY <2>2, <2>3, OperationStep
<1>10. ASSUME NEW i \in Iter, NEW o \in Obj, Find(i, o) \/ Drop(i)
       PROVE  Step
  <2>1. Stays
    BY <1>10, FindStays, DropStays
  <2> QED
    BY <2>1, StaysStep
<1> QED
  BY <1>2, <1>3, <1>4, <1>5, <1>6, <1>7, <1>8, <1>9, <1>10 DEF Next, Modify

\* The sets that exist are in order in every reachable state.
THEOREM Invariant == Spec => []IInv
<1>1. IInv /\ [Next]_vars => IInv'
  BY NextStep DEF Step
<1> QED
  BY Initial, <1>1, PTL DEF Spec

\* Types of sets and fields (TypeOK).
THEOREM TypeCorrect == Spec => []TypeOK
<1>1. IInv => TypeOK
  BY DEF IInv, Good, TypeOK
<1> QED
  BY Invariant, <1>1, PTL

\* No set points to a container that was freed, and no container has two
\* owners that would each free it.
THEOREM NoDanglingDataCorrect == Spec => []NoDanglingData
<1>1. IInv => NoDanglingData
  <2> SUFFICES ASSUME IInv, NEW o \in live
               PROVE  /\ mem.pSet[o] # Ges => mem.heap[mem.pSet[o]] # NULL
                      /\ \A p \in live \ {o} : mem.mpSet[o] # NULL => mem.mpSet[p] # mem.mpSet[o]
    BY DEF NoDanglingData
  <2>1. Good(mem, live)
    BY DEF IInv
  <2>2. mem.pSet[o] # Ges => mem.heap[mem.pSet[o]] # NULL
    BY <2>1, DataType, NotNull
  <2> QED
    BY <2>1, <2>2 DEF Good
<1> QED
  BY Invariant, <1>1, PTL

\* Nothing but assigning to it, clearing it and destroying it moves the
\* container of a locked set.
THEOREM LockedStaysCorrect == Spec => LockedStays
<1>1. IInv /\ [Next]_vars => [LockedSetsStay]_vars
  BY NextStep DEF Step
<1> QED
  BY Invariant, <1>1, PTL DEF Spec, LockedStays, LockedSetsStay

\* An operation changes the attributes of one set; only those that share the
\* data of a locked set lose theirs when that set drops its own.
THEOREM AttributesOfOneCorrect == Spec => AttributesOfOne
<1>1. IInv /\ [Next]_vars => [OneSetsAttributes]_vars
  BY NextStep DEF Step
<1> QED
  BY Invariant, <1>1, PTL DEF Spec, AttributesOfOne, OneSetsAttributes

\* With all the sharing, each set behaves as a value of its own.
THEOREM ActsAsValuesCorrect == Spec => ActsAsValues
<1>1. Init => Values!Init
  BY DEF Init, Values!Init, Value
<1>2. IInv /\ [Next]_vars => [Values!Next]_(Values!valueVars)
  BY NextStep DEF Step, Values!valueVars
<1> QED
  BY Invariant, <1>1, <1>2, PTL DEF Spec, ActsAsValues, Values!Spec
-----------------------------------------------------------------------------
(***************************************************************************)
(* Iterators.  A set that is not locked tracks its iterators, and takes    *)
(* those along that point into its container, until they are invalidated.  *)
(* The exception are those of the sets that take the copy when a locked    *)
(* set changes.  Within an operation the set o it is called for may have   *)
(* left its container before its iterators are invalidated: hence the      *)
(* relations between memories are stated for the iterators of a set S.     *)
(***************************************************************************)
\* Iterators that a set tracks are attached to it, and it is not locked.
Tracks(m) ==
    \A p \in Obj : \A i \in m.mIterators[p] :
        m.iter[i].pBaseSet = p /\ m.iter[i].mAttached /\ ~m.mLocked[p]

\* From memory m to memory r: i goes on pointing into the container of p.
Follows(m, r, p, i) == m.iter[i].cell = m.pSet[p] => r.iter[i].cell = r.pSet[p]

NoneStays(m, r) == \A i \in Iter : m.iter[i] = NoIterator => r.iter[i] = NoIterator

\* The iterators the sets in S track are invalidated, or tracked as before, and
\* follow the container.
ItersKept(m, r, S) ==
    /\ NoneStays(m, r)
    /\ \A p \in S : \A i \in m.mIterators[p] :
         \/ r.iter[i] = NoIterator
         \/ i \in r.mIterators[p] /\ Follows(m, r, p, i)

\* The same, but they need not be tracked any more.
ItersFixed(m, r, S) ==
    \A p \in S : \A i \in m.mIterators[p] :
        \/ r.iter[i] = NoIterator
        \/ r.iter[i].pBaseSet = p /\ Follows(m, r, p, i)

\* The same as ItersKept, but for the iterators of sets that share the data of
\* a locked set o.
ItersMoved(m, o, r, S) ==
    /\ NoneStays(m, r)
    /\ \A p \in S : \A i \in m.mIterators[p] :
         \/ r.iter[i] = NoIterator
         \/ i \in r.mIterators[p] /\ Follows(m, r, p, i)
         \/ p # o /\ m.mLocked[o] /\ ~m.mDetached[o] /\ m.pHostSet[p] = o

ItersSame(m, r) == r.iter = m.iter /\ r.mIterators = m.mIterators /\ r.mLocked = m.mLocked

LEMMA SameKeeps ==
    ASSUME NEW m, NEW r, ItersSame(m, r), Tracks(m), NEW S, \A p \in S : r.pSet[p] = m.pSet[p]
    PROVE  Tracks(r) /\ ItersKept(m, r, S)
BY DEF ItersSame, Tracks, ItersKept, NoneStays, Follows

LEMMA KeptTwice ==
    ASSUME NEW m \in Memory, NEW a, NEW r, NEW S \in SUBSET Obj,
           ItersKept(m, a, S), ItersKept(a, r, S)
    PROVE  ItersKept(m, r, S)
<1>1. NoneStays(m, r)
  BY DEF ItersKept, NoneStays
<1>2. ASSUME NEW p \in S, NEW i \in m.mIterators[p], r.iter[i] # NoIterator
      PROVE  i \in r.mIterators[p] /\ Follows(m, r, p, i)
  <2>1. i \in Iter
    BY DEF Memory
  <2>2. a.iter[i] # NoIterator
    BY <1>2, <2>1 DEF ItersKept, NoneStays
  <2>3. i \in a.mIterators[p] /\ Follows(m, a, p, i)
    BY <2>2 DEF ItersKept
  <2>4. i \in r.mIterators[p] /\ Follows(a, r, p, i)
    BY <1>2, <2>3 DEF ItersKept
  <2> QED
    BY <2>3, <2>4 DEF Follows
<1> QED
  BY <1>1, <1>2 DEF ItersKept

LEMMA KeptFixed ==
    ASSUME NEW m \in Memory, NEW a, NEW r, NEW S \in SUBSET Obj,
           ItersKept(m, a, S), ItersFixed(a, r, S), NoneStays(a, r)
    PROVE  ItersFixed(m, r, S)
<1> SUFFICES ASSUME NEW p \in S, NEW i \in m.mIterators[p], r.iter[i] # NoIterator
             PROVE  r.iter[i].pBaseSet = p /\ Follows(m, r, p, i)
  BY DEF ItersFixed
<1>1. i \in Iter
  BY DEF Memory
<1>2. a.iter[i] # NoIterator
  BY <1>1 DEF NoneStays
<1>3. i \in a.mIterators[p] /\ Follows(m, a, p, i)
  BY <1>2 DEF ItersKept
<1>4. r.iter[i].pBaseSet = p /\ Follows(a, r, p, i)
  BY <1>3 DEF ItersFixed
<1> QED
  BY <1>3, <1>4 DEF Follows

LEMMA MovedKept ==
    ASSUME NEW m \in Memory, NEW o, NEW a, NEW r, NEW S \in SUBSET Obj,
           ItersMoved(m, o, a, S), ItersKept(a, r, S)
    PROVE  ItersMoved(m, o, r, S)
<1>1. NoneStays(m, r)
  BY DEF ItersMoved, ItersKept, NoneStays
<1>2. ASSUME NEW p \in S, NEW i \in m.mIterators[p], r.iter[i] # NoIterator,
             ~(p # o /\ m.mLocked[o] /\ ~m.mDetached[o] /\ m.pHostSet[p] = o)
      PROVE  i \in r.mIterators[p] /\ Follows(m, r, p, i)
  <2>1. i \in Iter
    BY DEF Memory
  <2>2. a.iter[i] # NoIterator
    BY <1>2, <2>1 DEF ItersKept, NoneStays
  <2>3. i \in a.mIterators[p] /\ Follows(m, a, p, i)
    BY <1>2, <2>2 DEF ItersMoved
  <2>4. i \in r.mIterators[p] /\ Follows(a, r, p, i)
    BY <1>2, <2>3 DEF ItersKept
  <2> QED
    BY <2>3, <2>4 DEF Follows
<1> QED
  BY <1>1, <1>2 DEF ItersMoved

LEMMA KeptMoved ==
    ASSUME NEW m, NEW o, NEW r, NEW S, ItersKept(m, r, S)
    PROVE  ItersMoved(m, o, r, S)
BY DEF ItersMoved, ItersKept

LEMMA MovedKeeps ==
    ASSUME NEW m, NEW o, NEW r, NEW S, ItersMoved(m, o, r, S), ~m.mLocked[o] \/ m.mDetached[o]
    PROVE  ItersKept(m, r, S)
BY DEF ItersMoved, ItersKept

LEMMA NoIteratorOfNone ==
    ASSUME NEW x, NEW p \in Obj, x.pBaseSet = p
    PROVE  x # NoIterator
BY NullAssumption DEF NoIterator

LEMMA IterTypes ==
    ASSUME NEW m \in Memory
    PROVE  /\ \A p \in Obj : m.mIterators[p] \subseteq Iter
           /\ \A i \in Iter : m.iter[i] \in [pBaseSet : Obj \cup {NULL}, mAttached : BOOLEAN,
                                             cell : Cell \cup {Ges}]
BY DEF Memory

LEMMA OwnCopyIters ==
    ASSUME NEW m \in Memory, NEW o \in Obj, Tracks(m), NEW x, NEW c, NEW S \in SUBSET Obj
    PROVE  Tracks(OwnCopy(m, o, x, c)) /\ ItersKept(m, OwnCopy(m, o, x, c), S)
<1> DEFINE it == [i \in Iter |-> IF i \in m.mIterators[o]
                                 THEN [m.iter[i] EXCEPT !.cell = c] ELSE m.iter[i]]
           ph == Update(m.pHostSet, {o}, o)
           ps == Update(m.pSet, {o}, c)
           hp == Update(m.heap, {c}, x)
           r == OwnCopy(m, o, x, c)
<1>1. r = [m EXCEPT !.pHostSet = ph, !.pSet = ps, !.mpSet[o] = c, !.mpClients[o] = {},
                    !.mDetached[o] = TRUE, !.heap = hp, !.iter = it]
  BY DEF OwnCopy
<1>2. \A i \in Iter : /\ it[i].pBaseSet = m.iter[i].pBaseSet
                      /\ it[i].mAttached = m.iter[i].mAttached
                      /\ i \in m.mIterators[o] => it[i].cell = c
                      /\ i \notin m.mIterators[o] => it[i] = m.iter[i]
  BY IterTypes
<1>3. \A p \in Obj : ps[p] = IF p = o THEN c ELSE m.pSet[p]
  BY DEF Update, Memory
<1> HIDE DEF it, ph, ps, hp, r
<1>4. /\ r.iter = it /\ r.mIterators = m.mIterators /\ r.mLocked = m.mLocked
      /\ r.pSet = ps
  BY <1>1 DEF Memory
<1>5. Tracks(r)
  BY <1>2, <1>4, IterTypes DEF Tracks
<1>6. \A i \in m.mIterators[o] : m.iter[i] # NoIterator
  BY NoIteratorOfNone DEF Tracks
<1>7. NoneStays(m, r)
  BY <1>2, <1>4, <1>6 DEF NoneStays
<1>8. ASSUME NEW p \in S, NEW i \in m.mIterators[p]
      PROVE  i \in r.mIterators[p] /\ Follows(m, r, p, i)
  <2>1. i \in Iter /\ p \in Obj
    BY IterTypes
  <2>2. CASE p = o
    BY <1>2, <1>3, <1>4, <2>1, <2>2 DEF Follows
  <2>3. CASE p # o
    <3>1. i \notin m.mIterators[o]
      BY <2>1, <2>3 DEF Tracks
    <3> QED
      BY <1>2, <1>3, <1>4, <2>1, <2>3, <3>1 DEF Follows
  <2> QED
    BY <2>2, <2>3
<1> QED
  BY <1>5, <1>7, <1>8 DEF ItersKept, r

\* What Untrack(m, o) and Invalidate(m, o) have in common: o tracks no iterator
\* any more, and other sets track theirs.
Forgotten(m, o, r) ==
    /\ \A p \in Obj : r.mIterators[p] = IF p = o THEN {} ELSE m.mIterators[p]
    /\ \A i \in Iter : i \notin m.mIterators[o] => r.iter[i] = m.iter[i]
    /\ r.mLocked = m.mLocked

LEMMA ForgottenTracks ==
    ASSUME NEW m \in Memory, NEW o \in Obj, Tracks(m), NEW r, Forgotten(m, o, r)
    PROVE  Tracks(r) /\ r.mIterators[o] = {}
<1>1. r.mIterators[o] = {}
  BY DEF Forgotten
<1>2. ASSUME NEW p \in Obj, NEW i \in r.mIterators[p]
      PROVE  r.iter[i].pBaseSet = p /\ r.iter[i].mAttached /\ ~r.mLocked[p]
  <2>1. p # o /\ i \in m.mIterators[p] /\ i \in Iter
    BY <1>1, <1>2, IterTypes DEF Forgotten
  <2>2. m.iter[i].pBaseSet = p /\ m.iter[i].mAttached /\ ~m.mLocked[p]
    BY <2>1 DEF Tracks
  <2>3. i \notin m.mIterators[o]
    BY <2>1, <2>2 DEF Tracks
  <2> QED
    BY <2>1, <2>2, <2>3 DEF Forgotten
<1> QED
  BY <1>1, <1>2 DEF Tracks

LEMMA UntrackIters ==
    ASSUME NEW m \in Memory, NEW o \in Obj, Tracks(m), NEW S \in SUBSET Obj
    PROVE  /\ Tracks(Untrack(m, o)) /\ Untrack(m, o).mIterators[o] = {}
           /\ NoneStays(m, Untrack(m, o)) /\ ItersFixed(m, Untrack(m, o), S)
           /\ m.mIterators[o] = {} => ItersKept(m, Untrack(m, o), S)
<1> DEFINE it == [i \in Iter |-> IF i \in m.mIterators[o]
                                 THEN [m.iter[i] EXCEPT !.mAttached = FALSE] ELSE m.iter[i]]
           mi == Update(m.mIterators, {o}, {})
           r == Untrack(m, o)
<1>1. r = [m EXCEPT !.iter = it, !.mIterators = mi]
  BY DEF Untrack
<1>2. \A i \in Iter : /\ it[i].pBaseSet = m.iter[i].pBaseSet
                      /\ it[i].cell = m.iter[i].cell
                      /\ i \notin m.mIterators[o] => it[i] = m.iter[i]
  BY IterTypes
<1>3. \A p \in Obj : mi[p] = IF p = o THEN {} ELSE m.mIterators[p]
  BY DEF Update, Memory
<1> HIDE DEF it, mi, r
<1>4. r.iter = it /\ r.mIterators = mi /\ r.mLocked = m.mLocked /\ r.pSet = m.pSet
  BY <1>1 DEF Memory
<1>5. Forgotten(m, o, r)
  BY <1>2, <1>3, <1>4 DEF Forgotten
<1>6. Tracks(r) /\ r.mIterators[o] = {}
  BY <1>5, ForgottenTracks
<1>7. \A i \in m.mIterators[o] : m.iter[i] # NoIterator
  BY NoIteratorOfNone DEF Tracks
<1>8. NoneStays(m, r)
  BY <1>2, <1>4, <1>7 DEF NoneStays
<1>9. ItersFixed(m, r, S)
  BY <1>2, <1>4, IterTypes DEF Tracks, ItersFixed, Follows
<1>10. ASSUME m.mIterators[o] = {}
       PROVE  ItersKept(m, r, S)
  BY <1>2, <1>3, <1>4, <1>8, <1>10, IterTypes DEF ItersKept, Follows
<1> QED
  BY <1>6, <1>8, <1>9, <1>10 DEF r

\* o may have left its container: its iterators are invalidated all the same.
LEMMA InvalidateIters ==
    ASSUME NEW k \in Memory, NEW m \in Memory, NEW L \in SUBSET Obj, NEW o \in Obj, Tracks(m),
           ItersKept(k, m, L \ {o}), m.mIterators[o] = k.mIterators[o]
    PROVE  /\ Tracks(Invalidate(m, o)) /\ ItersKept(k, Invalidate(m, o), L)
           /\ Invalidate(m, o).mIterators[o] = {}
<1> DEFINE it == Update(m.iter, m.mIterators[o], NoIterator)
           mi == Update(m.mIterators, {o}, {})
           r == Invalidate(m, o)
<1>1. r = [m EXCEPT !.iter = it, !.mIterators = mi]
  BY DEF Invalidate
<1>2. \A i \in Iter : it[i] = IF i \in m.mIterators[o] THEN NoIterator ELSE m.iter[i]
  BY DEF Update, Memory
<1>3. \A p \in Obj : mi[p] = IF p = o THEN {} ELSE m.mIterators[p]
  BY DEF Update, Memory
<1> HIDE DEF it, mi, r
<1>4. r.iter = it /\ r.mIterators = mi /\ r.mLocked = m.mLocked /\ r.pSet = m.pSet
  BY <1>1 DEF Memory
<1>5. Forgotten(m, o, r)
  BY <1>2, <1>3, <1>4 DEF Forgotten
<1>6. Tracks(r) /\ r.mIterators[o] = {}
  BY <1>5, ForgottenTracks
<1>7. NoneStays(k, r)
  BY <1>2, <1>4 DEF ItersKept, NoneStays
<1>8. ASSUME NEW p \in L, NEW i \in k.mIterators[p], r.iter[i] # NoIterator
      PROVE  i \in r.mIterators[p] /\ Follows(k, r, p, i)
  <2>1. i \in Iter /\ p \in Obj
    BY IterTypes
  <2>2. i \notin m.mIterators[o] /\ r.iter[i] = m.iter[i]
    BY <1>2, <1>4, <1>8, <2>1
  <2>3. p \in L \ {o}
    BY <2>2
  <2>4. i \in m.mIterators[p] /\ Follows(k, m, p, i)
    BY <1>8, <2>2, <2>3 DEF ItersKept
  <2> QED
    BY <1>3, <1>4, <2>1, <2>2, <2>3, <2>4 DEF Follows
<1> QED
  BY <1>6, <1>7, <1>8 DEF ItersKept, r

\* The iterators of the clients that are moved refer to o and are tracked by
\* nobody.
LEMMA TakeIters ==
    ASSUME NEW m \in Memory, NEW o \in Obj, Tracks(m), m.mLocked[o], ~m.mDetached[o],
           m.mpClients[o] \in SUBSET Obj, \A p \in m.mpClients[o] : m.pHostSet[p] = o /\ p # o,
           NEW flag, NEW n, NEW c, NEW moved \in Moved(m, o), NEW S \in SUBSET Obj
    PROVE  /\ Tracks(ClientsTakeCopy(m, o, flag, n, c, moved))
           /\ ItersMoved(m, o, ClientsTakeCopy(m, o, flag, n, c, moved), S)
<1> DEFINE clients == m.mpClients[o]
           ph == Update(m.pHostSet, clients, n)
           ps == Update(m.pSet, clients, c)
           ms == [m.mpSet EXCEPT ![n] = c, ![o] = m.pSet[o]]
           mc == [m.mpClients EXCEPT ![n] = clients \ {n}, ![o] = {}]
           md == [m.mDetached EXCEPT ![n] = @ \/ clients = {n}, ![o] = TRUE]
           hp == Update(m.heap, {c}, CopyOf(Data(m, o), flag))
           it == Update(m.iter, moved, [pBaseSet |-> o, mAttached |-> TRUE, cell |-> c])
           mi == [p \in Obj |-> m.mIterators[p] \ moved]
           a == [m EXCEPT !.pHostSet = ph, !.pSet = ps, !.mpSet = ms, !.mpClients = mc,
                          !.mDetached = md, !.heap = hp, !.iter = it, !.mIterators = mi]
           ut == [i \in Iter |-> IF i \in mi[o] THEN [it[i] EXCEPT !.mAttached = FALSE] ELSE it[i]]
           ui == Update(mi, {o}, {})
           r == ClientsTakeCopy(m, o, flag, n, c, moved)
<1>1. r = Untrack(a, o)
  BY DEF ClientsTakeCopy
<1>2. m.mIterators[o] = {}
  BY DEF Tracks
<1>3. /\ \A p \in Obj : mi[p] = m.mIterators[p] \ moved
      /\ \A p \in Obj : ui[p] = IF p = o THEN {} ELSE m.mIterators[p] \ moved
  BY DEF Update
<1>4. \A i \in Iter \ moved : it[i] = m.iter[i]
  BY DEF Update, Memory
<1>12. \A p \in Obj \ clients : ps[p] = m.pSet[p]
  BY DEF Update, Memory
<1>5. \A i \in Iter : ut[i] = it[i]
  BY <1>2, <1>3
<1> HIDE DEF ph, ps, ms, mc, md, hp, it, mi
<1>6. a = [pHostSet |-> ph, pSet |-> ps, mpSet |-> ms, mpClients |-> mc,
           mDetached |-> md, mLocked |-> m.mLocked, mIterators |-> mi,
           heap |-> hp, iter |-> it]
  <2>1. a = [m EXCEPT !.pHostSet = ph, !.pSet = ps, !.mpSet = ms, !.mpClients = mc,
                      !.mDetached = md, !.heap = hp, !.iter = it, !.mIterators = mi]
    OBVIOUS
  <2> HIDE DEF a
  <2> QED
    BY <2>1 DEF Memory
<1> HIDE DEF a
<1>7. r = [a EXCEPT !.iter = ut, !.mIterators = ui]
  <2>1. a.iter = it /\ a.mIterators = mi
    BY <1>6
  <2> QED
    BY <1>1, <2>1 DEF Untrack
<1> HIDE DEF ut, ui, r
<1>8. r.iter = ut /\ r.mIterators = ui /\ r.mLocked = m.mLocked /\ r.pSet = ps
  BY <1>6, <1>7
<1>9. \A i \in moved : \E p \in m.mpClients[o] : i \in m.mIterators[p]
  BY DEF Moved
<1>10. Tracks(r)
  <2> SUFFICES ASSUME NEW p \in Obj, NEW i \in r.mIterators[p]
               PROVE  r.iter[i].pBaseSet = p /\ r.iter[i].mAttached /\ ~r.mLocked[p]
    BY DEF Tracks
  <2>1. i \in m.mIterators[p] /\ i \in Iter \ moved
    <3>1. i \in ui[p]
      BY <1>8
    <3>2. p # o
      BY <1>3, <3>1
    <3>3. ui[p] = m.mIterators[p] \ moved
      BY <1>3, <3>2
    <3> QED
      BY <3>1, <3>3, IterTypes
  <2>2. r.iter[i] = m.iter[i]
    BY <1>4, <1>5, <1>8, <2>1
  <2> QED
    BY <1>8, <2>1, <2>2 DEF Tracks
<1>11. \A i \in moved : m.iter[i] # NoIterator
  <2> TAKE i \in moved
  <2>1. PICK p \in m.mpClients[o] : i \in m.mIterators[p]
    BY <1>9
  <2>2. m.iter[i].pBaseSet = p /\ p \in Obj
    BY <2>1 DEF Tracks
  <2> QED
    BY <2>2, NoIteratorOfNone
<1>13. NoneStays(m, r)
  BY <1>4, <1>5, <1>8, <1>11 DEF NoneStays
<1>14. ASSUME NEW p \in S, NEW i \in m.mIterators[p], p \notin clients
       PROVE  i \in r.mIterators[p] /\ Follows(m, r, p, i)
  <2>1. i \in Iter /\ p \in Obj
    BY IterTypes
  <2>2. i \notin moved
    <3>1. m.iter[i].pBaseSet = p
      BY <2>1 DEF Tracks
    <3> QED
      BY <1>9, <1>14, <3>1 DEF Tracks
  <2>3. p # o
    BY <1>2
  <2>4. i \in r.mIterators[p]
    BY <1>3, <1>8, <2>1, <2>2, <2>3
  <2>5. r.iter[i] = m.iter[i] /\ r.pSet[p] = m.pSet[p]
    BY <1>4, <1>5, <1>8, <1>12, <1>14, <2>1, <2>2
  <2> QED
    BY <2>4, <2>5 DEF Follows
<1>15. ItersMoved(m, o, r, S)
  BY <1>13, <1>14 DEF ItersMoved
<1> QED
  BY <1>10, <1>15 DEF r

LEMMA PutSame ==
    ASSUME NEW m \in Memory, NEW o, NEW x
    PROVE  ItersSame(m, Put(m, o, x)) /\ Put(m, o, x).pSet = m.pSet
<1> DEFINE hp == Update(m.heap, {m.pSet[o]}, x)
<1>1. Put(m, o, x) = [m EXCEPT !.heap = hp]
  BY DEF Put
<1> HIDE DEF hp
<1> QED
  BY <1>1 DEF ItersSame, Memory

LEMMA IndependentIters ==
    ASSUME NEW m, NEW L, Good(m, L), NEW o \in L, NEW i \in Independent(m, o)
    PROVE  /\ Good(i, L \ {o}) /\ i \in Memory /\ ItersSame(m, i)
           /\ \A q \in L \ {o} : i.mpSet[o] # NULL => i.mpSet[q] # i.mpSet[o]
<1>1. IndependentEffect(m, L, o, i)
  BY IndependentGood
<1>2. Good(i, L \ {o}) /\ ItersSame(m, i)
  BY <1>1 DEF IndependentEffect, ItersSame
<1> QED
  BY <1>1, <1>2 DEF IndependentEffect, Good

LEMMA IndependentPoints ==
    ASSUME NEW m, NEW L, Good(m, L), NEW o \in L, NEW i \in Independent(m, o), NEW q \in L
    PROVE  i.pSet[q] = m.pSet[q]
<1>1. IndependentEffect(m, L, o, i)
  BY IndependentGood
<1> QED
  BY <1>1 DEF IndependentEffect

LEMMA DetachIters ==
    ASSUME NEW m, NEW L, Good(m, L), NEW o \in L, m.mLocked[o] => Locks(m, L), Tracks(m),
           NEW flag, NEW r \in Detach(m, o, flag)
    PROVE  Tracks(r) /\ ItersMoved(m, o, r, L)
<1>1. m \in Memory /\ L \in SUBSET Obj /\ o \in Obj
  BY DEF Good
<1> DEFINE x == CopyOf(Data(m, o), flag)
<1>2. CASE m.mDetached[o]
  <2>1. r = Put(m, o, x)
    BY <1>2 DEF Detach, Put
  <2> HIDE DEF x
  <2>2. ItersSame(m, r) /\ r.pSet = m.pSet
    BY <1>1, <2>1, PutSame
  <2> QED
    BY <2>2, SameKeeps, KeptMoved
<1>3. CASE ~m.mDetached[o] /\ m.mLocked[o]
  <2>1. PICK n \in m.mpClients[o], c \in FreeCells(m), moved \in Moved(m, o) :
          r = ClientsTakeCopy(m, o, flag, n, c, moved)
    BY <1>3 DEF Detach
  <2>2. /\ m.mpClients[o] \in SUBSET Obj
        /\ \A p \in m.mpClients[o] : m.pHostSet[p] = o /\ p # o
    <3>1. Locks(m, L) /\ GoodSet(m, L, o) /\ m.pHostSet[o] = o
      BY <1>3 DEF Good, Locks
    <3> QED
      BY <1>1, <3>1 DEF GoodSet
  <2> QED
    BY <1>1, <1>3, <2>1, <2>2, TakeIters
<1>4. CASE ~m.mDetached[o] /\ ~m.mLocked[o]
  <2>1. PICK i \in Independent(m, o), c \in FreeCells(m) : r = OwnCopy(i, o, x, c)
    BY <1>4 DEF Detach
  <2> HIDE DEF x
  <2>5. i \in Memory /\ ItersSame(m, i)
    BY IndependentIters
  <2>6. \A q \in L : i.pSet[q] = m.pSet[q]
    BY IndependentPoints
  <2>2. i \in Memory /\ ItersSame(m, i) /\ \A q \in L : i.pSet[q] = m.pSet[q]
    BY <2>5, <2>6
  <2>3. Tracks(i) /\ ItersKept(m, i, L)
    BY <2>2, SameKeeps
  <2>4. Tracks(r) /\ ItersKept(i, r, L)
    BY <1>1, <2>1, <2>2, <2>3, OwnCopyIters
  <2> QED
    BY <1>1, <2>3, <2>4, KeptTwice, KeptMoved
<1> QED
  BY <1>2, <1>3, <1>4

\* A set that takes a copy of its own tracks the iterators it tracked.
LEMMA DetachSameIters ==
    ASSUME NEW m, NEW L, Good(m, L), NEW o \in L, ~m.mLocked[o],
           NEW flag, NEW r \in Detach(m, o, flag)
    PROVE  r.mIterators = m.mIterators
<1> DEFINE x == CopyOf(Data(m, o), flag)
<1>1. m \in Memory
  BY DEF Good
<1>2. CASE m.mDetached[o]
  <2>1. r = Put(m, o, x)
    BY <1>2 DEF Detach, Put
  <2> QED
    BY <1>1, <2>1, PutSame DEF ItersSame
<1>3. CASE ~m.mDetached[o]
  <2>1. PICK i \in Independent(m, o), c \in FreeCells(m) : r = OwnCopy(i, o, x, c)
    BY <1>3 DEF Detach
  <2>4. i \in Memory /\ ItersSame(m, i)
    BY IndependentIters
  <2>2. i \in Memory /\ i.mIterators = m.mIterators
    BY <2>4 DEF ItersSame
  <2>3. r.mIterators = i.mIterators
    BY <2>1, <2>2 DEF OwnCopy, Memory
  <2> QED
    BY <2>2, <2>3
<1> QED
  BY <1>2, <1>3

LEMMA LockIters ==
    ASSUME NEW m, NEW L, Good(m, L), NEW o \in L, Tracks(m), NEW r \in Lock(m, o)
    PROVE  /\ Tracks(r) /\ ItersFixed(m, r, L)
           /\ m.mIterators[o] = {} => ItersKept(m, r, L)
<1>1. CASE m.mLocked[o]
  <2>1. r = m
    BY <1>1 DEF Lock
  <2>2. L \subseteq Obj
    BY DEF Good
  <2> QED
    BY <2>1, <2>2 DEF Tracks, ItersFixed, ItersKept, NoneStays, Follows
<1>2. CASE ~m.mLocked[o]
  <2>1. PICK d \in Detach(m, o, "AttrIncl") : r = [Untrack(d, o) EXCEPT !.mLocked[o] = TRUE]
    BY <1>2 DEF Lock
  <2> DEFINE u == Untrack(d, o)
             ml == [u.mLocked EXCEPT ![o] = TRUE]
  <2>2. Tracks(d) /\ ItersMoved(m, o, d, L)
    BY <1>2, <2>1, DetachIters
  <2>3. d \in Memory /\ o \in Obj /\ m \in Memory /\ L \in SUBSET Obj
    BY <1>2, <2>1, DetachOK DEF Detached, Good
  <2>4. ItersKept(m, d, L)
    BY <1>2, <2>2, MovedKeeps
  <2>5. /\ Tracks(u) /\ u.mIterators[o] = {}
        /\ NoneStays(d, u) /\ ItersFixed(d, u, L)
        /\ d.mIterators[o] = {} => ItersKept(d, u, L)
    BY <2>2, <2>3, UntrackIters
  <2>6. SameLinks(d, u)
    BY <2>3, UntrackSame
  <2>7. r = [u EXCEPT !.mLocked = ml]
    BY <2>1
  <2> HIDE DEF u
  <2>8. u \in Memory
    BY <2>6 DEF SameLinks
  <2>9. \A p \in Obj \ {o} : ml[p] = u.mLocked[p]
    BY <2>8 DEF Memory
  <2> HIDE DEF ml
  <2>10. /\ r.iter = u.iter /\ r.mIterators = u.mIterators /\ r.mLocked = ml
         /\ r.pSet = u.pSet
    BY <2>7, <2>8 DEF Memory
  <2>11. Tracks(r)
    BY <2>5, <2>9, <2>10 DEF Tracks
  <2>12. NoneStays(d, r) /\ ItersFixed(d, r, L)
    BY <2>5, <2>10 DEF NoneStays, ItersFixed, Follows
  <2>13. ItersFixed(m, r, L)
    BY <2>3, <2>4, <2>12, KeptFixed
  <2>14. ASSUME m.mIterators[o] = {}
         PROVE  ItersKept(m, r, L)
    <3>1. d.mIterators[o] = {}
      BY <1>2, <2>1, <2>3, <2>14, DetachSameIters
    <3>2. ItersKept(d, r, L)
      BY <2>5, <2>10, <3>1 DEF ItersKept, NoneStays, Follows
    <3> QED
      BY <2>3, <2>4, <3>2, KeptTwice
  <2> QED
    BY <2>11, <2>13, <2>14
<1> QED
  BY <1>1, <1>2

LEMMA ReleaseSame ==
    ASSUME NEW m \in Memory, NEW o \in Obj
    PROVE  ItersSame(m, Release(m, o))
<1> DEFINE hp == Update(m.heap, {m.mpSet[o]}, NULL)
           ms == [m.mpSet EXCEPT ![o] = NULL]
<1>1. Release(m, o) = [m EXCEPT !.heap = hp, !.mpSet = ms]
  BY DEF Release
<1> HIDE DEF hp, ms
<1> QED
  BY <1>1 DEF ItersSame, Memory

LEMMA ShareSame ==
    ASSUME NEW m \in Memory, NEW o \in Obj, NEW p \in Obj
    PROVE  ItersSame(m, Share(m, o, p))
<1> DEFINE ph == Update(m.pHostSet, {o}, m.pHostSet[p])
           ps == Update(m.pSet, {o}, m.pSet[p])
           mc == [m.mpClients EXCEPT ![o] = NULL]
           md == [m.mDetached EXCEPT ![o] = FALSE]
           h == m.pHostSet[p]
           nc == [mc EXCEPT ![h] = (IF @ = NULL THEN {} ELSE @) \cup {o}]
           nd == [md EXCEPT ![h] = FALSE]
           a == [m EXCEPT !.pHostSet = ph, !.pSet = ps, !.mpClients = mc, !.mDetached = md]
<1>1. a = [pHostSet |-> ph, pSet |-> ps, mpSet |-> m.mpSet, mpClients |-> mc,
           mDetached |-> md, mLocked |-> m.mLocked, mIterators |-> m.mIterators,
           heap |-> m.heap, iter |-> m.iter]
  <2>1. a = [m EXCEPT !.pHostSet = ph, !.pSet = ps, !.mpClients = mc, !.mDetached = md]
    OBVIOUS
  <2> HIDE DEF a, ph, ps, mc, md
  <2> QED
    BY <2>1 DEF Memory
<1>2. Share(m, o, p) = AttachClient(a, h, o)
  BY DEF Share
<1> HIDE DEF a, ph, ps, mc, md, h
<1>3. AttachClient(a, h, o) = [a EXCEPT !.mpClients = nc, !.mDetached = nd]
  BY <1>1 DEF AttachClient
<1> HIDE DEF nc, nd
<1> QED
  BY <1>1, <1>2, <1>3 DEF ItersSame

LEMMA DeepCopySame ==
    ASSUME NEW m \in Memory, NEW o \in Obj, NEW p, NEW c
    PROVE  ItersSame(m, DeepCopy(m, o, p, c))
<1> DEFINE ph == Update(m.pHostSet, {o}, o)
           ps == Update(m.pSet, {o}, c)
           hp == Update(m.heap, {c}, CopyOf(Data(m, p), IF AttributeType[o] = Void
                                                        THEN "SetOnly" ELSE "AttrIncl"))
<1>1. DeepCopy(m, o, p, c) =
        [m EXCEPT !.pHostSet = ph, !.pSet = ps, !.mpSet[o] = c, !.mpClients[o] = {},
                  !.mDetached[o] = FALSE, !.heap = hp]
  BY DEF DeepCopy
<1> HIDE DEF ph, ps, hp
<1> QED
  BY <1>1 DEF ItersSame, Memory

LEMMA AssignedIters ==
    ASSUME NEW m \in Memory, NEW S, Good(m, S), NEW o \in Obj, o \notin S, NEW p \in Obj,
           \A q \in S : m.mpSet[o] # NULL => m.mpSet[q] # m.mpSet[o],
           NEW r \in Assigned(m, o, p)
    PROVE  ItersSame(m, r)
<1> DEFINE k == Release(m, o)
<1>1. k \in Memory
  BY ReleaseGood DEF Good
<1>2. ItersSame(m, k)
  BY ReleaseSame
<1>3. r = Share(k, o, p) \/ \E c : r = DeepCopy(k, o, p, c)
  BY DEF Assigned
<1> HIDE DEF k
<1>4. ItersSame(k, r)
  BY <1>1, <1>3, ShareSame, DeepCopySame
<1> QED
  BY <1>2, <1>4 DEF ItersSame

\* The iterators of o are invalidated, wherever o has gone since k.
LEMMA RelockIters ==
    ASSUME NEW k \in Memory, NEW m, NEW L, Good(m, L), NEW o \in L, Tracks(m),
           ItersKept(k, m, L \ {o}), m.mIterators[o] = k.mIterators[o],
           NEW r \in Relock(m, o)
    PROVE  Tracks(r) /\ ItersKept(k, r, L)
<1> DEFINE v == Invalidate(m, o)
           w == [v EXCEPT !.mLocked[o] = FALSE]
<1>1. m \in Memory /\ L \in SUBSET Obj /\ o \in Obj
  BY DEF Good
<1>2. Tracks(v) /\ ItersKept(k, v, L) /\ v.mIterators[o] = {}
  BY <1>1, InvalidateIters
<1>3. SameLinks(m, v)
  BY <1>1, InvalidateSame
<1>4. r \in IF v.mLocked[o] THEN Lock(w, o) ELSE {v}
  BY DEF Relock
<1> HIDE DEF v
<1>5. Good(v, L)
  BY <1>3, SameGood
<1>6. CASE v.mLocked[o]
  <2>1. SameLinks(v, w)
    BY <1>1, <1>3, LockFlagSame DEF SameLinks
  <2>2. Good(w, L)
    BY <1>5, <2>1, SameGood
  <2> DEFINE ml == [v.mLocked EXCEPT ![o] = FALSE]
  <2>3. v \in Memory
    BY <1>3 DEF SameLinks
  <2>4. \A p \in Obj : ml[p] => v.mLocked[p]
    BY <2>3 DEF Memory
  <2>5. w = [v EXCEPT !.mLocked = ml]
    OBVIOUS
  <2> HIDE DEF ml, w
  <2>6. w.iter = v.iter /\ w.mIterators = v.mIterators /\ w.mLocked = ml /\ w.pSet = v.pSet
    BY <2>3, <2>5 DEF Memory
  <2>7. Tracks(w)
    BY <1>2, <2>4, <2>6 DEF Tracks
  <2>8. ItersKept(k, w, L)
    BY <1>2, <2>6 DEF ItersKept, NoneStays, Follows
  <2>9. Tracks(r) /\ ItersKept(w, r, L)
    <3>1. r \in Lock(w, o) /\ w.mIterators[o] = {}
      BY <1>2, <1>4, <1>6, <2>6
    <3> QED
      BY <2>2, <2>7, <3>1, LockIters
  <2> QED
    BY <1>1, <2>8, <2>9, KeptTwice
<1>7. CASE ~v.mLocked[o]
  BY <1>2, <1>4, <1>7
<1> QED
  BY <1>6, <1>7

LEMMA DoCopyIters ==
    ASSUME NEW m, NEW L, Good(m, L), Locks(m, L), NEW o \in L, NEW p \in L, Tracks(m),
           NEW r \in DoCopy(m, o, p)
    PROVE  Tracks(r) /\ ItersKept(m, r, L)
<1>1. CASE o = p \/ m.pHostSet[o] = m.pHostSet[p]
  <2>1. r = m
    BY <1>1 DEF DoCopy
  <2> QED
    BY <2>1, SameKeeps DEF ItersSame
<1>2. CASE ~(o = p \/ m.pHostSet[o] = m.pHostSet[p])
  <2>1. PICK i \in Independent(m, o) : \E a \in Assigned(i, o, p) : r \in Relock(a, o)
    BY <1>2 DEF DoCopy
  <2>2. PICK a \in Assigned(i, o, p) : r \in Relock(a, o)
    BY <2>1
  <2>3. /\ Good(i, L \ {o}) /\ i \in Memory /\ ItersSame(m, i)
        /\ \A q \in L \ {o} : i.mpSet[o] # NULL => i.mpSet[q] # i.mpSet[o]
    BY IndependentIters
  <2>9. \A q \in L : i.pSet[q] = m.pSet[q]
    BY IndependentPoints
  <2>4. p \in L \ {o} /\ o \in Obj /\ p \in Obj /\ m \in Memory
    BY <1>2 DEF Good
  <2>5. ItersSame(i, a)
    <3>1. o \notin L \ {o}
      OBVIOUS
    <3> QED
      BY <2>2, <2>3, <2>4, <3>1, AssignedIters
  <2>6. Good(a, L) /\ \A q \in L \ {o} : a.pSet[q] = i.pSet[q]
    <3>1. AssignedEffect(i, L, o, p, a)
      BY <2>3, <2>4, AssignedOK
    <3> QED
      BY <3>1 DEF AssignedEffect
  <2>7. ItersSame(m, a) /\ \A q \in L \ {o} : a.pSet[q] = m.pSet[q]
    BY <2>3, <2>5, <2>6, <2>9 DEF ItersSame
  <2>8. Tracks(a) /\ ItersKept(m, a, L \ {o}) /\ a.mIterators[o] = m.mIterators[o]
    BY <2>7, SameKeeps DEF ItersSame
  <2> QED
    BY <2>2, <2>4, <2>6, <2>8, RelockIters
<1> QED
  BY <1>1, <1>2

LEMMA ConstructIters ==
    ASSUME NEW m \in Memory, NEW o \in Obj, Tracks(m),
           NEW S \in SUBSET Obj, o \notin S \/ m.mIterators[o] = {}
    PROVE  Tracks(Construct(m, o)) /\ ItersKept(m, Construct(m, o), S)
<1> DEFINE ph == Update(m.pHostSet, {o}, o)
           ps == Update(m.pSet, {o}, Ges)
           ml == [m.mLocked EXCEPT ![o] = FALSE]
           mi == Update(m.mIterators, {o}, {})
           r == Construct(m, o)
<1>1. r = [m EXCEPT !.pHostSet = ph, !.pSet = ps, !.mpSet[o] = NULL, !.mpClients[o] = {},
                    !.mDetached[o] = FALSE, !.mLocked = ml, !.mIterators = mi]
  BY DEF Construct
<1>2. \A p \in Obj \ {o} : ml[p] = m.mLocked[p] /\ ps[p] = m.pSet[p]
  BY DEF Update, Memory
<1>3. mi[o] = {} /\ \A p \in Obj \ {o} : mi[p] = m.mIterators[p]
  BY DEF Update, Memory
<1> HIDE DEF ph, ps, ml, mi, r
<1>4. r.iter = m.iter /\ r.mIterators = mi /\ r.mLocked = ml /\ r.pSet = ps
  BY <1>1 DEF Memory
<1>5. Tracks(r)
  BY <1>2, <1>3, <1>4 DEF Tracks
<1>6. ItersKept(m, r, S)
  BY <1>2, <1>3, <1>4 DEF ItersKept, NoneStays, Follows
<1> QED
  BY <1>5, <1>6 DEF r

LEMMA DissolveIters ==
    ASSUME NEW m, NEW L, Good(m, L), NEW o \in L, Tracks(m), NEW r \in Dissolve(m, o)
    PROVE  Tracks(r) /\ ItersKept(m, r, L)
<1>1. PICK i \in Independent(m, o) : r = Construct(Invalidate(Release(i, o), o), o)
  BY DEF Dissolve
<1> DEFINE k == Release(i, o)
           v == Invalidate(k, o)
<1>2. /\ Good(i, L \ {o}) /\ i \in Memory /\ ItersSame(m, i)
      /\ \A q \in L \ {o} : i.mpSet[o] # NULL => i.mpSet[q] # i.mpSet[o]
  BY IndependentIters
<1>10. \A q \in L : i.pSet[q] = m.pSet[q]
  BY IndependentPoints
<1>3. o \in Obj /\ o \notin L \ {o} /\ m \in Memory /\ L \in SUBSET Obj
  BY DEF Good
<1>4. k \in Memory /\ ItersSame(i, k) /\ k.pSet = i.pSet
  <2>1. Good(k, L \ {o}) /\ k.pSet = i.pSet
    BY <1>2, <1>3, ReleaseGood
  <2>2. ItersSame(i, k)
    BY <1>2, <1>3, ReleaseSame
  <2> QED
    BY <2>1, <2>2 DEF Good
<1> HIDE DEF k
<1>5. ItersSame(m, k) /\ \A q \in L \ {o} : k.pSet[q] = m.pSet[q]
  BY <1>2, <1>4, <1>10 DEF ItersSame
<1>6. Tracks(k) /\ ItersKept(m, k, L \ {o}) /\ k.mIterators[o] = m.mIterators[o]
  BY <1>5, SameKeeps DEF ItersSame
<1>7. Tracks(v) /\ ItersKept(m, v, L) /\ v.mIterators[o] = {} /\ v \in Memory
  BY <1>3, <1>4, <1>6, InvalidateIters, InvalidateSame DEF SameLinks
<1>8. r = Construct(v, o)
  BY <1>1 DEF k
<1> HIDE DEF v
<1>9. Tracks(r) /\ ItersKept(v, r, L)
  BY <1>3, <1>7, <1>8, ConstructIters
<1> QED
  BY <1>3, <1>7, <1>9, KeptTwice

\* The action of IteratorsFollow.
IteratorsStep ==
    \A o \in live : \A i \in mem.mIterators[o] :
        mem.iter[i].cell = mem.pSet[o] =>
          LET new == mem'.iter[i]
          IN  \/ new = NoIterator
              \/ new.pBaseSet = o /\ new.cell = mem'.pSet[o]
              \/ \E p \in Obj : Find(i, p)
              \/ \E h \in live \ {o} :
                    /\ mem.pHostSet[o] = h /\ mem.mLocked[h]
                    /\ Modify(h) \/ DropsAttributes(h)

LEMMA FixedStep ==
    ASSUME ItersFixed(mem, mem', live)
    PROVE  IteratorsStep
BY DEF ItersFixed, Follows, IteratorsStep

LEMMA KeptStep ==
    ASSUME live \subseteq Obj, ItersKept(mem, mem', live), Tracks(mem')
    PROVE  IteratorsStep
BY DEF ItersKept, Follows, Tracks, IteratorsStep

LEMMA MovedStep ==
    ASSUME live \subseteq Obj, NEW o \in live, ItersMoved(mem, o, mem', live), Tracks(mem'),
           Modify(o) \/ DropsAttributes(o)
    PROVE  IteratorsStep
<1> SUFFICES ASSUME NEW p \in live, NEW i \in mem.mIterators[p],
                    mem.iter[i].cell = mem.pSet[p]
             PROVE  \/ mem'.iter[i] = NoIterator
                    \/ mem'.iter[i].pBaseSet = p /\ mem'.iter[i].cell = mem'.pSet[p]
                    \/ \E h \in live \ {p} :
                          /\ mem.pHostSet[p] = h /\ mem.mLocked[h]
                          /\ Modify(h) \/ DropsAttributes(h)
  BY DEF IteratorsStep
<1>1. \/ mem'.iter[i] = NoIterator
      \/ i \in mem'.mIterators[p] /\ mem'.iter[i].cell = mem'.pSet[p]
      \/ p # o /\ mem.mLocked[o] /\ mem.pHostSet[p] = o
  BY DEF ItersMoved, Follows
<1> QED
  BY <1>1 DEF Tracks

\* The application assigns iterator i or lets go of it.
LEMMA OthersStay ==
    ASSUME IInv, Tracks(mem), NEW i \in Iter, mem'.pSet = mem.pSet,
           \A j \in Iter \ {i} : mem'.iter[j] = mem.iter[j],
           mem'.iter[i] = NoIterator \/ \E p \in Obj : Find(i, p)
    PROVE  IteratorsStep
<1> SUFFICES ASSUME NEW o \in live, NEW j \in mem.mIterators[o],
                    mem.iter[j].cell = mem.pSet[o]
             PROVE  \/ mem'.iter[j] = NoIterator
                    \/ mem'.iter[j].pBaseSet = o /\ mem'.iter[j].cell = mem'.pSet[o]
                    \/ \E p \in Obj : Find(j, p)
  BY DEF IteratorsStep
<1>1. o \in Obj /\ j \in Iter /\ mem.iter[j].pBaseSet = o
  BY IterTypes DEF IInv, Good, Tracks
<1>2. CASE j = i
  BY <1>2
<1>3. CASE j # i
  BY <1>1, <1>3
<1> QED
  BY <1>2, <1>3

\* An operation that makes a copy for o and then writes to its container.
LEMMA WriteIters ==
    ASSUME IInv, Tracks(mem), NEW o \in live, NEW flag, NEW d \in Detach(mem, o, flag),
           NEW x, mem' = Put(d, o, x)
    PROVE  Tracks(mem') /\ ItersMoved(mem, o, mem', live)
<1>1. Tracks(d) /\ ItersMoved(mem, o, d, live)
  BY DetachIters DEF IInv
<1>2. d \in Memory /\ mem \in Memory /\ live \in SUBSET Obj
  BY DetachOK DEF IInv, Detached, Good
<1>3. Tracks(mem') /\ ItersKept(d, mem', live)
  BY <1>1, <1>2, PutSame, SameKeeps
<1> QED
  BY <1>1, <1>2, <1>3, MovedKept

LEMMA CopyIters ==
    ASSUME IInv, Tracks(mem), NEW o \in Obj, NEW p \in Obj,
           Assign(o, p) \/ CopyWithoutAttributes(o, p)
    PROVE  Tracks(mem') /\ IteratorsStep
<1>0. mem \in Memory /\ live \in SUBSET Obj
  BY DEF IInv, Good
<1>1. CASE Assign(o, p)
  <2>1. o \in live /\ p \in live /\ mem' \in DoCopy(mem, o, p)
    BY <1>1 DEF Assign
  <2> QED
    BY <1>0, <2>1, DoCopyIters, KeptStep DEF IInv
<1>2. CASE CopyWithoutAttributes(o, p)
  <2>1. o \in live /\ p \in live /\ DropsAttributes(o)
    BY <1>2 DEF CopyWithoutAttributes, DropsAttributes
  <2>2. PICK a \in DoCopy(mem, o, p) : mem' \in Detach(a, o, "SetOnly")
    BY <1>2 DEF CopyWithoutAttributes
  <2>3. Tracks(a) /\ ItersKept(mem, a, live)
    BY <2>1, <2>2, DoCopyIters DEF IInv
  <2>4. /\ Good(a, live) /\ Locks(a, live)
        /\ a = mem \/ (a.mLocked[o] => a.mDetached[o])
    BY <2>1, <2>2, DoCopyOK DEF IInv, Becomes
  <2>5. Tracks(mem') /\ ItersMoved(a, o, mem', live)
    BY <2>1, <2>2, <2>3, <2>4, DetachIters
  <2>6. CASE a = mem
    BY <1>0, <2>1, <2>5, <2>6, MovedStep
  <2>7. CASE a.mLocked[o] => a.mDetached[o]
    <3>1. ItersKept(a, mem', live)
      BY <2>5, <2>7, MovedKeeps
    <3>2. ItersKept(mem, mem', live)
      BY <1>0, <2>3, <3>1, KeptTwice
    <3> QED
      BY <1>0, <2>5, <3>2, KeptStep
  <2> QED
    BY <2>4, <2>6, <2>7
<1> QED
  BY <1>1, <1>2

LEMMA ClearIters ==
    ASSUME IInv, Tracks(mem), NEW o, Clear(o)
    PROVE  Tracks(mem') /\ IteratorsStep
<1>0. mem \in Memory /\ live \in SUBSET Obj
  BY DEF IInv, Good
<1>1. o \in live
  BY DEF Clear
<1>2. PICK d \in IF mem.mLocked[o] THEN Detach(mem, o, "SetOnly") ELSE {mem} :
        mem' \in Dissolve(d, o)
  BY DEF Clear
<1>3. Good(d, live) /\ Tracks(d) /\ ItersMoved(mem, o, d, live)
  <2>1. CASE mem.mLocked[o]
    <3>1. d \in Detach(mem, o, "SetOnly")
      BY <1>2, <2>1
    <3> QED
      BY <1>1, <3>1, DetachOK, DetachIters DEF IInv, Detached
  <2>2. CASE ~mem.mLocked[o]
    <3>1. d = mem
      BY <1>2, <2>2
    <3>2. ItersSame(mem, d)
      BY <3>1 DEF ItersSame
    <3> QED
      BY <3>1, <3>2, SameKeeps, KeptMoved DEF IInv
  <2> QED
    BY <2>1, <2>2
<1>4. Tracks(mem') /\ ItersKept(d, mem', live)
  BY <1>1, <1>2, <1>3, DissolveIters
<1>5. ItersMoved(mem, o, mem', live)
  BY <1>0, <1>3, <1>4, MovedKept
<1>6. DropsAttributes(o)
  BY DEF DropsAttributes
<1> QED
  BY <1>0, <1>1, <1>4, <1>5, <1>6, MovedStep

\* i is tracked by no set after DetachIterator(), and nothing else changed.
LEMMA DetachIteratorTracks ==
    ASSUME NEW m \in Memory, NEW i \in Iter, Tracks(m)
    PROVE  LET d == DetachIterator(m, i) IN
           /\ d \in Memory /\ d.iter = m.iter /\ d.mLocked = m.mLocked /\ d.pSet = m.pSet
           /\ \A p \in Obj : d.mIterators[p] \subseteq m.mIterators[p] \ {i}
<1> DEFINE q == m.iter[i].pBaseSet
           mi == [m.mIterators EXCEPT ![q] = @ \ {i}]
           d == DetachIterator(m, i)
<1>1. \A p \in Obj : i \in m.mIterators[p] => p = q /\ m.iter[i].mAttached /\ ~m.mLocked[q]
  BY DEF Tracks
<1>2. d \in Memory /\ d.mLocked = m.mLocked /\ d.pSet = m.pSet
  BY DetachIteratorSame DEF SameLinks
<1>3. CASE ~(m.iter[i].mAttached /\ ~m.mLocked[q])
  <2>1. d = m
    BY <1>3 DEF DetachIterator
  <2>2. \A p \in Obj : i \notin m.mIterators[p]
    BY <1>1, <1>3
  <2> QED
    BY <1>2, <2>1, <2>2
<1>4. CASE m.iter[i].mAttached /\ ~m.mLocked[q]
  <2>1. d = [m EXCEPT !.mIterators = mi]
    BY <1>4 DEF DetachIterator
  <2>2. \A p \in Obj : mi[p] \subseteq m.mIterators[p] \ {i}
    <3> TAKE p \in Obj
    <3>1. CASE p = q
      BY <3>1 DEF Memory
    <3>2. CASE p # q
      <4>1. mi[p] = m.mIterators[p]
        BY <3>2 DEF Memory
      <4> QED
        BY <1>1, <3>2, <4>1
    <3> QED
      BY <3>1, <3>2
  <2> HIDE DEF mi, d, q
  <2>3. d.iter = m.iter /\ d.mIterators = mi
    BY <2>1 DEF Memory
  <2> QED
    BY <1>2, <2>2, <2>3 DEF d
<1> QED
  BY <1>3, <1>4

LEMMA FindIters ==
    ASSUME IInv, Tracks(mem), NEW i \in Iter, NEW o \in Obj, Find(i, o)
    PROVE  Tracks(mem') /\ IteratorsStep
<1>1. mem \in Memory
  BY DEF IInv, Good
<1>2. mem'.pSet = mem.pSet
  BY FindStays DEF Stays, SameLinks
<1>3. CASE mem.iter[i].mAttached /\ mem.iter[i].pBaseSet = o
  <2> DEFINE it == [mem.iter EXCEPT ![i].cell = mem.pSet[o]]
  <2>1. mem' = [mem EXCEPT !.iter = it]
    BY <1>3 DEF Find
  <2>2. \A j \in Iter : /\ it[j].pBaseSet = mem.iter[j].pBaseSet
                        /\ it[j].mAttached = mem.iter[j].mAttached
                        /\ j # i => it[j] = mem.iter[j]
    BY <1>1 DEF Memory
  <2> HIDE DEF it
  <2>3. mem'.iter = it /\ mem'.mIterators = mem.mIterators /\ mem'.mLocked = mem.mLocked
    BY <1>1, <2>1 DEF Memory
  <2>4. Tracks(mem')
    BY <1>1, <2>2, <2>3, IterTypes DEF Tracks
  <2>5. IteratorsStep
    BY <1>2, <2>2, <2>3, OthersStay
  <2> QED
    BY <2>4, <2>5
<1>4. CASE ~(mem.iter[i].mAttached /\ mem.iter[i].pBaseSet = o)
  <2> DEFINE d == DetachIterator(mem, i)
             new == [pBaseSet |-> o, mAttached |-> TRUE, cell |-> d.pSet[o]]
             it == [d.iter EXCEPT ![i] = new]
             mi == [d.mIterators EXCEPT ![o] = IF d.mLocked[o] THEN @ ELSE @ \cup {i}]
  <2>1. /\ d \in Memory /\ d.iter = mem.iter /\ d.mLocked = mem.mLocked /\ d.pSet = mem.pSet
        /\ \A p \in Obj : d.mIterators[p] \subseteq mem.mIterators[p] \ {i}
    BY <1>1, DetachIteratorTracks
  <2>2. mem' = AttachIterator(d, i, o)
    BY <1>4 DEF Find
  <2> HIDE DEF d
  <2>3. mem' = [d EXCEPT !.iter = it, !.mIterators = mi]
    BY <2>2 DEF AttachIterator
  <2>4. it[i] = new /\ \A j \in Iter \ {i} : it[j] = mem.iter[j]
    BY <2>1 DEF Memory
  <2>5. \A p \in Obj : mi[p] = IF p = o /\ ~d.mLocked[o] THEN d.mIterators[o] \cup {i}
                                ELSE d.mIterators[p]
    BY <2>1 DEF Memory
  <2>6. new.pBaseSet = o /\ new.mAttached /\ new.cell = mem.pSet[o]
    BY <2>1
  <2> HIDE DEF it, mi, new
  <2>7. mem'.iter = it /\ mem'.mIterators = mi /\ mem'.mLocked = mem.mLocked
    BY <2>1, <2>3 DEF Memory
  <2>8. Tracks(mem')
    <3> SUFFICES ASSUME NEW p \in Obj, NEW j \in mem'.mIterators[p]
                 PROVE  /\ mem'.iter[j].pBaseSet = p /\ mem'.iter[j].mAttached
                        /\ ~mem'.mLocked[p]
      BY DEF Tracks
    <3>1. CASE j = i
      <4>1. p = o /\ ~mem.mLocked[o]
        BY <2>1, <2>5, <2>7, <3>1
      <4> QED
        BY <2>4, <2>6, <2>7, <3>1, <4>1
    <3>2. CASE j # i
      <4>1. j \in mem.mIterators[p] /\ j \in Iter
        BY <1>1, <2>1, <2>5, <2>7, <3>2, IterTypes
      <4> QED
        BY <2>4, <2>7, <3>2, <4>1 DEF Tracks
    <3> QED
      BY <3>1, <3>2
  <2>9. IteratorsStep
    BY <1>2, <2>4, <2>7, OthersStay
  <2> QED
    BY <2>8, <2>9
<1> QED
  BY <1>3, <1>4

LEMMA DropIters ==
    ASSUME IInv, Tracks(mem), NEW i \in Iter, Drop(i)
    PROVE  Tracks(mem') /\ IteratorsStep
<1> DEFINE d == DetachIterator(mem, i)
           it == [d.iter EXCEPT ![i] = NoIterator]
<1>1. mem \in Memory
  BY DEF IInv, Good
<1>2. mem' = [d EXCEPT !.iter = it]
  BY DEF Drop
<1>3. /\ d \in Memory /\ d.iter = mem.iter /\ d.mLocked = mem.mLocked
      /\ \A p \in Obj : d.mIterators[p] \subseteq mem.mIterators[p] \ {i}
  BY <1>1, DetachIteratorTracks
<1> HIDE DEF d
<1>4. it[i] = NoIterator /\ \A j \in Iter \ {i} : it[j] = mem.iter[j]
  BY <1>3 DEF Memory
<1> HIDE DEF it
<1>5. mem'.iter = it /\ mem'.mIterators = d.mIterators /\ mem'.mLocked = mem.mLocked
  BY <1>2, <1>3 DEF Memory
<1>6. Tracks(mem')
  <2> SUFFICES ASSUME NEW p \in Obj, NEW j \in mem'.mIterators[p]
               PROVE  /\ mem'.iter[j].pBaseSet = p /\ mem'.iter[j].mAttached
                      /\ ~mem'.mLocked[p]
    BY DEF Tracks
  <2>1. j \in mem.mIterators[p] /\ j # i /\ j \in Iter
    BY <1>1, <1>3, <1>5, IterTypes
  <2> QED
    BY <1>4, <1>5, <2>1 DEF Tracks
<1>7. IteratorsStep
  <2>1. mem'.pSet = mem.pSet
    BY DropStays DEF Stays, SameLinks
  <2> QED
    BY <1>4, <1>5, <2>1, OthersStay
<1> QED
  BY <1>6, <1>7

LEMMA IteratorsNext ==
    ASSUME IInv, Tracks(mem), [Next]_vars
    PROVE  Tracks(mem') /\ [IteratorsStep]_vars
<1>1. live \in SUBSET Obj /\ mem \in Memory
  BY DEF IInv, Good
<1>2. CASE UNCHANGED vars
  BY <1>2 DEF vars
<1>3. ASSUME NEW o \in Obj, New(o)
      PROVE  Tracks(mem') /\ IteratorsStep
  <2>1. Tracks(mem') /\ ItersKept(mem, mem', live)
    BY <1>1, <1>3, ConstructIters DEF New
  <2> QED
    BY <1>1, <2>1, KeptStep
<1>4. ASSUME NEW o \in Obj, Destroy(o)
      PROVE  Tracks(mem') /\ IteratorsStep
  <2>1. Tracks(mem') /\ ItersKept(mem, mem', live)
    BY <1>4, DissolveIters DEF Destroy, IInv
  <2> QED
    BY <1>1, <2>1, KeptStep
<1>5. ASSUME NEW o \in Obj, NEW p \in Obj, Assign(o, p) \/ CopyWithoutAttributes(o, p)
      PROVE  Tracks(mem') /\ IteratorsStep
  BY <1>5, CopyIters
<1>6. ASSUME NEW o \in Obj, Clear(o)
      PROVE  Tracks(mem') /\ IteratorsStep
  BY <1>6, ClearIters
<1>7. ASSUME NEW o \in Obj, LockSet(o)
      PROVE  Tracks(mem') /\ IteratorsStep
  <2>1. Tracks(mem') /\ ItersFixed(mem, mem', live)
    BY <1>7, LockIters DEF LockSet, IInv
  <2> QED
    BY <2>1, FixedStep
<1>8. ASSUME NEW o \in Obj, Modify(o)
      PROVE  Tracks(mem') /\ IteratorsStep
  <2>1. CASE ClearAttributes(o)
    BY <1>1, <1>8, <2>1, DetachIters, MovedStep DEF ClearAttributes, IInv
  <2>2. CASE ~ClearAttributes(o)
    <3>1. o \in live /\ \E d \in Detach(mem, o, "AttrIncl") : \E x : mem' = Put(d, o, x)
      BY <1>8, <2>2 DEF Modify, InsertSet, EraseSet, RestrictSet, Insert, Erase, SetAttribute
    <3>2. PICK d \in Detach(mem, o, "AttrIncl") : \E x : mem' = Put(d, o, x)
      BY <3>1
    <3>3. PICK x : mem' = Put(d, o, x)
      BY <3>2
    <3>4. Tracks(mem') /\ ItersMoved(mem, o, mem', live)
      BY <3>1, <3>2, <3>3, WriteIters
    <3> QED
      BY <1>1, <1>8, <3>1, <3>4, MovedStep
  <2> QED
    BY <2>1, <2>2
<1>9. ASSUME NEW i \in Iter, NEW o \in Obj, Find(i, o) \/ Drop(i)
      PROVE  Tracks(mem') /\ IteratorsStep
  BY <1>9, FindIters, DropIters
<1> QED
  BY <1>2, <1>3, <1>4, <1>5, <1>6, <1>7, <1>8, <1>9 DEF Next

\* The iterators a set tracks are attached to it.
THEOREM TracksCorrect == Spec => []Tracks(mem)
<1>1. Init => Tracks(mem)
  BY DEF Init, Tracks
<1>2. IInv /\ Tracks(mem) /\ [Next]_vars => Tracks(mem)'
  BY IteratorsNext DEF Tracks
<1> QED
  BY Invariant, <1>1, <1>2, PTL DEF Spec

\* What the debug build checks with DValid() holds of every set between the
\* public operations.
THEOREM DValidCorrect == Spec => []DValid
<1>1. IInv /\ Tracks(mem) => DValid
  <2> SUFFICES ASSUME IInv, Tracks(mem), NEW o \in live
               PROVE  DValidSet(o)
    BY DEF DValid
  <2> DEFINE h == mem.pHostSet[o]
  <2>1. GoodSet(mem, live, o) /\ GoodSet(mem, live, h) /\ h \in live
    BY DEF IInv, Good, GoodSet
  <2>2. /\ mem.pHostSet[h] = h /\ mem.pSet[o] = mem.pSet[h]
        /\ mem.mpClients[h] = {p \in live \ {h} : mem.pHostSet[p] = h}
        /\ h # o => mem.mpSet[o] = NULL /\ mem.mpClients[o] = NULL
        /\ h = o => mem.pSet[o] \in {Ges, mem.mpSet[o]}
    BY <2>1 DEF GoodSet
  <2>3. live \subseteq Obj
    BY DEF IInv, Good
  <2>4. mem.mpClients[h] # NULL
    BY <2>2, <2>3, NotNull
  <2>5. mem.mDetached[o] => mem.mpClients[o] = {} /\ mem.pSet[o] # Ges
    BY <2>1, NotNull DEF GoodSet
  <2>6. mem.mLocked[o] => mem.mpClients[o] # NULL
    BY <2>4 DEF IInv, Locks
  <2>7. \A i \in mem.mIterators[o] : mem.iter[i].pBaseSet = o /\ mem.iter[i].mAttached
    BY <2>3 DEF Tracks
  <2> QED
    BY <2>1, <2>2, <2>4, <2>5, <2>6, <2>7 DEF DValidSet
<1> QED
  BY Invariant, TracksCorrect, <1>1, PTL

\* Whatever happens to a set, an iterator it tracks that points into its
\* container does so afterwards, or was invalidated or assigned; but for the
\* iterators of those that take the copy when a locked set changes.
THEOREM IteratorsFollowCorrect == Spec => IteratorsFollow
<1>1. IInv /\ Tracks(mem) /\ [Next]_vars => [IteratorsStep]_vars
  BY IteratorsNext
<1> QED
  BY Invariant, TracksCorrect, <1>1, PTL DEF Spec, IteratorsFollow, IteratorsStep
-----------------------------------------------------------------------------
(***************************************************************************)
(* Containers.  Between sets with attributes of one type none is lost.     *)
(***************************************************************************)
\* Every container belongs to a set of L.
Owned(m, L) == \A a \in Cell : m.heap[a] # NULL => \E p \in L : m.mpSet[p] = a

\* A set that hosts data and has no clients is marked as detached.
Marked(m, L) ==
    \A p \in L : m.pHostSet[p] = p /\ m.mpClients[p] = {} /\ m.pSet[p] # Ges => m.mDetached[p]

Tidy(m, L) == Owned(m, L) /\ Marked(m, L)

OneTyping == \A o, p \in Obj : AttributeType[o] = AttributeType[p]

LEMMA LinksTidy ==
    ASSUME NEW m, NEW r, NEW L, SameLinks(m, r), Tidy(m, L)
    PROVE  Tidy(r, L)
BY DEF SameLinks, Tidy, Owned, Marked

LEMMA RelinkTidy ==
    ASSUME NEW m, NEW L, Good(m, L), Tidy(m, L),
           NEW o \in L, HasClients(m, o), NEW n \in m.mpClients[o]
    PROVE  Tidy(RelinkClients(m, o, n), L)
<1> DEFINE r == RelinkClients(m, o, n)
<1>1. RelinkEffect(m, o, n, r) /\ n \in L \ {o}
  BY RelinkGood
<1>2. L \subseteq Obj
  BY DEF Good
<1>3. m.mpSet[n] = NULL
  <2>1. GoodSet(m, L, o) /\ GoodSet(m, L, n)
    BY <1>1 DEF Good
  <2>2. m.pHostSet[o] = o
    BY <2>1 DEF GoodSet, HasClients
  <2>3. m.pHostSet[n] = o
    BY <2>1, <2>2 DEF GoodSet
  <2> QED
    BY <1>1, <2>1, <2>3 DEF GoodSet
<1> HIDE DEF r
<1>4. Owned(r, L)
  <2> SUFFICES ASSUME NEW a \in Cell, r.heap[a] # NULL
               PROVE  \E p \in L : r.mpSet[p] = a
    BY DEF Owned
  <2>1. PICK p \in L : m.mpSet[p] = a
    BY <1>1 DEF RelinkEffect, Tidy, Owned
  <2>2. p # n
    BY <1>3, <2>1, NotNull
  <2>3. CASE p = o
    BY <1>1, <1>2, <2>1, <2>3 DEF RelinkEffect
  <2>4. CASE p # o
    BY <1>1, <1>2, <2>1, <2>2, <2>4 DEF RelinkEffect
  <2> QED
    BY <2>3, <2>4
<1>5. Marked(r, L)
  <2> SUFFICES ASSUME NEW p \in L, r.pHostSet[p] = p, r.mpClients[p] = {}, r.pSet[p] # Ges
               PROVE  r.mDetached[p]
    BY DEF Marked
  <2>1. o \in r.mpClients[n]
    BY <1>1, <1>2 DEF RelinkEffect
  <2>2. p # n /\ p # o /\ p \notin m.mpClients[o]
    BY <1>1, <1>2, <2>1 DEF RelinkEffect
  <2>3. m.pHostSet[p] = p /\ m.mpClients[p] = {} /\ m.pSet[p] # Ges
    BY <1>1, <1>2, <2>2 DEF RelinkEffect
  <2>4. m.mDetached[p]
    BY <2>3 DEF Tidy, Marked
  <2> QED
    BY <1>1, <1>2, <2>2, <2>4 DEF RelinkEffect
<1> QED
  BY <1>4, <1>5 DEF Tidy, r

LEMMA DetachTidy ==
    ASSUME NEW m, NEW L, Good(m, L), Tidy(m, L), NEW o \in L, m.pHostSet[o] # o
    PROVE  /\ Owned(DetachClient(m, m.pHostSet[o], o), L)
           /\ Marked(DetachClient(m, m.pHostSet[o], o), L \ {o})
<1> DEFINE h == m.pHostSet[o]
           r == DetachClient(m, h, o)
<1>1. DetachEffect(m, h, o, r) /\ L \subseteq Obj
  BY DetachGood DEF Good
<1> HIDE DEF r, h
<1>2. Owned(r, L)
  BY <1>1 DEF DetachEffect, Tidy, Owned
<1>3. Marked(r, L \ {o})
  <2> SUFFICES ASSUME NEW p \in L \ {o}, m.pHostSet[p] = p, r.mpClients[p] = {}, m.pSet[p] # Ges
               PROVE  r.mDetached[p]
    BY <1>1 DEF Marked, DetachEffect
  <2>1. CASE p = h
    BY <1>1, <2>1 DEF DetachEffect
  <2>2. CASE p # h
    <3>1. r.mDetached[p] = m.mDetached[p] /\ m.mpClients[p] = {}
      BY <1>1, <2>2 DEF DetachEffect
    <3> QED
      BY <3>1 DEF Tidy, Marked
  <2> QED
    BY <2>1, <2>2
<1> QED
  BY <1>2, <1>3 DEF r, h

\* The container of o has gone to a client, unless o was detached.
LEMMA IndependentTidy ==
    ASSUME NEW m, NEW L, Good(m, L), Tidy(m, L), NEW o \in L, NEW r \in Independent(m, o)
    PROVE  /\ Owned(r, L)
           /\ Marked(r, L \ {o})
           /\ ~m.mDetached[o] => r.mpSet[o] = NULL
<1>1. CASE HasClients(m, o)
  <2>1. PICK n \in m.mpClients[o] :
          r = DetachClient(RelinkClients(m, o, n), RelinkClients(m, o, n).pHostSet[o], o)
    BY <1>1 DEF Independent
  <2> DEFINE k == RelinkClients(m, o, n)
  <2>2. /\ Good(k, L) /\ RelinkEffect(m, o, n, k) /\ n \in L \ {o}
    BY <1>1, RelinkGood
  <2>3. Tidy(k, L)
    BY <1>1, RelinkTidy
  <2>4. r = DetachClient(k, k.pHostSet[o], o)
    BY <2>1
  <2> HIDE DEF k
  <2>5. k.pHostSet[o] # o
    BY <2>2 DEF RelinkEffect, Good
  <2>6. DetachEffect(k, k.pHostSet[o], o, r) /\ k.mpSet[o] = NULL
    BY <2>2, <2>4, <2>5, DetachGood
  <2>7. Owned(r, L) /\ Marked(r, L \ {o})
    BY <2>2, <2>3, <2>4, <2>5, DetachTidy
  <2> QED
    BY <2>6, <2>7 DEF DetachEffect
<1>2. CASE ~HasClients(m, o) /\ m.pHostSet[o] # o
  <2>1. r = DetachClient(m, m.pHostSet[o], o)
    BY <1>2 DEF Independent, RelinkClients
  <2>2. DetachEffect(m, m.pHostSet[o], o, r) /\ m.mpSet[o] = NULL
    BY <1>2, <2>1, DetachGood
  <2>3. Owned(r, L) /\ Marked(r, L \ {o})
    BY <1>2, <2>1, DetachTidy
  <2> QED
    BY <2>2, <2>3 DEF DetachEffect
<1>3. CASE ~HasClients(m, o) /\ m.pHostSet[o] = o
  <2>1. r = m
    BY <1>3 DEF Independent, RelinkClients, DetachClient
  <2>2. GoodSet(m, L, o) /\ L \subseteq Obj
    BY DEF Good
  <2>3. m.mpClients[o] = {}
    <3>1. m.mpClients[o] \in SUBSET Obj
      BY <1>3, <2>2 DEF GoodSet
    <3> QED
      BY <1>3, <3>1, NotNull DEF HasClients
  <2>4. ASSUME ~m.mDetached[o]
        PROVE  m.mpSet[o] = NULL
    <3>1. m.pSet[o] = Ges
      BY <1>3, <2>3, <2>4 DEF Tidy, Marked
    <3> QED
      BY <1>3, <2>2, <3>1, NotNull DEF GoodSet
  <2>5. Owned(m, L) /\ Marked(m, L \ {o})
    BY DEF Tidy, Marked
  <2> QED
    BY <2>1, <2>4, <2>5
<1> QED
  BY <1>1, <1>2, <1>3

LEMMA OwnTidy ==
    ASSUME NEW m, NEW L, L \subseteq Obj, NEW o \in L, Owned(m, L), Marked(m, L \ {o}),
           m.mpSet[o] = NULL, NEW x, NEW c, NEW r, OwnEffect(m, o, x, c, r), r.mDetached[o]
    PROVE  Tidy(r, L)
<1>1. Owned(r, L)
  <2> SUFFICES ASSUME NEW a \in Cell, r.heap[a] # NULL
               PROVE  \E p \in L : r.mpSet[p] = a
    BY DEF Owned
  <2>1. CASE a = c
    BY <2>1 DEF OwnEffect
  <2>2. CASE a # c
    <3>1. m.heap[a] # NULL
      BY <2>2 DEF OwnEffect
    <3>2. PICK p \in L : m.mpSet[p] = a
      BY <3>1 DEF Owned
    <3>3. p # o
      BY <3>2, NotNull
    <3> QED
      BY <3>2, <3>3 DEF OwnEffect
  <2> QED
    BY <2>1, <2>2
<1>2. Marked(r, L)
  <2> SUFFICES ASSUME NEW p \in L \ {o}, r.pHostSet[p] = p, r.mpClients[p] = {}, r.pSet[p] # Ges
               PROVE  r.mDetached[p]
    BY DEF Marked
  <2>1. m.pHostSet[p] = p /\ m.mpClients[p] = {} /\ m.pSet[p] # Ges
    BY DEF OwnEffect
  <2>2. m.mDetached[p]
    BY <2>1 DEF Marked
  <2> QED
    BY <2>2 DEF OwnEffect
<1> QED
  BY <1>1, <1>2 DEF Tidy

LEMMA TakeTidy ==
    ASSUME NEW m, NEW L, Good(m, L), Tidy(m, L), NEW o \in L, m.pHostSet[o] = o, m.pSet[o] # Ges,
           NEW n \in m.mpClients[o], NEW x, NEW c \in Cell, NEW r, TakeEffect(m, o, x, n, c, r)
    PROVE  Tidy(r, L)
<1> DEFINE clients == m.mpClients[o]
<1>1. GoodSet(m, L, o) /\ L \subseteq Obj
  BY DEF Good
<1>2. clients = {p \in L \ {o} : m.pHostSet[p] = o} /\ m.pSet[o] = m.mpSet[o]
  BY <1>1 DEF GoodSet
<1>3. n \in L /\ n # o /\ m.mpSet[n] = NULL
  <2>1. n \in L /\ n # o /\ m.pHostSet[n] = o
    BY <1>2
  <2> QED
    BY <2>1 DEF Good, GoodSet
<1> HIDE DEF clients
<1>4. /\ \A p \in L : r.pHostSet[p] = IF p \in clients THEN n ELSE m.pHostSet[p]
      /\ \A p \in L : r.pSet[p] = IF p \in clients THEN c ELSE m.pSet[p]
      /\ \A p \in L : r.mpSet[p] = IF p = o THEN m.mpSet[o] ELSE IF p = n THEN c ELSE m.mpSet[p]
      /\ \A p \in L : r.mpClients[p] = IF p = o THEN {} ELSE IF p = n THEN clients \ {n}
                                       ELSE m.mpClients[p]
      /\ \A a \in Cell : r.heap[a] = IF a = c THEN x ELSE m.heap[a]
  BY <1>1, <1>2 DEF TakeEffect, clients
<1>5. /\ r.mDetached[o]
      /\ clients = {n} => r.mDetached[n]
      /\ \A p \in L \ {o, n} : r.mDetached[p] = m.mDetached[p]
  BY <1>1, <1>3 DEF TakeEffect, clients
<1>6. Owned(r, L)
  <2> SUFFICES ASSUME NEW a \in Cell, r.heap[a] # NULL
               PROVE  \E p \in L : r.mpSet[p] = a
    BY DEF Owned
  <2>1. CASE a = c
    BY <1>3, <1>4, <2>1
  <2>2. CASE a # c
    <3>1. PICK p \in L : m.mpSet[p] = a
      BY <1>4, <2>2 DEF Tidy, Owned
    <3>2. p # n
      BY <1>3, <3>1, NotNull
    <3> QED
      BY <1>4, <3>1, <3>2
  <2> QED
    BY <2>1, <2>2
<1>7. Marked(r, L)
  <2> SUFFICES ASSUME NEW p \in L, r.pHostSet[p] = p, r.mpClients[p] = {}, r.pSet[p] # Ges
               PROVE  r.mDetached[p]
    BY DEF Marked
  <2>1. CASE p = o
    BY <1>5, <2>1
  <2>2. CASE p = n
    <3>1. clients \ {n} = {} /\ n \in clients
      BY <1>3, <1>4, <2>2 DEF clients
    <3> QED
      BY <1>5, <2>2, <3>1
  <2>3. CASE p # o /\ p # n
    <3>1. m.pHostSet[p] = p /\ m.mpClients[p] = {} /\ m.pSet[p] # Ges
      BY <1>4, <2>3
    <3>2. m.mDetached[p]
      BY <3>1 DEF Tidy, Marked
    <3> QED
      BY <1>5, <2>3, <3>2
  <2> QED
    BY <2>1, <2>2, <2>3
<1> QED
  BY <1>6, <1>7 DEF Tidy

LEMMA PutTidy ==
    ASSUME NEW m, NEW L, Good(m, L), Tidy(m, L), NEW o \in L, m.mDetached[o], NEW x
    PROVE  Tidy(Put(m, o, x), L)
<1> DEFINE hp == Update(m.heap, {m.pSet[o]}, x)
           r == Put(m, o, x)
<1>1. m \in Memory /\ GoodSet(m, L, o)
  BY DEF Good
<1>2. m.pSet[o] = m.mpSet[o] /\ m.mpSet[o] \in Cell
  BY <1>1, NotNull DEF GoodSet
<1>3. r = [m EXCEPT !.heap = hp]
  BY DEF Put
<1>4. \A a \in Cell : a # m.pSet[o] => hp[a] = m.heap[a]
  BY <1>1 DEF Update, Memory
<1> HIDE DEF hp, r
<1>5. /\ r.pHostSet = m.pHostSet /\ r.pSet = m.pSet /\ r.mpSet = m.mpSet
      /\ r.mpClients = m.mpClients /\ r.mDetached = m.mDetached /\ r.heap = hp
  BY <1>1, <1>3 DEF Memory
<1>6. Owned(r, L)
  BY <1>2, <1>4, <1>5 DEF Tidy, Owned
<1>7. Marked(r, L)
  BY <1>5 DEF Tidy, Marked
<1> QED
  BY <1>6, <1>7 DEF Tidy, r

LEMMA DetachedTidy ==
    ASSUME NEW m, NEW L, Good(m, L), Tidy(m, L), NEW o \in L, m.mLocked[o] => Locks(m, L),
           NEW flag, NEW r \in Detach(m, o, flag)
    PROVE  Tidy(r, L)
<1>1. m \in Memory /\ L \subseteq Obj /\ o \in Obj
  BY DEF Good
<1>2. Data(m, o) \in Content
  BY DataType
<1> DEFINE x == CopyOf(Data(m, o), flag)
<1>3. x \in Content
  BY <1>2, CopyType
<1>4. CASE m.mDetached[o]
  <2>1. r = Put(m, o, x)
    BY <1>4 DEF Detach, Put
  <2> QED
    BY <1>4, <2>1, PutTidy
<1>5. CASE ~m.mDetached[o] /\ m.mLocked[o]
  <2>1. PICK n \in m.mpClients[o], c \in FreeCells(m), moved \in Moved(m, o) :
          r = ClientsTakeCopy(m, o, flag, n, c, moved)
    BY <1>5 DEF Detach
  <2>2. Locks(m, L) /\ GoodSet(m, L, o) /\ m.pHostSet[o] = o /\ m.pSet[o] # Ges
    BY <1>5 DEF Good, Locks
  <2>3. /\ m.mpClients[o] \in SUBSET Obj /\ o \notin m.mpClients[o]
        /\ m.pSet[o] \in Cell /\ c \in Cell
    BY <1>1, <2>2 DEF GoodSet, FreeCells
  <2>4. moved \in SUBSET Iter
    <3>1. moved \subseteq UNION {m.mIterators[p] : p \in m.mpClients[o]}
      BY <2>1 DEF Moved
    <3>2. \A p \in m.mpClients[o] : m.mIterators[p] \subseteq Iter
      BY <1>1, <2>3 DEF Memory
    <3> QED
      BY <3>1, <3>2
  <2>5. TakeEffect(m, o, x, n, c, r)
    BY <1>1, <1>2, <2>1, <2>3, <2>4, TakeFields
  <2> HIDE DEF x
  <2> QED
    BY <2>1, <2>2, <2>3, <2>5, TakeTidy
<1>6. CASE ~m.mDetached[o] /\ ~m.mLocked[o]
  <2>1. PICK i \in Independent(m, o), c \in FreeCells(m) : r = OwnCopy(i, o, x, c)
    BY <1>6 DEF Detach
  <2> HIDE DEF x
  <2>2. i \in Memory /\ c \in Cell
    BY <2>1, IndependentIters DEF FreeCells
  <2>3. OwnEffect(i, o, x, c, r) /\ r.mDetached[o]
    BY <1>1, <1>3, <2>1, <2>2, OwnCopyFields
  <2>4. Owned(i, L) /\ Marked(i, L \ {o}) /\ i.mpSet[o] = NULL
    BY <1>6, IndependentTidy
  <2> QED
    BY <1>1, <2>3, <2>4, OwnTidy
<1> QED
  BY <1>4, <1>5, <1>6

LEMMA LockTidy ==
    ASSUME NEW m, NEW L, Good(m, L), Tidy(m, L), NEW o \in L, NEW r \in Lock(m, o)
    PROVE  Tidy(r, L)
<1>1. CASE m.mLocked[o]
  BY <1>1 DEF Lock
<1>2. CASE ~m.mLocked[o]
  <2>1. PICK d \in Detach(m, o, "AttrIncl") : r = [Untrack(d, o) EXCEPT !.mLocked[o] = TRUE]
    BY <1>2 DEF Lock
  <2> DEFINE u == Untrack(d, o)
  <2>2. Tidy(d, L)
    BY <1>2, <2>1, DetachedTidy
  <2>3. d \in Memory /\ o \in Obj
    BY <1>2, <2>1, DetachOK DEF Detached, Good
  <2>4. SameLinks(d, u)
    BY <2>3, UntrackSame
  <2>5. r = [u EXCEPT !.mLocked[o] = TRUE]
    BY <2>1
  <2> HIDE DEF u
  <2>6. SameLinks(u, r)
    BY <2>3, <2>4, <2>5, LockFlagSame DEF SameLinks
  <2> QED
    BY <2>2, <2>4, <2>6, LinksTidy
<1> QED
  BY <1>1, <1>2

LEMMA RelockTidy ==
    ASSUME NEW m, NEW L, Good(m, L), Tidy(m, L), NEW o \in L, NEW r \in Relock(m, o)
    PROVE  Tidy(r, L)
<1> DEFINE v == Invalidate(m, o)
           w == [v EXCEPT !.mLocked[o] = FALSE]
<1>1. m \in Memory /\ o \in Obj
  BY DEF Good
<1>2. SameLinks(m, v)
  BY <1>1, InvalidateSame
<1>3. r \in IF v.mLocked[o] THEN Lock(w, o) ELSE {v}
  BY DEF Relock
<1> HIDE DEF v
<1>4. SameLinks(v, w)
  BY <1>1, <1>2, LockFlagSame DEF SameLinks
<1> HIDE DEF w
<1>5. Tidy(v, L) /\ Good(v, L)
  BY <1>2, LinksTidy, SameGood
<1>6. Tidy(w, L) /\ Good(w, L)
  BY <1>4, <1>5, LinksTidy, SameGood
<1> QED
  BY <1>3, <1>5, <1>6, LockTidy

LEMMA ReleaseTidy ==
    ASSUME NEW m \in Memory, NEW L, L \subseteq Obj, NEW o \in L, Owned(m, L), Marked(m, L \ {o})
    PROVE  Tidy(Release(m, o), L \ {o})
<1> DEFINE hp == Update(m.heap, {m.mpSet[o]}, NULL)
           ms == [m.mpSet EXCEPT ![o] = NULL]
           r == Release(m, o)
<1>1. r = [m EXCEPT !.heap = hp, !.mpSet = ms]
  BY DEF Release
<1>2. \A a \in Cell : hp[a] = IF a = m.mpSet[o] THEN NULL ELSE m.heap[a]
  BY DEF Update, Memory
<1>3. \A p \in L \ {o} : ms[p] = m.mpSet[p]
  BY DEF Memory
<1> HIDE DEF hp, ms, r
<1>4. /\ r.heap = hp /\ r.mpSet = ms /\ r.pHostSet = m.pHostSet /\ r.pSet = m.pSet
      /\ r.mpClients = m.mpClients /\ r.mDetached = m.mDetached
  BY <1>1 DEF Memory
<1>5. Owned(r, L \ {o})
  <2> SUFFICES ASSUME NEW a \in Cell, r.heap[a] # NULL
               PROVE  \E p \in L \ {o} : r.mpSet[p] = a
    BY DEF Owned
  <2>1. a # m.mpSet[o] /\ m.heap[a] # NULL
    BY <1>2, <1>4
  <2>2. PICK p \in L : m.mpSet[p] = a
    BY <2>1 DEF Owned
  <2> QED
    BY <1>3, <1>4, <2>1, <2>2
<1>6. Marked(r, L \ {o})
  BY <1>4 DEF Marked
<1> QED
  BY <1>5, <1>6 DEF Tidy, r

LEMMA ShareTidy ==
    ASSUME NEW m, NEW S, S \subseteq Obj, Tidy(m, S), NEW o \in Obj, o \notin S, NEW p \in S,
           m.pHostSet[p] \in S, NEW L, L = S \cup {o}, NEW r, ShareEffect(m, o, p, r)
    PROVE  Tidy(r, L)
<1> DEFINE h == m.pHostSet[p]
<1>1. Owned(r, L)
  BY DEF ShareEffect, Tidy, Owned
<1>2. Marked(r, L)
  <2> SUFFICES ASSUME NEW q \in L, r.pHostSet[q] = q, r.mpClients[q] = {}, r.pSet[q] # Ges
               PROVE  r.mDetached[q]
    BY DEF Marked
  <2>1. q # o /\ q \in S
    BY DEF ShareEffect
  <2>2. q # h
    BY <2>1 DEF ShareEffect
  <2>3. m.pHostSet[q] = q /\ m.mpClients[q] = {} /\ m.pSet[q] # Ges
    BY <2>1, <2>2 DEF ShareEffect
  <2>4. m.mDetached[q]
    BY <2>1, <2>3 DEF Tidy, Marked
  <2> QED
    BY <2>1, <2>2, <2>4 DEF ShareEffect
<1> QED
  BY <1>1, <1>2 DEF Tidy

LEMMA DoCopyTidy ==
    ASSUME OneTyping, NEW m, NEW L, Good(m, L), Locks(m, L), Tidy(m, L), NEW o \in L, NEW p \in L,
           NEW r \in DoCopy(m, o, p)
    PROVE  Tidy(r, L)
<1>1. CASE o = p \/ m.pHostSet[o] = m.pHostSet[p]
  BY <1>1 DEF DoCopy
<1>2. CASE ~(o = p \/ m.pHostSet[o] = m.pHostSet[p])
  <2>1. PICK i \in Independent(m, o) : \E a \in Assigned(i, o, p) : r \in Relock(a, o)
    BY <1>2 DEF DoCopy
  <2>2. PICK a \in Assigned(i, o, p) : r \in Relock(a, o)
    BY <2>1
  <2> DEFINE S == L \ {o}
             k == Release(i, o)
  <2>3. /\ Good(i, S) /\ i \in Memory
        /\ \A q \in S : i.mpSet[o] # NULL => i.mpSet[q] # i.mpSet[o]
    BY IndependentIters
  <2>4. /\ p \in S /\ o \in Obj /\ p \in Obj /\ o \notin S /\ S \subseteq Obj /\ L = S \cup {o}
        /\ L \subseteq Obj
    BY <1>2 DEF Good
  <2>5. Owned(i, L) /\ Marked(i, L \ {o})
    BY IndependentTidy
  <2>6. Tidy(k, L \ {o})
    BY <2>3, <2>4, <2>5, ReleaseTidy
  <2>7. a = Share(k, o, p)
    BY <2>2, <2>4 DEF Assigned, OneTyping
  <2>8. Good(a, L)
    BY <2>2, <2>3, <2>4, AssignedOK DEF AssignedEffect
  <2> HIDE DEF S
  <2>9. Good(k, S) /\ k.mpSet[o] = NULL
    BY <2>3, <2>4, ReleaseGood
  <2> HIDE DEF k
  <2>10. ShareEffect(k, o, p, a)
    BY <2>4, <2>7, <2>9, ShareGood
  <2>11. k.pHostSet[p] \in S
    BY <2>4, <2>9 DEF Good, GoodSet
  <2>12. Tidy(k, S)
    BY <2>6 DEF S
  <2>13. Tidy(a, L)
    BY <2>4, <2>10, <2>11, <2>12, ShareTidy
  <2> QED
    BY <2>2, <2>8, <2>13, RelockTidy
<1> QED
  BY <1>1, <1>2

LEMMA ConstructTidy ==
    ASSUME NEW m, NEW S, S \subseteq Obj, NEW o \in Obj, o \notin S, Tidy(m, S),
           NEW r, ConstructEffect(m, o, r)
    PROVE  Tidy(r, S) /\ Tidy(r, S \cup {o})
<1>1. Owned(r, S) /\ Owned(r, S \cup {o})
  BY DEF ConstructEffect, Tidy, Owned
<1>2. Marked(r, S)
  <2> SUFFICES ASSUME NEW p \in S, r.pHostSet[p] = p, r.mpClients[p] = {}, r.pSet[p] # Ges
               PROVE  r.mDetached[p]
    BY DEF Marked
  <2>1. m.pHostSet[p] = p /\ m.mpClients[p] = {} /\ m.pSet[p] # Ges
    BY DEF ConstructEffect
  <2>2. m.mDetached[p]
    BY <2>1 DEF Tidy, Marked
  <2> QED
    BY <2>2 DEF ConstructEffect
<1>3. r.pSet[o] = Ges
  BY DEF ConstructEffect
<1>4. Marked(r, S \cup {o})
  BY <1>2, <1>3 DEF Marked
<1> QED
  BY <1>1, <1>2, <1>4 DEF Tidy

LEMMA DissolveTidy ==
    ASSUME NEW m, NEW L, Good(m, L), Tidy(m, L), NEW o \in L, NEW r \in Dissolve(m, o)
    PROVE  Tidy(r, L) /\ Tidy(r, L \ {o})
<1>1. PICK i \in Independent(m, o) : r = Construct(Invalidate(Release(i, o), o), o)
  BY DEF Dissolve
<1> DEFINE S == L \ {o}
           k == Release(i, o)
           v == Invalidate(k, o)
<1>2. /\ Good(i, S) /\ i \in Memory
      /\ \A q \in S : i.mpSet[o] # NULL => i.mpSet[q] # i.mpSet[o]
  BY IndependentIters
<1>3. o \in Obj /\ o \notin S /\ S \subseteq Obj /\ L \subseteq Obj /\ L = S \cup {o}
  BY DEF Good
<1>4. Owned(i, L) /\ Marked(i, L \ {o})
  BY IndependentTidy
<1>5. Tidy(k, L \ {o})
  BY <1>2, <1>3, <1>4, ReleaseTidy
<1> HIDE DEF S
<1>6. Good(k, S)
  BY <1>2, <1>3, ReleaseGood
<1>7. Tidy(k, S)
  BY <1>5 DEF S
<1> HIDE DEF k
<1>8. SameLinks(k, v)
  BY <1>3, <1>6, InvalidateSame DEF Good
<1>9. r = Construct(v, o)
  BY <1>1 DEF k
<1> HIDE DEF v
<1>10. Tidy(v, S) /\ v \in Memory
  BY <1>7, <1>8, LinksTidy DEF SameLinks
<1>11. ConstructEffect(v, o, r)
  BY <1>3, <1>9, <1>10, ConstructFields
<1>12. Tidy(r, S) /\ Tidy(r, S \cup {o})
  BY <1>3, <1>10, <1>11, ConstructTidy
<1> QED
  BY <1>3, <1>12 DEF S

LEMMA TidyNext ==
    ASSUME IInv, OneTyping, Tidy(mem, live), [Next]_vars
    PROVE  Tidy(mem', live')
<1>1. live \subseteq Obj /\ mem \in Memory
  BY DEF IInv, Good
<1>2. CASE UNCHANGED vars
  BY <1>2 DEF vars
<1>3. ASSUME NEW o \in Obj, New(o)
      PROVE  Tidy(mem', live')
  <2>1. o \notin live /\ live' = live \cup {o} /\ mem' = Construct(mem, o)
    BY <1>3 DEF New
  <2>2. ConstructEffect(mem, o, mem')
    BY <1>1, <2>1, ConstructFields
  <2> QED
    BY <1>1, <2>1, <2>2, ConstructTidy
<1>4. ASSUME NEW o \in Obj, Destroy(o)
      PROVE  Tidy(mem', live')
  BY <1>4, DissolveTidy DEF Destroy, IInv
<1>5. ASSUME NEW o \in Obj, NEW p \in Obj, Assign(o, p)
      PROVE  Tidy(mem', live')
  BY <1>5, DoCopyTidy DEF Assign, IInv
<1>6. ASSUME NEW o \in Obj, NEW p \in Obj, CopyWithoutAttributes(o, p)
      PROVE  Tidy(mem', live')
  <2>1. o \in live /\ p \in live /\ live' = live
    BY <1>6 DEF CopyWithoutAttributes
  <2>2. PICK a \in DoCopy(mem, o, p) : mem' \in Detach(a, o, "SetOnly")
    BY <1>6 DEF CopyWithoutAttributes
  <2>3. Tidy(a, live)
    BY <2>1, <2>2, DoCopyTidy DEF IInv
  <2>4. Good(a, live) /\ Locks(a, live)
    BY <2>1, <2>2, DoCopyOK DEF IInv, Becomes
  <2> QED
    BY <2>1, <2>2, <2>3, <2>4, DetachedTidy
<1>7. ASSUME NEW o \in Obj, Clear(o)
      PROVE  Tidy(mem', live')
  <2>1. o \in live /\ live' = live
    BY <1>7 DEF Clear
  <2>2. PICK d \in IF mem.mLocked[o] THEN Detach(mem, o, "SetOnly") ELSE {mem} :
          mem' \in Dissolve(d, o)
    BY <1>7 DEF Clear
  <2>3. Good(d, live) /\ Tidy(d, live)
    <3>1. CASE mem.mLocked[o]
      <4>1. d \in Detach(mem, o, "SetOnly")
        BY <2>2, <3>1
      <4> QED
        BY <2>1, <4>1, DetachOK, DetachedTidy DEF IInv, Detached
    <3>2. CASE ~mem.mLocked[o]
      BY <2>2, <3>2 DEF IInv
    <3> QED
      BY <3>1, <3>2
  <2> QED
    BY <2>1, <2>2, <2>3, DissolveTidy
<1>8. ASSUME NEW o \in Obj, LockSet(o)
      PROVE  Tidy(mem', live')
  BY <1>8, LockTidy DEF LockSet, IInv
<1>9. ASSUME NEW o \in Obj, ClearAttributes(o)
      PROVE  Tidy(mem', live')
  BY <1>9, DetachedTidy DEF ClearAttributes, IInv
<1>10. ASSUME NEW o \in Obj,
              \/ \E p \in Obj : InsertSet(o, p) \/ EraseSet(o, p) \/ RestrictSet(o, p)
              \/ \E e \in Elem : \/ Insert(o, e) \/ Erase(o, e)
                                 \/ \E present \in BOOLEAN : SetAttribute(o, e, present)
       PROVE  Tidy(mem', live')
  <2>1. /\ o \in live /\ live' = live
        /\ \E d \in Detach(mem, o, "AttrIncl") : \E x : mem' = Put(d, o, x)
    BY <1>10 DEF InsertSet, EraseSet, RestrictSet, Insert, Erase, SetAttribute
  <2>2. PICK d \in Detach(mem, o, "AttrIncl") : \E x : mem' = Put(d, o, x)
    BY <2>1
  <2>3. PICK x : mem' = Put(d, o, x)
    BY <2>2
  <2>4. Detached(mem, live, o, d) /\ Tidy(d, live)
    BY <2>1, <2>2, DetachOK, DetachedTidy DEF IInv
  <2>5. Good(d, live) /\ d.mDetached[o]
    BY <2>4 DEF Detached
  <2> QED
    BY <2>1, <2>3, <2>4, <2>5, PutTidy
<1>11. ASSUME NEW i \in Iter, NEW o \in Obj, Find(i, o) \/ Drop(i)
       PROVE  Tidy(mem', live')
  BY <1>11, FindStays, DropStays, LinksTidy DEF Stays
<1> QED
  BY <1>2, <1>3, <1>4, <1>5, <1>6, <1>7, <1>8, <1>9, <1>10, <1>11 DEF Next, Modify

\* Between sets with attributes of one type no container is lost.
THEOREM NoLostDataCorrect == Spec => []NoLostData
<1> DEFINE Inv == OneTyping => Tidy(mem, live)
<1>1. Init => Inv
  BY DEF Init, Tidy, Owned, Marked
<1>2. IInv /\ Inv /\ [Next]_vars => Inv'
  <2> SUFFICES ASSUME IInv, Inv, [Next]_vars, OneTyping'
               PROVE  Tidy(mem', live')
    BY DEF Tidy, Owned, Marked
  <2>1. AttributeType' = AttributeType
    BY DEF Next, Modify, vars, New, Destroy, Assign, CopyWithoutAttributes, Clear, LockSet,
           ClearAttributes, Insert, Erase, InsertSet, EraseSet, RestrictSet, SetAttribute,
           Find, Drop
  <2>2. OneTyping
    BY <2>1 DEF OneTyping
  <2> QED
    BY <2>2, TidyNext
<1>3. Inv => NoLostData
  BY DEF NoLostData, OneTyping, Tidy, Owned
<1> HIDE DEF Inv
<1> QED
  BY Invariant, <1>1, <1>2, <1>3, PTL DEF Spec

\* Containers are deleted when, and only when, nobody owns them any more.
THEOREM DataOwnedCorrect == Spec => []DataOwned
<1>1. NoDanglingData /\ NoLostData => DataOwned
  BY DEF DataOwned
<1> QED
  BY NoDanglingDataCorrect, NoLostDataCorrect, <1>1, PTL
=============================================================================
