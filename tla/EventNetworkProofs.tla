------------------------- MODULE EventNetworkProofs -------------------------
(* Events on their way from one node to another: theorems about Simplenet,  *)
(* for any number of nodes, any failures and any bounds.                    *)
EXTENDS SimplenetProofs, SequenceTheorems, WellFoundedInduction

------------------------------------------------------------------------------
(* The elements of a sequence at some positions, in their order.            *)

Place(I, k) == CHOOSE i \in I : Cardinality({j \in I : j <= i}) = k

\* There is a least natural number in a set that is not empty.
LEMMA LeastNat ==
  ASSUME NEW T, \A x \in T : x \in Nat, T # {}
  PROVE  \E x \in T : \A y \in T : x <= y
<1> DEFINE R == OpToRel(<, Nat)
<1>1. \A x \in Nat, y \in Nat : y < x => <<y, x>> \in R
  BY DEF OpToRel
<1>2. IsWellFoundedOn(R, Nat)
  BY NatLessThanWellFounded
<1> HIDE DEF R
<1>3. PICK x \in T : \A y \in T : ~(<<y, x>> \in R)
  BY <1>2, WFMin
<1>4. ASSUME NEW y \in T PROVE x <= y
  <2>1. x \in Nat /\ y \in Nat
    BY <1>3
  <2>2. ~(y < x)
    BY <1>1, <1>3, <2>1
  <2> QED
    BY <2>1, <2>2
<1> QED
  BY <1>4

\* There is an element at each place, ...
LEMMA PlaceExists ==
  ASSUME NEW n \in Nat, NEW I, \A i \in I : i \in 1..n, NEW k \in 1..Cardinality(I)
  PROVE  /\ Place(I, k) \in I
         /\ Cardinality({j \in I : j <= Place(I, k)}) = k
<1> DEFINE upto(i) == {j \in I : j <= i}
<1> DEFINE T == {i \in 0..n : k <= Cardinality(upto(i))}
<1>0. IsFiniteSet(I) /\ \A i : IsFiniteSet(upto(i)) /\ Cardinality(upto(i)) \in Nat
  <2>1. IsFiniteSet(1..n)
    BY FS_Interval
  <2>2. \A i : upto(i) \in SUBSET (1..n)
    OBVIOUS
  <2> QED
    BY <2>1, <2>2, FS_Subset, FS_CardinalityType
<1>1. n \in T
  <2>1. upto(n) = I
    OBVIOUS
  <2> QED
    BY <1>0, <2>1, FS_CardinalityType
<1>2. 0 \notin T
  <2>1. upto(0) = {}
    OBVIOUS
  <2>2. Cardinality(upto(0)) = 0
    BY <2>1, FS_EmptySet
  <2> QED
    BY <2>2, <1>0, FS_CardinalityType
<1>3. PICK i \in T : \A t \in T : i <= t
  <2>1. \A t \in T : t \in Nat
    OBVIOUS
  <2> HIDE DEF T
  <2> QED
    BY <1>1, <2>1, LeastNat
<1>4. i \in 1..n /\ i - 1 \notin T /\ k <= Cardinality(upto(i))
  BY <1>2, <1>3
<1>5. Cardinality(upto(i - 1)) < k
  <2>1. i - 1 \in 0..n
    BY <1>4
  <2>2. Cardinality(upto(i - 1)) \in Nat
    BY <1>0
  <2>3. k \in Int
    OBVIOUS
  <2> HIDE DEF upto
  <2> QED
    BY <1>4, <2>1, <2>2, <2>3
<1>6. upto(i) \ {i} = upto(i - 1)
  BY <1>4
<1>7. Cardinality(upto(i - 1)) = IF i \in upto(i) THEN Cardinality(upto(i)) - 1 ELSE Cardinality(upto(i))
  <2>1. IsFiniteSet(upto(i))
    BY <1>0
  <2> HIDE DEF upto
  <2> QED
    BY <1>6, <2>1, FS_RemoveElement
<1> HIDE DEF upto
<1>8. i \in upto(i) /\ Cardinality(upto(i)) = k
  <2>1. Cardinality(upto(i)) \in Nat /\ k \in Nat
    BY <1>0, FS_CardinalityType
  <2> QED
    BY <1>4, <1>5, <1>7, <2>1
<1>9. i \in I /\ Cardinality({j \in I : j <= i}) = k
  BY <1>8 DEF upto
<1> QED
  BY <1>9 DEF Place

\* ... and later places have greater elements.
LEMMA PlaceMonotonic ==
  ASSUME NEW n \in Nat, NEW I, \A i \in I : i \in 1..n,
         NEW k \in 1..Cardinality(I), NEW l \in 1..Cardinality(I), k < l
  PROVE  Place(I, k) < Place(I, l)
<1> DEFINE upto(i) == {j \in I : j <= i}
<1>1. /\ Place(I, k) \in I /\ Cardinality(upto(Place(I, k))) = k
      /\ Place(I, l) \in I /\ Cardinality(upto(Place(I, l))) = l
  BY PlaceExists
<1>2. SUFFICES ASSUME Place(I, l) <= Place(I, k) PROVE FALSE
  BY <1>1
<1>3. upto(Place(I, l)) \in SUBSET upto(Place(I, k))
  BY <1>1, <1>2
<1>4. IsFiniteSet(upto(Place(I, k)))
  <2>1. IsFiniteSet(1..n)
    BY FS_Interval
  <2>2. upto(Place(I, k)) \in SUBSET (1..n)
    OBVIOUS
  <2> QED
    BY <2>1, <2>2, FS_Subset
<1>5. l <= k
  BY <1>1, <1>3, <1>4, FS_Subset
<1>6. IsFiniteSet(I) /\ Cardinality(I) \in Nat
  <2>1. IsFiniteSet(1..n)
    BY FS_Interval
  <2> QED
    BY <2>1, FS_Subset, FS_CardinalityType
<1> QED
  BY <1>5, <1>6

\* So a subsequence has elements of the sequence only, in their order.
LEMMA SubsequenceOrder ==
  ASSUME NEW S, NEW s \in Seq(S), NEW I, \A i \in I : i \in 1..Len(s)
  PROVE  /\ Subsequence(s, I) \in Seq(S)
         /\ \A k \in 1..Len(Subsequence(s, I)) :
               Place(I, k) \in I /\ Subsequence(s, I)[k] = s[Place(I, k)]
         /\ \A k, l \in 1..Len(Subsequence(s, I)) : k < l => Place(I, k) < Place(I, l)
<1>1. Cardinality(I) \in Nat
  <2>1. IsFiniteSet(1..Len(s))
    BY FS_Interval
  <2>2. I \in SUBSET (1..Len(s))
    OBVIOUS
  <2> QED
    BY <2>1, <2>2, FS_Subset, FS_CardinalityType
<1>2. Subsequence(s, I) = [k \in 1..Cardinality(I) |-> s[Place(I, k)]]
  BY DEF Subsequence, Place
<1>3. \A k \in 1..Cardinality(I) : Place(I, k) \in I /\ s[Place(I, k)] \in S
  <2>1. Len(s) \in Nat /\ \A i \in I : s[i] \in S
    OBVIOUS
  <2>2. \A k \in 1..Cardinality(I) : Place(I, k) \in I
    BY <2>1, PlaceExists
  <2> QED
    BY <2>1, <2>2
<1>4. Subsequence(s, I) \in Seq(S) /\ Len(Subsequence(s, I)) = Cardinality(I)
  BY <1>1, <1>2, <1>3
<1>5. \A k, l \in 1..Cardinality(I) : k < l => Place(I, k) < Place(I, l)
  BY PlaceMonotonic
<1> QED
  BY <1>2, <1>3, <1>4, <1>5

------------------------------------------------------------------------------
(* The events among messages have numbers above a and up to b, in order.    *)
Rising(s, a, b) ==
    \A i \in 1..Len(s) : s[i].type \in Event =>
        /\ a < s[i].no /\ s[i].no <= b
        /\ \A j \in 1..(i - 1) : s[j].type \in Event => s[j].no < s[i].no

LEMMA MessageFields ==
  /\ \A x \in ToClientMsg : x.no \in 0..MaxWrite /\ x.no \in Int
  /\ MaxWrite \in Nat
BY BoundAssumption DEF ToClientMsg

\* Messages that are lost at the end do no harm, nor do events that are written later.
LEMMA RisingPrefix ==
  ASSUME NEW s \in Seq(ToClientMsg), NEW a \in Int, NEW b \in Int, Rising(s, a, b),
         NEW t \in Seq(ToClientMsg), Len(t) <= Len(s), \A i \in 1..Len(t) : t[i] = s[i],
         NEW c \in Int, b <= c
  PROVE  Rising(t, a, c)
<1> SUFFICES ASSUME NEW i \in 1..Len(t), t[i].type \in Event
             PROVE  /\ a < t[i].no /\ t[i].no <= c
                    /\ \A j \in 1..(i - 1) : t[j].type \in Event => t[j].no < t[i].no
  BY DEF Rising
<1>1. i \in 1..Len(s) /\ t[i] = s[i] /\ s[i] \in ToClientMsg
  OBVIOUS
<1>2. a < s[i].no /\ s[i].no <= b /\ s[i].no \in Int
  BY <1>1, MessageFields DEF Rising
<1>3. \A j \in 1..(i - 1) : j \in 1..Len(t) /\ t[j] = s[j]
  OBVIOUS
<1> QED
  BY <1>1, <1>2, <1>3 DEF Rising

\* What is sent comes last: another message, or the next event.
LEMMA RisingAppend ==
  ASSUME NEW s \in Seq(ToClientMsg), NEW a \in Int, NEW b \in Int, Rising(s, a, b),
         NEW x \in ToClientMsg, NEW c \in Int, b <= c,
         x.type \in Event => a < x.no /\ b < x.no /\ x.no <= c
  PROVE  Rising(Append(s, x), a, c)
<1> SUFFICES ASSUME NEW i \in 1..Len(Append(s, x)), Append(s, x)[i].type \in Event
             PROVE  /\ a < Append(s, x)[i].no /\ Append(s, x)[i].no <= c
                    /\ \A j \in 1..(i - 1) : Append(s, x)[j].type \in Event =>
                            Append(s, x)[j].no < Append(s, x)[i].no
  BY DEF Rising
<1>1. /\ Len(Append(s, x)) = Len(s) + 1 /\ Append(s, x)[Len(s) + 1] = x
      /\ \A j \in 1..Len(s) : Append(s, x)[j] = s[j]
  OBVIOUS
<1>2. \A j \in 1..Len(s) : s[j].no \in Int
  BY MessageFields
<1>3. CASE i \in 1..Len(s)
  <2>1. a < s[i].no /\ s[i].no <= b
    BY <1>1, <1>3 DEF Rising
  <2>2. \A j \in 1..(i - 1) : j \in 1..Len(s)
    BY <1>3
  <2> QED
    BY <1>1, <1>2, <1>3, <2>1, <2>2 DEF Rising
<1>4. CASE i = Len(s) + 1
  <2>1. x.no \in Int
    BY MessageFields
  <2>2. \A j \in 1..Len(s) : s[j].type \in Event => s[j].no <= b
    BY DEF Rising
  <2> QED
    BY <1>1, <1>2, <1>4, <2>1, <2>2
<1> QED
  BY <1>1, <1>3, <1>4

\* After q messages have been received, the rest has numbers above all that were in
\* them.
LEMMA RisingRest ==
  ASSUME NEW s \in Seq(ToClientMsg), NEW a \in Int, NEW b \in Int, Rising(s, a, b),
         NEW q \in 0..Len(s), NEW t \in Seq(ToClientMsg), Len(t) = Len(s) - q,
         \A i \in 1..Len(t) : t[i] = s[q + i],
         NEW h, h = a \/ \E p \in 1..q : s[p].type \in Event /\ h = s[p].no
  PROVE  Rising(t, h, b)
<1> SUFFICES ASSUME NEW i \in 1..Len(t), t[i].type \in Event
             PROVE  /\ h < t[i].no /\ t[i].no <= b
                    /\ \A j \in 1..(i - 1) : t[j].type \in Event => t[j].no < t[i].no
  BY DEF Rising
<1>1. q + i \in 1..Len(s) /\ t[i] = s[q + i]
  OBVIOUS
<1>2. /\ a < s[q + i].no /\ s[q + i].no <= b
      /\ \A j \in 1..(q + i - 1) : s[j].type \in Event => s[j].no < s[q + i].no
  BY <1>1 DEF Rising
<1>3. h < s[q + i].no
  BY <1>1, <1>2
<1>4. \A j \in 1..(i - 1) : q + j \in 1..(q + i - 1) /\ t[j] = s[q + j]
  OBVIOUS
<1> QED
  BY <1>1, <1>2, <1>3, <1>4

------------------------------------------------------------------------------
(* The inductive invariant. Events of m arrive at n with rising numbers,    *)
(* above that of the last one that n has buffered and up to the last one    *)
(* that m has written; those in the buffer rise up to the last one buffered. *)
(* A connection that has not been made yet carries nothing.                 *)
Heard(n, m) ==
    /\ heard[n][m] <= written[m]
    /\ Rising(Arriving(n, m), heard[n][m], written[m])

Buffered(s, h) ==
    \A i \in 1..Len(s) :
        /\ s[i][2] <= h[s[i][1]]
        /\ \A j \in 1..(i - 1) : s[j][1] = s[i][1] => s[j][2] < s[i][2]

Buffer(n) == Buffered(pInputBuffer[n], heard[n])

Unmade == \A c \in Conn : c[3] > made[Client(c)][Server(c)] => toClient[c] = <<>>

OrderInv == \A n \in Node : Buffer(n) /\ \A m \in Node : Heard(n, m)

EventInv == TypeOK /\ Unmade /\ OrderInv

\* A socket in use is a connection.
LEMMA SocketConn ==
  NetworkTypeOK =>
    \A n, m \in Node : mServerSocket[n][m] # 0 => Socket(n, m) \in Conn
<1> SUFFICES ASSUME NetworkTypeOK, NEW n \in Node, NEW m \in Node, mServerSocket[n][m] # 0
             PROVE  Socket(n, m) \in Conn
  OBVIOUS
<1>1. mServerSocket[n][n] = 0 /\ mServerSocket[n][m] \in 0..MaxConn
  BY DEF NetworkTypeOK
<1>2. n # m /\ mServerSocket[n][m] \in 1..MaxConn
  BY <1>1, BoundAssumption
<1> QED
  BY <1>2, Triple DEF Socket

ArrivingTyped(n, m) ==
    /\ mLineBuffer[n][m] \in Seq(ToClientMsg)
    /\ mServerSocket[n][m] # 0 => toClient[Socket(n, m)] \in Seq(ToClientMsg)
    /\ Arriving(n, m) \in Seq(ToClientMsg)

AllTyped == \A n, m \in Node : ArrivingTyped(n, m)

LEMMA ArrivingType == NetworkTypeOK => AllTyped
<1> SUFFICES ASSUME NetworkTypeOK, NEW n \in Node, NEW m \in Node PROVE ArrivingTyped(n, m)
  BY DEF AllTyped
<1>1. mLineBuffer[n][m] \in Seq(ToClientMsg)
  BY DEF NetworkTypeOK
<1>2. mServerSocket[n][m] # 0 => toClient[Socket(n, m)] \in Seq(ToClientMsg)
  BY SocketConn DEF NetworkTypeOK
<1>3. <<>> \in Seq(ToClientMsg)
  OBVIOUS
<1>4. Arriving(n, m) \in Seq(ToClientMsg)
  BY <1>1, <1>2, <1>3, ConcatProperties DEF Arriving
<1> QED
  BY <1>1, <1>2, <1>4 DEF ArrivingTyped

\* Nothing new arrives at n from m.
Fewer(n, m) ==
    \/ mLineBuffer'[n][m] = <<>> /\ mServerSocket'[n][m] = 0
    \/ /\ mLineBuffer'[n][m] = mLineBuffer[n][m]
       /\ \/ mServerSocket'[n][m] = 0
          \/ toClient'[Socket(n, m)'] = <<>>
          \/ /\ mServerSocket'[n][m] = mServerSocket[n][m]
             /\ toClient'[Socket(n, m)] = toClient[Socket(n, m)]

LEMMA FewerKeeps ==
  ASSUME TypeOK, NetworkTypeOK', NEW n \in Node, NEW m \in Node, Heard(n, m), Fewer(n, m),
         heard'[n][m] = heard[n][m], written'[m] \in Int, written[m] <= written'[m]
  PROVE  Heard(n, m)'
<1>1. /\ Arriving(n, m) \in Seq(ToClientMsg) /\ Arriving(n, m)' \in Seq(ToClientMsg)
      /\ mLineBuffer[n][m] \in Seq(ToClientMsg)
      /\ mServerSocket[n][m] # 0 => toClient[Socket(n, m)] \in Seq(ToClientMsg)
  <2>1. NetworkTypeOK
    BY DEF TypeOK
  <2>2. (NetworkTypeOK => AllTyped)'
    BY ArrivingType, PTL
  <2> QED
    BY <2>1, <2>2, ArrivingType DEF AllTyped, ArrivingTyped
<1>2. heard[n][m] \in Int /\ written[m] \in Int
  BY DEF TypeOK, NetworkTypeOK
<1>3. /\ Len(Arriving(n, m)') <= Len(Arriving(n, m))
      /\ \A i \in 1..Len(Arriving(n, m)') : Arriving(n, m)'[i] = Arriving(n, m)[i]
  <2>1. CASE mLineBuffer'[n][m] = <<>> /\ mServerSocket'[n][m] = 0
    <3>1. Arriving(n, m)' = <<>>
      BY <2>1, ConcatEmptySeq DEF Arriving
    <3> QED
      BY <1>1, <3>1
  <2>2. CASE /\ mLineBuffer'[n][m] = mLineBuffer[n][m]
             /\ mServerSocket'[n][m] = 0 \/ toClient'[Socket(n, m)'] = <<>>
    <3>1. Arriving(n, m)' = mLineBuffer[n][m] \o <<>>
      BY <2>2 DEF Arriving
    <3>2. Arriving(n, m)' = mLineBuffer[n][m]
      BY <1>1, <3>1, ConcatEmptySeq
    <3>3. PICK t \in Seq(ToClientMsg) : Arriving(n, m) = mLineBuffer[n][m] \o t
      <4>1. CASE mServerSocket[n][m] = 0
        BY <4>1, EmptySeq DEF Arriving
      <4>2. CASE mServerSocket[n][m] # 0
        BY <1>1, <4>2 DEF Arriving
      <4> QED
        BY <4>1, <4>2
    <3> QED
      BY <1>1, <3>2, <3>3, ConcatProperties
  <2>3. CASE /\ mLineBuffer'[n][m] = mLineBuffer[n][m]
             /\ mServerSocket'[n][m] = mServerSocket[n][m]
             /\ toClient'[Socket(n, m)] = toClient[Socket(n, m)]
    <3>1. Arriving(n, m)' = Arriving(n, m)
      BY <2>3 DEF Arriving, Socket
    <3> QED
      BY <1>1, <3>1
  <2> QED
    BY <2>1, <2>2, <2>3 DEF Fewer
<1>4. Rising(Arriving(n, m)', heard[n][m], written'[m])
  BY <1>1, <1>2, <1>3, RisingPrefix DEF Heard
<1> QED
  BY <1>2, <1>4 DEF Heard, Rising

\* What is appended to the second part comes last.
LEMMA ConcatAppend ==
  ASSUME NEW M, NEW s \in Seq(M), NEW t \in Seq(M), NEW x \in M
  PROVE  s \o Append(t, x) = Append(s \o t, x)
OBVIOUS

\* A message is added to what arrives.
LEMMA SentKeeps ==
  ASSUME TypeOK, NEW n \in Node, NEW m \in Node, Heard(n, m),
         mServerSocket[n][m] # 0, mServerSocket'[n][m] = mServerSocket[n][m],
         mLineBuffer'[n][m] = mLineBuffer[n][m],
         NEW x \in ToClientMsg, toClient'[Socket(n, m)] = Append(toClient[Socket(n, m)], x),
         heard' = heard, written'[m] \in Int, written[m] <= written'[m],
         x.type \in Event => x.no = written'[m] /\ written[m] < x.no
  PROVE  Heard(n, m)'
<1>1. /\ Arriving(n, m) \in Seq(ToClientMsg) /\ mLineBuffer[n][m] \in Seq(ToClientMsg)
      /\ toClient[Socket(n, m)] \in Seq(ToClientMsg)
  BY ArrivingType DEF TypeOK, AllTyped, ArrivingTyped
<1>2. heard[n][m] \in Int /\ written[m] \in Int
  BY DEF TypeOK, NetworkTypeOK
<1>3. Arriving(n, m)' = Append(Arriving(n, m), x)
  <2>1. Socket(n, m)' = Socket(n, m)
    BY DEF Socket
  <2>2. Arriving(n, m)' = mLineBuffer[n][m] \o Append(toClient[Socket(n, m)], x)
    BY <2>1 DEF Arriving
  <2>3. Arriving(n, m) = mLineBuffer[n][m] \o toClient[Socket(n, m)]
    BY DEF Arriving
  <2>4. \A s, t \in Seq(ToClientMsg) : s \o Append(t, x) = Append(s \o t, x)
    BY ConcatAppend
  <2>5. mLineBuffer[n][m] \o Append(toClient[Socket(n, m)], x)
            = Append(mLineBuffer[n][m] \o toClient[Socket(n, m)], x)
    BY <1>1, <2>4
  <2> QED
    BY <2>2, <2>3, <2>5
<1>4. Rising(Append(Arriving(n, m), x), heard[n][m], written'[m])
  <2>1. x.type \in Event => heard[n][m] < x.no /\ written[m] < x.no /\ x.no <= written'[m]
    BY <1>2 DEF Heard
  <2> QED
    BY <1>1, <1>2, <2>1, RisingAppend DEF Heard
<1> QED
  BY <1>2, <1>3, <1>4 DEF Heard, Rising

Sent(n, m) ==
    /\ mServerSocket[n][m] # 0 /\ mServerSocket'[n][m] = mServerSocket[n][m]
    /\ mLineBuffer'[n][m] = mLineBuffer[n][m]
    /\ \E x \in ToClientMsg :
        /\ toClient'[Socket(n, m)] = Append(toClient[Socket(n, m)], x)
        /\ x.type \in Event => x.no = written'[m] /\ written[m] < x.no

\* Events are taken off the front of a buffer, or all of them.
Taken ==
    \/ pInputBuffer' = pInputBuffer
    \/ \E n \in Node : pInputBuffer' = [pInputBuffer EXCEPT ![n] = <<>>]
    \/ \E n \in Node : /\ pInputBuffer[n] # <<>>
                       /\ pInputBuffer' = [pInputBuffer EXCEPT ![n] = Tail(@)]

LEMMA TakenKeeps ==
  ASSUME TypeOK, Taken, heard' = heard, \A n \in Node : Buffer(n)
  PROVE  /\ pInputBuffer' \in [Node -> Seq(Node \X (1..MaxWrite))]
         /\ \A n \in Node : Buffer(n)'
<1> DEFINE Entry == Node \X (1..MaxWrite)
<1>0. pInputBuffer \in [Node -> Seq(Entry)]
  BY DEF TypeOK
<1> HIDE DEF Entry
<1>1. ASSUME NEW n \in Node, pInputBuffer'[n] = pInputBuffer[n] PROVE Buffer(n)'
  BY <1>1 DEF Buffer, Buffered
<1>2. CASE pInputBuffer' = pInputBuffer
  BY <1>0, <1>1, <1>2 DEF Entry
<1>3. ASSUME NEW n \in Node, pInputBuffer' = [pInputBuffer EXCEPT ![n] = <<>>]
      PROVE  /\ pInputBuffer' \in [Node -> Seq(Entry)]
             /\ \A k \in Node : Buffer(k)'
  <2>1. <<>> \in Seq(Entry) /\ Len(<<>>) = 0
    BY EmptySeq
  <2>2. pInputBuffer' \in [Node -> Seq(Entry)]
    BY <1>0, <1>3, <2>1
  <2>3. pInputBuffer'[n] = <<>> /\ \A k \in Node : k # n => pInputBuffer'[k] = pInputBuffer[k]
    BY <1>0, <1>3
  <2>4. Buffer(n)'
    BY <2>1, <2>3 DEF Buffer, Buffered
  <2> QED
    BY <1>1, <2>2, <2>3, <2>4
<1>4. ASSUME NEW n \in Node, pInputBuffer[n] # <<>>,
             pInputBuffer' = [pInputBuffer EXCEPT ![n] = Tail(@)]
      PROVE  /\ pInputBuffer' \in [Node -> Seq(Entry)]
             /\ \A k \in Node : Buffer(k)'
  <2>0. pInputBuffer[n] \in Seq(Entry)
    BY <1>0
  <2> DEFINE s == pInputBuffer[n]
  <2>1. /\ Tail(s) \in Seq(Entry) /\ Len(Tail(s)) = Len(s) - 1 /\ Len(s) \in Nat
        /\ \A i \in 1..Len(Tail(s)) : Tail(s)[i] = s[i + 1]
    BY <1>4, <2>0, HeadTailProperties, LenProperties
  <2>2. pInputBuffer' \in [Node -> Seq(Entry)]
    BY <1>0, <1>4, <2>1
  <2>3. pInputBuffer'[n] = Tail(s) /\ \A k \in Node : k # n => pInputBuffer'[k] = pInputBuffer[k]
    BY <1>0, <1>4
  <2>4. Buffer(n)'
    <3>1. \A i \in 1..Len(s) :
            /\ s[i][2] <= heard[n][s[i][1]]
            /\ \A j \in 1..(i - 1) : s[j][1] = s[i][1] => s[j][2] < s[i][2]
      BY DEF Buffer, Buffered
    <3> HIDE DEF s
    <3>2. \A i \in 1..Len(Tail(s)) :
            /\ Tail(s)[i][2] <= heard[n][Tail(s)[i][1]]
            /\ \A j \in 1..(i - 1) : Tail(s)[j][1] = Tail(s)[i][1] => Tail(s)[j][2] < Tail(s)[i][2]
      <4> SUFFICES ASSUME NEW i \in 1..Len(Tail(s))
                   PROVE  /\ Tail(s)[i][2] <= heard[n][Tail(s)[i][1]]
                          /\ \A j \in 1..(i - 1) : Tail(s)[j][1] = Tail(s)[i][1] =>
                                                    Tail(s)[j][2] < Tail(s)[i][2]
        OBVIOUS
      <4>1. i + 1 \in 1..Len(s) /\ Tail(s)[i] = s[i + 1]
        BY <2>1
      <4>2. \A j \in 1..(i - 1) : j + 1 \in 1..i /\ Tail(s)[j] = s[j + 1]
        BY <2>1
      <4> QED
        BY <3>1, <4>1, <4>2
    <3> QED
      BY <2>3, <3>2 DEF Buffer, Buffered
  <2> QED
    BY <1>1, <2>2, <2>3, <2>4
<1> QED
  BY <1>2, <1>3, <1>4 DEF Taken, Entry

\* All steps but those that receive events keep the invariant if channels change in
\* one of the two ways.
LEMMA StepKeeps ==
  ASSUME TypeOK, OrderInv, NetworkTypeOK', heard' = heard, Taken,
         \A m \in Node : written[m] <= written'[m],
         \A n, m \in Node : Fewer(n, m) \/ Sent(n, m)
  PROVE  TypeOK' /\ OrderInv'
<1>1. TypeOK'
  BY TakenKeeps DEF TypeOK, OrderInv
<1>2. ASSUME NEW n \in Node, NEW m \in Node PROVE Heard(n, m)'
  <2>1. Heard(n, m) /\ written'[m] \in Int /\ written[m] <= written'[m]
    BY DEF OrderInv, NetworkTypeOK
  <2>2. CASE Fewer(n, m)
    BY <2>1, <2>2, FewerKeeps
  <2>3. CASE Sent(n, m)
    BY <2>1, <2>3, SentKeeps DEF Sent
  <2> QED
    BY <2>2, <2>3
<1> QED
  BY <1>1, <1>2, TakenKeeps DEF OrderInv

------------------------------------------------------------------------------
(* No step but the handler of a server socket adds an event to a buffer.    *)

\* Only what is accepted or waits to be gets messages, which has been made before.
LEMMA UnmadeKept ==
  ASSUME NetworkTypeOK, Unmade, made' \in [Node -> [Node -> 0..MaxConn]],
         \A n, m \in Node : made[n][m] <= made'[n][m],
         \A c \in Conn : \/ toClient'[c] = toClient[c] \/ toClient'[c] = <<>>
                         \/ toClient[c] # <<>>
                         \/ c[3] <= made[Client(c)][Server(c)]
  PROVE  Unmade'
<1> SUFFICES ASSUME NEW c \in Conn, c[3] > made'[Client(c)][Server(c)]
             PROVE  toClient'[c] = <<>>
  BY DEF Unmade, Client, Server
<1>1. /\ c[3] \in Int /\ made[Client(c)][Server(c)] \in Int /\ made'[Client(c)][Server(c)] \in Int
      /\ made[Client(c)][Server(c)] <= made'[Client(c)][Server(c)]
  BY ConnType, BoundAssumption DEF NetworkTypeOK
<1>2. ~(c[3] <= made[Client(c)][Server(c)]) /\ c[3] > made[Client(c)][Server(c)]
  BY <1>1
<1>3. toClient[c] = <<>>
  BY <1>2 DEF Unmade
<1> QED
  BY <1>2, <1>3

\* Steps that leave all connections to clients alone
LEMMA QuietKeeps ==
  ASSUME EventInv, NetworkTypeOK', Taken,
         UNCHANGED <<mServerSocket, mLineBuffer, toClient, made, heard, written>>
  PROVE  EventInv'
<1>1. \A n, m \in Node : Fewer(n, m)
  BY DEF Fewer
<1>2. \A m \in Node : written[m] <= written'[m]
  BY DEF EventInv, TypeOK, NetworkTypeOK
<1>3. TypeOK' /\ OrderInv'
  BY <1>1, <1>2, StepKeeps DEF EventInv
<1>4. Unmade'
  BY DEF EventInv, Unmade, Client, Server
<1> QED
  BY <1>3, <1>4 DEF EventInv

\* Steps that close client ends
LEMMA CloseKeeps ==
  ASSUME EventInv, NetworkTypeOK', Taken, NEW C, toClient' = Emptied(toClient, C),
         UNCHANGED <<mLineBuffer, made, heard, written>>,
         \A n, m \in Node : mServerSocket'[n][m] = mServerSocket[n][m] \/ mServerSocket'[n][m] = 0
  PROVE  EventInv'
<1>1. ASSUME NEW n \in Node, NEW m \in Node PROVE Fewer(n, m)
  <2>1. CASE mServerSocket'[n][m] = 0
    BY <2>1 DEF Fewer
  <2>2. CASE mServerSocket'[n][m] # 0
    <3>1. mServerSocket'[n][m] = mServerSocket[n][m]
      BY <2>2
    <3>2. Socket(n, m) \in Conn /\ Socket(n, m)' = Socket(n, m)
      BY <2>2, <3>1, SocketConn DEF EventInv, TypeOK, Socket
    <3>3. toClient'[Socket(n, m)] = <<>> \/ toClient'[Socket(n, m)] = toClient[Socket(n, m)]
      BY <3>2 DEF Emptied
    <3> QED
      BY <3>1, <3>2, <3>3 DEF Fewer
  <2> QED
    BY <2>1, <2>2
<1>2. \A m \in Node : written[m] <= written'[m]
  BY DEF EventInv, TypeOK, NetworkTypeOK
<1>3. TypeOK' /\ OrderInv'
  BY <1>1, <1>2, StepKeeps DEF EventInv
<1>4. Unmade'
  <2>1. \A c \in Conn : toClient'[c] = toClient[c] \/ toClient'[c] = <<>>
    BY DEF Emptied
  <2> QED
    BY <2>1 DEF EventInv, Unmade, Client, Server
<1> QED
  BY <1>3, <1>4 DEF EventInv

\* Steps that send to clients
LEMMA SendKeeps ==
  ASSUME EventInv, NetworkTypeOK', SubscribeInv, NEW C \in SUBSET (clients \cup backlog),
         NEW x \in ToClientMsg, SendToClient(C, x),
         UNCHANGED <<mServerSocket, mLineBuffer, made, heard, pInputBuffer>>,
         \A m \in Node : written[m] <= written'[m],
         \A c \in C : x.type \in Event => x.no = written'[Server(c)] /\ written[Server(c)] < x.no
  PROVE  EventInv'
<1>1. ASSUME NEW n \in Node, NEW m \in Node PROVE Fewer(n, m) \/ Sent(n, m)
  <2>1. CASE mServerSocket'[n][m] = 0
    BY <2>1 DEF Fewer
  <2>2. CASE mServerSocket'[n][m] # 0
    <3>1. Socket(n, m) \in Conn /\ Server(Socket(n, m)) = m /\ Socket(n, m)' = Socket(n, m)
      BY <2>2, SocketConn DEF EventInv, TypeOK, Socket, Server
    <3>2. CASE Socket(n, m) \in C \cap clientEnd'
      <4>1. toClient'[Socket(n, m)] = Append(toClient[Socket(n, m)], x)
        BY <3>1, <3>2 DEF SendToClient, Send
      <4>2. x.type \in Event => x.no = written'[m] /\ written[m] < x.no
        BY <3>1, <3>2
      <4> QED
        BY <2>2, <4>1, <4>2 DEF Sent
    <3>3. CASE Socket(n, m) \notin C \cap clientEnd'
      BY <3>1, <3>3 DEF SendToClient, Send, Fewer
    <3> QED
      BY <3>2, <3>3
  <2> QED
    BY <2>1, <2>2
<1>2. TypeOK' /\ OrderInv'
  BY <1>1, StepKeeps DEF EventInv, Taken
<1>3. Unmade'
  <2>1. \A c \in Conn : toClient'[c] = toClient[c] \/ c[3] <= made[Client(c)][Server(c)]
    BY DEF SubscribeInv, SendToClient, Send
  <2>2. made \in [Node -> [Node -> 0..MaxConn]] /\ made' = made
    BY DEF EventInv, TypeOK, NetworkTypeOK
  <2>3. \A n, m \in Node : made[n][m] <= made'[n][m]
    BY <2>2, BoundAssumption
  <2> QED
    BY <2>1, <2>2, <2>3, UnmadeKept DEF EventInv, TypeOK
<1> QED
  BY <1>2, <1>3 DEF EventInv

\* A new connection carries nothing yet.
LEMMA ConnectOrder ==
  ASSUME EventInv, NetworkTypeOK', NEW n \in Node, NEW m \in Node, Connect(n, m)
  PROVE  EventInv'
<1>0. UNCHANGED <<mLineBuffer, toClient, heard, written, pInputBuffer>>
  BY DEF Connect, history
<1>1. CASE ~ Listening(m)
  <2>1. UNCHANGED <<mServerSocket, made>>
    BY <1>1 DEF Connect
  <2> QED
    BY <1>0, <2>1, QuietKeeps DEF Taken
<1>2. CASE Listening(m)
  <2> DEFINE k == made[n][m] + 1
  <2>1. /\ k <= MaxConn /\ made' = [made EXCEPT ![n][m] = k]
        /\ mServerSocket' = [mServerSocket EXCEPT ![n][m] = k]
    BY <1>2 DEF Connect
  <2>2. /\ made \in [Node -> [Node -> 0..MaxConn]] /\ made' \in [Node -> [Node -> 0..MaxConn]]
        /\ mServerSocket \in [Node -> [Node -> 0..MaxConn]]
    BY DEF EventInv, TypeOK, NetworkTypeOK
  <2>3. n # m
    BY DEF Connect, EventInv, TypeOK, NetworkTypeOK
  <2>4. k \in 1..MaxConn
    BY <2>1, <2>2, BoundAssumption
  <2>5. /\ <<n, m, k>> \in Conn /\ Client(<<n, m, k>>) = n /\ Server(<<n, m, k>>) = m
    BY <2>3, <2>4, Triple DEF Client, Server
  <2>6. toClient[<<n, m, k>>] = <<>>
    <3>1. made[n][m] < k
      BY <2>2, BoundAssumption
    <3>2. <<n, m, k>>[3] = k
      OBVIOUS
    <3> HIDE DEF k
    <3> QED
      BY <2>5, <3>1, <3>2 DEF EventInv, Unmade
  <2>7. ASSUME NEW p \in Node, NEW q \in Node PROVE Fewer(p, q)
    <3>1. CASE p = n /\ q = m
      <4>1. Socket(n, m)' = <<n, m, k>>
        BY <2>1, <2>2 DEF Socket
      <4> QED
        BY <1>0, <2>6, <3>1, <4>1 DEF Fewer
    <3>2. CASE ~(p = n /\ q = m)
      <4>1. mServerSocket'[p][q] = mServerSocket[p][q]
        BY <2>1, <2>2, <3>2
      <4> QED
        BY <1>0, <4>1 DEF Fewer
    <3> QED
      BY <3>1, <3>2
  <2>8. \A q \in Node : written[q] <= written'[q]
    BY <1>0 DEF EventInv, TypeOK, NetworkTypeOK
  <2>9. TypeOK' /\ OrderInv'
    BY <1>0, <2>7, <2>8, StepKeeps DEF EventInv, Taken
  <2>10. \A p, q \in Node : made[p][q] <= made'[p][q]
    BY <2>1, <2>2, BoundAssumption
  <2>11. Unmade'
    BY <1>0, <2>2, <2>10, UnmadeKept DEF EventInv, TypeOK
  <2> QED
    BY <2>9, <2>11 DEF EventInv
<1> QED
  BY <1>1, <1>2

\* A process that ends takes its buffers with it, and may cut a notification.
LEMMA CrashOrder ==
  ASSUME EventInv, NetworkTypeOK', SubscribeInv, NEW n \in Node, Crash(n)
  PROVE  EventInv'
<1>1. /\ mServerSocket' = [mServerSocket EXCEPT ![n] = [m \in Node |-> 0]]
      /\ mLineBuffer' = [mLineBuffer EXCEPT ![n] = [m \in Node |-> <<>>]]
      /\ pInputBuffer' = [pInputBuffer EXCEPT ![n] = <<>>]
      /\ UNCHANGED <<made, heard, written>>
  BY DEF Crash, history
<1>2. PICK cut \in SUBSET clients :
        \A c \in Conn :
            \/ toClient'[c] = toClient[c]
            \/ toClient'[c] = <<>>
            \/ /\ c \in cut \ ServerSockets(n)
               /\ toClient'[c] = Append(toClient[c], Plain("Fragment"))
  <2>1. CASE toClient' = toClient
    <3>1. {} \in SUBSET clients
      OBVIOUS
    <3> QED
      BY <2>1, <3>1
  <2>2. CASE toClient' # toClient
    <3>1. PICK cut \in {{}} \cup {{c} : c \in ClientSockets(n) \cap clientEnd} :
            toClient' = Send(Emptied(toClient, ServerSockets(n)), cut, clientEnd, Plain("Fragment"))
      BY <2>2 DEF Crash
    <3>2. cut \in SUBSET clients /\ \A c \in cut : Server(c) = n
      BY <3>1 DEF ClientSockets
    <3>3. \A c \in cut : c \notin ServerSockets(n)
      <4>1. ASSUME NEW c \in cut, c \in ServerSockets(n) PROVE FALSE
        <5>1. PICK m \in Node : mServerSocket[n][m] > 0 /\ c = Socket(n, m)
          BY <4>1 DEF ServerSockets
        <5>2. m = n
          BY <3>2, <4>1, <5>1 DEF Socket, Server
        <5>3. mServerSocket[n][n] = 0
          BY DEF EventInv, TypeOK, NetworkTypeOK
        <5> QED
          BY <5>1, <5>2, <5>3
      <4> QED
        BY <4>1
    <3>4. ASSUME NEW c \in Conn
          PROVE \/ toClient'[c] = toClient[c]
                \/ toClient'[c] = <<>>
                \/ /\ c \in cut \ ServerSockets(n)
                   /\ toClient'[c] = Append(toClient[c], Plain("Fragment"))
      BY <3>1, <3>3 DEF Send, Emptied
    <3> QED
      BY <3>2, <3>4
  <2> QED
    BY <2>1, <2>2
<1>3. ASSUME NEW p \in Node, NEW m \in Node PROVE Fewer(p, m) \/ Sent(p, m)
  <2>1. CASE p = n
    <3>1. mServerSocket'[p][m] = 0 /\ mLineBuffer'[p][m] = <<>>
      BY <1>1, <2>1 DEF EventInv, TypeOK, NetworkTypeOK
    <3> QED
      BY <3>1 DEF Fewer
  <2>2. CASE p # n
    <3>1. mServerSocket'[p][m] = mServerSocket[p][m] /\ mLineBuffer'[p][m] = mLineBuffer[p][m]
      BY <1>1, <2>2 DEF EventInv, TypeOK, NetworkTypeOK
    <3>2. CASE mServerSocket[p][m] = 0
      BY <3>1, <3>2 DEF Fewer
    <3>3. CASE mServerSocket[p][m] # 0
      <4>1. Socket(p, m) \in Conn /\ Socket(p, m)' = Socket(p, m)
        BY <3>1, <3>3, SocketConn DEF EventInv, TypeOK, Socket
      <4>2. Plain("Fragment") \in ToClientMsg /\ Plain("Fragment").type \notin Event
        BY MessageTypes, EventAssumption DEF Plain
      <4> QED
        BY <1>2, <3>1, <3>3, <4>1, <4>2 DEF Fewer, Sent
    <3> QED
      BY <3>2, <3>3
  <2> QED
    BY <2>1, <2>2
<1>4. \A m \in Node : written[m] <= written'[m]
  BY <1>1 DEF EventInv, TypeOK, NetworkTypeOK
<1>5. TypeOK' /\ OrderInv'
  BY <1>1, <1>3, <1>4, StepKeeps DEF EventInv, Taken
<1>6. Unmade'
  <2>1. \A c \in Conn : \/ toClient'[c] = toClient[c] \/ toClient'[c] = <<>>
                        \/ c[3] <= made[Client(c)][Server(c)]
    BY <1>2 DEF SubscribeInv
  <2>2. made \in [Node -> [Node -> 0..MaxConn]] /\ made' = made
    BY <1>1 DEF EventInv, TypeOK, NetworkTypeOK
  <2>3. \A p, m \in Node : made[p][m] <= made'[p][m]
    BY <2>2, BoundAssumption
  <2> QED
    BY <2>1, <2>2, <2>3, UnmadeKept DEF EventInv, TypeOK
<1> QED
  BY <1>5, <1>6 DEF EventInv

------------------------------------------------------------------------------
(* The handler of a server socket.                                          *)

\* What is interpreted of a line buffer is its beginning.
LEMMA InterpretedPrefix ==
  ASSUME NEW buffer \in Seq(ToClientMsg)
  PROVE  /\ Interpreted(buffer) \in Seq(ToClientMsg)
         /\ Len(Interpreted(buffer)) <= Len(buffer)
         /\ \A i \in 1..Len(Interpreted(buffer)) : Interpreted(buffer)[i] = buffer[i]
         /\ ~Complete(buffer) => Interpreted(buffer) = <<>>
<1>0. Len(buffer) \in Nat /\ \A i \in 1..Len(buffer) : buffer[i] \in ToClientMsg
  OBVIOUS
<1>1. CASE ~Complete(buffer)
  <2>1. Interpreted(buffer) = <<>>
    BY <1>1 DEF Interpreted
  <2>2. <<>> \in Seq(ToClientMsg) /\ Len(<<>>) = 0
    BY EmptySeq
  <2> QED
    BY <1>0, <2>1, <2>2
<1>2. CASE Complete(buffer)
  <2> DEFINE good == {k \in 0..Len(buffer) : \A i \in 1..k : buffer[i].type # "Fragment"}
  <2> DEFINE last == CHOOSE k \in good : \A l \in good : l <= k
  <2> DEFINE rest == {Len(buffer) - k : k \in good}
  <2>1. \E k \in good : \A l \in good : l <= k
    <3>1. (\A x \in rest : x \in Nat) /\ Len(buffer) \in rest
      <4>1. 0 \in good
        BY <1>0
      <4>2. \A k \in good : k \in 0..Len(buffer)
        OBVIOUS
      <4> HIDE DEF good
      <4> QED
        BY <1>0, <4>1, <4>2
    <3> HIDE DEF rest
    <3>2. PICK x \in rest : \A y \in rest : x <= y
      BY <3>1, LeastNat
    <3>3. \A k \in good : k \in 0..Len(buffer)
      OBVIOUS
    <3> HIDE DEF good
    <3>4. PICK k \in good : x = Len(buffer) - k
      BY DEF rest
    <3>5. ASSUME NEW l \in good PROVE l <= k
      <4>1. x <= Len(buffer) - l
        BY <3>2 DEF rest
      <4> QED
        BY <1>0, <3>3, <3>4, <4>1
    <3> QED
      BY <3>5
  <2>2. last \in good
    <3> HIDE DEF good
    <3> QED
      BY <2>1
  <2>3. last \in 0..Len(buffer)
    BY <2>2
  <2>4. Interpreted(buffer) = SubSeq(buffer, 1, last)
    BY <1>2 DEF Interpreted
  <2> HIDE DEF last
  <2>5. /\ SubSeq(buffer, 1, last) \in Seq(ToClientMsg) /\ Len(SubSeq(buffer, 1, last)) = last
        /\ \A i \in 1..last : SubSeq(buffer, 1, last)[i] = buffer[i]
    BY <1>0, <2>3
  <2> QED
    BY <1>0, <1>2, <2>3, <2>4, <2>5
<1> QED
  BY <1>1, <1>2

\* Events of m with rising numbers above a and up to b, among the first k of messages s
From(events, m, a, b, s, k) ==
    \A i \in 1..Len(events) :
        /\ events[i][1] = m /\ a < events[i][2] /\ events[i][2] <= b
        /\ \E p \in 1..k : s[p].type \in Event /\ events[i][2] = s[p].no
        /\ \A j \in 1..(i - 1) : events[j][2] < events[i][2]

\* Events received from the front of what arrives are later than those buffered before
\* and come in their order.
LEMMA EventsRise ==
  ASSUME NEW n \in Node, NEW m \in Node, NEW s \in Seq(ToClientMsg),
         NEW a \in 0..MaxWrite, NEW b \in Int, Rising(s, a, b),
         NEW messages \in Seq(ToClientMsg), Len(messages) <= Len(s),
         \A i \in 1..Len(messages) : messages[i] = s[i],
         NEW events, events = InputEvents(n, m, messages)
  PROVE  events \in Seq(Node \X (1..MaxWrite)) /\ From(events, m, a, b, s, Len(messages))
<1> DEFINE input == {i \in 1..Len(messages) : messages[i].type \in Inputs[n]}
<1> DEFINE sub == Subsequence(messages, input)
<1>0. \A i \in input : i \in 1..Len(messages) /\ messages[i].type \in Event
  BY EventAssumption
<1>1. events = [i \in 1..Len(sub) |-> <<m, sub[i].no>>]
  BY DEF InputEvents
<1> HIDE DEF input
<1>2. /\ sub \in Seq(ToClientMsg)
      /\ \A k \in 1..Len(sub) : Place(input, k) \in input /\ sub[k] = messages[Place(input, k)]
      /\ \A k, l \in 1..Len(sub) : k < l => Place(input, k) < Place(input, l)
  BY <1>0, SubsequenceOrder
<1> HIDE DEF sub
<1>3. Len(sub) \in Nat /\ Len(s) \in Nat /\ Len(messages) \in Nat
  BY <1>2
<1>4. ASSUME NEW k \in 1..Len(sub)
      PROVE  LET p == Place(input, k)
             IN  /\ p \in 1..Len(messages) /\ s[p].type \in Event /\ sub[k].no = s[p].no
                 /\ a < sub[k].no /\ sub[k].no <= b /\ sub[k].no \in 1..MaxWrite
  <2> DEFINE p == Place(input, k)
  <2>1. p \in 1..Len(messages) /\ s[p].type \in Event /\ sub[k] = s[p]
    BY <1>0, <1>2
  <2>2. p \in 1..Len(s)
    BY <1>3, <2>1
  <2>3. a < s[p].no /\ s[p].no <= b /\ s[p].no \in 0..MaxWrite
    BY <2>1, <2>2, MessageFields DEF Rising
  <2>4. s[p].no \in 1..MaxWrite
    BY <2>3, MessageFields
  <2> QED
    BY <2>1, <2>3, <2>4
<1>5. ASSUME NEW k \in 1..Len(sub), NEW j \in 1..(k - 1) PROVE sub[j].no < sub[k].no
  <2>1. j \in 1..Len(sub) /\ j < k
    BY <1>3
  <2>2. Place(input, j) < Place(input, k)
    BY <1>2, <2>1
  <2>3. /\ Place(input, k) \in 1..Len(s) /\ s[Place(input, k)].type \in Event
        /\ Place(input, j) \in 1..(Place(input, k) - 1) /\ s[Place(input, j)].type \in Event
    BY <1>3, <1>4, <2>1, <2>2
  <2>4. s[Place(input, j)].no < s[Place(input, k)].no
    BY <2>3 DEF Rising
  <2> QED
    BY <1>4, <2>1, <2>4
<1>6. events \in Seq(Node \X (1..MaxWrite)) /\ Len(events) = Len(sub)
  <2> DEFINE Entry == Node \X (1..MaxWrite)
  <2> DEFINE entry(k) == <<m, sub[k].no>>
  <2>1. \A k \in 1..Len(sub) : entry(k) \in Entry
    BY <1>4
  <2>2. events = [k \in 1..Len(sub) |-> entry(k)]
    BY <1>1
  <2> HIDE DEF Entry, entry
  <2>3. events \in Seq(Entry) /\ Len(events) = Len(sub)
    BY <1>3, <2>1, <2>2
  <2> QED
    BY <2>3 DEF Entry
<1>7. \A k \in 1..Len(sub) : events[k][1] = m /\ events[k][2] = sub[k].no
  BY <1>1
<1>8. ASSUME NEW i \in 1..Len(events)
      PROVE  /\ events[i][1] = m /\ a < events[i][2] /\ events[i][2] <= b
             /\ \E p \in 1..Len(messages) : s[p].type \in Event /\ events[i][2] = s[p].no
             /\ \A j \in 1..(i - 1) : events[j][2] < events[i][2]
  <2>1. i \in 1..Len(sub) /\ events[i][1] = m /\ events[i][2] = sub[i].no
    BY <1>6, <1>7
  <2>2. a < events[i][2] /\ events[i][2] <= b
    BY <1>4, <2>1
  <2>3. \E p \in 1..Len(messages) : s[p].type \in Event /\ events[i][2] = s[p].no
    BY <1>4, <2>1
  <2>4. \A j \in 1..(i - 1) : j \in 1..Len(sub) /\ events[j][2] = sub[j].no
    BY <1>3, <1>7, <2>1
  <2>5. \A j \in 1..(i - 1) : events[j][2] < events[i][2]
    BY <1>5, <2>1, <2>4
  <2> QED
    BY <2>1, <2>2, <2>3, <2>5
<1> QED
  BY <1>6, <1>8 DEF From

\* Events that are later than all that were heard of m are added to a buffer.
LEMMA BufferExtended ==
  ASSUME NEW s \in Seq(Node \X (1..MaxWrite)), NEW h \in [Node -> Int], Buffered(s, h),
         NEW m \in Node, NEW events \in Seq(Node \X (1..MaxWrite)), NEW g \in [Node -> Int],
         g = [h EXCEPT ![m] = IF events = <<>> THEN @ ELSE events[Len(events)][2]],
         \A i \in 1..Len(events) :
            /\ events[i][1] = m /\ h[m] < events[i][2]
            /\ \A j \in 1..(i - 1) : events[j][2] < events[i][2]
  PROVE  Buffered(s \o events, g)
<1> DEFINE Entry == Node \X (1..MaxWrite)
<1>0. s \in Seq(Entry) /\ events \in Seq(Entry) /\ \A e \in Entry : e[1] \in Node /\ e[2] \in Int
  BY BoundAssumption
<1> HIDE DEF Entry
<1>1. Len(s) \in Nat /\ Len(events) \in Nat /\ Len(s \o events) = Len(s) + Len(events)
  BY <1>0
<1>2. /\ \A i \in 1..Len(s) : (s \o events)[i] = s[i] /\ s[i][1] \in Node /\ s[i][2] \in Int
      /\ \A i \in 1..Len(events) : (s \o events)[Len(s) + i] = events[i] /\ events[i][2] \in Int
  <2>1. \A i \in 1..Len(s) : (s \o events)[i] = s[i] /\ s[i] \in Entry
    BY <1>0
  <2>2. \A i \in 1..Len(events) : (s \o events)[Len(s) + i] = events[i] /\ events[i] \in Entry
    BY <1>0
  <2> QED
    BY <1>0, <2>1, <2>2
<1>3. /\ \A k \in Node : h[k] <= g[k]
      /\ \A i \in 1..Len(events) : events[i][2] <= g[m]
  <2>1. CASE events = <<>>
    <3>1. g = h /\ Len(events) = 0
      BY <2>1
    <3> QED
      BY <3>1
  <2>2. CASE events # <<>>
    <3>1. Len(events) \in 1..Len(events)
      BY <1>0, <1>1, <2>2, EmptySeq
    <3>2. g[m] = events[Len(events)][2] /\ \A k \in Node : k # m => g[k] = h[k]
      BY <2>2
    <3>3. /\ h[m] < g[m]
          /\ \A j \in 1..(Len(events) - 1) : events[j][2] < g[m]
      BY <3>1, <3>2
    <3>4. ASSUME NEW i \in 1..Len(events) PROVE events[i][2] <= g[m]
      <4>1. CASE i = Len(events)
        BY <3>2, <4>1
      <4>2. CASE i # Len(events)
        <5>1. i \in 1..(Len(events) - 1)
          BY <1>1, <4>2
        <5>2. events[i][2] \in Int /\ events[i][2] < g[m] /\ g[m] \in Int
          BY <1>2, <3>3, <5>1
        <5> QED
          BY <5>2
      <4> QED
        BY <4>1, <4>2
    <3>5. ASSUME NEW k \in Node PROVE h[k] <= g[k]
      BY <3>2, <3>3
    <3> QED
      BY <3>4, <3>5
  <2> QED
    BY <2>1, <2>2
<1>4. ASSUME NEW i \in 1..Len(s)
      PROVE  /\ s[i][2] <= g[s[i][1]]
             /\ \A j \in 1..(i - 1) : (s \o events)[j][1] = s[i][1] => (s \o events)[j][2] < s[i][2]
  <2>1. s[i][2] <= h[s[i][1]] /\ \A j \in 1..(i - 1) : s[j][1] = s[i][1] => s[j][2] < s[i][2]
    BY DEF Buffered
  <2>2. \A j \in 1..(i - 1) : (s \o events)[j] = s[j]
    BY <1>1, <1>2
  <2>3. h[s[i][1]] <= g[s[i][1]] /\ h[s[i][1]] \in Int /\ g[s[i][1]] \in Int /\ s[i][2] \in Int
    BY <1>2, <1>3
  <2>4. s[i][2] <= g[s[i][1]]
    BY <2>1, <2>3
  <2> QED
    BY <2>1, <2>2, <2>4
<1>5. ASSUME NEW i \in 1..Len(events), NEW j \in 1..(Len(s) + i - 1), (s \o events)[j][1] = m
      PROVE  (s \o events)[j][2] < events[i][2]
  <2>1. CASE j \in 1..Len(s)
    <3>1. (s \o events)[j] = s[j] /\ s[j][2] \in Int /\ s[j][1] = m
      BY <1>2, <1>5, <2>1
    <3>2. s[j][2] <= h[m]
      BY <2>1, <3>1 DEF Buffered
    <3>3. h[m] < events[i][2] /\ events[i][2] \in Int /\ h[m] \in Int
      BY <1>2
    <3>4. \A x, y, z \in Int : x <= y /\ y < z => x < z
      OBVIOUS
    <3> QED
      BY <3>1, <3>2, <3>3, <3>4
  <2>2. CASE j \notin 1..Len(s)
    <3>1. PICK l \in 1..(i - 1) : j = Len(s) + l
      <4>1. j - Len(s) \in 1..(i - 1) /\ j = Len(s) + (j - Len(s))
        BY <1>1, <2>2
      <4> QED
        BY <4>1
    <3>2. l \in 1..Len(events)
      BY <1>1
    <3>3. (s \o events)[j] = events[l]
      BY <1>2, <3>1, <3>2
    <3> QED
      BY <3>3
  <2> QED
    BY <2>1, <2>2
<1>6. ASSUME NEW i \in 1..Len(s \o events)
      PROVE  /\ (s \o events)[i][2] <= g[(s \o events)[i][1]]
             /\ \A j \in 1..(i - 1) : (s \o events)[j][1] = (s \o events)[i][1] =>
                                       (s \o events)[j][2] < (s \o events)[i][2]
  <2>1. CASE i \in 1..Len(s)
    BY <1>2, <1>4, <2>1
  <2>2. CASE i \notin 1..Len(s)
    <3>1. PICK l \in 1..Len(events) : i = Len(s) + l
      <4>1. i - Len(s) \in 1..Len(events) /\ i = Len(s) + (i - Len(s))
        BY <1>1, <2>2
      <4> QED
        BY <4>1
    <3>2. (s \o events)[i] = events[l] /\ events[l][1] = m
      BY <1>2, <3>1
    <3>3. \A j \in 1..(i - 1) : j \in 1..(Len(s) + l - 1)
      BY <1>1, <3>1
    <3> QED
      BY <1>3, <1>5, <3>2, <3>3
  <2> QED
    BY <2>1, <2>2
<1> QED
  BY <1>6 DEF Buffered

\* What has been received moves from the channel through the line buffer into the
\* input buffer; what arrives after it has higher numbers.
LEMMA ReadServerOrder ==
  ASSUME EventInv, NetworkTypeOK', NEW n \in Node, NEW m \in Node, ReadServer(n, m)
  PROVE  /\ EventInv'
         /\ \/ heard' = heard
            \/ \E k \in (heard[n][m] + 1)..written[m] : heard' = [heard EXCEPT ![n][m] = k]
<1> DEFINE c == Socket(n, m)
<1> DEFINE lb == mLineBuffer[n][m]
<1> DEFINE ch == toClient[c]
<1>1. c \in Conn /\ mServerSocket[n][m] # 0
  <2>1. ready[n] \in SUBSET (Conn \cup {mListenSocket, mBroadcastSocket})
    BY DEF EventInv, TypeOK, NetworkTypeOK
  <2>2. c \in Conn
    BY <2>1 DEF ReadServer, ServerTurn
  <2>3. c[3] \in 1..MaxConn /\ c[3] = mServerSocket[n][m]
    <3>1. c[3] \in 1..MaxConn
      BY <2>2, ConnType
    <3> QED
      BY <3>1 DEF Socket
  <2> QED
    BY <2>2, <2>3, BoundAssumption
<1>2. PICK j \in 1..Len(ch) :
        LET buffer == lb \o SubSeq(ch, 1, j)
            events == InputEvents(n, m, Interpreted(buffer))
        IN  /\ toClient' = [toClient EXCEPT ![c] = SubSeq(@, j + 1, Len(@))]
            /\ mLineBuffer' = [mLineBuffer EXCEPT ![n][m] = Remaining(buffer)]
            /\ pInputBuffer' = [pInputBuffer EXCEPT ![n] = @ \o events]
            /\ heard' = [heard EXCEPT ![n][m] = IF events = <<>> THEN @ ELSE events[Len(events)][2]]
  BY DEF ReadServer
<1> DEFINE buffer == lb \o SubSeq(ch, 1, j)
<1> DEFINE messages == Interpreted(buffer)
<1> DEFINE events == InputEvents(n, m, messages)
<1> DEFINE rest == SubSeq(ch, j + 1, Len(ch))
<1> DEFINE s == Arriving(n, m)
<1> DEFINE h == IF events = <<>> THEN heard[n][m] ELSE events[Len(events)][2]
<1>3. /\ toClient' = [toClient EXCEPT ![c] = rest]
      /\ mLineBuffer' = [mLineBuffer EXCEPT ![n][m] = Remaining(buffer)]
      /\ pInputBuffer' = [pInputBuffer EXCEPT ![n] = pInputBuffer[n] \o events]
      /\ heard' = [heard EXCEPT ![n][m] = h]
      /\ UNCHANGED <<mServerSocket, made, written>>
  BY <1>2 DEF ReadServer
<1>4. /\ lb \in Seq(ToClientMsg) /\ ch \in Seq(ToClientMsg) /\ s \in Seq(ToClientMsg)
      /\ s = lb \o ch
  BY <1>1, ArrivingType DEF EventInv, TypeOK, AllTyped, ArrivingTyped, Arriving
<1>5. /\ mLineBuffer \in [Node -> [Node -> Seq(ToClientMsg)]]
      /\ toClient \in [Conn -> Seq(ToClientMsg)]
      /\ pInputBuffer \in [Node -> Seq(Node \X (1..MaxWrite))]
      /\ heard \in [Node -> [Node -> 0..MaxWrite]]
      /\ written \in [Node -> 0..MaxWrite]
      /\ MaxWrite \in Nat
  BY BoundAssumption DEF EventInv, TypeOK, NetworkTypeOK
<1>6. /\ Rising(s, heard[n][m], written[m]) /\ heard[n][m] <= written[m]
      /\ heard[n][m] \in 0..MaxWrite /\ written[m] \in 0..MaxWrite
      /\ heard[n][m] \in Int /\ written[m] \in Int
      /\ Buffer(n)
  BY <1>5 DEF EventInv, OrderInv, Heard
\* The state after the step
<1>7. /\ toClient'[c] = rest /\ \A d \in Conn : d # c => toClient'[d] = toClient[d]
      /\ mLineBuffer'[n][m] = Remaining(buffer)
      /\ \A p, q \in Node : ~(p = n /\ q = m) => /\ mLineBuffer'[p][q] = mLineBuffer[p][q]
                                               /\ heard'[p][q] = heard[p][q]
      /\ pInputBuffer'[n] = pInputBuffer[n] \o events
      /\ \A p \in Node : p # n => pInputBuffer'[p] = pInputBuffer[p] /\ heard'[p] = heard[p]
      /\ heard'[n] = [heard[n] EXCEPT ![m] = h] /\ heard'[n][m] = h
  <2> HIDE DEF c, rest, buffer, events, h
  <2> QED
    BY <1>1, <1>3, <1>5
<1> HIDE DEF c, lb, ch
\* The data
<1>8. /\ buffer \in Seq(ToClientMsg) /\ Len(buffer) = Len(lb) + j /\ Len(buffer) <= Len(s)
      /\ Len(s) = Len(lb) + Len(ch)
      /\ \A i \in 1..Len(buffer) : buffer[i] = s[i]
      /\ rest \in Seq(ToClientMsg) /\ Len(rest) = Len(s) - Len(buffer)
      /\ \A i \in 1..Len(rest) : rest[i] = s[Len(buffer) + i]
  <2>1. /\ SubSeq(ch, 1, j) \in Seq(ToClientMsg) /\ Len(SubSeq(ch, 1, j)) = j
        /\ \A i \in 1..j : SubSeq(ch, 1, j)[i] = ch[i]
        /\ rest \in Seq(ToClientMsg) /\ Len(rest) = Len(ch) - j
        /\ \A i \in 1..(Len(ch) - j) : rest[i] = ch[j + i]
    BY <1>4
  <2>2. /\ Len(s) = Len(lb) + Len(ch)
        /\ \A i \in 1..Len(lb) : s[i] = lb[i]
        /\ \A i \in 1..Len(ch) : s[Len(lb) + i] = ch[i]
        /\ Len(lb) \in Nat /\ Len(ch) \in Nat
    BY <1>4
  <2> DEFINE front == SubSeq(ch, 1, j)
  <2>3. /\ buffer \in Seq(ToClientMsg) /\ Len(buffer) = Len(lb) + j
        /\ \A i \in 1..Len(lb) : buffer[i] = lb[i]
        /\ \A i \in 1..j : buffer[Len(lb) + i] = front[i]
    <3>1. buffer = lb \o front
      OBVIOUS
    <3>2. front \in Seq(ToClientMsg) /\ Len(front) = j
      BY <2>1
    <3> HIDE DEF front, buffer
    <3>3. \A u, v \in Seq(ToClientMsg) :
            /\ u \o v \in Seq(ToClientMsg) /\ Len(u \o v) = Len(u) + Len(v)
            /\ \A i \in 1..Len(u) : (u \o v)[i] = u[i]
            /\ \A i \in 1..Len(v) : (u \o v)[Len(u) + i] = v[i]
      OBVIOUS
    <3>4. lb \in Seq(ToClientMsg)
      BY <1>4
    <3>5. /\ lb \o front \in Seq(ToClientMsg) /\ Len(lb \o front) = Len(lb) + Len(front)
          /\ \A i \in 1..Len(lb) : (lb \o front)[i] = lb[i]
          /\ \A i \in 1..Len(front) : (lb \o front)[Len(lb) + i] = front[i]
      BY <3>2, <3>3, <3>4
    <3> QED
      BY <3>1, <3>2, <3>5
  <2> HIDE DEF buffer, rest, s
  <2>4. ASSUME NEW i \in 1..Len(buffer) PROVE buffer[i] = s[i]
    <3>1. CASE i \in 1..Len(lb)
      BY <2>2, <2>3, <3>1
    <3>2. CASE i \notin 1..Len(lb)
      <4>1. PICK l \in 1..j : i = Len(lb) + l
        <5>1. i - Len(lb) \in 1..j /\ i = Len(lb) + (i - Len(lb))
          BY <2>2, <2>3, <3>2
        <5> QED
          BY <5>1
      <4>2. l \in 1..Len(ch)
        BY <2>2
      <4> QED
        BY <2>1, <2>2, <2>3, <4>1, <4>2
    <3> QED
      BY <3>1, <3>2
  <2>5. ASSUME NEW i \in 1..Len(rest) PROVE rest[i] = s[Len(buffer) + i]
    <3>1. i \in 1..(Len(ch) - j) /\ j + i \in 1..Len(ch) /\ Len(buffer) + i = Len(lb) + (j + i)
      BY <2>1, <2>2, <2>3
    <3> QED
      BY <2>1, <2>2, <3>1
  <2> QED
    BY <2>1, <2>2, <2>3, <2>4, <2>5
<1> HIDE DEF buffer, s, rest
<1>9. /\ messages \in Seq(ToClientMsg) /\ Len(messages) <= Len(buffer)
      /\ \A i \in 1..Len(messages) : messages[i] = buffer[i]
      /\ ~Complete(buffer) => messages = <<>>
  BY <1>8, InterpretedPrefix
<1> HIDE DEF messages
<1>10. /\ Len(messages) \in Nat /\ Len(buffer) \in Nat /\ Len(s) \in Nat
       /\ Len(messages) <= Len(s)
       /\ \A i \in 1..Len(messages) : messages[i] = s[i]
  BY <1>4, <1>8, <1>9
<1>11. /\ events \in Seq(Node \X (1..MaxWrite))
       /\ \A i \in 1..Len(events) :
            /\ events[i][1] = m /\ heard[n][m] < events[i][2] /\ events[i][2] <= written[m]
            /\ \E p \in 1..Len(messages) : s[p].type \in Event /\ events[i][2] = s[p].no
            /\ \A k \in 1..(i - 1) : events[k][2] < events[i][2]
  <2>1. events = InputEvents(n, m, messages)
    OBVIOUS
  <2> DEFINE a == heard[n][m]
  <2> DEFINE b == written[m]
  <2>2. a \in 0..MaxWrite /\ b \in Int /\ Rising(s, a, b)
    BY <1>6
  <2> HIDE DEF events, a, b
  <2>3. events \in Seq(Node \X (1..MaxWrite)) /\ From(events, m, a, b, s, Len(messages))
    BY <1>4, <1>9, <1>10, <2>1, <2>2, EventsRise
  <2> QED
    BY <2>3 DEF From, a, b
<1> HIDE DEF events
<1>12. /\ h \in 0..MaxWrite /\ heard[n][m] <= h /\ h <= written[m]
       /\ h = heard[n][m] \/ heard[n][m] < h
       /\ \/ h = heard[n][m]
          \/ \E p \in 1..Len(messages) : s[p].type \in Event /\ h = s[p].no
  <2>1. CASE events = <<>>
    BY <1>6, <2>1
  <2>2. CASE events # <<>>
    <3>1. Len(events) \in 1..Len(events) /\ h = events[Len(events)][2]
      BY <1>11, <2>2, EmptySeq
    <3>2. events[Len(events)] \in Node \X (1..MaxWrite)
      BY <1>11, <3>1, ElementOfSeq
    <3>3. h \in 1..MaxWrite
      BY <3>1, <3>2
    <3>4. /\ heard[n][m] < h /\ h <= written[m]
          /\ \E p \in 1..Len(messages) : s[p].type \in Event /\ h = s[p].no
      BY <1>11, <3>1
    <3> HIDE DEF h
    <3>5. h \in 0..MaxWrite /\ h \in Int
      BY <1>5, <3>3
    <3> QED
      BY <1>6, <3>4, <3>5
  <2> QED
    BY <2>1, <2>2
\* What arrives from m
<1>13. Heard(n, m)'
  <2>1. Arriving(n, m)' = Remaining(buffer) \o rest
    <3>1. mServerSocket'[n][m] # 0 /\ Socket(n, m)' = c
      BY <1>1, <1>3 DEF Socket, c
    <3> QED
      BY <1>7, <3>1 DEF Arriving
  <2>2. Rising(Remaining(buffer) \o rest, h, written[m])
    <3>1. CASE Complete(buffer)
      <4>1. Remaining(buffer) \o rest = rest
        BY <1>8, <3>1, ConcatEmptySeq DEF Remaining
      <4>2. h = heard[n][m] \/ \E p \in 1..Len(buffer) : s[p].type \in Event /\ h = s[p].no
        BY <1>9, <1>10, <1>12
      <4>3. Len(buffer) \in 0..Len(s)
        BY <1>8, <1>10
      <4> HIDE DEF h
      <4>4. Rising(rest, h, written[m])
        BY <1>4, <1>6, <1>8, <4>2, <4>3, RisingRest
      <4> QED
        BY <4>1, <4>4
    <3>2. CASE ~Complete(buffer)
      <4>1. messages = <<>> /\ Len(messages) = 0
        BY <1>9, <3>2, EmptySeq
      <4>2. h = heard[n][m]
        <5>1. h = heard[n][m] \/ \E p \in 1..0 : TRUE
          BY <1>12, <4>1
        <5> QED
          BY <5>1
      <4>3. Remaining(buffer) \o rest = buffer \o rest
        BY <3>2 DEF Remaining
      <4>a. /\ buffer \o rest \in Seq(ToClientMsg) /\ Len(buffer \o rest) = Len(buffer) + Len(rest)
            /\ \A i \in 1..Len(buffer) + Len(rest) :
                  (buffer \o rest)[i] = IF i <= Len(buffer) THEN buffer[i] ELSE rest[i - Len(buffer)]
        <5>1. \A u, v \in Seq(ToClientMsg) :
                /\ u \o v \in Seq(ToClientMsg) /\ Len(u \o v) = Len(u) + Len(v)
                /\ \A i \in 1..Len(u) + Len(v) :
                      (u \o v)[i] = IF i <= Len(u) THEN u[i] ELSE v[i - Len(u)]
          BY ConcatProperties
        <5>2. buffer \in Seq(ToClientMsg) /\ rest \in Seq(ToClientMsg)
          BY <1>8
        <5> QED
          BY <5>1, <5>2
      <4>b. Len(buffer) + Len(rest) = Len(s)
        BY <1>8, <1>10
      <4>4. /\ buffer \o rest \in Seq(ToClientMsg) /\ Len(buffer \o rest) = Len(s)
        BY <4>a, <4>b
      <4>5. ASSUME NEW i \in 1..Len(buffer \o rest) PROVE (buffer \o rest)[i] = s[i]
        <5>1. i \in 1..Len(buffer) + Len(rest)
          BY <4>a
        <5>2. CASE i <= Len(buffer)
          BY <1>8, <4>a, <5>1, <5>2
        <5>3. CASE ~(i <= Len(buffer))
          <6>1. i - Len(buffer) \in 1..Len(rest) /\ i = Len(buffer) + (i - Len(buffer))
            BY <1>8, <1>10, <5>1, <5>3
          <6> QED
            BY <1>8, <4>a, <5>1, <5>3, <6>1
        <5> QED
          BY <5>2, <5>3
      <4>6. Len(buffer \o rest) <= Len(s)
        BY <1>10, <4>4
      <4>7. Rising(buffer \o rest, heard[n][m], written[m])
        <5> DEFINE t == buffer \o rest
        <5> DEFINE a == heard[n][m]
        <5> DEFINE b == written[m]
        <5>1. a \in Int /\ b \in Int /\ Rising(s, a, b) /\ b <= b
          BY <1>6
        <5>2. t \in Seq(ToClientMsg) /\ Len(t) <= Len(s) /\ \A i \in 1..Len(t) : t[i] = s[i]
          BY <4>4, <4>5, <4>6
        <5> HIDE DEF t, a, b
        <5>3. Rising(t, a, b)
          BY <1>4, <5>1, <5>2, RisingPrefix
        <5> QED
          BY <5>3 DEF t, a, b
      <4> QED
        BY <4>2, <4>3, <4>7
    <3> QED
      BY <3>1, <3>2
  <2>3. heard'[n][m] = h /\ written'[m] = written[m]
    BY <1>3, <1>7
  <2> HIDE DEF h
  <2> QED
    BY <1>12, <2>1, <2>2, <2>3 DEF Heard, Rising
<1>14. ASSUME NEW p \in Node, NEW q \in Node PROVE Heard(p, q)'
  <2>1. CASE p = n /\ q = m
    BY <1>13, <2>1
  <2>2. CASE ~(p = n /\ q = m)
    <3>1. /\ mLineBuffer'[p][q] = mLineBuffer[p][q] /\ heard'[p][q] = heard[p][q]
          /\ mServerSocket'[p][q] = mServerSocket[p][q]
      BY <1>3, <1>7, <2>2
    <3>2. Fewer(p, q)
      <4>1. CASE mServerSocket[p][q] = 0
        BY <3>1, <4>1 DEF Fewer
      <4>2. CASE mServerSocket[p][q] # 0
        <5>1. Socket(p, q) \in Conn
          BY <4>2, SocketConn DEF EventInv, TypeOK
        <5>2. Socket(p, q) # c
          BY <2>2 DEF Socket, c
        <5>3. toClient'[Socket(p, q)] = toClient[Socket(p, q)]
          BY <1>7, <5>1, <5>2
        <5> QED
          BY <3>1, <5>3 DEF Fewer
      <4> QED
        BY <4>1, <4>2
    <3>3. Heard(p, q) /\ written'[q] \in Int /\ written[q] <= written'[q]
      BY <1>3, <1>5 DEF EventInv, OrderInv
    <3> QED
      BY <3>1, <3>2, <3>3, FewerKeeps DEF EventInv
  <2> QED
    BY <2>1, <2>2
<1>15. heard' \in [Node -> [Node -> 0..MaxWrite]]
  BY <1>3, <1>5, <1>12
<1>16. pInputBuffer' \in [Node -> Seq(Node \X (1..MaxWrite))]
  <2>1. pInputBuffer[n] \o events \in Seq(Node \X (1..MaxWrite))
    BY <1>5, <1>11, ConcatProperties
  <2> QED
    BY <1>3, <1>5, <2>1
<1>17. ASSUME NEW p \in Node PROVE Buffer(p)'
  <2>1. CASE p # n
    BY <1>7, <2>1 DEF EventInv, OrderInv, Buffer, Buffered
  <2>2. CASE p = n
    <3>2. heard[n] \in [Node -> Int] /\ heard'[n] \in [Node -> Int]
      <4>1. \A k \in 0..MaxWrite : k \in Int
        BY <1>5
      <4>2. \A f \in [Node -> 0..MaxWrite] : f \in [Node -> Int]
        BY <4>1
      <4> QED
        BY <1>5, <1>15, <4>2
    <3>3. Buffered(pInputBuffer[n], heard[n])
      BY <1>6 DEF Buffer
    <3>4. pInputBuffer[n] \in Seq(Node \X (1..MaxWrite)) /\ events \in Seq(Node \X (1..MaxWrite))
      BY <1>5, <1>11
    <3>5. heard'[n] = [heard[n] EXCEPT ![m] = IF events = <<>> THEN @ ELSE events[Len(events)][2]]
      BY <1>7
    <3>6. \A i \in 1..Len(events) :
            /\ events[i][1] = m /\ heard[n][m] < events[i][2]
            /\ \A k \in 1..(i - 1) : events[k][2] < events[i][2]
      BY <1>11
    <3> DEFINE old == pInputBuffer[n]
    <3> DEFINE f == heard[n]
    <3> DEFINE g == heard'[n]
    <3>7. /\ old \in Seq(Node \X (1..MaxWrite)) /\ f \in [Node -> Int] /\ g \in [Node -> Int] /\ Buffered(old, f)
          /\ g = [f EXCEPT ![m] = IF events = <<>> THEN @ ELSE events[Len(events)][2]]
          /\ \A i \in 1..Len(events) :
                /\ events[i][1] = m /\ f[m] < events[i][2]
                /\ \A k \in 1..(i - 1) : events[k][2] < events[i][2]
      BY <3>2, <3>3, <3>4, <3>5, <3>6
    <3> HIDE DEF old, f, g
    <3>8. Buffered(old \o events, g)
      BY <3>4, <3>7, BufferExtended
    <3>9. Buffered(pInputBuffer'[n], heard'[n])
      BY <1>7, <3>8 DEF old, g
    <3> QED
      BY <2>2, <3>9 DEF Buffer
  <2> QED
    BY <2>1, <2>2
<1>18. Unmade'
  <2>1. ch # <<>>
    BY <1>4, EmptySeq
  <2>2. \A d \in Conn : toClient'[d] = toClient[d] \/ toClient[d] # <<>>
    BY <1>7, <2>1 DEF ch
  <2>3. made \in [Node -> [Node -> 0..MaxConn]] /\ made' = made
    BY <1>3 DEF EventInv, TypeOK, NetworkTypeOK
  <2>4. \A p, q \in Node : made[p][q] <= made'[p][q]
    BY <2>3, BoundAssumption
  <2> QED
    BY <2>2, <2>3, <2>4, UnmadeKept DEF EventInv, TypeOK
<1>19. EventInv'
  BY <1>14, <1>15, <1>16, <1>17, <1>18 DEF EventInv, TypeOK, OrderInv
<1>20. heard' = heard \/ \E k \in (heard[n][m] + 1)..written[m] : heard' = [heard EXCEPT ![n][m] = k]
  <2>1. CASE h = heard[n][m]
    BY <1>3, <1>5, <2>1
  <2>2. CASE heard[n][m] < h
    <3>1. h \in (heard[n][m] + 1)..written[m]
      <4>1. h \in Int /\ h <= written[m]
        BY <1>5, <1>12
      <4> HIDE DEF h
      <4> QED
        BY <1>6, <2>2, <4>1
    <3> QED
      BY <1>3, <3>1
  <2> QED
    BY <1>12, <2>1, <2>2
<1> QED
  BY <1>19, <1>20

------------------------------------------------------------------------------
(* The theorems.                                                            *)

\* Every step keeps the invariant, ...
LEMMA EventStep ==
  ASSUME EventInv, SubscribeInv, NetworkTypeOK', [Next]_vars
  PROVE  EventInv'
<1>1. ASSUME NEW n \in Node, NEW also, Terminate(n, also) PROVE EventInv'
  <2>1. /\ toClient' = Emptied(toClient, ServerSockets(n))
        /\ mServerSocket' = [mServerSocket EXCEPT ![n] = [m \in Node |-> 0]]
        /\ UNCHANGED <<mLineBuffer, made, heard, written, pInputBuffer>>
    BY <1>1 DEF Terminate, CloseClientEnds, history
  <2>2. \A p, m \in Node : mServerSocket'[p][m] = mServerSocket[p][m] \/ mServerSocket'[p][m] = 0
    BY <2>1 DEF EventInv, TypeOK, NetworkTypeOK
  <2> QED
    BY <2>1, <2>2, CloseKeeps DEF Taken
<1>2. ASSUME NEW n \in Node, Select(n) PROVE EventInv'
  <2>1. CASE n \in mStopListen
    BY <1>1, <1>2, <2>1 DEF Select
  <2>2. CASE n \notin mStopListen
    BY <1>2, <2>2, QuietKeeps DEF Select, Taken, device, tcp, history
  <2> QED
    BY <2>1, <2>2
<1>3. ASSUME NEW n \in Node, AcceptFails(n) PROVE EventInv'
  BY <1>1, <1>3 DEF AcceptFails
\* Steps that leave all connections to clients alone
<1>4. ASSUME NEW n \in Node, Scan(n) \/ HandleUdp(n) \/ StopRequest(n) \/ ResetRequest(n)
                             \/ BroadcastDue(n)
      PROVE  EventInv'
  <2>1. UNCHANGED <<mServerSocket, mLineBuffer, toClient, made, heard, written, pInputBuffer>>
    BY <1>4 DEF Scan, HandleUdp, StopRequest, ResetRequest, BroadcastDue, device, tcp, history
  <2> QED
    BY <2>1, QuietKeeps DEF Taken
<1>5. ASSUME NEW n \in Node, NEW c \in Conn, EofClient(n, c) PROVE EventInv'
  <2>1. UNCHANGED <<mServerSocket, mLineBuffer, toClient, made, heard, written, pInputBuffer>>
    BY <1>5 DEF EofClient, history
  <2> QED
    BY <2>1, QuietKeeps DEF Taken
<1>6. ASSUME NEW n \in Node, StopJoin(n) \/ Reset(n) PROVE EventInv'
  <2>1. /\ UNCHANGED <<mServerSocket, mLineBuffer, toClient, made, heard, written>>
        /\ pInputBuffer' = [pInputBuffer EXCEPT ![n] = <<>>]
    BY <1>6 DEF StopJoin, Reset, history
  <2> QED
    BY <2>1, QuietKeeps DEF Taken
<1>7. ASSUME NEW n \in Node, ReadInput(n) PROVE EventInv'
  <2>1. /\ UNCHANGED <<mServerSocket, mLineBuffer, toClient, made, heard, written>>
        /\ pInputBuffer[n] # <<>> /\ pInputBuffer' = [pInputBuffer EXCEPT ![n] = Tail(@)]
    BY <1>7 DEF ReadInput, tcp, history
  <2> QED
    BY <2>1, QuietKeeps DEF Taken
<1>8. ASSUME NEW n \in Node, Start(n) PROVE EventInv'
  <2>1. /\ mServerSocket' = [mServerSocket EXCEPT ![n] = [m \in Node |-> 0]]
        /\ mLineBuffer' = [mLineBuffer EXCEPT ![n] = [m \in Node |-> <<>>]]
        /\ pInputBuffer' = [pInputBuffer EXCEPT ![n] = <<>>]
        /\ UNCHANGED <<toClient, made, heard, written>>
    BY <1>8 DEF Start, tcp, history
  <2>2. ASSUME NEW p \in Node, NEW m \in Node PROVE Fewer(p, m)
    <3>1. CASE p = n
      BY <2>1, <3>1 DEF EventInv, TypeOK, NetworkTypeOK, Fewer
    <3>2. CASE p # n
      BY <2>1, <3>2 DEF EventInv, TypeOK, NetworkTypeOK, Fewer
    <3> QED
      BY <3>1, <3>2
  <2>3. \A m \in Node : written[m] <= written'[m]
    BY <2>1 DEF EventInv, TypeOK, NetworkTypeOK
  <2>4. TypeOK' /\ OrderInv'
    BY <2>1, <2>2, <2>3, StepKeeps DEF EventInv, Taken
  <2>5. Unmade'
    BY <2>1 DEF EventInv, Unmade, Client, Server
  <2> QED
    BY <2>4, <2>5 DEF EventInv
\* Steps that close a connection
<1>9. ASSUME NEW n \in Node, NEW m \in Node, EofServer(n, m) PROVE EventInv'
  <2>1. /\ toClient' = Emptied(toClient, {Socket(n, m)})
        /\ UNCHANGED <<mServerSocket, mLineBuffer, made, heard, written, pInputBuffer>>
    BY <1>9 DEF EofServer, CloseClientEnds, device, history
  <2> QED
    BY <2>1, CloseKeeps DEF Taken
<1>10. ASSUME NEW n \in Node, NEW m \in Node, ClearSocket(n, m) PROVE EventInv'
  <2>1. /\ mServerSocket' = [mServerSocket EXCEPT ![n][m] = 0]
        /\ UNCHANGED <<mLineBuffer, toClient, made, heard, written, pInputBuffer>>
    BY <1>10 DEF ClearSocket, tcp, history
  <2>2. \A p, q \in Node : mServerSocket'[p][q] = mServerSocket[p][q] \/ mServerSocket'[p][q] = 0
    BY <2>1 DEF EventInv, TypeOK, NetworkTypeOK
  <2>3. toClient' = Emptied(toClient, {})
    BY <2>1 DEF Emptied, EventInv, TypeOK, NetworkTypeOK
  <2> QED
    BY <2>1, <2>2, <2>3, CloseKeeps DEF Taken
<1>11. ASSUME NEW c \in Conn, PeerReset(c) PROVE EventInv'
  <2>1. /\ toClient' = Emptied(toClient, {c}) \/ toClient' = toClient
        /\ UNCHANGED <<mServerSocket, mLineBuffer, made, heard, written, pInputBuffer>>
    BY <1>11 DEF PeerReset, CloseClientEnds, device, history
  <2> QED
    BY <2>1, CloseKeeps, QuietKeeps DEF Taken
\* Steps that send
<1>12. ASSUME NEW n \in Node, Accept(n) PROVE EventInv'
  <2>1. PICK c \in backlog : SendToClient({c}, Plain("Hello"))
    BY <1>12 DEF Accept
  <2>2. UNCHANGED <<mServerSocket, mLineBuffer, made, heard, written, pInputBuffer>>
    BY <1>12 DEF Accept, history
  <2>3. Plain("Hello") \in ToClientMsg /\ Plain("Hello").type \notin Event
    BY MessageTypes, EventAssumption DEF Plain
  <2>4. {c} \in SUBSET (clients \cup backlog)
    OBVIOUS
  <2>5. \A m \in Node : written[m] <= written'[m]
    BY <2>2 DEF EventInv, TypeOK, NetworkTypeOK
  <2> QED
    BY <2>1, <2>2, <2>3, <2>4, <2>5, SendKeeps
<1>13. ASSUME NEW n \in Node, NEW c \in Conn, ReadClient(n, c) PROVE EventInv'
  <2>1. /\ toClient' = toClient \/ SendToClient({c}, Plain("Subscribed"))
        /\ c \in clients
        /\ UNCHANGED <<mServerSocket, mLineBuffer, made, heard, written, pInputBuffer>>
    BY <1>13 DEF ReadClient, history
  <2>2. CASE toClient' = toClient
    BY <2>1, <2>2, QuietKeeps DEF Taken
  <2>3. CASE SendToClient({c}, Plain("Subscribed"))
    <3>1. Plain("Subscribed") \in ToClientMsg /\ Plain("Subscribed").type \notin Event
      BY MessageTypes, EventAssumption DEF Plain
    <3>2. {c} \in SUBSET (clients \cup backlog)
      BY <2>1
    <3>3. \A m \in Node : written[m] <= written'[m]
      BY <2>1 DEF EventInv, TypeOK, NetworkTypeOK
    <3> QED
      BY <2>1, <2>3, <3>1, <3>2, <3>3, SendKeeps
  <2> QED
    BY <2>1, <2>2, <2>3
<1>14. ASSUME NEW n \in Node, NEW e \in Event, WriteOutput(n, e) PROVE EventInv'
  <2>1. PICK R \in SUBSET Subscribers(n, e) : SendToClient(R, Notify(e, written'[n]))
    BY <1>14 DEF WriteOutput
  <2>2. /\ written[n] < MaxWrite /\ written' = [written EXCEPT ![n] = @ + 1]
        /\ UNCHANGED <<mServerSocket, mLineBuffer, made, heard, pInputBuffer>>
    BY <1>14 DEF WriteOutput, device
  <2>3. R \in SUBSET (clients \cup backlog) /\ \A c \in R : Server(c) = n
    BY <2>1 DEF Subscribers, ClientSockets
  <2>4. written \in [Node -> 0..MaxWrite] /\ MaxWrite \in Nat
    BY BoundAssumption DEF EventInv, TypeOK, NetworkTypeOK
  <2>5. /\ \A m \in Node : written[m] <= written'[m]
        /\ written[n] < written'[n] /\ written'[n] \in 0..MaxWrite
    BY <2>2, <2>4
  <2>6. Notify(e, written'[n]) \in ToClientMsg /\ Notify(e, written'[n]).no = written'[n]
    BY <2>5, MessageTypes DEF Notify
  <2>7. \A c \in R : Notify(e, written'[n]).type \in Event =>
            Notify(e, written'[n]).no = written'[Server(c)] /\ written[Server(c)] < Notify(e, written'[n]).no
    BY <2>3, <2>5, <2>6
  <2> QED
    BY <2>1, <2>2, <2>3, <2>5, <2>6, <2>7, SendKeeps
<1>15. CASE UNCHANGED vars
  <2>1. UNCHANGED <<mServerSocket, mLineBuffer, toClient, made, heard, written, pInputBuffer>>
    BY <1>15 DEF vars, device, tcp, history
  <2> QED
    BY <2>1, QuietKeeps DEF Taken
<1> QED
  BY <1>2, <1>3, <1>4, <1>5, <1>6, <1>7, <1>8, <1>9, <1>10, <1>11, <1>12, <1>13, <1>14, <1>15,
     ConnectOrder, CrashOrder, ReadServerOrder DEF Next, Listen, Application

\* ... so it always holds.
LEMMA EventInvCorrect == Spec => []EventInv
<1>1. Init => EventInv
  <2> SUFFICES ASSUME Init PROVE EventInv
    OBVIOUS
  <2>1. NetworkTypeOK
    BY BoundAssumption DEF Init, NetworkTypeOK, ThreadPc
  <2>2. \A n \in Node : pInputBuffer[n] = <<>> /\ \A m \in Node : heard[n][m] = 0
    BY DEF Init
  <2>3. TypeOK
    BY <2>1, BoundAssumption DEF Init, TypeOK
  <2>4. Unmade
    BY DEF Init, Unmade
  <2>5. ASSUME NEW n \in Node PROVE Buffer(n)
    BY <2>2 DEF Buffer, Buffered
  <2>6. ASSUME NEW n \in Node, NEW m \in Node PROVE Heard(n, m)
    <3>1. /\ mLineBuffer[n][m] = <<>> /\ mServerSocket[n][m] = 0
          /\ written[m] = 0 /\ heard[n][m] = 0
      BY DEF Init
    <3>2. Arriving(n, m) = <<>>
      BY <3>1, ConcatEmptySeq, EmptySeq DEF Arriving
    <3> QED
      BY <3>1, <3>2 DEF Heard, Rising
  <2> QED
    BY <2>3, <2>4, <2>5, <2>6 DEF EventInv, OrderInv
<1>2. EventInv /\ SubscribeInv /\ NetworkTypeOK' /\ [Next]_vars => EventInv'
  BY EventStep
<1> QED
  BY <1>1, <1>2, NetworkTypeCorrect, SubscribeCorrect, PTL DEF Spec

\* The type invariant: besides the ranges of sockets, channels and counters, every
\* buffered event carries the number of an event that its source has written.
THEOREM SimplenetTypeCorrect == Spec => []TypeOK
<1>1. EventInv => TypeOK
  BY DEF EventInv
<1> QED
  BY <1>1, EventInvCorrect, PTL

LEMMA PipelineRises ==
  ASSUME EventInv, NEW n \in Node, NEW m \in Node
  PROVE  \A i \in 1..Len(Pipeline(n, m)) :
            Pipeline(n, m)[i] # 0 =>
                /\ Pipeline(n, m)[i] <= written[m]
                /\ \A j \in 1..(i - 1) : Pipeline(n, m)[j] < Pipeline(n, m)[i]
<1> DEFINE buf == pInputBuffer[n]
<1> DEFINE arr == Arriving(n, m)
<1> DEFINE own(i) == IF buf[i][1] = m THEN buf[i][2] ELSE 0
<1> DEFINE new(i) == IF arr[i].type \in Event THEN arr[i].no ELSE 0
<1> DEFINE s == [i \in 1..Len(buf) |-> own(i)]
<1> DEFINE t == [i \in 1..Len(arr) |-> new(i)]
<1> DEFINE a == heard[n][m]
<1> DEFINE b == written[m]
<1>1. /\ buf \in Seq(Node \X (1..MaxWrite)) /\ arr \in Seq(ToClientMsg)
      /\ a \in Nat /\ b \in Nat /\ a <= b /\ MaxWrite \in Nat
  <2>1. arr \in Seq(ToClientMsg)
    BY ArrivingType DEF EventInv, TypeOK, AllTyped, ArrivingTyped
  <2>2. a \in 0..MaxWrite /\ b \in 0..MaxWrite /\ MaxWrite \in Nat
    BY BoundAssumption DEF EventInv, TypeOK, NetworkTypeOK
  <2>3. a <= b
    BY DEF EventInv, OrderInv, Heard
  <2>4. buf \in Seq(Node \X (1..MaxWrite))
    BY DEF EventInv, TypeOK
  <2> QED
    BY <2>1, <2>2, <2>3, <2>4
<1>2. Rising(arr, a, b)
  BY DEF EventInv, OrderInv, Heard
<1>3. \A i \in 1..Len(buf) : buf[i][1] = m => /\ buf[i][2] <= a
                                             /\ \A j \in 1..(i - 1) : buf[j][1] = m => buf[j][2] < buf[i][2]
  BY DEF EventInv, OrderInv, Buffer, Buffered
<1>4. Pipeline(n, m) = s \o t
  BY DEF Pipeline
<1> HIDE DEF buf, arr, a, b
<1>5. \A i \in 1..Len(buf) : own(i) \in Nat
  <2> DEFINE Entry == Node \X (1..MaxWrite)
  <2>1. \A e \in Entry : e[2] \in Nat
    BY <1>1
  <2>2. \A i \in 1..Len(buf) : buf[i] \in Entry
    BY <1>1
  <2> HIDE DEF Entry
  <2> QED
    BY <2>1, <2>2
<1>6. \A i \in 1..Len(arr) : new(i) \in Nat
  <2>1. \A i \in 1..Len(arr) : arr[i] \in ToClientMsg
    BY <1>1
  <2> QED
    BY <1>1, <2>1, MessageFields
<1>7. \A i \in 1..Len(buf) : own(i) # 0 => own(i) <= a /\ \A j \in 1..(i - 1) : own(j) < own(i)
  <2> SUFFICES ASSUME NEW i \in 1..Len(buf), own(i) # 0
               PROVE  own(i) <= a /\ \A j \in 1..(i - 1) : own(j) < own(i)
    OBVIOUS
  <2>1. buf[i][1] = m /\ own(i) = buf[i][2] /\ own(i) > 0
    BY <1>5
  <2> QED
    BY <1>3, <2>1
<1>8. \A i \in 1..Len(arr) : new(i) # 0 => a < new(i) /\ new(i) <= b /\ \A j \in 1..(i - 1) : new(j) < new(i)
  <2> SUFFICES ASSUME NEW i \in 1..Len(arr), new(i) # 0
               PROVE  a < new(i) /\ new(i) <= b /\ \A j \in 1..(i - 1) : new(j) < new(i)
    OBVIOUS
  <2>1. arr[i].type \in Event /\ new(i) = arr[i].no /\ new(i) > 0
    BY <1>6
  <2> QED
    BY <1>2, <2>1 DEF Rising
<1> HIDE DEF own, new
<1>9. /\ s \in Seq(Nat) /\ Len(s) = Len(buf) /\ \A i \in 1..Len(buf) : s[i] = own(i)
      /\ t \in Seq(Nat) /\ Len(t) = Len(arr) /\ \A i \in 1..Len(arr) : t[i] = new(i)
      /\ Len(buf) \in Nat /\ Len(arr) \in Nat
  BY <1>1, <1>5, <1>6
<1> HIDE DEF s, t
<1>10. /\ Len(s \o t) = Len(s) + Len(t)
       /\ \A i \in 1..Len(s) : (s \o t)[i] = s[i]
       /\ \A i \in 1..Len(t) : (s \o t)[Len(s) + i] = t[i]
  <2>1. \A u, v \in Seq(Nat) :
          /\ Len(u \o v) = Len(u) + Len(v)
          /\ \A i \in 1..Len(u) : (u \o v)[i] = u[i]
          /\ \A i \in 1..Len(v) : (u \o v)[Len(u) + i] = v[i]
    OBVIOUS
  <2>2. s \in Seq(Nat) /\ t \in Seq(Nat)
    BY <1>9
  <2> QED
    BY <2>1, <2>2
<1>11. ASSUME NEW i \in 1..Len(s \o t), (s \o t)[i] # 0
       PROVE  (s \o t)[i] <= b /\ \A j \in 1..(i - 1) : (s \o t)[j] < (s \o t)[i]
  <2>1. CASE i \in 1..Len(s)
    <3>1. (s \o t)[i] = own(i) /\ \A j \in 1..(i - 1) : (s \o t)[j] = own(j)
      BY <1>9, <1>10, <2>1
    <3>2. own(i) <= a /\ own(i) \in Nat /\ \A j \in 1..(i - 1) : own(j) < own(i)
      BY <1>5, <1>7, <1>9, <1>11, <2>1, <3>1
    <3> QED
      BY <1>1, <3>1, <3>2
  <2>2. CASE i \notin 1..Len(s)
    <3>1. PICK l \in 1..Len(t) : i = Len(s) + l
      <4>1. i - Len(s) \in 1..Len(t) /\ i = Len(s) + (i - Len(s))
        BY <1>9, <1>10, <2>2
      <4> QED
        BY <4>1
    <3>2. (s \o t)[i] = new(l) /\ l \in 1..Len(arr)
      BY <1>9, <1>10, <3>1
    <3>3. a < new(l) /\ new(l) <= b /\ new(l) \in Nat /\ \A k \in 1..(l - 1) : new(k) < new(l)
      BY <1>6, <1>8, <1>11, <3>2
    <3>4. ASSUME NEW j \in 1..(i - 1) PROVE (s \o t)[j] < new(l)
      <4>1. CASE j \in 1..Len(s)
        <5>1. (s \o t)[j] = own(j) /\ own(j) \in Nat /\ (own(j) # 0 => own(j) <= a)
          BY <1>5, <1>7, <1>9, <1>10, <4>1
        <5> QED
          BY <1>1, <3>3, <5>1
      <4>2. CASE j \notin 1..Len(s)
        <5>1. PICK k \in 1..(l - 1) : j = Len(s) + k
          <6>1. j - Len(s) \in 1..(l - 1) /\ j = Len(s) + (j - Len(s))
            BY <1>9, <3>1, <4>2
          <6> QED
            BY <6>1
        <5>2. k \in 1..Len(t)
          BY <1>9
        <5>3. (s \o t)[j] = new(k)
          BY <1>9, <1>10, <5>1, <5>2
        <5> QED
          BY <3>3, <5>3
      <4> QED
        BY <4>1, <4>2
    <3> QED
      BY <3>2, <3>3, <3>4
  <2> QED
    BY <2>1, <2>2
<1> QED
  BY <1>4, <1>11 DEF b

\* Events of a server are neither duplicated nor reordered on their way into the input
\* buffer, for any number of nodes, connections, losses, crashes, resets and vanished
\* hosts: EventsInOrder of every reachable state.
THEOREM EventsInOrderCorrect == Spec => []EventsInOrder
<1>1. EventInv => EventsInOrder
  BY PipelineRises DEF EventsInOrder
<1> QED
  BY <1>1, EventInvCorrect, PTL

\* A step is the execution of an event, the receipt of some, or of no consequence.
LEMMA AbstractStep ==
  ASSUME EventInv, NetworkTypeOK', [Next]_vars
  PROVE  [Abstract!Next]_<<written, heard>>
<1>1. ASSUME NEW n \in Node, NEW e \in Event, WriteOutput(n, e) PROVE Abstract!Next
  <2>1. written' = [written EXCEPT ![n] = @ + 1] /\ heard' = heard
    BY <1>1 DEF WriteOutput
  <2> QED
    BY <2>1 DEF Abstract!Next, Abstract!Execute
<1>2. ASSUME NEW n \in Node, NEW m \in Node, ReadServer(n, m)
      PROVE  Abstract!Next \/ UNCHANGED <<written, heard>>
  <2>1. /\ written' = written
        /\ \/ heard' = heard
           \/ \E k \in (heard[n][m] + 1)..written[m] : heard' = [heard EXCEPT ![n][m] = k]
    <3>1. written' = written
      BY <1>2 DEF ReadServer
    <3> QED
      BY <1>2, <3>1, ReadServerOrder
  <2> QED
    BY <2>1 DEF Abstract!Next, Abstract!Receive
<1>3. ASSUME NEW n \in Node, NEW m \in Node,
             Connect(n, m) \/ EofServer(n, m) \/ ClearSocket(n, m)
      PROVE  UNCHANGED <<written, heard>>
  BY <1>3 DEF Connect, EofServer, ClearSocket, history
<1>4. ASSUME NEW n \in Node, NEW c \in Conn, ReadClient(n, c) \/ EofClient(n, c)
      PROVE  UNCHANGED <<written, heard>>
  BY <1>4 DEF ReadClient, EofClient, history
<1>5. ASSUME NEW n \in Node, Scan(n) \/ Select(n) \/ Accept(n) \/ AcceptFails(n) \/ HandleUdp(n)
      PROVE  UNCHANGED <<written, heard>>
  BY <1>5 DEF Scan, Select, Accept, AcceptFails, HandleUdp, Terminate, history
<1>6. ASSUME NEW n \in Node, \/ Start(n) \/ StopRequest(n) \/ StopJoin(n) \/ Reset(n) \/ ReadInput(n)
                             \/ ResetRequest(n) \/ BroadcastDue(n) \/ Crash(n)
      PROVE  UNCHANGED <<written, heard>>
  BY <1>6 DEF Start, StopRequest, StopJoin, Reset, ReadInput, ResetRequest, BroadcastDue, Crash,
     history
<1>7. ASSUME NEW c \in Conn, PeerReset(c) PROVE UNCHANGED <<written, heard>>
  BY <1>7 DEF PeerReset, history
<1>8. CASE UNCHANGED vars
  BY <1>8 DEF vars, history
<1> QED
  BY <1>1, <1>2, <1>3, <1>4, <1>5, <1>6, <1>7, <1>8 DEF Next, Listen, Application

\* Whatever fails, the network of nodes implements the abstract one: events of one node
\* are received at most once by another one and in the order of their execution.
THEOREM ImplementsEventNetwork == Spec => RefinesEventNetwork
<1>1. Init => Abstract!Init
  BY DEF Init, Abstract!Init
<1>2. EventInv /\ NetworkTypeOK' /\ [Next]_vars => [Abstract!Next]_<<written, heard>>
  BY AbstractStep
<1> QED
  BY <1>1, <1>2, NetworkTypeCorrect, EventInvCorrect, PTL DEF Spec, RefinesEventNetwork, Abstract!Spec
=============================================================================
