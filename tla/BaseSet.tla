------------------------------ MODULE BaseSet ------------------------------
(***************************************************************************)
(* The copy on write of libFAUDES' containers, TBaseSet of                 *)
(* src/src/cfl_baseset.h with the attributes of TAttrMap, cfl_attrmap.h.   *)
(*                                                                         *)
(* An assignment does not copy: the copy becomes a "client" of the set     *)
(* that hosts the data.  Before one of the sets that share data changes,   *)
(* Detach() makes the copy that was saved before: either the set that      *)
(* changes takes the new container, or, when it is locked and promised to  *)
(* its iterators never to move, its clients do.  Who hosts what is kept in *)
(* redundant pointers and flags, and DValid() states how they must agree.  *)
(*                                                                         *)
(* The record "mem" holds the fields of all sets, one function per field,  *)
(* the containers on the heap and the API's iterators.  A container stands *)
(* for the std::set and the map of attributes that the code allocates,     *)
(* hands over and frees together; an attribute is only present or absent.  *)
(* An iterator is the container it points into: which element it denotes   *)
(* is std::set's affair.  A public operation is one action.  The operators *)
(* from memory to memory are the private functions; those that choose (the *)
(* first client of a list, the new container) give the set of outcomes.    *)
(***************************************************************************)
CONSTANTS
    Obj,            \* where sets can be constructed
    Cell,           \* addresses of containers on the heap
    Elem,           \* elements
    Iter,           \* iterators of the application
    Typing,         \* the ways to type the sets: functions from Obj to attribute types
    Void,           \* the attribute type of a plain TBaseSet: no attributes
    NULL,           \* the null pointer
    Ges             \* the container every empty set shares, GlobalEmptySet()

ASSUME NullAssumption ==
    /\ \A s \in SUBSET Obj : s # NULL
    /\ \A x \in [elems : SUBSET Elem, attr : SUBSET Elem] : x # NULL
    /\ NULL \notin Cell \cup Obj \cup {Ges}
ASSUME GesAssumption == Ges \notin Cell

VARIABLES
    AttributeType,  \* the type of the attributes of each set, which never changes
    live,           \* the sets that exist
    mem             \* their fields, the heap and the iterators

vars == <<AttributeType, live, mem>>

Content == [elems : SUBSET Elem, attr : SUBSET Elem]
Empty == [elems |-> {}, attr |-> {}]
NoIterator == [pBaseSet |-> NULL, mAttached |-> FALSE, cell |-> Ges]

FreeCells(m) == {c \in Cell : m.heap[c] = NULL}

\* What set o of memory m contains.
Data(m, o) == IF m.pSet[o] = Ges THEN Empty ELSE m.heap[m.pSet[o]]

\* The function f with the value v at all points of S.
Update(f, S, v) == [x \in DOMAIN f |-> IF x \in S THEN v ELSE f[x]]

\* True when o keeps a nonempty list of clients.
HasClients(m, o) == m.mpClients[o] \notin {NULL, {}}
-----------------------------------------------------------------------------
(***************************************************************************)
(* The private functions.                                                  *)
(***************************************************************************)
\* The fields as the constructor sets them.
Construct(m, o) ==
    [m EXCEPT !.pHostSet = Update(m.pHostSet, {o}, o), !.pSet = Update(m.pSet, {o}, Ges),
              !.mpSet[o] = NULL, !.mpClients[o] = {},
              !.mDetached[o] = FALSE, !.mLocked[o] = FALSE,
              !.mIterators = Update(m.mIterators, {o}, {})]

FaultRelinkClients(m, o, n) ==    \* the new host owns what is pointed to, also Ges
    IF ~HasClients(m, o) THEN m
    ELSE [m EXCEPT
           !.pHostSet = Update(m.pHostSet, m.mpClients[o] \cup {o}, n),
           !.pSet = Update(m.pSet, {n}, m.pSet[o]),
           !.mpSet = [m.mpSet EXCEPT ![n] = m.pSet[o], ![o] = NULL],
           !.mpClients = [m.mpClients EXCEPT ![n] = (m.mpClients[o] \ {n}) \cup {o}, ![o] = NULL],
           !.mDetached[n] = FALSE]

\* Client n becomes the host of what o hosts, and o one of its clients.
RelinkClients(m, o, n) ==
    IF ~HasClients(m, o) THEN m
    ELSE [m EXCEPT
           !.pHostSet = Update(m.pHostSet, m.mpClients[o] \cup {o}, n),
           !.pSet = Update(m.pSet, {n}, m.pSet[o]),
           !.mpSet = [m.mpSet EXCEPT ![n] = m.mpSet[o], ![o] = NULL],
           !.mpClients = [m.mpClients EXCEPT ![n] = (m.mpClients[o] \ {n}) \cup {o}, ![o] = NULL],
           !.mDetached[n] = FALSE]

FaultAttachClient(m, h, p) ==      \* the host stays "detached"
    [m EXCEPT !.mpClients[h] = (IF @ = NULL THEN {} ELSE @) \cup {p}]

AttachClient(m, h, p) ==
    [m EXCEPT !.mpClients[h] = (IF @ = NULL THEN {} ELSE @) \cup {p},
              !.mDetached[h] = FALSE]

FaultDetachClient(m, h, p) ==      \* "detached" while other clients remain
    IF ~HasClients(m, h) \/ m.pHostSet[p] # h THEN m
    ELSE [m EXCEPT !.mpClients[h] = @ \ {p}, !.mDetached[h] = @ \/ m.pSet[h] # Ges]

DetachClient(m, h, p) ==
    IF ~HasClients(m, h) \/ m.pHostSet[p] # h THEN m
    ELSE LET rest == m.mpClients[h] \ {p}
         IN  [m EXCEPT !.mpClients[h] = rest,
                       !.mDetached[h] = @ \/ (rest = {} /\ m.pSet[h] # Ges)]

\* RelinkClients(); pHostSet->DetachClient(this): the pair with which a set
\* leaves whatever it shares.
Independent(m, o) ==
    {LET r == RelinkClients(m, o, n) IN DetachClient(r, r.pHostSet[o], o) :
        n \in IF HasClients(m, o) THEN m.mpClients[o] ELSE {o}}

\* Delete what o owns.
Release(m, o) ==
    [m EXCEPT !.heap = Update(m.heap, {m.mpSet[o]}, NULL),
              !.mpSet[o] = NULL]

\* The iterators o tracks refer to no set any more.
Invalidate(m, o) ==
    [m EXCEPT !.iter = Update(m.iter, m.mIterators[o], NoIterator),
              !.mIterators = Update(m.mIterators, {o}, {})]

\* o stops tracking its iterators.
Untrack(m, o) ==
    [m EXCEPT !.iter = [i \in Iter |-> IF i \in m.mIterators[o]
                                       THEN [m.iter[i] EXCEPT !.mAttached = FALSE]
                                       ELSE m.iter[i]],
              !.mIterators = Update(m.mIterators, {o}, {})]

\* The contents of the container Detach() fills: attributes are copied only
\* on demand.
CopyOf(x, flag) == IF flag = "AttrIncl" THEN x ELSE [x EXCEPT !.attr = {}]

\* Strategy A: the clients of o take the copy, in container c and with n as
\* their host.  Their iterators are assigned Iterator(this, ...), which makes
\* o their set; o is locked, so nobody tracks them from then on.  The loop
\* removes an iterator from the set it walks through: beyond the first one
\* the outcome is undefined, and "moved" is any choice with one of each.
ClientsTakeCopy(m, o, flag, n, c, moved) ==
    LET clients == m.mpClients[o]
        a == [m EXCEPT
               !.pHostSet = Update(m.pHostSet, clients, n),
               !.pSet = Update(m.pSet, clients, c),
               !.mpSet = [m.mpSet EXCEPT ![n] = c, ![o] = m.pSet[o]],
               !.mpClients = [m.mpClients EXCEPT ![n] = clients \ {n}, ![o] = {}],
               !.mDetached = [m.mDetached EXCEPT ![n] = @ \/ clients = {n}, ![o] = TRUE],
               !.heap = Update(m.heap, {c}, CopyOf(Data(m, o), flag)),
               !.iter = Update(m.iter, moved, [pBaseSet |-> o, mAttached |-> TRUE, cell |-> c]),
               !.mIterators = [p \in Obj |-> m.mIterators[p] \ moved]]
    IN  Untrack(a, o)

Moved(m, o) ==
    {s \in SUBSET UNION {m.mIterators[p] : p \in m.mpClients[o]} :
        \A p \in m.mpClients[o] : m.mIterators[p] # {} => m.mIterators[p] \cap s # {}}

FaultOwnCopy(m, o, x, c) ==        \* the iterators are left behind
    [m EXCEPT !.pHostSet = Update(m.pHostSet, {o}, o), !.pSet = Update(m.pSet, {o}, c),
              !.mpSet[o] = c, !.mpClients[o] = {}, !.mDetached[o] = TRUE,
              !.heap = Update(m.heap, {c}, x)]

\* Strategy B: o takes the copy, leaves the data it shared to the others and
\* takes its iterators along.  m is the memory after Independent().
OwnCopy(m, o, x, c) ==
    [m EXCEPT !.pHostSet = Update(m.pHostSet, {o}, o), !.pSet = Update(m.pSet, {o}, c),
              !.mpSet[o] = c, !.mpClients[o] = {}, !.mDetached[o] = TRUE,
              !.heap = Update(m.heap, {c}, x),
              !.iter = [i \in Iter |-> IF i \in m.mIterators[o]
                                       THEN [m.iter[i] EXCEPT !.cell = c] ELSE m.iter[i]]]

FaultDetachMoves(m, o, flag) ==    \* the lock is ignored
    IF m.mDetached[o]
    THEN {[m EXCEPT !.heap = Update(m.heap, {m.pSet[o]}, CopyOf(Data(m, o), flag))]}
    ELSE {OwnCopy(i, o, CopyOf(Data(m, o), flag), c) :
            i \in Independent(m, o), c \in FreeCells(m)}

FaultDetachInPlace(m, o, flag) ==  \* a locked set counts as detached
    IF m.mDetached[o] \/ m.mLocked[o]
    THEN {[m EXCEPT !.heap = Update(m.heap, {m.pSet[o]}, CopyOf(Data(m, o), flag))]}
    ELSE {OwnCopy(i, o, CopyOf(Data(m, o), flag), c) :
            i \in Independent(m, o), c \in FreeCells(m)}

Detach(m, o, flag) ==
    IF m.mDetached[o]
    THEN {[m EXCEPT !.heap = Update(m.heap, {m.pSet[o]}, CopyOf(Data(m, o), flag))]}
    ELSE IF m.mLocked[o]
    THEN {ClientsTakeCopy(m, o, flag, n, c, moved) :
            n \in m.mpClients[o], c \in FreeCells(m), moved \in Moved(m, o)}
    ELSE {OwnCopy(i, o, CopyOf(Data(m, o), flag), c) :
            i \in Independent(m, o), c \in FreeCells(m)}

Lock(m, o) ==
    IF m.mLocked[o] THEN {m}
    ELSE {[Untrack(d, o) EXCEPT !.mLocked[o] = TRUE] : d \in Detach(m, o, "AttrIncl")}

\* The assignment of p to o, after o left what it shared and freed what it
\* owned: a client of p's host, or a deep copy where the attributes are of
\* another type.
Share(m, o, p) ==
    AttachClient([m EXCEPT !.pHostSet = Update(m.pHostSet, {o}, m.pHostSet[p]),
                           !.pSet = Update(m.pSet, {o}, m.pSet[p]),
                           !.mpClients[o] = NULL, !.mDetached[o] = FALSE],
                 m.pHostSet[p], o)

DeepCopy(m, o, p, c) ==
    [m EXCEPT !.pHostSet = Update(m.pHostSet, {o}, o), !.pSet = Update(m.pSet, {o}, c),
              !.mpSet[o] = c, !.mpClients[o] = {}, !.mDetached[o] = FALSE,
              !.heap = Update(m.heap, {c},
                              CopyOf(Data(m, p), IF AttributeType[o] = Void
                                                 THEN "SetOnly" ELSE "AttrIncl"))]

Assigned(m, o, p) ==
    LET r == Release(m, o)
    IN  IF AttributeType[o] = AttributeType[p] THEN {Share(r, o, p)}
        ELSE {DeepCopy(r, o, p, c) : c \in FreeCells(r)}

\* A locked set is locked again, which makes the copy at once.
Relock(m, o) ==
    LET v == Invalidate(m, o)
    IN  IF v.mLocked[o] THEN Lock([v EXCEPT !.mLocked[o] = FALSE], o) ELSE {v}

DoCopy(m, o, p) ==
    IF o = p \/ m.pHostSet[o] = m.pHostSet[p] THEN {m}
    ELSE UNION {Relock(a, o) : a \in UNION {Assigned(i, o, p) : i \in Independent(m, o)}}

FaultDissolve(m, o) ==             \* data that clients use is freed
    {Construct(Invalidate(Release(m, o), o), o)}

\* Leave what is shared, free what is owned, invalidate the iterators: all
\* that the destructor does, and Clear() after a copy for the clients.
Dissolve(m, o) ==
    {Construct(Invalidate(Release(i, o), o), o) : i \in Independent(m, o)}
-----------------------------------------------------------------------------
(***************************************************************************)
(* The public operations.                                                  *)
(***************************************************************************)
Init ==
    /\ AttributeType \in Typing
    /\ live = {}
    /\ mem = [pHostSet |-> [o \in Obj |-> o],
              pSet |-> [o \in Obj |-> Ges],
              mpSet |-> [o \in Obj |-> NULL],
              mpClients |-> [o \in Obj |-> {}],
              mDetached |-> [o \in Obj |-> FALSE],
              mLocked |-> [o \in Obj |-> FALSE],
              mIterators |-> [o \in Obj |-> {}],
              heap |-> [c \in Cell |-> NULL],
              iter |-> [i \in Iter |-> NoIterator]]

New(o) ==
    /\ o \notin live
    /\ live' = live \cup {o}
    /\ mem' = Construct(mem, o)
    /\ UNCHANGED AttributeType

Destroy(o) ==
    /\ o \in live
    /\ live' = live \ {o}
    /\ mem' \in Dissolve(mem, o)
    /\ UNCHANGED AttributeType

\* o = p, the copy constructor after New(o), and DoMove().
Assign(o, p) ==
    /\ {o, p} \subseteq live
    /\ mem' \in DoCopy(mem, o, p)
    /\ UNCHANGED <<AttributeType, live>>

CopyWithoutAttributes(o, p) ==
    /\ {o, p} \subseteq live
    /\ \E a \in DoCopy(mem, o, p) : mem' \in Detach(a, o, "SetOnly")
    /\ UNCHANGED <<AttributeType, live>>

Clear(o) ==
    /\ o \in live
    /\ mem.pSet[o] # Ges
    /\ \E d \in IF mem.mLocked[o] THEN Detach(mem, o, "SetOnly") ELSE {mem} :
         mem' \in Dissolve(d, o)
    /\ UNCHANGED <<AttributeType, live>>

LockSet(o) ==
    /\ o \in live
    /\ mem' \in Lock(mem, o)
    /\ UNCHANGED <<AttributeType, live>>

ClearAttributes(o) ==
    /\ o \in live
    /\ Data(mem, o).attr # {}
    /\ mem' \in Detach(mem, o, "SetOnly")
    /\ UNCHANGED <<AttributeType, live>>

\* Every other operation detaches and then writes to the container of o.
Put(m, o, x) == [m EXCEPT !.heap = Update(m.heap, {m.pSet[o]}, x)]

Insert(o, e) ==
    /\ o \in live
    /\ \E d \in Detach(mem, o, "AttrIncl") :
         mem' = Put(d, o, [Data(d, o) EXCEPT !.elems = @ \cup {e}])
    /\ UNCHANGED <<AttributeType, live>>

Erase(o, e) ==
    /\ o \in live
    /\ \E d \in Detach(mem, o, "AttrIncl") :
         mem' = Put(d, o, [elems |-> Data(d, o).elems \ {e}, attr |-> Data(d, o).attr \ {e}])
    /\ UNCHANGED <<AttributeType, live>>

\* New elements come with their attributes, where the types match: the code asks
\* whether the attributes can be cast, which for types none of which derives
\* from another one means that they are the same.
InsertSet(o, p) ==
    /\ {o, p} \subseteq live
    /\ \E d \in Detach(mem, o, "AttrIncl") :
         LET new == Data(d, p).elems \ Data(d, o).elems
             doattr == AttributeType[o] = AttributeType[p]
         IN  mem' = Put(d, o, [elems |-> Data(d, o).elems \cup new,
                               attr |-> Data(d, o).attr
                                        \cup IF doattr THEN new \cap Data(d, p).attr ELSE {}])
    /\ UNCHANGED <<AttributeType, live>>

EraseSet(o, p) ==
    /\ {o, p} \subseteq live
    /\ \E d \in Detach(mem, o, "AttrIncl") :
         mem' = Put(d, o, [elems |-> Data(d, o).elems \ Data(d, p).elems,
                           attr |-> Data(d, o).attr \ Data(d, p).elems])
    /\ UNCHANGED <<AttributeType, live>>

RestrictSet(o, p) ==
    /\ {o, p} \subseteq live
    /\ \E d \in Detach(mem, o, "AttrIncl") :
         mem' = Put(d, o, [elems |-> Data(d, o).elems \cap Data(d, p).elems,
                           attr |-> Data(d, o).attr
                                    \ (Data(d, o).elems \ Data(d, p).elems)])
    /\ UNCHANGED <<AttributeType, live>>

\* Attribute(elem,attr) and ClrAttribute(elem).
SetAttribute(o, e, present) ==
    /\ o \in live
    /\ AttributeType[o] # Void
    /\ e \in Data(mem, o).elems
    /\ \E d \in Detach(mem, o, "AttrIncl") :
         mem' = Put(d, o, [Data(d, o) EXCEPT !.attr =
                             IF present THEN @ \cup {e} ELSE @ \ {e}])
    /\ UNCHANGED <<AttributeType, live>>

\* An iterator of o is assigned to i.  An iterator that is still attached to
\* a set which does not exist any more must not be touched.
DetachIterator(m, i) ==
    IF m.iter[i].mAttached /\ ~m.mLocked[m.iter[i].pBaseSet]
    THEN [m EXCEPT !.mIterators[m.iter[i].pBaseSet] = @ \ {i}]
    ELSE m

AttachIterator(m, i, o) ==
    [m EXCEPT !.iter[i] = [pBaseSet |-> o, mAttached |-> TRUE, cell |-> m.pSet[o]],
              !.mIterators[o] = IF m.mLocked[o] THEN @ ELSE @ \cup {i}]

Usable(i) == mem.iter[i].mAttached => mem.iter[i].pBaseSet \in live

Find(i, o) ==
    /\ o \in live
    /\ Usable(i)
    /\ mem' = IF mem.iter[i].mAttached /\ mem.iter[i].pBaseSet = o
              THEN [mem EXCEPT !.iter[i].cell = mem.pSet[o]]
              ELSE AttachIterator(DetachIterator(mem, i), i, o)
    /\ UNCHANGED <<AttributeType, live>>

\* ~Iterator()
Drop(i) ==
    /\ Usable(i)
    /\ mem.iter[i] # NoIterator
    /\ mem' = [DetachIterator(mem, i) EXCEPT !.iter[i] = NoIterator]
    /\ UNCHANGED <<AttributeType, live>>

\* The operations that detach o and then write to its container.
Modify(o) ==
    \/ ClearAttributes(o)
    \/ \E p \in Obj : InsertSet(o, p) \/ EraseSet(o, p) \/ RestrictSet(o, p)
    \/ \E e \in Elem : \/ Insert(o, e)
                       \/ Erase(o, e)
                       \/ \E present \in BOOLEAN : SetAttribute(o, e, present)

Next ==
    \E o \in Obj :
        \/ New(o)
        \/ Destroy(o)
        \/ Clear(o)
        \/ LockSet(o)
        \/ Modify(o)
        \/ \E p \in Obj : Assign(o, p) \/ CopyWithoutAttributes(o, p)
        \/ \E i \in Iter : Find(i, o) \/ Drop(i)

Spec == Init /\ [][Next]_vars
-----------------------------------------------------------------------------
(***************************************************************************)
(* What must hold.                                                         *)
(***************************************************************************)
\* Types of all fields.
Memory ==
    [pHostSet : [Obj -> Obj],
     pSet : [Obj -> Cell \cup {Ges}],
     mpSet : [Obj -> Cell \cup {NULL}],
     mpClients : [Obj -> {NULL} \cup SUBSET Obj],
     mDetached : [Obj -> BOOLEAN],
     mLocked : [Obj -> BOOLEAN],
     mIterators : [Obj -> SUBSET Iter],
     heap : [Cell -> {NULL} \cup Content],
     iter : [Iter -> [pBaseSet : Obj \cup {NULL}, mAttached : BOOLEAN,
                      cell : Cell \cup {Ges}]]]

\* The sets that exist are places of Obj, and the memory is well typed.
TypeOK == live \subseteq Obj /\ mem \in Memory

\* What TBaseSet::DValid() demands of a set o, which an abort() of a debug
\* build follows otherwise: the iterators it tracks are attached to it; the host
\* of o hosts itself; a client owns nothing, has no clients and is in the list
\* of its host; a host owns what it points to unless that is the global empty
\* set; the clients in a list know whose they are; the flags "detached" and
\* "locked" are right.  Two tests are left out: that a tracked iterator points
\* into the set's container (1777-1786; IteratorsFollow says when it does), and
\* that the place a client recorded in its host's list is right (1849; what
\* RelinkClients() and DetachClient() do to places in a list is not modelled).
DValidSet(o) ==
    LET h == mem.pHostSet[o] IN
    /\ \A i \in mem.mIterators[o] : mem.iter[i].pBaseSet = o /\ mem.iter[i].mAttached
    /\ h \in live
    /\ mem.pHostSet[h] = h
    /\ mem.mpClients[h] # NULL
    /\ \A p \in mem.mpClients[h] : p \in live /\ mem.pHostSet[p] = h
    /\ mem.pSet[o] = mem.pSet[h]
    /\ h # o => mem.mpSet[o] = NULL /\ mem.mpClients[o] = NULL /\ o \in mem.mpClients[h]
    /\ h = o => mem.pSet[o] \in {Ges, mem.mpSet[o]}
    /\ mem.mDetached[o] => mem.mpClients[o] = {} /\ mem.pSet[o] # Ges
    /\ mem.mLocked[o] => mem.mpClients[o] # NULL

DValid == \A o \in live : DValidSet(o)

\* No set points to a container that was freed, and none is owned twice: each
\* is deleted once, by the last set that shares it.
NoDanglingData ==
    \A o \in live :
        /\ mem.pSet[o] # Ges => mem.heap[mem.pSet[o]] # NULL
        /\ \A p \in live \ {o} : mem.mpSet[o] # NULL => mem.mpSet[p] # mem.mpSet[o]

\* No container is lost: as long as the sets have attributes of one type, each
\* container on the heap is owned by a set, which will delete it.  (A deep copy
\* between types resets the flag "detached" after the copy, cfl_baseset.h:1438,
\* and the next change of the set forgets the container.)
NoLostData ==
    (\A o, p \in Obj : AttributeType[o] = AttributeType[p]) =>
        \A c \in Cell : mem.heap[c] # NULL => \E o \in live : mem.mpSet[o] = c

\* Containers are deleted when, and only when, the last set that shares them
\* goes or changes.
DataOwned == NoDanglingData /\ NoLostData

\* Lock() is kept: no operation on another set, and none on the set itself
\* but assignment, Clear() and the destructor, moves the container of a
\* locked set, so that its untracked iterators stay valid.
LockedStays ==
    [][\A o \in live : mem.mLocked[o] /\ mem'.pSet[o] # mem.pSet[o] =>
           \/ Destroy(o) \/ Clear(o)
           \/ \E p \in live : Assign(o, p) \/ CopyWithoutAttributes(o, p)]_vars

\* The calls that have no use for attributes and make the copy without them,
\* whoever takes it.
DropsAttributes(o) ==
    Clear(o) \/ ClearAttributes(o) \/ \E p \in Obj : CopyWithoutAttributes(o, p)

\* Attributes are copied on write as the elements are: an operation changes
\* the attributes of the one set it is called for.  The exception are these
\* three calls, where the sets that share the data of a locked one, and take
\* the copy when it changes, lose their attributes.
AttributesOfOne ==
    [][\E o \in Obj : \A p \in (live \cap live') \ {o} :
           \/ Data(mem', p).attr = Data(mem, p).attr
           \/ mem.pHostSet[p] = o /\ mem.mLocked[o] /\ DropsAttributes(o)]_vars

\* Sharing is transparent: seen through its public functions each set has a
\* value of its own (module ValueSets).
Value(o) == IF o \in live THEN Data(mem, o).elems ELSE {}

Values == INSTANCE ValueSets WITH value <- [o \in Obj |-> Value(o)]

ActsAsValues == Values!Spec

\* "TBaseSet tracks iterators and fixes them when the actual copy takes place"
\* (cfl_baseset.h:71): whatever happens to a set and to those it shares its data
\* with, an iterator it tracks that points into its container still does so
\* afterwards, wherever the container is then, unless it was invalidated or the
\* application has assigned it.  The exception are the iterators of clients of
\* a locked set when that set changes: see ClientsTakeCopy.
IteratorsFollow ==
    [][\A o \in live : \A i \in mem.mIterators[o] :
         mem.iter[i].cell = mem.pSet[o] =>
           LET new == mem'.iter[i]
           IN  \/ new = NoIterator
               \/ new.pBaseSet = o /\ new.cell = mem'.pSet[o]
               \/ \E p \in Obj : Find(i, p)
               \/ \E h \in live \ {o} :
                     /\ mem.pHostSet[o] = h /\ mem.mLocked[h]
                     /\ Modify(h) \/ DropsAttributes(h)]_vars
=============================================================================
