SPECIFICATION Spec
CONSTANTS
    o1 = o1
    o2 = o2
    o3 = o3
    Typed = Typed
    Void = Void
    NULL = NULL
    Ges = Ges
    Obj = {o1, o2, o3}
    Cell = {c1, c2, c3}
    Elem = {e1}
    Iter = {i1}
    Typing <- Typings
SYMMETRY Symmetry
INVARIANTS
    TypeOK
    DValid
    DataOwned
PROPERTIES
    LockedStays
    AttributesOfOne
    ActsAsValues
    IteratorsFollow
