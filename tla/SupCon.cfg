CONSTANTS
    State <- TwoStates
    Event <- TwoEvents
    None <- NoState
    Plants <- AllPlants
    Specs <- AllSpecs
SPECIFICATION FairSpec
CHECK_DEADLOCK FALSE
INVARIANTS
    TypeOK
    ResultSolves
    ResultSupremal
    ResultPermissive
    PassControllable
PROPERTIES
    Terminates
