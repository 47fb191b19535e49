CONSTANTS
    n1 = n1
    n2 = n2
    Node <- TwoNodes
    Event <- Events
    Inputs <- InputsOf
    Outputs <- OneWriter
    Hardwired <- TwoNodes
    GreetFails = FALSE
    HostFails = TRUE
    MaxConn = 2
    MaxWrite = 2
    MaxLoss = 0
    MaxCrash = 1
    MaxStop = 0
    MaxReset = 0
SPECIFICATION Spec
INVARIANTS
    TypeOK
    EventsInOrder
    SubscriptionKept
PROPERTIES
    RefinesEventNetwork
