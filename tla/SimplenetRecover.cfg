CONSTANTS
    n1 = n1
    n2 = n2
    Node <- TwoNodes
    Event <- Events
    Inputs <- InputsOf
    Outputs <- OutputsOf
    Hardwired <- TwoNodes
    GreetFails = FALSE
    HostFails = FALSE
    MaxConn = 2
    MaxWrite = 0
    MaxLoss = 0
    MaxCrash = 1
    MaxStop = 0
    MaxReset = 0
SPECIFICATION FairSpec
INVARIANTS
PROPERTIES
    AllUp
    UpMeansLinked
