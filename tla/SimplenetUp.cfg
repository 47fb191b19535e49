CONSTANTS
    n1 = n1
    n2 = n2
    Node <- TwoNodes
    Event <- Events
    Inputs <- InputsOf
    Outputs <- OneWriter
    Hardwired <- FirstNode
    GreetFails = FALSE
    HostFails = FALSE
    MaxConn = 1
    MaxWrite = 1
    MaxLoss = 1
    MaxCrash = 0
    MaxStop = 0
    MaxReset = 0
SPECIFICATION FairSpec
PROPERTIES
    AllUp
    RequestsAnswered
    UpMeansHeard
