CONSTANTS
    n1 = n1
    n2 = n2
    Node <- TwoNodes
    Event <- Events
    Inputs <- InputsOf
    Outputs <- OutputsOf
    Hardwired <- TwoNodes
    GreetFails = TRUE
    HostFails = FALSE
    MaxConn = 3
    MaxWrite = 0
    MaxLoss = 0
    MaxCrash = 0
    MaxStop = 1
    MaxReset = 1
SPECIFICATION Spec
INVARIANTS
    SocketsRecorded
CHECK_DEADLOCK FALSE
