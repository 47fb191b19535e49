CONSTANTS
    n1 = n1
    n2 = n2
    s1 = s1
    NetDevice <- TwoNet
    SignalDevice <- OneSig
    MaxBuffer = 2
    MaxBatch = 2
SPECIFICATION Spec
INVARIANTS
    NoLostWakeupAnyDevice
