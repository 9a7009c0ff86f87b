SPECIFICATION Spec
CONSTANTS
    Addrs = {a1, a2}
    InPortSize = 2
    MemQueueSize = 1
    NumPorts = 3
    TransitionsPerCycle = 2
    RecycleLatency = 1
    MaxTime = 3
    MaxMsgs <- MCMaxMsgs
SYMMETRY AddrSymmetry
INVARIANTS
    NeverOverfull
    StalledIsListed
    NoMessageSleeps
PROPERTY
    TakenInOrder
CHECK_DEADLOCK FALSE
