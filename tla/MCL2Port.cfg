CONSTANTS
    Null = Null
    Lines <- MCLines
    NumSets = 2
    IndexedSets = 2
    NumZones = 1
    Lazy = FALSE
    CounterMax = 15
    Banks = 1
    ClockPeriod = 1
    Assoc = 2
    IsSttram = TRUE
    RetentionTime <- MCRetention
    ReadLatency <- MCReadLatency
    WriteLatency <- MCWriteLatency
    ResourceStalls = TRUE
    Permissions = {"Read_Only", "Read_Write", "Busy", "Maybe_Stale"}
    MaxTick = 3
    MaxBacklog = 9
    MaxRequests = 3
    Cores = {c1, c2}
SPECIFICATION PortSpec
SYMMETRY CoreSymmetry
INVARIANTS
    StateMatchesArray
    CallsAreServed
    StalledOnTransaction
    BacklogBounded
    NoFalseExpiry
PROPERTY TransactionKeepsWay
CHECK_DEADLOCK FALSE
