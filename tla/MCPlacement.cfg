CONSTANTS
    Null = Null
    Lines <- MCLines
    NumSets = 8
    IndexedSets = 8
    NumZones = 4
    Lazy = TRUE
    CounterMax = 3
    Banks = 1
    ClockPeriod = 1
    Assoc = 1
    IsSttram = TRUE
    RetentionTime <- MCRetention
    ReadLatency <- MCLatency
    WriteLatency <- MCLatency
    ResourceStalls = FALSE
    Permissions = {"Read_Only"}
    MaxTick = 2
    MaxBacklog = 0
SPECIFICATION Spec
INVARIANTS TagIndexConsistent RetentionNeverOverstated
PROPERTIES RouteSettles ImplementsBlockStore
