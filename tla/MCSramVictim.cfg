CONSTANTS
    Null = Null
    Lines <- MCLines
    NumSets = 2
    IndexedSets = 2
    NumZones = 1
    Lazy = FALSE
    CounterMax = 15
    Banks = 1
    ClockPeriod = 1
    Assoc = 2
    IsSttram = FALSE
    RetentionTime <- MCRetention
    ReadLatency <- MCReadLatency
    WriteLatency <- MCWriteLatency
    ResourceStalls = FALSE
    Permissions = {"Read_Only", "Busy"}
    MaxTick = 2
    MaxBacklog = 0
SPECIFICATION Spec
INVARIANTS SramEvictsByPolicy
