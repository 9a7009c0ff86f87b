SPECIFICATION LiveSpec
CONSTANTS
    L1s = {c1, c2}
    MaxWrites = 2
    NoData = NoData
    Workloads = {{"L1_Replacement"},
                 {"L2_Replacement", "Decay"},
                 {"DMA_READ", "DMA_WRITE", "SlowMemory"}}
    DirInOrder = TRUE
INVARIANT LastWriteKept
PROPERTIES
    ImplementsCoherentLine
    DMAReadsCurrent
    MissCompletes
    WritebackCompletes
    EvictionCompletes
    DMACompletes
