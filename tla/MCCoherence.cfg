SPECIFICATION Spec
CONSTANTS
    L1s = {c1, c2, c3}
    MaxWrites = 2
    NoData = NoData
    Workloads = {{"L1_Replacement"},
                 {"L1_Replacement", "L2_Replacement", "SlowMemory"},
                 {"L2_Replacement", "Decay"},
                 {"DMA_READ", "DMA_WRITE", "SlowMemory"}}
    DirInOrder = TRUE
SYMMETRY CoreSymmetry
INVARIANTS
    TypeOK
    OnlyUpgradePanics
    CopiesCurrent
    SingleWriter
    AcksAddUp
    NoLostWakeup
    Inclusion
