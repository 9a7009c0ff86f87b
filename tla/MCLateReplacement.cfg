SPECIFICATION Spec
CONSTANTS
    L1s = {c1}
    MaxWrites = 1
    NoData = NoData
    Workloads = {{"L2_Replacement", "SlowMemory", "DMA_READ", "DMA_WRITE"}}
    DirInOrder = TRUE
SYMMETRY CoreSymmetry
INVARIANT LateReplacementAbsorbed
