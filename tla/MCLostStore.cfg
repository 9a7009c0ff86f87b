SPECIFICATION Spec
CONSTANTS
    L1s = {c1, c2}
    MaxWrites = 2
    NoData = NoData
    Workloads = {{"L1_Replacement", "L2_Replacement", "SlowMemory"}}
    DirInOrder = TRUE
SYMMETRY CoreSymmetry
INVARIANT LastWriteKept
