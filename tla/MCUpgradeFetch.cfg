SPECIFICATION Spec
CONSTANTS
    L1s = {c1, c2}
    MaxWrites = 1
    NoData = NoData
    Workloads = {{"L2_Replacement", "SlowMemory"}}
    DirInOrder = TRUE
SYMMETRY CoreSymmetry
INVARIANT NoPanic
