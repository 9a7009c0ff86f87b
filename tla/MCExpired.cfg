SPECIFICATION Spec
CONSTANTS
    L1s = {c1, c2}
    MaxWrites = 1
    NoData = NoData
    Workloads = {{"Decay", "SlowMemory"}}
    DirInOrder = TRUE
SYMMETRY CoreSymmetry
PROPERTY ExpiredNeverServed
