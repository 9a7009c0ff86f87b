SPECIFICATION LiveSpec
CONSTANTS
    Ports = {data, inst}
    LockPort = data
    Lines = {l1, l2}
    m_max_outstanding_requests = 2
    None = None
INVARIANTS
    CountMatches
    OneInTheCache
    NoLostRetry
    LockExclusive
    DrainAndWatch
PROPERTIES
    RefusedIsAccepted
    AllPerformed

