SPECIFICATION LiveSpec
CONSTANTS
    Ports = {d1, d2}
    NumLines = 3
    BlockSize = 2
    Packets <- MCPackets
    m_max_outstanding_requests = 2
    None = None
INVARIANTS
    AnswersFindRequest
PROPERTIES
    MovedExactly
    AllCompleted
    PacketIsAccepted
