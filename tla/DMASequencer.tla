---------------------------- MODULE DMASequencer ----------------------------
(***************************************************************************)
(* The DMA sequencer, with the controller of MESI_Two_Level-dma.sm for all *)
(* lines and the retries of the RubyPort it extends.  A request may span   *)
(* several lines: it is entered under its first line and sent line by      *)
(* line, and an answer for a later line finds its way back through         *)
(* m_blockToLineMap.  Addresses count bytes.                               *)
(*                                                                         *)
(* Requests that share a line begin in it, as those of the devices do,     *)
(* whose port cuts every transfer at the lines.                            *)
(***************************************************************************)
EXTENDS Integers, Sequences, FiniteSets

CONSTANTS
    Ports,                      \* the devices' ports
    NumLines,
    BlockSize,                  \* getBlockSizeBytes()
    Packets,                    \* the requests the devices make
    m_max_outstanding_requests,
    None

ASSUME DMAAssumption ==
    /\ NumLines \in Nat \ {0} /\ BlockSize \in Nat \ {0}
    /\ m_max_outstanding_requests \in Nat \ {0}
    /\ None \notin Ports \union Int

Lines == 0 .. NumLines - 1
Bytes == 0 .. NumLines * BlockSize - 1

\* A request of a device is not empty and ends within the memory.
ASSUME PacketAssumption ==
    \A r \in Packets :
        /\ r \in [paddr : Bytes, len : Nat \ {0}, write : BOOLEAN]
        /\ r.paddr + r.len <= NumLines * BlockSize

makeLineAddress(a) == a \div BlockSize
Offset(a) == a % BlockSize

Spans(r) == makeLineAddress(r.paddr) .. makeLineAddress(r.paddr + r.len - 1)

VARIABLES
    m_RequestTable,       \* first line -> DMARequest
    m_outstanding_count,
    m_blockToLineMap,     \* later line -> the first line of its request
    m_mandatory_q,        \* SequencerMsgs the controller has not taken
    TBEs,                 \* line -> the SequencerMsg the directory works on
    retryList,
    refused,              \* port -> the packet it has to send again
    retrying              \* the ports the running callback still retries

vars == <<m_RequestTable, m_outstanding_count, m_blockToLineMap, m_mandatory_q,
          TBEs, retryList, refused, retrying>>

\* `moved' records which byte of the device's buffer went to, or came from,
\* which address.
DMARequest(r, bytes) == [pkt |-> r, bytes_completed |-> 0, bytes_issued |-> bytes,
                         moved |-> {}]
SequencerMsg(r, bytes, index) == [paddr |-> r.paddr + index, len |-> bytes,
                                  write |-> r.write, index |-> index]

Init ==
    /\ m_RequestTable = [l \in Lines |-> None]
    /\ m_outstanding_count = 0
    /\ m_blockToLineMap = [l \in Lines |-> None]
    /\ m_mandatory_q = <<>>
    /\ TBEs = [l \in Lines |-> None]
    /\ retryList = <<>> /\ retrying = <<>>
    /\ refused = [p \in Ports |-> None]

-----------------------------------------------------------------------------
(* makeRequest, called by RubyPort::recvTimingReq                          *)

RequestStatus(r) ==
    IF m_outstanding_count = m_max_outstanding_requests THEN "BufferFull"
    ELSE IF m_RequestTable[makeLineAddress(r.paddr)] # None THEN "Aliased"
    ELSE "Issued"

\* Mutant: the first message is cut as if it began with its line.
FirstLenFromLineStart(r) == IF r.len <= BlockSize THEN r.len ELSE BlockSize

\* The first message goes up to the end of its line.
FirstLen(r) ==
    IF Offset(r.paddr) + r.len <= BlockSize
    THEN r.len ELSE BlockSize - Offset(r.paddr)

Accept(p, r) ==
    /\ RequestStatus(r) = "Issued"
    /\ m_RequestTable' =
         [m_RequestTable EXCEPT ![makeLineAddress(r.paddr)] =
            DMARequest(r, FirstLen(r))]
    /\ m_outstanding_count' = m_outstanding_count + 1
    /\ m_mandatory_q' = Append(m_mandatory_q, SequencerMsg(r, FirstLen(r), 0))
    /\ refused' = [refused EXCEPT ![p] = None]
    /\ UNCHANGED <<m_blockToLineMap, TBEs, retryList>>

Refuse(p, r) ==
    /\ RequestStatus(r) # "Issued"
    /\ refused' = [refused EXCEPT ![p] = r]
    /\ retryList' = IF \E i \in DOMAIN retryList : retryList[i] = p
                    THEN retryList ELSE Append(retryList, p)
    /\ UNCHANGED <<m_RequestTable, m_outstanding_count, m_blockToLineMap,
                   m_mandatory_q, TBEs>>

\* The packets the sequencer holds or will be sent again.
Pending ==
    {m_RequestTable[l].pkt : l \in {k \in Lines : m_RequestTable[k] # None}}
        \union {refused[p] : p \in {q \in Ports : refused[q] # None}}

MaySend(p, r) ==
    /\ retrying = <<>> /\ refused[p] = None
    /\ \A q \in Pending : Spans(q) \intersect Spans(r) # {} =>
         Cardinality(Spans(q)) = 1 /\ Cardinality(Spans(r)) = 1

Send(p, r) == MaySend(p, r) /\ Accept(p, r) /\ UNCHANGED retrying
SendRefused(p, r) == MaySend(p, r) /\ Refuse(p, r) /\ UNCHANGED retrying

\* trySendRetries: each port of the emptied list sends its packet again.
RetryAccepted ==
    /\ retrying # <<>> /\ Accept(Head(retrying), refused[Head(retrying)])
    /\ retrying' = Tail(retrying)

RetryRefused ==
    /\ retrying # <<>> /\ Refuse(Head(retrying), refused[Head(retrying)])
    /\ retrying' = Tail(retrying)

-----------------------------------------------------------------------------
(* The controller                                                          *)

\* ReadRequest and WriteRequest: a message for a READY line goes to the
\* directory.  One for a busy line is stalled, and every answer wakes all the
\* stalled ones in their old order.
TakeRequest(i) ==
    LET msg == m_mandatory_q[i]
        l == makeLineAddress(msg.paddr)
    IN  /\ retrying = <<>>
        /\ TBEs[l] = None
        /\ \A j \in 1 .. i - 1 : TBEs[makeLineAddress(m_mandatory_q[j].paddr)] # None
        /\ TBEs' = [TBEs EXCEPT ![l] = msg]
        /\ m_mandatory_q' =
             [j \in 1 .. Len(m_mandatory_q) - 1 |->
                 m_mandatory_q[IF j < i THEN j ELSE j + 1]]
        /\ UNCHANGED <<m_RequestTable, m_outstanding_count, m_blockToLineMap,
                       retryList, refused, retrying>>

\* The original request of an answer for line l.
lookup_addr(l) ==
    IF m_blockToLineMap[l] # None THEN m_blockToLineMap[l] ELSE l

\* dataCallback copies the piece of the line that was asked for; a write has
\* moved what its message carried.  Neither goes beyond the line.
Moves(l, req) ==
    LET n == req.bytes_issued - req.bytes_completed
        offset == IF req.bytes_completed = 0 THEN Offset(req.pkt.paddr) ELSE 0
        pairs == IF req.pkt.write
                 THEN {<<TBEs[l].index + k, TBEs[l].paddr + k>> :
                          k \in 0 .. TBEs[l].len - 1}
                 ELSE {<<req.bytes_completed + k, l * BlockSize + offset + k>> :
                          k \in 0 .. n - 1}
    IN  {x \in pairs : makeLineAddress(x[2]) = l}

Answered(l) ==
    LET req == m_RequestTable[lookup_addr(l)]
    IN  [req EXCEPT !.bytes_completed = req.bytes_issued,
                    !.moved = @ \union Moves(l, req)]

\* The directory's answer: dataCallback or ackCallback, and the TBE is freed.
Answer(l) ==
    /\ retrying = <<>> /\ TBEs[l] # None
    /\ TBEs' = [TBEs EXCEPT ![l] = None]

\* Mutant: the completed request stays in the table.
CompleteKeepingEntry(l) ==
    LET req == Answered(l)
    IN  /\ Answer(l)
        /\ req.pkt.len = req.bytes_completed
        /\ m_outstanding_count' = m_outstanding_count - 1
        /\ m_blockToLineMap' = [m_blockToLineMap EXCEPT ![l] = None]
        /\ retrying' = retryList /\ retryList' = <<>>
        /\ UNCHANGED <<m_RequestTable, m_mandatory_q, refused>>

\* Mutant: no port is retried.
CompleteOnly(l) ==
    LET first == lookup_addr(l)
        req == Answered(l)
    IN  /\ Answer(l)
        /\ req.pkt.len = req.bytes_completed
        /\ m_outstanding_count' = m_outstanding_count - 1
        /\ m_RequestTable' = [m_RequestTable EXCEPT ![first] = None]
        /\ m_blockToLineMap' = [m_blockToLineMap EXCEPT ![l] = None]
        /\ UNCHANGED <<m_mandatory_q, refused, retrying, retryList>>

\* issueNext: the request is complete.
Complete(l) ==
    LET first == lookup_addr(l)
        req == Answered(l)
    IN  /\ Answer(l)
        /\ req.pkt.len = req.bytes_completed
        /\ m_outstanding_count' = m_outstanding_count - 1
        /\ m_RequestTable' = [m_RequestTable EXCEPT ![first] = None]
        /\ m_blockToLineMap' = [m_blockToLineMap EXCEPT ![l] = None]
        /\ retrying' = retryList /\ retryList' = <<>>
        /\ UNCHANGED <<m_mandatory_q, refused>>

\* Mutant: the way back from the next line is not recorded.
IssueNextUnmapped(l) ==
    LET first == lookup_addr(l)
        req == Answered(l)
        left == req.pkt.len - req.bytes_completed
        n == IF left < BlockSize THEN left ELSE BlockSize
    IN  /\ Answer(l)
        /\ req.pkt.len # req.bytes_completed
        /\ m_RequestTable' = [m_RequestTable EXCEPT ![first] =
                                 [req EXCEPT !.bytes_issued = @ + n]]
        /\ m_mandatory_q' =
             Append(m_mandatory_q, SequencerMsg(req.pkt, n, req.bytes_completed))
        /\ UNCHANGED <<m_outstanding_count, m_blockToLineMap, retryList, refused,
                       retrying>>

\* issueNext: the next message, of a line or of what is left.
IssueNext(l) ==
    LET first == lookup_addr(l)
        req == Answered(l)
        left == req.pkt.len - req.bytes_completed
        n == IF left < BlockSize THEN left ELSE BlockSize
        new_line_addr == makeLineAddress(req.pkt.paddr + req.bytes_completed)
    IN  /\ Answer(l)
        /\ req.pkt.len # req.bytes_completed
        /\ m_blockToLineMap' =
             IF new_line_addr # first
             THEN [m_blockToLineMap EXCEPT ![l] = None, ![new_line_addr] = first]
             ELSE [m_blockToLineMap EXCEPT ![l] = None]
        /\ m_RequestTable' = [m_RequestTable EXCEPT ![first] =
                                 [req EXCEPT !.bytes_issued = @ + n]]
        /\ m_mandatory_q' =
             Append(m_mandatory_q, SequencerMsg(req.pkt, n, req.bytes_completed))
        /\ UNCHANGED <<m_outstanding_count, retryList, refused, retrying>>

-----------------------------------------------------------------------------
AnySend == \E p \in Ports, r \in Packets : Send(p, r)
AnySendRefused == \E p \in Ports, r \in Packets : SendRefused(p, r)
AnyTake == \E i \in DOMAIN m_mandatory_q : TakeRequest(i)
AnyComplete == \E l \in Lines : Complete(l)
AnyIssueNext == \E l \in Lines : IssueNext(l)

Next ==
    \/ AnySend \/ AnySendRefused \/ RetryAccepted \/ RetryRefused
    \/ AnyTake \/ AnyComplete \/ AnyIssueNext

Spec == Init /\ [][Next]_vars

\* A callback runs to its end; the controller takes its messages and the
\* directory answers, neither of which waits for the moments when no callback
\* runs.
Fairness ==
    /\ WF_vars(RetryAccepted \/ RetryRefused)
    /\ SF_vars(AnyTake)
    /\ \A l \in Lines : SF_vars(Complete(l) \/ IssueNext(l))

LiveSpec == Spec /\ Fairness

-----------------------------------------------------------------------------
\* Every completed request has moved each of its bytes between the right
\* place of the device's buffer and the right address, and no other byte,
\* whatever its offset, its length and the lines it crosses.
Exactly(r) == {<<k, r.paddr + k>> : k \in 0 .. r.len - 1}

MovedExactly ==
    [][\A l \in Lines : Complete(l) => Answered(l).moved = Exactly(Answered(l).pkt)]_vars

\* What the callbacks assert: the answer for a line in flight leads to an
\* active request, which is of the answer's kind and has exactly that piece
\* outstanding, and the count of requests is the size of the table and within
\* its limit, also while ports are retried inside a callback.
InFlight == {TBEs[l] : l \in {k \in Lines : TBEs[k] # None}}
                \union {m_mandatory_q[i] : i \in DOMAIN m_mandatory_q}

AnswersFindRequest ==
    /\ \A msg \in InFlight :
         LET req == m_RequestTable[lookup_addr(makeLineAddress(msg.paddr))]
         IN  /\ req # None
             /\ req.pkt.write = msg.write
             /\ msg.index = req.bytes_completed
             /\ msg.index + msg.len = req.bytes_issued
             /\ msg.paddr = req.pkt.paddr + msg.index
    /\ m_outstanding_count = Cardinality({l \in Lines : m_RequestTable[l] # None})
    /\ m_outstanding_count <= m_max_outstanding_requests

\* Every request the sequencer has accepted is completed.
AllCompleted ==
    \A l \in Lines : m_RequestTable[l] # None ~> m_RequestTable[l] = None

\* Every refused packet is accepted in the end: the completion of the
\* request in its way retries its port.
PacketIsAccepted == \A p \in Ports : refused[p] # None ~> refused[p] = None
=============================================================================
