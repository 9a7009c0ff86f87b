----------------------------- MODULE Sequencer -----------------------------
(***************************************************************************)
(* The sequencer between a core's ports and its L1 controller (Sequencer   *)
(* and the RubyPort it extends).  Requests for one line share one request  *)
(* to the cache: the others wait behind it in the line's list and are      *)
(* served, or issued again, by the callback that answers the first.  A     *)
(* port whose request is refused is retried from inside later callbacks,   *)
(* so a callback is a sequence of steps during which the list it serves    *)
(* may grow; nothing else runs until it returns.                           *)
(*                                                                         *)
(* Loads stand for instruction fetches too, and stores for the read half   *)
(* of an ordinary read-modify-write.  Only the port in LockPort sends      *)
(* x86 locked accesses.                                                    *)
(***************************************************************************)
EXTENDS Naturals, Sequences, FiniteSets

CONSTANTS
    Ports,                     \* response_ports
    LockPort,                  \* the core's data port
    Lines,
    m_max_outstanding_requests,
    None

ASSUME SequencerAssumption ==
    /\ LockPort \in Ports
    /\ m_max_outstanding_requests \in Nat \ {0}

VARIABLES
    m_RequestTable,       \* line -> its SequencerRequests, oldest first
    m_outstanding_count,
    m_mandatory_q,        \* line -> the types of its requests to the L1
    m_block_map,          \* the controller's lines blocked for a locked access
    retryList,            \* the ports to retry
    refused,              \* port -> the request it has to send again
    locking,              \* the line the core has locked or is locking
    callback,             \* the callback in progress
    drainState,
    deadlockCheckEvent    \* it is scheduled

vars == <<m_RequestTable, m_outstanding_count, m_mandatory_q, m_block_map,
          retryList, refused, locking, callback, drainState,
          deadlockCheckEvent>>

Types == {"LD", "ST", "Locked_RMW_Read", "Locked_RMW_Write"}

Request == [port : Ports, line : Lines, type : Types]
SequencerRequest == [port : Ports, type : Types]

\* The callback serves the front of the line's list (ruby_request: the
\* first, which the L1 answered), then retries the ports in `retries'.
Callback == [line : Lines, kind : {"read", "write"}, ruby_request : BOOLEAN,
             retries : Seq(Ports), serving : BOOLEAN]

\* None stands for the absence of a line, a request or a callback.
ASSUME NoneAssumption ==
    None \notin Lines /\ None \notin Request /\ None \notin Callback

secondary_type(type) == IF type = "LD" THEN "LD" ELSE "ST"

\* The places of the table: total_outstanding is their number.
Outstanding == UNION {{l} \X DOMAIN m_RequestTable[l] : l \in Lines}

TypeOK ==
    /\ m_RequestTable \in [Lines -> Seq(SequencerRequest)]
    /\ m_outstanding_count \in Nat
    /\ m_mandatory_q \in [Lines -> Seq({"LD", "ST"})]
    /\ m_block_map \subseteq Lines
    /\ retryList \in Seq(Ports)
    /\ refused \in [Ports -> Request \union {None}]
    /\ locking \in Lines \union {None}
    /\ callback \in Callback \union {None}
    /\ drainState \in {"Running", "Draining", "Drained"}
    /\ deadlockCheckEvent \in BOOLEAN

Init ==
    /\ m_RequestTable = [l \in Lines |-> <<>>]
    /\ m_outstanding_count = 0
    /\ m_mandatory_q = [l \in Lines |-> <<>>]
    /\ m_block_map = {}
    /\ retryList = <<>>
    /\ refused = [p \in Ports |-> None]
    /\ locking = None
    /\ callback = None
    /\ drainState = "Running"
    /\ deadlockCheckEvent = FALSE

-----------------------------------------------------------------------------
(* makeRequest                                                             *)

\* Mutant: one request too many is let in.
RequestStatusOffByOne(r) ==
    IF m_outstanding_count > m_max_outstanding_requests THEN "BufferFull"
    ELSE IF r.line \in m_block_map /\ r.type # "Locked_RMW_Write" THEN "Aliased"
    ELSE "Issued"

RequestStatus(r) ==
    IF m_outstanding_count >= m_max_outstanding_requests THEN "BufferFull"
    ELSE IF r.line \in m_block_map /\ r.type # "Locked_RMW_Write" THEN "Aliased"
    ELSE "Issued"

issueRequest(l, type) ==
    m_mandatory_q' = [m_mandatory_q EXCEPT ![l] = Append(@, secondary_type(type))]

\* insertRequest, and issueRequest unless the line has a request already.
Accept(r) ==
    /\ RequestStatus(r) = "Issued"
    /\ m_RequestTable' =
         [m_RequestTable EXCEPT ![r.line] =
            Append(@, [port |-> r.port, type |-> r.type])]
    /\ m_outstanding_count' = m_outstanding_count + 1
    /\ deadlockCheckEvent' = (deadlockCheckEvent \/ drainState # "Draining")
    /\ IF m_RequestTable[r.line] = <<>>
       THEN issueRequest(r.line, r.type) ELSE UNCHANGED m_mandatory_q
    /\ refused' = [refused EXCEPT ![r.port] = None]
    /\ UNCHANGED <<m_block_map, drainState>>

\* Mutant: the retry list has room for one port.
RefuseReplacing(r, list) ==
    /\ RequestStatus(r) # "Issued"
    /\ refused' = [refused EXCEPT ![r.port] = r]
    /\ retryList' = <<r.port>>
    /\ UNCHANGED <<m_RequestTable, m_outstanding_count, m_mandatory_q,
                   m_block_map, drainState, deadlockCheckEvent>>

\* addToRetryList
Refuse(r, list) ==
    /\ RequestStatus(r) # "Issued"
    /\ refused' = [refused EXCEPT ![r.port] = r]
    /\ retryList' = IF \E i \in DOMAIN list : list[i] = r.port THEN list ELSE Append(list, r.port)
    /\ UNCHANGED <<m_RequestTable, m_outstanding_count, m_mandatory_q,
                   m_block_map, drainState, deadlockCheckEvent>>

-----------------------------------------------------------------------------
(* What the core does.  A port waits for its retry; the data port sends    *)
(* nothing between the two halves of a locked access.                      *)

LockedReadDone == locking # None /\ locking \in m_block_map

MaySend(r) ==
    /\ callback = None /\ refused[r.port] = None
    /\ CASE r.type = "Locked_RMW_Write" ->
              /\ r.port = LockPort /\ LockedReadDone /\ r.line = locking
              /\ \A i \in DOMAIN m_RequestTable[locking] :
                   m_RequestTable[locking][i].type # "Locked_RMW_Write"
         [] r.type = "Locked_RMW_Read" -> r.port = LockPort /\ locking = None
         [] OTHER -> r.port = LockPort => locking = None

\* RubyPort::recvTimingReq accepts or refuses a new request.
Send(r) ==
    /\ MaySend(r)
    /\ Accept(r) /\ UNCHANGED retryList
    /\ locking' = IF r.type = "Locked_RMW_Read" THEN r.line ELSE locking
    /\ UNCHANGED callback

SendRefused(r) ==
    /\ MaySend(r)
    /\ Refuse(r, retryList)
    /\ locking' = IF r.type = "Locked_RMW_Read" THEN r.line ELSE locking
    /\ UNCHANGED callback

-----------------------------------------------------------------------------
(* The L1 answers: readCallback and writeCallback.                         *)

Answer(l) ==
    /\ callback = None
    /\ m_mandatory_q[l] # <<>>
    /\ m_mandatory_q' = [m_mandatory_q EXCEPT ![l] = Tail(@)]
    /\ callback' = [line |-> l, ruby_request |-> TRUE,
                    kind |-> IF Head(m_mandatory_q[l]) = "LD" THEN "read" ELSE "write",
                    retries |-> <<>>, serving |-> FALSE]
    /\ UNCHANGED <<m_RequestTable, m_outstanding_count, m_block_map, retryList,
                   refused, locking, drainState, deadlockCheckEvent>>

Between == callback # None /\ ~callback.serving

seq_req == Head(m_RequestTable[callback.line])

\* Mutant: a store behind a store goes to the cache itself, too.
ReissuesEveryStore == seq_req.type # "LD" /\ ~callback.ruby_request

Reissues == callback.kind = "read" /\ seq_req.type # "LD"

\* Mutant: no port is retried.
ServeFrontOnly ==
    /\ Between /\ m_RequestTable[callback.line] # <<>> /\ ~Reissues
    /\ m_outstanding_count' = m_outstanding_count - 1
    /\ m_block_map' =
         CASE seq_req.type = "Locked_RMW_Read" -> m_block_map \union {callback.line}
           [] seq_req.type = "Locked_RMW_Write" -> m_block_map \ {callback.line}
           [] OTHER -> m_block_map
    /\ locking' = IF seq_req.type = "Locked_RMW_Write" THEN None ELSE locking
    /\ callback' = [callback EXCEPT !.serving = TRUE, !.ruby_request = FALSE]
    /\ UNCHANGED <<m_RequestTable, m_mandatory_q, retryList, refused, drainState,
                   deadlockCheckEvent>>

\* hitCallback for the front: it is counted off, a locked access blocks or
\* unblocks the line, and trySendRetries empties the retry list.
ServeFront ==
    /\ Between /\ m_RequestTable[callback.line] # <<>> /\ ~Reissues
    /\ m_outstanding_count' = m_outstanding_count - 1
    /\ m_block_map' =
         CASE seq_req.type = "Locked_RMW_Read" -> m_block_map \union {callback.line}
           [] seq_req.type = "Locked_RMW_Write" -> m_block_map \ {callback.line}
           [] OTHER -> m_block_map
    /\ locking' = IF seq_req.type = "Locked_RMW_Write" THEN None ELSE locking
    /\ callback' = [callback EXCEPT !.serving = TRUE, !.ruby_request = FALSE,
                                    !.retries = retryList]
    /\ retryList' = <<>>
    /\ UNCHANGED <<m_RequestTable, m_mandatory_q, refused, drainState,
                   deadlockCheckEvent>>

\* sendRetryReq makes the port send its request again at once.
Retried == refused[Head(callback.retries)]

Retrying == callback # None /\ callback.serving /\ callback.retries # <<>>

RetryAccepted ==
    /\ Retrying /\ Accept(Retried)
    /\ callback' = [callback EXCEPT !.retries = Tail(@)]
    /\ UNCHANGED <<retryList, locking>>

RetryRefused ==
    /\ Retrying /\ Refuse(Retried, retryList)
    /\ callback' = [callback EXCEPT !.retries = Tail(@)]
    /\ UNCHANGED locking

\* Mutant: the end of the drain is not reported.
ServedUnreported ==
    /\ callback # None /\ callback.serving /\ callback.retries = <<>>
    /\ m_RequestTable' = [m_RequestTable EXCEPT ![callback.line] = Tail(@)]
    /\ callback' = [callback EXCEPT !.serving = FALSE]
    /\ UNCHANGED <<m_outstanding_count, m_mandatory_q, m_block_map, retryList,
                   refused, locking, drainState, deadlockCheckEvent>>

\* testDrainComplete, and the front leaves the list.
Served ==
    /\ callback # None /\ callback.serving /\ callback.retries = <<>>
    /\ drainState' = IF drainState = "Draining" /\ m_outstanding_count = 0
                     THEN "Drained" ELSE drainState
    /\ m_RequestTable' = [m_RequestTable EXCEPT ![callback.line] = Tail(@)]
    /\ callback' = [callback EXCEPT !.serving = FALSE]
    /\ UNCHANGED <<m_outstanding_count, m_mandatory_q, m_block_map, retryList,
                   refused, locking, deadlockCheckEvent>>

\* Mutant: the store behind the loads is not issued.
ReissueForgotten ==
    /\ Between /\ m_RequestTable[callback.line] # <<>> /\ Reissues
    /\ callback' = None
    /\ UNCHANGED <<m_RequestTable, m_outstanding_count, m_mandatory_q, m_block_map,
                   retryList, refused, locking, drainState, deadlockCheckEvent>>

\* processReadCallback: a store behind the loads goes to the cache itself.
Reissue ==
    /\ Between /\ m_RequestTable[callback.line] # <<>> /\ Reissues
    /\ issueRequest(callback.line, seq_req.type)
    /\ callback' = None
    /\ UNCHANGED <<m_RequestTable, m_outstanding_count, m_block_map, retryList,
                   refused, locking, drainState, deadlockCheckEvent>>

Return ==
    /\ Between /\ m_RequestTable[callback.line] = <<>>
    /\ callback' = None
    /\ UNCHANGED <<m_RequestTable, m_outstanding_count, m_mandatory_q,
                   m_block_map, retryList, refused, locking, drainState,
                   deadlockCheckEvent>>

-----------------------------------------------------------------------------
(* Draining and the deadlock check.                                        *)

\* The drain manager asks again in every cycle until all objects agree.
drain ==
    /\ callback = None /\ drainState # "Draining"
    /\ deadlockCheckEvent' = FALSE
    /\ drainState' = IF m_outstanding_count > 0 THEN "Draining" ELSE "Drained"
    /\ UNCHANGED <<m_RequestTable, m_outstanding_count, m_mandatory_q,
                   m_block_map, retryList, refused, locking, callback>>

resume ==
    /\ callback = None /\ drainState = "Drained" /\ m_outstanding_count = 0
    /\ drainState' = "Running"
    /\ UNCHANGED <<m_RequestTable, m_outstanding_count, m_mandatory_q,
                   m_block_map, retryList, refused, locking, callback,
                   deadlockCheckEvent>>

\* deadlockCheckEvent; it aborts the simulation only on a request that is
\* older than the threshold.
wakeup ==
    /\ callback = None /\ deadlockCheckEvent
    /\ deadlockCheckEvent' = (m_outstanding_count > 0)
    /\ UNCHANGED <<m_RequestTable, m_outstanding_count, m_mandatory_q,
                   m_block_map, retryList, refused, locking, callback,
                   drainState>>

-----------------------------------------------------------------------------
AnySend == \E r \in Request : Send(r)
AnySendRefused == \E r \in Request : SendRefused(r)
AnyAnswer == \E l \in Lines : Answer(l)

Next ==
    \/ AnySend \/ AnySendRefused \/ AnyAnswer
    \/ ServeFront \/ RetryAccepted \/ RetryRefused \/ Served \/ Reissue \/ Return
    \/ drain \/ resume \/ wakeup

Spec == Init /\ [][Next]_vars

CallbackStep ==
    ServeFront \/ RetryAccepted \/ RetryRefused \/ Served \/ Reissue \/ Return

FinishLock ==
    \E r \in Request : r.type = "Locked_RMW_Write" /\ (Send(r) \/ SendRefused(r))

\* A callback runs to its end; the L1 answers every request and the core sends
\* the second half of a locked access, neither of which waits for the moments
\* when no callback runs.
Fairness ==
    /\ WF_vars(CallbackStep)
    /\ SF_vars(FinishLock)
    /\ \A l \in Lines : SF_vars(Answer(l))

LiveSpec == Spec /\ Fairness

-----------------------------------------------------------------------------
\* The count of outstanding requests is the number of entries in the table
\* (the assertion of the deadlock check), short of the one whose callback is
\* running, and never exceeds the limit, although retried requests enter the
\* table in the middle of a callback.
CountMatches ==
    /\ m_outstanding_count <= m_max_outstanding_requests
    /\ Cardinality(Outstanding) =
         m_outstanding_count
             + IF callback # None /\ callback.serving THEN 1 ELSE 0

\* Every line with requests has exactly one of them in the cache, the first,
\* and of the first's kind, which is what the callbacks assert; coalesced
\* and reissued requests are neither forgotten nor issued twice.
OneInTheCache ==
    callback = None =>
        \A l \in Lines :
            m_mandatory_q[l] =
                IF m_RequestTable[l] = <<>> THEN <<>>
                ELSE <<secondary_type(Head(m_RequestTable[l]).type)>>

\* A port whose request was refused is on the retry list, or about to be
\* retried by the running callback, and there is someone to retry it: an
\* outstanding request or the core's own locked access.
NoLostRetry ==
    /\ \A p \in Ports : refused[p] # None =>
         \/ \E i \in DOMAIN retryList : retryList[i] = p
         \/ /\ callback # None
            /\ \E i \in DOMAIN callback.retries : callback.retries[i] = p
    /\ callback = None /\ retryList # <<>> =>
         m_outstanding_count > 0 \/ LockedReadDone

\* The core has its locked line to itself: once the callback of the
\* Locked_RMW_Read has returned, the list of a blocked line holds nothing but
\* the Locked_RMW_Write that releases it.  What had been coalesced with the
\* read was performed by the read's own callback, and what comes later is
\* refused as often as it is retried, so that no access of the line comes
\* between that callback and the write.
LockExclusive ==
    callback = None =>
        \A l \in m_block_map :
            /\ l = locking
            /\ \A i \in DOMAIN m_RequestTable[l] :
                 m_RequestTable[l][i].type = "Locked_RMW_Write"

\* Draining ends: while the sequencer drains, some request is outstanding
\* whose callback will report that the drain is done, and the deadlock check,
\* which must not fire then, is not scheduled.  Otherwise it watches every
\* outstanding request.
DrainAndWatch ==
    callback = None =>
        IF drainState = "Draining"
        THEN m_outstanding_count > 0 /\ ~deadlockCheckEvent
        ELSE m_outstanding_count > 0 => deadlockCheckEvent

\* Every refused request is accepted in the end.
RefusedIsAccepted == \A p \in Ports : refused[p] # None ~> refused[p] = None

\* Every accepted request is performed in the end.
AllPerformed == \A l \in Lines : m_RequestTable[l] # <<>> ~> m_RequestTable[l] = <<>>
=============================================================================
