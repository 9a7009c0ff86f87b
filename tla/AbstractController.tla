------------------------- MODULE AbstractController -------------------------
(***************************************************************************)
(* What every Ruby controller inherits, apart from its protocol: the       *)
(* clocked wakeups of a Consumer, the scan of the in_ports from the        *)
(* highest rank down, the requests stalled on an address and their         *)
(* wakeup, the lines blocked by a locked access, and the request queue to  *)
(* the memory controller.  The protocol is reduced to which lines are in a *)
(* transaction and whom they wait for; it may do with a message whatever   *)
(* the transitions of the controllers do.  Port NumPorts - 1 takes the     *)
(* memory's responses, port 0 the requests, and the ports between them the *)
(* other controllers' responses; all events of one tick may come in any    *)
(* order.                                                                  *)
(***************************************************************************)
EXTENDS MessageBuffer

CONSTANTS
    InPortSize,           \* m_max_size of the in_ports' buffers
    MemQueueSize,         \* m_max_size of the queue to the memory
    NumPorts,             \* m_in_ports; the port's number is its rank
    TransitionsPerCycle,  \* m_transitions_per_cycle
    RecycleLatency,       \* m_recycle_latency
    MaxTime,              \* bound: the clock stops, and nothing more arrives
    MaxMsgs               \* bound: port -> messages that reach it

ASSUME ControllerAssumption ==
    /\ InPortSize \in Nat /\ MemQueueSize \in Nat
    /\ NumPorts \in Nat \ {0, 1}
    /\ TransitionsPerCycle \in Nat \ {0}
    /\ RecycleLatency \in Nat \ {0}
    /\ MaxTime \in Nat /\ MaxMsgs \in [0 .. NumPorts - 2 -> Nat]

VARIABLES
    now,                  \* the clock edge
    m_wakeup_ticks,       \* Consumer: the ticks it is to wake up at
    awake,                \* inside wakeup()
    m_cur_in_port,        \* the port wakeup() is looking at
    counter,              \* the transitions of this wakeup()
    buf,                  \* port -> its MessageBuffer
    m_waiting_buffers,    \* address -> the ports with requests stalled on it
    m_block_map,          \* the lines blocked for the mandatory queue
    state,                \* address -> what its transaction waits for
    memReq,               \* getMemReqQueue()
    m_waiting_mem_retry,
    memory                \* requests the memory controller has accepted

consumer == <<now, m_wakeup_ticks, awake, m_cur_in_port, counter>>
mem == <<memReq, m_waiting_mem_retry, memory>>
vars == <<consumer, buf, m_waiting_buffers, m_block_map, state, mem>>

Ports == 0 .. NumPorts - 1
MemPort == NumPorts - 1
RequestPort == 0
ResponsePorts == Ports \ {RequestPort, MemPort}
Waits == {"stable", "memory", "peer"}

TypeOK ==
    /\ now \in Nat /\ m_wakeup_ticks \subseteq Nat
    /\ awake \in BOOLEAN /\ m_cur_in_port \in Ports /\ counter \in Nat
    /\ buf \in [Ports -> Buffer]
    /\ m_waiting_buffers \in [Addrs -> SUBSET Ports]
    /\ m_block_map \subseteq Addrs
    /\ state \in [Addrs -> Waits]
    /\ memReq \in Buffer
    /\ m_waiting_mem_retry \in BOOLEAN
    /\ memory \subseteq Addrs

Init ==
    /\ now = 0 /\ m_wakeup_ticks = {}
    /\ awake = FALSE /\ m_cur_in_port = MemPort /\ counter = 0
    /\ buf = [p \in Ports |-> EmptyBuffer]
    /\ m_waiting_buffers = [a \in Addrs |-> {}]
    /\ m_block_map = {}
    /\ state = [a \in Addrs |-> "stable"]
    /\ memReq = EmptyBuffer /\ m_waiting_mem_retry = FALSE
    /\ memory = {}

-----------------------------------------------------------------------------
(* What other objects do between the controller's wakeups.                 *)

\* Time passes once the wakeup of this tick, if any, has been processed.
Tick ==
    /\ ~awake /\ now \notin m_wakeup_ticks /\ now < MaxTime
    /\ now' = now + 1
    /\ UNCHANGED <<m_wakeup_ticks, awake, m_cur_in_port, counter, buf,
                   m_waiting_buffers, m_block_map, state, mem>>

\* A message reaches a port; the sender has checked for a slot.
Arrive(p, a) ==
    /\ ~awake /\ now < MaxTime
    /\ areNSlotsAvailable(buf[p], InPortSize, 1, now)
    /\ buf' = [buf EXCEPT ![p] = enqueue(@, a, now, 1)]
    /\ m_wakeup_ticks' = m_wakeup_ticks \union {now + 1}
    /\ UNCHANGED <<now, awake, m_cur_in_port, counter, m_waiting_buffers,
                   m_block_map, state, memReq, m_waiting_mem_retry>>

RequestArrives(a) ==
    /\ buf[RequestPort].msg_counter < MaxMsgs[RequestPort]
    /\ Arrive(RequestPort, a)
    /\ UNCHANGED memory

\* One of the acks or the data a transaction waits for, an answer that comes
\* too late, or the directory's INV: in any state of the line.
ResponseArrives(p, a) ==
    /\ buf[p].msg_counter < MaxMsgs[p]
    /\ Arrive(p, a)
    /\ UNCHANGED memory

\* recvTimingResp; the queue of memory responses is unbounded.
recvTimingResp(a) ==
    /\ ~awake /\ a \in memory
    /\ memory' = memory \ {a}
    /\ buf' = [buf EXCEPT ![MemPort] = enqueue(@, a, now, 1)]
    /\ m_wakeup_ticks' = m_wakeup_ticks \union {now + 1}
    /\ UNCHANGED <<now, awake, m_cur_in_port, counter, m_waiting_buffers,
                   m_block_map, state, memReq, m_waiting_mem_retry>>

-----------------------------------------------------------------------------
(* wakeup()                                                                *)

\* serviceMemoryQueue: sendTimingReq accepts the head of the memory queue ...
MemoryAccepts ==
    \E m \in memReq.heap :
        /\ IsFront(memReq, m) /\ m.time <= now
        /\ memReq' = dequeue(memReq, m, now)
        /\ memory' = memory \union {m.addr}
        /\ m_waiting_mem_retry' = FALSE

\* ... or refuses it, and will call recvReqRetry.
MemoryRefuses ==
    /\ isReady(memReq, now)
    /\ m_waiting_mem_retry' = TRUE
    /\ UNCHANGED <<memReq, memory>>

\* wakeup() starts at the port of the highest rank.
Awaken(scheduled) ==
    /\ ~awake /\ now \in m_wakeup_ticks
    /\ m_wakeup_ticks' = (m_wakeup_ticks \ {now}) \union scheduled
    /\ awake' = TRUE /\ m_cur_in_port' = MemPort /\ counter' = 0
    /\ UNCHANGED <<now, buf, m_waiting_buffers, m_block_map, state>>

Wakeup ==
    /\ m_waiting_mem_retry \/ ~isReady(memReq, now)
    /\ Awaken({})
    /\ UNCHANGED mem

WakeupAndSend == ~m_waiting_mem_retry /\ MemoryAccepts /\ Awaken({now + 1})

WakeupAndRefuse == ~m_waiting_mem_retry /\ MemoryRefuses /\ Awaken({now + 1})

\* The memory controller has room again.
recvReqRetry ==
    /\ ~awake /\ m_waiting_mem_retry
    /\ MemoryAccepts \/ MemoryRefuses
    /\ m_wakeup_ticks' = m_wakeup_ticks \union {now + 1}
    /\ UNCHANGED <<now, awake, m_cur_in_port, counter, buf, m_waiting_buffers,
                   m_block_map, state>>

\* The next port of the scan, or the end of wakeup(), after which its port and
\* its counter do not matter.
NextPort(scheduled) ==
    LET last == m_cur_in_port = 0
    IN  /\ awake' = ~last
        /\ m_cur_in_port' = IF last THEN MemPort ELSE m_cur_in_port - 1
        /\ counter' = IF last THEN 0 ELSE counter
        /\ m_wakeup_ticks' = m_wakeup_ticks \union scheduled
        /\ UNCHANGED now

\* A transition was taken: back to the first port, unless the cycle is full.
Continue(scheduled) ==
    LET full == counter + 1 = TransitionsPerCycle
    IN  /\ awake' = ~full
        /\ counter' = IF full THEN 0 ELSE counter + 1
        /\ m_cur_in_port' = MemPort
        /\ m_wakeup_ticks' = m_wakeup_ticks \union scheduled
                                 \union (IF full THEN {now + 1} ELSE {})
        /\ UNCHANGED now

\* m is the message the current port offers.
Peek(p, m) ==
    /\ awake /\ m_cur_in_port = p
    /\ IsFront(buf[p], m) /\ m.time <= now

Blocked(p, m) == p \in ResponsePorts /\ m.addr \in m_block_map

SkipPort(p) ==
    /\ awake /\ m_cur_in_port = p /\ ~isReady(buf[p], now)
    /\ NextPort({})
    /\ UNCHANGED <<buf, m_waiting_buffers, m_block_map, state, mem>>

\* peek(..., block_on): a message for a blocked line waits a cycle.  The scan
\* restarts, and the delay does not count as a transition.
DelayBlocked(p, m) ==
    /\ Peek(p, m) /\ Blocked(p, m)
    /\ buf' = [buf EXCEPT ![p] = delayHead(@, m, now, 1)]
    /\ m_wakeup_ticks' = m_wakeup_ticks \union {now + 1}
    /\ m_cur_in_port' = MemPort
    /\ UNCHANGED <<now, awake, counter, m_waiting_buffers, m_block_map, state, mem>>

\* Mutant: the consumer is not scheduled for the message that was put back.
RecycleUnscheduled(p, m) ==
    /\ Peek(p, m) /\ ~Blocked(p, m) /\ p # MemPort
    /\ buf' = [buf EXCEPT ![p] = recycle(@, m, now, RecycleLatency)]
    /\ NextPort({})
    /\ UNCHANGED <<m_waiting_buffers, m_block_map, state, mem>>

\* The in_port itself puts the head back, because the bank is busy.
RecycleInPort(p, m) ==
    /\ Peek(p, m) /\ ~Blocked(p, m) /\ p # MemPort
    /\ buf' = [buf EXCEPT ![p] = recycle(@, m, now, RecycleLatency)]
    /\ NextPort({now + RecycleLatency})
    /\ UNCHANGED <<m_waiting_buffers, m_block_map, state, mem>>

\* A transition puts a request or a response back (zz_recycleDMAQueue,
\* zn_recycleResponseNetwork).
Recycle(p, m) ==
    /\ Peek(p, m) /\ ~Blocked(p, m) /\ p # MemPort /\ state[m.addr] # "stable"
    /\ buf' = [buf EXCEPT ![p] = recycle(@, m, now, RecycleLatency)]
    /\ Continue({now + RecycleLatency})
    /\ UNCHANGED <<m_waiting_buffers, m_block_map, state, mem>>

\* stall_and_wait on the transient line, or on the transient line that the
\* request would have to evict.
StallRequest(p, m, a) ==
    /\ Peek(p, m) /\ p = RequestPort
    /\ state[a] # "stable"
    /\ state[m.addr] # "stable" => a = m.addr
    /\ buf' = [buf EXCEPT ![p] = stallMessage(@, m, a, now)]
    /\ m_waiting_buffers' = [m_waiting_buffers EXCEPT ![a] = @ \union {m_cur_in_port}]
    /\ Continue({})
    /\ UNCHANGED <<m_block_map, state, mem>>

blockOnQueue(a) == m_block_map = {} /\ m_block_map' = {a}

unblock(a) == a \in m_block_map /\ m_block_map' = m_block_map \ {a}

\* The callback that a transition makes to the sequencer blocks the line of a
\* locked read, one at a time, or unblocks it after the locked write.
Callback(a) == blockOnQueue(a) \/ unblock(a) \/ UNCHANGED m_block_map

\* The message is popped and ends no transaction: a hit or a miss that asks
\* another controller, a request that joins the transaction of its line, a
\* writeback that is dropped, one ack of several, an answer that comes too
\* late, an INV that starts an eviction, data of the memory to be confirmed.
Serve(p, m, wait) ==
    /\ Peek(p, m) /\ ~Blocked(p, m)
    /\ IF p = MemPort THEN wait = "peer"
       ELSE wait = state[m.addr] \/ (state[m.addr] = "stable" /\ wait = "peer")
    /\ state' = [state EXCEPT ![m.addr] = wait]
    /\ buf' = [buf EXCEPT ![p] = dequeue(@, m, now)]
    /\ Callback(m.addr)
    /\ Continue({})
    /\ UNCHANGED <<m_waiting_buffers, mem>>

\* The message sends one to the memory, whose queue has a slot: a request for
\* a stable line, or the writeback or data that an eviction waits for ...
Fetch(p, m) ==
    /\ Peek(p, m) /\ ~Blocked(p, m) /\ p # MemPort /\ state[m.addr] # "memory"
    /\ areNSlotsAvailable(memReq, MemQueueSize, 1, now)
    /\ memReq' = enqueue(memReq, m.addr, now, 1)
    /\ state' = [state EXCEPT ![m.addr] = "memory"]
    /\ buf' = [buf EXCEPT ![p] = dequeue(@, m, now)]
    /\ Continue({now + 1})
    /\ UNCHANGED <<m_waiting_buffers, m_block_map, m_waiting_mem_retry, memory>>

\* ... or none: TransitionResult_ResourceStall.
ResourceStall(p, m) ==
    /\ Peek(p, m) /\ ~Blocked(p, m) /\ p # MemPort /\ state[m.addr] # "memory"
    /\ ~areNSlotsAvailable(memReq, MemQueueSize, 1, now)
    /\ NextPort({now + 1})
    /\ UNCHANGED <<buf, m_waiting_buffers, m_block_map, state, mem>>

\* Mutant: the port below the current one is left out.
WakeFarBelow(b, a) ==
    [p \in Ports |->
        IF p + 1 < m_cur_in_port /\ p \in m_waiting_buffers[a]
        THEN reanalyzeMessages(b[p], a) ELSE b[p]]

\* wakeUpBuffers: the requests stalled on a at the lower ranks go back to
\* their heaps; the whole entry of a is forgotten.
wakeUpBuffers(b, a) ==
    [p \in Ports |->
        IF p < m_cur_in_port /\ p \in m_waiting_buffers[a]
        THEN reanalyzeMessages(b[p], a) ELSE b[p]]

\* m is the answer that the transaction of its line ends with.
Ends(p, m) ==
    /\ Peek(p, m) /\ p # RequestPort /\ ~Blocked(p, m)
    /\ state[m.addr] = IF p = MemPort THEN "memory" ELSE "peer"

\* The answer ends the transaction and wakes what waits for the line.
ServeResponse(p, m) ==
    /\ Ends(p, m)
    /\ state' = [state EXCEPT ![m.addr] = "stable"]
    /\ buf' = wakeUpBuffers([buf EXCEPT ![p] = dequeue(@, m, now)], m.addr)
    /\ m_waiting_buffers' = [m_waiting_buffers EXCEPT ![m.addr] = {}]
    /\ Callback(m.addr)
    /\ Continue(IF m_waiting_buffers[m.addr] = {} THEN {} ELSE {now})
    /\ UNCHANGED mem

\* The DMA controller's answers wake everything instead (wakeUpAllBuffers).
ServeResponseWakingAll(p, m) ==
    /\ Ends(p, m)
    /\ state' = [state EXCEPT ![m.addr] = "stable"]
    /\ buf' = [q \in Ports |->
                 LET b == IF q = p THEN dequeue(buf[q], m, now) ELSE buf[q]
                 IN  IF \E a \in Addrs : q \in m_waiting_buffers[a]
                     THEN reanalyzeAllMessages(b) ELSE b]
    /\ m_waiting_buffers' = [a \in Addrs |-> {}]
    /\ Callback(m.addr)
    /\ Continue(IF \A a \in Addrs : m_waiting_buffers[a] = {} THEN {} ELSE {now})
    /\ UNCHANGED mem

-----------------------------------------------------------------------------
AnyRequest == \E a \in Addrs : RequestArrives(a)
AnyResponse == \E a \in Addrs, p \in ResponsePorts : ResponseArrives(p, a)
AnyMemoryResponse == \E a \in Addrs : recvTimingResp(a)
AnySkip == \E p \in Ports : SkipPort(p)
AnyDelay == \E p \in Ports : \E m \in buf[p].heap : DelayBlocked(p, m)
AnyRecycleInPort == \E p \in Ports : \E m \in buf[p].heap : RecycleInPort(p, m)
AnyRecycle == \E p \in Ports : \E m \in buf[p].heap : Recycle(p, m)
AnyStall ==
    \E p \in Ports : \E m \in buf[p].heap, a \in Addrs : StallRequest(p, m, a)
AnyServe ==
    \E p \in Ports : \E m \in buf[p].heap, w \in Waits : Serve(p, m, w)
AnyFetch == \E p \in Ports : \E m \in buf[p].heap : Fetch(p, m)
AnyResourceStall == \E p \in Ports : \E m \in buf[p].heap : ResourceStall(p, m)
AnyServeResponse == \E p \in Ports : \E m \in buf[p].heap : ServeResponse(p, m)
AnyServeWakingAll ==
    \E p \in Ports : \E m \in buf[p].heap : ServeResponseWakingAll(p, m)

Next ==
    \/ Tick \/ AnyRequest \/ AnyResponse \/ AnyMemoryResponse
    \/ Wakeup \/ WakeupAndSend \/ WakeupAndRefuse \/ recvReqRetry
    \/ AnySkip \/ AnyDelay \/ AnyRecycleInPort \/ AnyRecycle
    \/ AnyStall \/ AnyServe \/ AnyFetch \/ AnyResourceStall
    \/ AnyServeResponse \/ AnyServeWakingAll

Spec == Init /\ [][Next]_vars

-----------------------------------------------------------------------------
\* No enqueue finds its buffer full (the assertion at the end of enqueue):
\* areNSlotsAvailable never promises a slot that is not there, whatever is
\* popped, stalled, put back and enqueued in the same cycle.
NeverOverfull ==
    /\ \A p \in Ports \ {MemPort} :
         InPortSize = 0 \/ Occupied(buf[p]) <= InPortSize
    /\ MemQueueSize = 0 \/ Occupied(memReq) <= MemQueueSize

\* The controller forgets no stalled request and expects none it has not
\* got: a port is on the list of an address exactly as long as one of its
\* requests is stalled on it.  wakeUpBuffers drops the whole list after
\* waking the lower ranks only, and reanalyzeMessages asserts that the
\* messages are there.
StalledIsListed ==
    \A a \in Addrs, p \in Ports :
        p \in m_waiting_buffers[a] <=> StalledOn(buf[p], a) # {}

\* Between wakeups no message sleeps: a message still under way has the
\* wakeup of its arrival scheduled, and one that has arrived and was not
\* served (put back, behind one put back, cut off by the transition limit,
\* refused a slot) has a wakeup at most the recycle latency away.  The same
\* goes for the memory queue, unless the memory controller owes a retry.
Attended(m) ==
    IF m.time > now THEN m.time \in m_wakeup_ticks
    ELSE \E t \in m_wakeup_ticks : now <= t /\ t <= now + RecycleLatency

NoMessageSleeps ==
    ~awake =>
        /\ \A p \in Ports : \A m \in buf[p].heap : Attended(m)
        /\ m_waiting_mem_retry \/ \A m \in memReq.heap : Attended(m)

\* A port takes its messages in the order in which they came, but for those
\* that were put back or delayed: requests that have been stalled and woken
\* are back at their old place, ahead of everything that came after them and
\* has not been taken yet, whatever line it is for.
InOrder ==
    \A p \in Ports : \A m \in buf[p].heap \ buf'[p].heap :
        ~m.late => \A n \in buf[p].heap : ~n.late => m.ctr <= n.ctr

TakenInOrder == [][InOrder]_vars
=============================================================================
