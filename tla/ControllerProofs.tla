-------------------------- MODULE ControllerProofs --------------------------
(***************************************************************************)
(* The controller's queues for any number of ports, lines, slots and       *)
(* transitions per cycle: its buffers keep what BufferProofs needs of      *)
(* them, and the stalled requests and the lists of waiting ports agree.    *)
(***************************************************************************)
EXTENDS AbstractController, BufferProofs

\* The number of m_max_size slots that a port's sender may count on.
SlotsOf(p) == IF p = MemPort THEN 0 ELSE InPortSize

(* The controller.  Its base invariant: every buffer is sound and ordered,  *)
(* only requests are stalled, and the lists of stalled requests are right.  *)

OnlyRequestsStall == \A p \in Ports : p # RequestPort => buf[p].stall = {}

Buffers ==
    /\ \A p \in Ports : Kept(buf[p], SlotsOf(p), now)
    /\ Kept(memReq, MemQueueSize, now)

Base == TypeOK /\ Buffers /\ OnlyRequestsStall /\ StalledIsListed

LEMMA PortFacts ==
    /\ RequestPort \in Ports /\ MemPort \in Ports /\ MemPort # RequestPort
    /\ Ports \subseteq Nat /\ \A p \in Ports : p <= MemPort
    /\ \A p \in Ports : p # RequestPort => RequestPort < p
    /\ \A p \in Ports : p # 0 => p - 1 \in Ports
    /\ \A p \in Ports : SlotsOf(p) \in Nat
    /\ MemQueueSize \in Nat /\ RecycleLatency \in Nat /\ RecycleLatency >= 1
  BY ControllerAssumption DEF Ports, MemPort, RequestPort, SlotsOf

LEMMA EmptyKept == ASSUME NEW size \in Nat PROVE Kept(EmptyBuffer, size, 0)
  <1>1. EmptyBuffer \in Buffer  BY DEF EmptyBuffer, Buffer
  <1>2. /\ EmptyBuffer.heap = {} /\ EmptyBuffer.stall = {}
        /\ EmptyBuffer.time_last_time_enqueue = 0 /\ EmptyBuffer.time_last_time_pop = 0
        /\ EmptyBuffer.size_at_cycle_start = 0
        /\ EmptyBuffer.stalled_at_cycle_start = 0
        /\ EmptyBuffer.msgs_this_cycle = 0
    BY DEF EmptyBuffer
  <1>3. IsFiniteSet({}) /\ Cardinality({}) = 0  BY FS_EmptySet
  <1>4. Occupied(EmptyBuffer) = 0  BY <1>2, <1>3 DEF Occupied
  <1>5. Sound(EmptyBuffer, size, 0)  BY <1>1, <1>2, <1>3, <1>4 DEF Sound, Fits
  <1>6. Held(EmptyBuffer) = {}  BY <1>2 DEF Held
  <1> QED  BY <1>5, <1>6 DEF Kept, Ordered

LEMMA BaseInit == Init => Base
  <1> SUFFICES ASSUME Init PROVE Base  OBVIOUS
  <1>1. \A p \in Ports : buf[p] = EmptyBuffer  BY DEF Init
  <1>2. Buffers  BY <1>1, EmptyKept, PortFacts DEF Buffers, Init
  <1>3. EmptyBuffer \in Buffer /\ EmptyBuffer.stall = {}  BY DEF EmptyBuffer, Buffer
  <1>4. TypeOK  BY Zenon, <1>3, PortFacts DEF Init, TypeOK, Waits, RequestPort
  <1>5. OnlyRequestsStall  BY <1>1, <1>3 DEF OnlyRequestsStall
  <1>6. StalledIsListed  BY <1>1, <1>3 DEF StalledIsListed, StalledOn, Init
  <1> QED  BY <1>2, <1>4, <1>5, <1>6 DEF Base

\* A step that changes one buffer, and no stalled message.
LEMMA QuietStep ==
    ASSUME Base, NEW p \in Ports, NEW c, Kept(c, SlotsOf(p), now),
           buf' = [buf EXCEPT ![p] = c], now' = now
    PROVE  /\ buf' \in [Ports -> Buffer]
           /\ \A q \in Ports : Kept(buf'[q], SlotsOf(q), now')
           /\ \A q \in Ports : buf'[q] = IF q = p THEN c ELSE buf[q]
           /\ c.stall = buf[p].stall /\ UNCHANGED m_waiting_buffers =>
                OnlyRequestsStall' /\ StalledIsListed'
  <1>1. buf \in [Ports -> Buffer] /\ c \in Buffer
    BY DEF Base, TypeOK, Kept, Sound
  <1>2. \A q \in Ports : buf'[q] = IF q = p THEN c ELSE buf[q]  BY <1>1
  <1>3. \A q \in Ports : Kept(buf'[q], SlotsOf(q), now')
    BY <1>2 DEF Base, Buffers
  <1>4. buf' \in [Ports -> Buffer]  BY <1>1
  <1>5. ASSUME c.stall = buf[p].stall, UNCHANGED m_waiting_buffers
        PROVE  OnlyRequestsStall' /\ StalledIsListed'
    <2>1. \A q \in Ports : buf'[q].stall = buf[q].stall  BY <1>2, <1>5
    <2>2. OnlyRequestsStall'  BY <2>1 DEF Base, OnlyRequestsStall
    <2>3. \A q \in Ports, a \in Addrs : StalledOn(buf'[q], a) = StalledOn(buf[q], a)
      BY <2>1 DEF StalledOn
    <2>4. StalledIsListed'  BY <1>5, <2>3 DEF Base, StalledIsListed
    <2> QED  BY <2>2, <2>4
  <1> QED  BY <1>2, <1>3, <1>4, <1>5

\* A step that changes no buffer of a port.
LEMMA SameBuffers ==
    ASSUME Base, UNCHANGED <<buf, m_waiting_buffers>>, now' = now
    PROVE  /\ buf' \in [Ports -> Buffer]
           /\ \A q \in Ports : Kept(buf'[q], SlotsOf(q), now')
           /\ OnlyRequestsStall' /\ StalledIsListed'
  BY DEF Base, TypeOK, Buffers, OnlyRequestsStall, StalledIsListed

LEMMA LaterKept ==
    ASSUME NEW b, NEW size \in Nat, NEW t \in Nat, Kept(b, size, t)
    PROVE  Kept(b, size, t + 1)
  <1>1. b \in Buffer  BY DEF Kept, Sound
  <1>2. b.time_last_time_pop \in Nat /\ b.time_last_time_enqueue \in Nat
    BY <1>1 DEF Buffer
  <1>3. Sound(b, size, t + 1)  BY <1>2 DEF Kept, Sound, Fits
  <1>4. Held(b) \subseteq Message  BY <1>1 DEF Held, Buffer, Stalled
  <1>5. Ordered(b, t + 1)  BY <1>4 DEF Kept, Ordered, Message
  <1> QED  BY <1>3, <1>5 DEF Kept

\* The consumer's variables after a step of the scan.
LEMMA ScanTypes ==
    ASSUME TypeOK, NEW scheduled \in SUBSET Nat,
           NextPort(scheduled) \/ Continue(scheduled)
    PROVE  /\ now' = now /\ now' \in Nat /\ m_wakeup_ticks' \subseteq Nat
           /\ awake' \in BOOLEAN /\ m_cur_in_port' \in Ports /\ counter' \in Nat
  <1>1. CASE NextPort(scheduled)
    BY <1>1, PortFacts DEF NextPort, TypeOK
  <1>2. CASE Continue(scheduled)
    BY <1>2, PortFacts DEF Continue, TypeOK
  <1> QED  BY <1>1, <1>2

-----------------------------------------------------------------------------
(* Every action keeps the base invariant.                                  *)

LEMMA TickBase == Base /\ Tick => Base'
  <1> SUFFICES ASSUME Base, Tick PROVE Base'  OBVIOUS
  <1>1. now \in Nat /\ now' = now + 1  BY DEF Base, TypeOK, Tick
  <1>2. TypeOK'  BY <1>1 DEF Base, TypeOK, Tick, mem
  <1>3. Buffers'  BY <1>1, LaterKept, PortFacts DEF Base, Buffers, Tick, mem
  <1>4. OnlyRequestsStall' /\ StalledIsListed'
    BY DEF Base, OnlyRequestsStall, StalledIsListed, Tick
  <1> QED  BY <1>2, <1>3, <1>4 DEF Base

LEMMA ArriveBase ==
    ASSUME Base, NEW p \in Ports, NEW a \in Addrs, memory' \subseteq Addrs,
           buf' = [buf EXCEPT ![p] = enqueue(@, a, now, 1)],
           areNSlotsAvailable(buf[p], SlotsOf(p), 1, now),
           m_wakeup_ticks' = m_wakeup_ticks \union {now + 1},
           UNCHANGED <<now, awake, m_cur_in_port, counter, m_waiting_buffers,
                       m_block_map, state, memReq, m_waiting_mem_retry>>
    PROVE  Base'
  <1> DEFINE c == enqueue(buf[p], a, now, 1)
  <1>1. SlotsOf(p) \in Nat /\ now \in Nat /\ Kept(buf[p], SlotsOf(p), now)
    BY PortFacts DEF Base, TypeOK, Buffers
  <1>2. Kept(c, SlotsOf(p), now) /\ c.stall = buf[p].stall  BY <1>1, EnqueueKept
  <1>3. buf' = [buf EXCEPT ![p] = c]  OBVIOUS
  <1> HIDE DEF c
  <1>4. /\ buf' \in [Ports -> Buffer]
        /\ \A q \in Ports : Kept(buf'[q], SlotsOf(q), now')
        /\ OnlyRequestsStall' /\ StalledIsListed'
    BY Zenon, <1>2, <1>3, QuietStep
  <1>5. TypeOK'  BY <1>1, <1>4 DEF Base, TypeOK
  <1>6. Buffers'  BY <1>4 DEF Base, Buffers
  <1> QED  BY <1>4, <1>5, <1>6 DEF Base

LEMMA MessageArrivesBase ==
    Base /\ (AnyRequest \/ AnyResponse \/ AnyMemoryResponse) => Base'
  <1> SUFFICES ASSUME Base, AnyRequest \/ AnyResponse \/ AnyMemoryResponse PROVE Base'
    OBVIOUS
  <1>1. ASSUME NEW a \in Addrs, RequestArrives(a) PROVE Base'
    <2>1. RequestPort \in Ports /\ SlotsOf(RequestPort) = InPortSize
      BY PortFacts DEF SlotsOf
    <2>2. memory' \subseteq Addrs  BY <1>1 DEF RequestArrives, Base, TypeOK
    <2> QED  BY Zenon, <1>1, <2>1, <2>2, ArriveBase DEF RequestArrives, Arrive
  <1>2. ASSUME NEW a \in Addrs, NEW p \in ResponsePorts, ResponseArrives(p, a)
        PROVE  Base'
    <2>1. p \in Ports /\ SlotsOf(p) = InPortSize  BY DEF SlotsOf, ResponsePorts
    <2>2. memory' \subseteq Addrs  BY <1>2 DEF ResponseArrives, Base, TypeOK
    <2> QED  BY Zenon, <1>2, <2>1, <2>2, ArriveBase DEF ResponseArrives, Arrive
  <1>3. ASSUME NEW a \in Addrs, recvTimingResp(a) PROVE Base'
    <2>1. MemPort \in Ports /\ SlotsOf(MemPort) = 0  BY PortFacts DEF SlotsOf
    <2>2. memory' \subseteq Addrs  BY <1>3 DEF recvTimingResp, Base, TypeOK
    <2>3. areNSlotsAvailable(buf[MemPort], SlotsOf(MemPort), 1, now)
      BY <2>1 DEF areNSlotsAvailable
    <2> QED  BY Zenon, <1>3, <2>1, <2>2, <2>3, ArriveBase DEF recvTimingResp
  <1> QED  BY <1>1, <1>2, <1>3 DEF AnyRequest, AnyResponse, AnyMemoryResponse

LEMMA MemoryStep ==
    ASSUME Base, MemoryAccepts \/ MemoryRefuses
    PROVE  /\ Kept(memReq', MemQueueSize, now) /\ memReq' \in Buffer
           /\ m_waiting_mem_retry' \in BOOLEAN /\ memory' \subseteq Addrs
           /\ memReq'.heap \subseteq memReq.heap
  <1>0. MemQueueSize \in Nat /\ now \in Nat /\ Kept(memReq, MemQueueSize, now)
    BY PortFacts DEF Base, TypeOK, Buffers
  <1>1. CASE MemoryAccepts
    <2>1. PICK m \in memReq.heap : /\ memReq' = dequeue(memReq, m, now)
                                   /\ memory' = memory \union {m.addr}
                                   /\ m_waiting_mem_retry' = FALSE
      BY <1>1 DEF MemoryAccepts
    <2>2. m.addr \in Addrs  BY DEF Base, TypeOK, Buffer, Message
    <2>3. Kept(memReq', MemQueueSize, now) /\ memReq'.heap = memReq.heap \ {m}
      BY <1>0, <2>1, DequeueKept
    <2> QED  BY Zenon, <2>1, <2>2, <2>3 DEF Base, TypeOK, Kept, Sound
  <1>2. CASE MemoryRefuses  BY <1>0, <1>2 DEF MemoryRefuses, Base, TypeOK
  <1> QED  BY <1>1, <1>2

LEMMA WakeupBase ==
    Base /\ (Wakeup \/ WakeupAndSend \/ WakeupAndRefuse \/ recvReqRetry) => Base'
  <1> SUFFICES ASSUME Base, Wakeup \/ WakeupAndSend \/ WakeupAndRefuse \/ recvReqRetry
               PROVE  Base'
    OBVIOUS
  <1>0. MemQueueSize \in Nat /\ now \in Nat /\ Kept(memReq, MemQueueSize, now)
    BY PortFacts DEF Base, TypeOK, Buffers
  <1>1. UNCHANGED <<now, buf, m_waiting_buffers, m_block_map, state>>
    BY DEF Wakeup, WakeupAndSend, WakeupAndRefuse, recvReqRetry, Awaken
  <1>2. /\ Kept(memReq', MemQueueSize, now) /\ memReq' \in Buffer
        /\ m_waiting_mem_retry' \in BOOLEAN /\ memory' \subseteq Addrs
    <2>1. CASE UNCHANGED mem  BY <1>0, <2>1 DEF mem, Base, TypeOK
    <2>2. CASE MemoryAccepts \/ MemoryRefuses  BY <2>2, MemoryStep
    <2> QED
      BY <2>1, <2>2 DEF Wakeup, WakeupAndSend, WakeupAndRefuse, recvReqRetry
  <1>3. /\ m_wakeup_ticks' \subseteq Nat /\ awake' \in BOOLEAN
        /\ m_cur_in_port' \in Ports /\ counter' \in Nat
    <2>1. m_wakeup_ticks \subseteq Nat /\ now + 1 \in Nat  BY <1>0 DEF Base, TypeOK
    <2>2. ASSUME NEW scheduled \in SUBSET Nat, Awaken(scheduled)
          PROVE  /\ m_wakeup_ticks' \subseteq Nat /\ awake' \in BOOLEAN
                 /\ m_cur_in_port' \in Ports /\ counter' \in Nat
      BY <2>1, <2>2, PortFacts DEF Awaken
    <2>3. CASE Awaken({}) \/ Awaken({now + 1})  BY <2>1, <2>2, <2>3
    <2>4. CASE recvReqRetry  BY <2>1, <2>4 DEF recvReqRetry, Base, TypeOK
    <2> QED  BY <2>3, <2>4 DEF Wakeup, WakeupAndSend, WakeupAndRefuse
  <1>4. TypeOK'  BY <1>1, <1>2, <1>3 DEF Base, TypeOK
  <1>5. Buffers'  BY <1>1, <1>2, SameBuffers DEF Buffers
  <1> QED  BY <1>1, <1>4, <1>5, SameBuffers DEF Base

LEMMA SkipBase == Base /\ (AnySkip \/ AnyResourceStall) => Base'
  <1> SUFFICES ASSUME Base, AnySkip \/ AnyResourceStall PROVE Base'  OBVIOUS
  <1> SUFFICES ASSUME Base, NEW scheduled \in SUBSET Nat, NextPort(scheduled),
                      UNCHANGED <<buf, m_waiting_buffers, m_block_map, state, mem>>
               PROVE  Base'
    <2>1. now + 1 \in Nat  BY DEF Base, TypeOK
    <2> QED  BY <2>1 DEF AnySkip, AnyResourceStall, SkipPort, ResourceStall
  <1>1. /\ now' = now /\ now' \in Nat /\ m_wakeup_ticks' \subseteq Nat
        /\ awake' \in BOOLEAN /\ m_cur_in_port' \in Ports /\ counter' \in Nat
    BY ScanTypes DEF Base
  <1>2. TypeOK'  BY <1>1 DEF Base, TypeOK, mem
  <1>3. Buffers'  BY <1>1, SameBuffers DEF Base, Buffers, mem
  <1> QED  BY <1>1, <1>2, <1>3, SameBuffers DEF Base

\* A scan step that replaces one buffer and leaves the stalled messages alone.
LEMMA ServeBase ==
    ASSUME Base, NEW p \in Ports, NEW c, Kept(c, SlotsOf(p), now),
           c.stall = buf[p].stall, buf' = [buf EXCEPT ![p] = c],
           now' = now, m_wakeup_ticks' \subseteq Nat, awake' \in BOOLEAN,
           m_cur_in_port' \in Ports, counter' \in Nat,
           state' \in [Addrs -> Waits], Kept(memReq', MemQueueSize, now),
           m_block_map' \subseteq Addrs,
           UNCHANGED <<m_waiting_buffers, m_waiting_mem_retry, memory>>
    PROVE  Base'
  <1>1. /\ buf' \in [Ports -> Buffer]
        /\ \A q \in Ports : Kept(buf'[q], SlotsOf(q), now')
        /\ OnlyRequestsStall' /\ StalledIsListed'
    BY Zenon, QuietStep
  <1>2. memReq' \in Buffer  BY DEF Kept, Sound
  <1>3. TypeOK'  BY <1>1, <1>2 DEF Base, TypeOK
  <1>4. Buffers'  BY <1>1 DEF Buffers
  <1> QED  BY <1>1, <1>3, <1>4 DEF Base

LEMMA PeekFacts ==
    ASSUME Base, NEW p \in Ports, NEW m \in buf[p].heap
    PROVE  /\ SlotsOf(p) \in Nat /\ now \in Nat /\ now + 1 \in Nat
           /\ now + RecycleLatency \in Nat /\ RecycleLatency \in Nat
           /\ Kept(buf[p], SlotsOf(p), now) /\ Kept(memReq, MemQueueSize, now)
           /\ MemQueueSize \in Nat /\ m \in Message /\ m.addr \in Addrs
  BY PortFacts DEF Base, TypeOK, Buffers, Buffer, Message

LEMMA CallbackTypes ==
    ASSUME NEW a \in Addrs, m_block_map \subseteq Addrs, Callback(a)
    PROVE  m_block_map' \subseteq Addrs
  BY DEF Callback, blockOnQueue, unblock

LEMMA DelayBase == Base /\ AnyDelay => Base'
  <1> SUFFICES ASSUME Base, NEW p \in Ports, NEW m \in buf[p].heap, DelayBlocked(p, m)
               PROVE  Base'
    BY DEF AnyDelay
  <1> DEFINE c == delayHead(buf[p], m, now, 1)
  <1>0. SlotsOf(p) \in Nat /\ now \in Nat /\ Kept(buf[p], SlotsOf(p), now)
    BY PeekFacts
  <1>1. Kept(c, SlotsOf(p), now) /\ c.stall = buf[p].stall  BY <1>0, DelayKept
  <1>2. buf' = [buf EXCEPT ![p] = c]  BY DEF DelayBlocked
  <1>3. /\ now' = now /\ m_wakeup_ticks' \subseteq Nat /\ awake' \in BOOLEAN
        /\ m_cur_in_port' \in Ports /\ counter' \in Nat
        /\ state' \in [Addrs -> Waits] /\ m_block_map' \subseteq Addrs
        /\ UNCHANGED <<m_waiting_buffers, m_waiting_mem_retry, memory>>
        /\ memReq' = memReq
    BY PeekFacts, PortFacts DEF DelayBlocked, Base, TypeOK, mem
  <1> HIDE DEF c
  <1> QED  BY Zenon, <1>1, <1>2, <1>3, PeekFacts, ServeBase

LEMMA RecycleBase == Base /\ (AnyRecycleInPort \/ AnyRecycle) => Base'
  <1> SUFFICES ASSUME Base, NEW p \in Ports, NEW m \in buf[p].heap,
                      RecycleInPort(p, m) \/ Recycle(p, m)
               PROVE  Base'
    BY DEF AnyRecycleInPort, AnyRecycle
  <1> DEFINE c == recycle(buf[p], m, now, RecycleLatency)
  <1>0. /\ SlotsOf(p) \in Nat /\ now \in Nat /\ Kept(buf[p], SlotsOf(p), now)
        /\ RecycleLatency \in Nat
    BY PeekFacts
  <1>1. Kept(c, SlotsOf(p), now) /\ c.stall = buf[p].stall  BY <1>0, RecycleKept
  <1>2. buf' = [buf EXCEPT ![p] = c]  BY DEF RecycleInPort, Recycle
  <1>3. /\ now' = now /\ m_wakeup_ticks' \subseteq Nat /\ awake' \in BOOLEAN
        /\ m_cur_in_port' \in Ports /\ counter' \in Nat
    <2>1. {now + RecycleLatency} \in SUBSET Nat  BY PeekFacts
    <2>2. NextPort({now + RecycleLatency}) \/ Continue({now + RecycleLatency})
      BY DEF RecycleInPort, Recycle
    <2> QED  BY <2>1, <2>2, ScanTypes DEF Base
  <1>4. /\ state' \in [Addrs -> Waits] /\ memReq' = memReq
        /\ m_block_map' \subseteq Addrs
        /\ UNCHANGED <<m_waiting_buffers, m_waiting_mem_retry, memory>>
    BY DEF RecycleInPort, Recycle, Base, TypeOK, mem
  <1> HIDE DEF c
  <1> QED  BY Zenon, <1>1, <1>2, <1>3, <1>4, PeekFacts, ServeBase

LEMMA RequestBase == Base /\ (AnyServe \/ AnyFetch) => Base'
  <1> SUFFICES ASSUME Base, NEW p \in Ports, NEW m \in buf[p].heap, NEW w \in Waits,
                      Serve(p, m, w) \/ Fetch(p, m)
               PROVE  Base'
    BY DEF AnyServe, AnyFetch, Waits
  <1> DEFINE c == dequeue(buf[p], m, now)
  <1>1. Kept(c, SlotsOf(p), now) /\ c.stall = buf[p].stall  BY PeekFacts, DequeueKept
  <1>2. buf' = [buf EXCEPT ![p] = c]  BY DEF Serve, Fetch
  <1>3. /\ now' = now /\ m_wakeup_ticks' \subseteq Nat /\ awake' \in BOOLEAN
        /\ m_cur_in_port' \in Ports /\ counter' \in Nat
    <2>1. {now + 1} \in SUBSET Nat /\ {} \in SUBSET Nat  BY PeekFacts
    <2>2. Continue({}) \/ Continue({now + 1})  BY DEF Serve, Fetch
    <2> QED  BY <2>1, <2>2, ScanTypes DEF Base
  <1>4. /\ state' \in [Addrs -> Waits]
        /\ UNCHANGED <<m_waiting_buffers, m_waiting_mem_retry, memory>>
    BY PeekFacts DEF Serve, Fetch, Base, TypeOK, mem, Waits
  <1>6. m_block_map' \subseteq Addrs
    BY PeekFacts, CallbackTypes DEF Serve, Fetch, Base, TypeOK
  <1>5. Kept(memReq', MemQueueSize, now)
    <2>1. CASE Serve(p, m, w)  BY <2>1, PeekFacts DEF Serve, mem
    <2>2. CASE Fetch(p, m)
      <3>1. /\ memReq' = enqueue(memReq, m.addr, now, 1)
            /\ areNSlotsAvailable(memReq, MemQueueSize, 1, now)
        BY <2>2 DEF Fetch
      <3> QED  BY <3>1, PeekFacts, EnqueueKept
    <2> QED  BY <2>1, <2>2
  <1> HIDE DEF c
  <1> QED  BY Zenon, <1>1, <1>2, <1>3, <1>4, <1>5, <1>6, PeekFacts, ServeBase

LEMMA StallBase == Base /\ AnyStall => Base'
  <1> SUFFICES ASSUME Base, NEW p \in Ports, NEW m \in buf[p].heap, NEW a \in Addrs,
                      StallRequest(p, m, a)
               PROVE  Base'
    BY DEF AnyStall
  <1> DEFINE c == stallMessage(buf[p], m, a, now)
             s == [msg |-> m, on |-> a]
  <1>1. Kept(c, SlotsOf(p), now) /\ c.stall = buf[p].stall \union {s}
    BY PeekFacts, StallKept
  <1>2. buf' = [buf EXCEPT ![p] = c]  BY DEF StallRequest
  <1>3. s.on = a  OBVIOUS
  <1>4. p = RequestPort /\ m_cur_in_port = p  BY DEF StallRequest, Peek
  <1>5. /\ now' = now /\ m_wakeup_ticks' \subseteq Nat /\ awake' \in BOOLEAN
        /\ m_cur_in_port' \in Ports /\ counter' \in Nat
    <2>1. {} \in SUBSET Nat /\ Continue({})  BY DEF StallRequest
    <2> QED  BY <2>1, ScanTypes DEF Base
  <1> HIDE DEF c, s
  <1>6. /\ buf' \in [Ports -> Buffer]
        /\ \A q \in Ports : Kept(buf'[q], SlotsOf(q), now')
        /\ \A q \in Ports : buf'[q] = IF q = p THEN c ELSE buf[q]
    BY Zenon, <1>1, <1>2, <1>5, QuietStep
  <1>7. /\ m_waiting_buffers' \in [Addrs -> SUBSET Ports]
        /\ \A b \in Addrs : m_waiting_buffers'[b] =
             IF b = a THEN m_waiting_buffers[b] \union {p} ELSE m_waiting_buffers[b]
    BY <1>4 DEF StallRequest, Base, TypeOK
  <1>12. UNCHANGED <<m_block_map, state, memReq, m_waiting_mem_retry, memory>>
    BY DEF StallRequest, mem
  <1>8. TypeOK'  BY <1>5, <1>6, <1>7, <1>12 DEF Base, TypeOK
  <1>9. Buffers'  BY <1>5, <1>6 DEF Base, Buffers, StallRequest, mem
  <1>10. OnlyRequestsStall'  BY <1>4, <1>6 DEF Base, OnlyRequestsStall
  <1>11. StalledIsListed'
    BY <1>1, <1>3, <1>6, <1>7 DEF Base, StalledIsListed, StalledOn
  <1> QED  BY <1>8, <1>9, <1>10, <1>11 DEF Base

LEMMA ReanalyzeKept ==
    ASSUME NEW b, NEW size \in Nat, NEW t \in Nat, Kept(b, size, t), NEW a
    PROVE  /\ Kept(reanalyzeMessages(b, a), size, t)
           /\ reanalyzeMessages(b, a).stall = b.stall \ StalledOn(b, a)
           /\ reanalyzeMessages(b, a).heap = b.heap \union Msgs(StalledOn(b, a))
           /\ Kept(reanalyzeAllMessages(b), size, t)
           /\ reanalyzeAllMessages(b).stall = {}
           /\ reanalyzeAllMessages(b).heap = b.heap \union Msgs(b.stall)
  <1>1. StalledOn(b, a) \in SUBSET b.stall /\ b.stall \in SUBSET b.stall
    BY DEF StalledOn
  <1>2. reanalyzeMessages(b, a) = Woken(b, StalledOn(b, a))
    BY Zenon DEF reanalyzeMessages, Woken, Msgs
  <1>3. reanalyzeAllMessages(b) = Woken(b, b.stall)
    <2>1. b.stall \ b.stall = {}  OBVIOUS
    <2> QED  BY <2>1, Zenon DEF reanalyzeAllMessages, Woken, Msgs
  <1>4. /\ Kept(reanalyzeMessages(b, a), size, t)
        /\ reanalyzeMessages(b, a).stall = b.stall \ StalledOn(b, a)
        /\ reanalyzeMessages(b, a).heap = b.heap \union Msgs(StalledOn(b, a))
    BY <1>1, <1>2, WakeKept
  <1>5. /\ Kept(reanalyzeAllMessages(b), size, t)
        /\ reanalyzeAllMessages(b).stall = b.stall \ b.stall
        /\ reanalyzeAllMessages(b).heap = b.heap \union Msgs(b.stall)
    BY <1>1, <1>3, WakeKept
  <1> QED  BY <1>4, <1>5

\* What the two ways of waking do to the buffers.
LEMMA ServeResponseBuffers ==
    ASSUME Base, NEW p \in Ports, NEW m \in buf[p].heap, ServeResponse(p, m)
    PROVE  /\ p # RequestPort /\ buf' \in [Ports -> Buffer]
           /\ buf'[p] = dequeue(buf[p], m, now)
           /\ \A q \in Ports \ {p} :
                buf'[q] = IF q < p /\ q \in m_waiting_buffers[m.addr]
                          THEN reanalyzeMessages(buf[q], m.addr) ELSE buf[q]
           /\ \A q \in Ports : Kept(buf'[q], SlotsOf(q), now)
  <1> DEFINE d == [buf EXCEPT ![p] = dequeue(@, m, now)]
  <1>1. m_cur_in_port = p /\ p # RequestPort  BY DEF ServeResponse, Ends, Peek
  <1>2. \A q \in Ports : d[q] = IF q = p THEN dequeue(buf[p], m, now) ELSE buf[q]
    BY DEF Base, TypeOK
  <1>3. buf' = wakeUpBuffers(d, m.addr)  BY DEF ServeResponse
  <1> HIDE DEF d
  <1>4. /\ DOMAIN buf' = Ports
        /\ buf' = [q \in Ports |-> buf'[q]]
        /\ \A q \in Ports :
             buf'[q] = IF q < p /\ q \in m_waiting_buffers[m.addr]
                       THEN reanalyzeMessages(d[q], m.addr) ELSE d[q]
    BY <1>1, <1>3 DEF wakeUpBuffers
  <1>5. p \in Nat  BY Zenon, PortFacts
  <1>6. buf'[p] = dequeue(buf[p], m, now)  BY <1>2, <1>4, <1>5
  <1>7. \A q \in Ports \ {p} :
           buf'[q] = IF q < p /\ q \in m_waiting_buffers[m.addr]
                     THEN reanalyzeMessages(buf[q], m.addr) ELSE buf[q]
    BY <1>2, <1>4
  <1>8. \A q \in Ports : Kept(buf'[q], SlotsOf(q), now)
    <2> SUFFICES ASSUME NEW q \in Ports PROVE Kept(buf'[q], SlotsOf(q), now)  OBVIOUS
    <2>1. SlotsOf(q) \in Nat /\ now \in Nat /\ Kept(buf[q], SlotsOf(q), now)
      BY PortFacts DEF Base, TypeOK, Buffers
    <2>2. CASE q = p  BY <1>6, <2>1, <2>2, DequeueKept
    <2>3. CASE q # p
      <3>1. Kept(reanalyzeMessages(buf[q], m.addr), SlotsOf(q), now)
        BY <2>1, ReanalyzeKept
      <3> QED  BY <1>7, <2>1, <2>3, <3>1
    <2> QED  BY <2>2, <2>3
  <1>9. \A q \in Ports : buf'[q] \in Buffer  BY <1>8 DEF Kept, Sound
  <1> QED  BY <1>1, <1>4, <1>6, <1>7, <1>8, <1>9

LEMMA ServeResponseWakingAllBuffers ==
    ASSUME Base, NEW p \in Ports, NEW m \in buf[p].heap, ServeResponseWakingAll(p, m)
    PROVE  /\ p # RequestPort /\ buf' \in [Ports -> Buffer]
           /\ buf'[p] = dequeue(buf[p], m, now)
           /\ \A q \in Ports \ {p} :
                buf'[q] = IF \E a \in Addrs : q \in m_waiting_buffers[a]
                          THEN reanalyzeAllMessages(buf[q]) ELSE buf[q]
           /\ \A q \in Ports : Kept(buf'[q], SlotsOf(q), now)
  <1>1. p # RequestPort  BY DEF ServeResponseWakingAll, Ends
  <1>2. \A a \in Addrs : p \notin m_waiting_buffers[a]
    BY <1>1 DEF Base, OnlyRequestsStall, StalledIsListed, StalledOn
  <1>3. /\ DOMAIN buf' = Ports
        /\ buf' = [q \in Ports |-> buf'[q]]
        /\ \A q \in Ports :
             buf'[q] = IF \E a \in Addrs : q \in m_waiting_buffers[a]
                       THEN reanalyzeAllMessages(IF q = p THEN dequeue(buf[q], m, now)
                                                 ELSE buf[q])
                       ELSE IF q = p THEN dequeue(buf[q], m, now) ELSE buf[q]
    BY DEF ServeResponseWakingAll
  <1>4. buf'[p] = dequeue(buf[p], m, now)  BY <1>2, <1>3
  <1>5. \A q \in Ports \ {p} :
           buf'[q] = IF \E a \in Addrs : q \in m_waiting_buffers[a]
                     THEN reanalyzeAllMessages(buf[q]) ELSE buf[q]
    BY <1>3
  <1>6. \A q \in Ports : Kept(buf'[q], SlotsOf(q), now)
    <2> SUFFICES ASSUME NEW q \in Ports PROVE Kept(buf'[q], SlotsOf(q), now)  OBVIOUS
    <2>1. SlotsOf(q) \in Nat /\ now \in Nat /\ Kept(buf[q], SlotsOf(q), now)
      BY PortFacts DEF Base, TypeOK, Buffers
    <2>2. CASE q = p  BY <1>4, <2>1, <2>2, DequeueKept
    <2>3. CASE q # p
      <3>1. Kept(reanalyzeAllMessages(buf[q]), SlotsOf(q), now)
        BY <2>1, ReanalyzeKept
      <3> QED  BY <1>5, <2>1, <2>3, <3>1
    <2> QED  BY <2>2, <2>3
  <1>7. \A q \in Ports : buf'[q] \in Buffer  BY <1>6 DEF Kept, Sound
  <1> QED  BY <1>1, <1>3, <1>4, <1>5, <1>6, <1>7

\* The other variables after a response.
LEMMA ResponseTypes ==
    ASSUME Base, NEW p \in Ports, NEW m \in buf[p].heap,
           ServeResponse(p, m) \/ ServeResponseWakingAll(p, m),
           buf' \in [Ports -> Buffer], \A q \in Ports : Kept(buf'[q], SlotsOf(q), now)
    PROVE  TypeOK' /\ Buffers' /\ now' = now
  <1>1. m.addr \in Addrs /\ now \in Nat  BY PeekFacts
  <1>2. /\ now' = now /\ now' \in Nat /\ m_wakeup_ticks' \subseteq Nat
        /\ awake' \in BOOLEAN /\ m_cur_in_port' \in Ports /\ counter' \in Nat
    <2>1. {now} \in SUBSET Nat /\ {} \in SUBSET Nat  BY <1>1
    <2>2. Continue({}) \/ Continue({now})
      BY DEF ServeResponse, ServeResponseWakingAll
    <2> QED  BY <2>1, <2>2, ScanTypes DEF Base
  <1>3. /\ state' \in [Addrs -> Waits]
        /\ m_waiting_buffers' \in [Addrs -> SUBSET Ports]
        /\ UNCHANGED <<memReq, m_waiting_mem_retry, memory>>
    BY <1>1 DEF ServeResponse, ServeResponseWakingAll, Base, TypeOK, Waits, mem
  <1>6. m_block_map' \subseteq Addrs
    BY <1>1, CallbackTypes DEF ServeResponse, ServeResponseWakingAll, Base, TypeOK
  <1>4. TypeOK'  BY <1>2, <1>3, <1>6 DEF Base, TypeOK
  <1>5. Buffers'  BY <1>2, <1>3 DEF Base, Buffers
  <1> QED  BY <1>2, <1>4, <1>5

LEMMA ServeResponseBase == Base /\ AnyServeResponse => Base'
  <1> SUFFICES ASSUME Base, NEW p \in Ports, NEW m \in buf[p].heap, ServeResponse(p, m)
               PROVE  Base'
    BY DEF AnyServeResponse
  <1>1. /\ p # RequestPort /\ buf' \in [Ports -> Buffer]
        /\ buf'[p] = dequeue(buf[p], m, now)
        /\ \A q \in Ports \ {p} :
             buf'[q] = IF q < p /\ q \in m_waiting_buffers[m.addr]
                       THEN reanalyzeMessages(buf[q], m.addr) ELSE buf[q]
        /\ \A q \in Ports : Kept(buf'[q], SlotsOf(q), now)
    BY ServeResponseBuffers
  <1>2. TypeOK' /\ Buffers' /\ now' = now  BY <1>1, ResponseTypes
  <1>3. \A q \in Ports : buf'[q].stall =
           IF q < p /\ q \in m_waiting_buffers[m.addr]
           THEN buf[q].stall \ StalledOn(buf[q], m.addr) ELSE buf[q].stall
    <2> SUFFICES ASSUME NEW q \in Ports
                 PROVE  buf'[q].stall =
                          IF q < p /\ q \in m_waiting_buffers[m.addr]
                          THEN buf[q].stall \ StalledOn(buf[q], m.addr)
                          ELSE buf[q].stall
      OBVIOUS
    <2>1. SlotsOf(q) \in Nat /\ now \in Nat /\ Kept(buf[q], SlotsOf(q), now)
      BY PortFacts DEF Base, TypeOK, Buffers
    <2>2. CASE q = p
      <3>1. buf'[q].stall = buf[q].stall  BY <1>1, <2>1, <2>2, DequeueKept
      <3>2. ~(q < p)  BY <2>2, PortFacts
      <3> QED  BY <3>1, <3>2
    <2>3. CASE q # p
      <3>1. reanalyzeMessages(buf[q], m.addr).stall =
              buf[q].stall \ StalledOn(buf[q], m.addr)
        BY <2>1, ReanalyzeKept
      <3> QED  BY <1>1, <2>3, <3>1
    <2> QED  BY <2>2, <2>3
  <1>4. OnlyRequestsStall'  BY <1>3 DEF Base, OnlyRequestsStall
  <1>5. /\ m.addr \in Addrs
        /\ \A a \in Addrs : m_waiting_buffers'[a] =
             IF a = m.addr THEN {} ELSE m_waiting_buffers[a]
    BY PeekFacts DEF ServeResponse, Base, TypeOK
  <1>6. StalledIsListed'
    <2> SUFFICES ASSUME NEW a \in Addrs, NEW q \in Ports
                 PROVE  q \in m_waiting_buffers'[a] <=> StalledOn(buf'[q], a) # {}
      BY DEF StalledIsListed
    <2>1. q \in m_waiting_buffers[a] <=> StalledOn(buf[q], a) # {}
      BY DEF Base, StalledIsListed
    <2>2. CASE a = m.addr
      <3>1. CASE q = RequestPort
        <4>1. q < p  BY <1>1, <3>1, PortFacts
        <4> QED  BY Zenon, <1>3, <1>5, <2>1, <2>2, <4>1 DEF StalledOn
      <3>2. CASE q # RequestPort  BY <1>4, <1>5, <2>2, <3>2 DEF OnlyRequestsStall, StalledOn
      <3> QED  BY <3>1, <3>2
    <2>3. CASE a # m.addr
      <3>1. StalledOn(buf'[q], a) = StalledOn(buf[q], a)
        BY Zenon, <1>3, <2>3 DEF StalledOn
      <3> QED  BY <1>5, <2>1, <2>3, <3>1
    <2> QED  BY <2>2, <2>3
  <1> QED  BY <1>2, <1>4, <1>6 DEF Base

LEMMA ServeWakingAllBase == Base /\ AnyServeWakingAll => Base'
  <1> SUFFICES ASSUME Base, NEW p \in Ports, NEW m \in buf[p].heap,
                      ServeResponseWakingAll(p, m)
               PROVE  Base'
    BY DEF AnyServeWakingAll
  <1>1. /\ p # RequestPort /\ buf' \in [Ports -> Buffer]
        /\ buf'[p] = dequeue(buf[p], m, now)
        /\ \A q \in Ports \ {p} :
             buf'[q] = IF \E a \in Addrs : q \in m_waiting_buffers[a]
                       THEN reanalyzeAllMessages(buf[q]) ELSE buf[q]
        /\ \A q \in Ports : Kept(buf'[q], SlotsOf(q), now)
    BY ServeResponseWakingAllBuffers
  <1>2. TypeOK' /\ Buffers' /\ now' = now  BY <1>1, ResponseTypes
  <1>3. \A a \in Addrs : m_waiting_buffers'[a] = {}  BY DEF ServeResponseWakingAll
  <1>4. \A q \in Ports : \A a \in Addrs : StalledOn(buf'[q], a) = {}
    <2> SUFFICES ASSUME NEW q \in Ports, NEW a \in Addrs
                 PROVE  StalledOn(buf'[q], a) = {}
      OBVIOUS
    <2>1. SlotsOf(q) \in Nat /\ now \in Nat /\ Kept(buf[q], SlotsOf(q), now)
      BY PortFacts DEF Base, TypeOK, Buffers
    <2>2. CASE q = p
      <3>1. buf'[q].stall = buf[q].stall  BY <1>1, <2>1, <2>2, DequeueKept
      <3> QED  BY <1>1, <2>2, <3>1 DEF Base, OnlyRequestsStall, StalledOn
    <2>3. CASE q # p /\ \E b \in Addrs : q \in m_waiting_buffers[b]
      <3>1. buf'[q].stall = {}  BY Zenon, <1>1, <2>1, <2>3, ReanalyzeKept
      <3> QED  BY <3>1 DEF StalledOn
    <2>4. CASE q # p /\ ~\E b \in Addrs : q \in m_waiting_buffers[b]
      <3>1. buf'[q] = buf[q]  BY <1>1, <2>4
      <3> QED  BY <2>4, <3>1 DEF Base, StalledIsListed
    <2> QED  BY <2>2, <2>3, <2>4
  <1>5. StalledIsListed'  BY <1>3, <1>4 DEF StalledIsListed
  <1>6. OnlyRequestsStall'
    <2> SUFFICES ASSUME NEW q \in Ports, q # RequestPort PROVE buf'[q].stall = {}
      BY DEF OnlyRequestsStall
    <2>1. buf'[q].stall \subseteq Stalled  BY <1>1 DEF Buffer
    <2> QED  BY <1>4, <2>1 DEF StalledOn, Stalled
  <1> QED  BY <1>2, <1>5, <1>6 DEF Base

LEMMA BaseStep == Base /\ [Next]_vars => Base'
  <1> SUFFICES ASSUME Base, [Next]_vars PROVE Base'  OBVIOUS
  <1>1. CASE UNCHANGED vars
    BY <1>1 DEF vars, consumer, mem, Base, TypeOK, Buffers, OnlyRequestsStall,
                StalledIsListed
  <1>2. CASE Next
    BY <1>2, TickBase, MessageArrivesBase, WakeupBase, SkipBase, DelayBase,
       RecycleBase, RequestBase, StallBase, ServeResponseBase, ServeWakingAllBase
       DEF Next
  <1> QED  BY <1>1, <1>2
=============================================================================
