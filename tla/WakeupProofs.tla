---------------------------- MODULE WakeupProofs ----------------------------
(***************************************************************************)
(* No wakeup of the controller is lost, and messages leave their port in   *)
(* order: the rest of the inductive invariant, and the theorems that       *)
(* follow from it.                                                         *)
(***************************************************************************)
EXTENDS ControllerProofs

(* No message sleeps.  While the scan runs, the ports it has passed are     *)
(* attended, and every arrival time to come has its wakeup.                 *)

Due(m) == m.time > now => m.time \in m_wakeup_ticks

Soon == \E t \in m_wakeup_ticks : now <= t /\ t <= now + RecycleLatency

Awaited ==
    /\ \A p \in Ports : \A m \in buf[p].heap : Due(m)
    /\ \A p \in Ports : \A s \in buf[p].stall : s.msg.time <= now
    /\ \A p \in Ports : ~awake \/ m_cur_in_port < p =>
         \A m \in buf[p].heap : Attended(m)
    /\ \A m \in memReq.heap : Due(m)
    /\ m_waiting_mem_retry \/ \A m \in memReq.heap : Attended(m)

LEMMA HeapMessages ==
    ASSUME TypeOK
    PROVE  /\ \A p \in Ports : buf[p].heap \subseteq Message
           /\ memReq.heap \subseteq Message
  BY DEF TypeOK, Buffer

\* A step within one tick that wakes nobody up: messages are new and due, or
\* old, or come from the stalled ones; and the scan starts again, or a wakeup
\* is near.
LEMMA AwaitedScan ==
    ASSUME Base, Base', Awaited, now' = now, m_wakeup_ticks \subseteq m_wakeup_ticks',
           \A q \in Ports : \A m \in buf'[q].heap :
               m \in buf[q].heap \/ m.time <= now \/ m.time \in m_wakeup_ticks',
           \A q \in Ports : \A s \in buf'[q].stall : s.msg.time <= now,
           \A m \in memReq'.heap : m \in memReq.heap \/ m.time \in m_wakeup_ticks',
           Soon' \/ (awake' /\ m_cur_in_port' = MemPort),
           \/ Soon'
           \/ /\ UNCHANGED m_waiting_mem_retry
              /\ \A m \in memReq'.heap : m \in memReq.heap \/ m.time > now
    PROVE  Awaited'
  <1>1. now \in Nat  BY DEF Base, TypeOK
  <1>2. \A q \in Ports : \A m \in buf'[q].heap : m \in Message /\ Due(m)'
    <2>1. \A q \in Ports : buf'[q].heap \subseteq Message  BY DEF Base, TypeOK, Buffer
    <2> QED  BY <1>1, <2>1 DEF Awaited, Due, Message
  <1>3. \A m \in memReq'.heap : m \in Message /\ Due(m)'
    <2>1. memReq'.heap \subseteq Message  BY DEF Base, TypeOK, Buffer
    <2> QED  BY <2>1 DEF Awaited, Due
  <1>4. ASSUME NEW q \in Ports, ~awake' \/ m_cur_in_port' < q,
               NEW m \in buf'[q].heap
        PROVE  Attended(m)'
    <2>1. q <= MemPort /\ q \in Nat /\ MemPort \in Nat  BY PortFacts
    <2>2. Soon'  BY <1>4, <2>1
    <2> QED  BY <1>1, <1>2, <2>2 DEF Message, Due, Soon, Attended
  <1>5. m_waiting_mem_retry' \/ \A m \in memReq'.heap : Attended(m)'
    <2>1. CASE Soon'
      BY <1>1, <1>3, <2>1 DEF Message, Due, Soon, Attended
    <2>2. CASE /\ UNCHANGED m_waiting_mem_retry
               /\ \A m \in memReq'.heap : m \in memReq.heap \/ m.time > now
      <3> SUFFICES ASSUME ~m_waiting_mem_retry, NEW m \in memReq'.heap
                   PROVE  Attended(m)'
        BY <2>2
      <3>1. CASE m.time > now  BY <1>3, <3>1 DEF Attended, Due
      <3>2. CASE ~(m.time > now)
        <4>1. Attended(m)  BY <2>2, <3>2 DEF Awaited
        <4> QED  BY <3>2, <4>1 DEF Attended
      <3> QED  BY <3>1, <3>2
    <2> QED  BY <2>1, <2>2
  <1> QED  BY <1>2, <1>3, <1>4, <1>5 DEF Awaited

LEMMA ContinueScan ==
    ASSUME TypeOK, NEW scheduled \in SUBSET Nat, Continue(scheduled)
    PROVE  /\ now' = now /\ m_wakeup_ticks \subseteq m_wakeup_ticks'
           /\ scheduled \subseteq m_wakeup_ticks'
           /\ Soon' \/ (awake' /\ m_cur_in_port' = MemPort)
  <1>1. CASE counter + 1 = TransitionsPerCycle
    <2>1. now + 1 \in m_wakeup_ticks' /\ now' = now  BY <1>1 DEF Continue
    <2>2. Soon'  BY <2>1, PortFacts DEF Soon, TypeOK
    <2> QED  BY <2>2 DEF Continue
  <1>2. CASE counter + 1 # TransitionsPerCycle  BY Zenon, <1>2 DEF Continue
  <1> QED  BY <1>1, <1>2

LEMMA TickAwaited == Base /\ Awaited /\ Tick => Awaited'
  <1> SUFFICES ASSUME Base, Awaited, Tick PROVE Awaited'  OBVIOUS
  <1>1. /\ now \in Nat /\ now' = now + 1 /\ ~awake /\ now \notin m_wakeup_ticks
        /\ UNCHANGED <<m_wakeup_ticks, awake, buf, memReq, m_waiting_mem_retry>>
        /\ RecycleLatency \in Nat /\ RecycleLatency >= 1
        /\ m_wakeup_ticks \subseteq Nat
    BY PortFacts DEF Tick, Base, TypeOK, mem
  <1>2. ASSUME NEW m \in Message, Due(m) PROVE Due(m)'
    BY <1>1, <1>2 DEF Due, Message
  <1>3. ASSUME NEW m \in Message, Attended(m) PROVE Attended(m)'
    BY <1>1, <1>3 DEF Attended, Message
  <1>4. /\ \A p \in Ports : buf[p].heap \subseteq Message
        /\ memReq.heap \subseteq Message
    BY HeapMessages DEF Base
  <1>5. \A p \in Ports : \A s \in buf[p].stall : s.msg.time \in Nat
    BY DEF Base, TypeOK, Buffer, Stalled, Message
  <1>6. \A p \in Ports : \A m \in buf'[p].heap : Due(m)' /\ Attended(m)'
    BY <1>1, <1>2, <1>3, <1>4 DEF Awaited
  <1>7. \A p \in Ports : \A s \in buf'[p].stall : s.msg.time <= now'
    BY <1>1, <1>5 DEF Awaited
  <1>8. /\ \A m \in memReq'.heap : Due(m)'
        /\ m_waiting_mem_retry' \/ \A m \in memReq'.heap : Attended(m)'
    BY <1>1, <1>2, <1>3, <1>4 DEF Awaited
  <1> QED  BY <1>6, <1>7, <1>8 DEF Awaited

LEMMA AwakenAwaited ==
    Base /\ Awaited /\ (Wakeup \/ WakeupAndSend \/ WakeupAndRefuse) => Awaited'
  <1> SUFFICES ASSUME Base, Awaited, Wakeup \/ WakeupAndSend \/ WakeupAndRefuse
               PROVE  Awaited'
    OBVIOUS
  <1>1. PICK scheduled \in {{}, {now + 1}} : Awaken(scheduled)
    BY DEF Wakeup, WakeupAndSend, WakeupAndRefuse
  <1>2. /\ now \in Nat /\ now' = now /\ UNCHANGED buf
        /\ awake' /\ m_cur_in_port' = MemPort
        /\ m_wakeup_ticks' = (m_wakeup_ticks \ {now}) \union scheduled
    BY <1>1 DEF Awaken, Base, TypeOK
  <1>3. /\ \A p \in Ports : buf[p].heap \subseteq Message
        /\ memReq.heap \subseteq Message
    BY HeapMessages DEF Base
  <1>4. ASSUME NEW m \in Message, Due(m) PROVE Due(m)'
    BY <1>2, <1>4 DEF Due, Message
  <1>5. \A p \in Ports : \A m \in buf'[p].heap : Due(m)'
    BY <1>2, <1>3, <1>4 DEF Awaited
  <1>6. \A p \in Ports : \A s \in buf'[p].stall : s.msg.time <= now'
    BY <1>2 DEF Awaited
  <1>7. \A p \in Ports : awake' /\ ~(m_cur_in_port' < p)  BY <1>2, PortFacts
  <1>8. memReq'.heap \subseteq memReq.heap
    BY MemoryStep DEF Wakeup, WakeupAndSend, WakeupAndRefuse, mem
  <1>9. \A m \in memReq'.heap : Due(m)'  BY <1>3, <1>4, <1>8 DEF Awaited
  <1>10. m_waiting_mem_retry' \/ \A m \in memReq'.heap : Attended(m)'
    <2>1. CASE Wakeup
      <3>1. CASE m_waiting_mem_retry  BY <2>1, <3>1 DEF Wakeup, mem
      <3>2. CASE ~isReady(memReq, now)
        <4>1. \A m \in memReq'.heap : m.time > now'
          BY <1>2, <1>3, <1>8, <3>2 DEF isReady, Message
        <4> QED  BY <1>9, <4>1 DEF Due, Attended
      <3> QED  BY <2>1, <3>1, <3>2 DEF Wakeup
    <2>2. CASE WakeupAndRefuse  BY <2>2 DEF WakeupAndRefuse, MemoryRefuses
    <2>3. CASE WakeupAndSend
      <3>1. now + 1 \in m_wakeup_ticks'  BY <2>3 DEF WakeupAndSend, Awaken
      <3>2. Soon'  BY <1>2, <3>1, PortFacts DEF Soon
      <3>3. \A m \in memReq'.heap : m \in Message  BY <1>3, <1>8
      <3> QED  BY <1>2, <1>9, <3>2, <3>3 DEF Message, Due, Soon, Attended
    <2> QED  BY <2>1, <2>2, <2>3
  <1> QED  BY <1>5, <1>6, <1>7, <1>9, <1>10 DEF Awaited

LEMMA SoonNext ==
    ASSUME TypeOK, now' = now, now + 1 \in m_wakeup_ticks' PROVE Soon'
  BY PortFacts DEF Soon, TypeOK

LEMMA MessageArrivesAwaited ==
    Base /\ Base' /\ Awaited /\ (AnyRequest \/ AnyResponse \/ AnyMemoryResponse)
        => Awaited'
  <1> SUFFICES ASSUME Base, Base', Awaited, NEW p \in Ports, NEW a \in Addrs,
                      buf' = [buf EXCEPT ![p] = enqueue(@, a, now, 1)],
                      m_wakeup_ticks' = m_wakeup_ticks \union {now + 1},
                      UNCHANGED <<now, memReq, m_waiting_mem_retry>>
               PROVE  Awaited'
    BY PortFacts DEF AnyRequest, RequestArrives, AnyResponse, ResponseArrives, Arrive,
                     AnyMemoryResponse, recvTimingResp, ResponsePorts
  <1> DEFINE c == enqueue(buf[p], a, now, 1)
  <1>1. buf[p] \in Buffer /\ now \in Nat  BY DEF Base, TypeOK
  <1>2. c.stall = buf[p].stall /\ \A n \in c.heap : n \in buf[p].heap \/ n.time = now + 1
    BY <1>1, EnqueueHeap
  <1>3. \A q \in Ports : buf'[q] = IF q = p THEN c ELSE buf[q]  BY DEF Base, TypeOK
  <1> HIDE DEF c
  <1>4. \A q \in Ports : \A m \in buf'[q].heap :
           m \in buf[q].heap \/ m.time \in m_wakeup_ticks'
    BY <1>2, <1>3
  <1>5. \A q \in Ports : \A s \in buf'[q].stall : s.msg.time <= now
    BY <1>2, <1>3 DEF Awaited
  <1>6. Soon'  BY SoonNext DEF Base
  <1> QED  BY <1>4, <1>5, <1>6, AwaitedScan

LEMMA RetryAwaited == Base /\ Base' /\ Awaited /\ recvReqRetry => Awaited'
  <1> SUFFICES ASSUME Base, Base', Awaited, recvReqRetry PROVE Awaited'  OBVIOUS
  <1>1. memReq'.heap \subseteq memReq.heap  BY MemoryStep DEF recvReqRetry
  <1>2. /\ now' = now /\ UNCHANGED buf /\ m_wakeup_ticks \subseteq m_wakeup_ticks'
        /\ now + 1 \in m_wakeup_ticks'
    BY DEF recvReqRetry
  <1>3. Soon'  BY <1>2, SoonNext DEF Base
  <1>4. \A q \in Ports : \A s \in buf'[q].stall : s.msg.time <= now
    BY <1>2 DEF Awaited
  <1> QED  BY <1>1, <1>2, <1>3, <1>4, AwaitedScan

LEMMA SkipAwaited == Base /\ Awaited /\ AnySkip => Awaited'
  <1> SUFFICES ASSUME Base, Awaited, NEW p \in Ports, SkipPort(p) PROVE Awaited'
    BY DEF AnySkip
  <1>1. /\ now \in Nat /\ awake /\ m_cur_in_port = p /\ ~isReady(buf[p], now)
        /\ UNCHANGED <<now, buf, memReq, m_waiting_mem_retry, m_wakeup_ticks>>
        /\ awake' = (p # 0) /\ m_cur_in_port' = IF p = 0 THEN MemPort ELSE p - 1
    BY DEF SkipPort, NextPort, mem, Base, TypeOK
  <1>2. \A m \in buf[p].heap : Attended(m)
    <2>1. buf[p].heap \subseteq Message  BY HeapMessages DEF Base
    <2>2. \A m \in buf[p].heap : m.time > now  BY <1>1, <2>1 DEF isReady, Message
    <2> QED  BY <2>2 DEF Awaited, Due, Attended
  <1>3. ASSUME NEW q \in Ports, ~awake' \/ m_cur_in_port' < q
        PROVE  \A m \in buf[q].heap : Attended(m)
    <2>1. p \in Nat /\ q \in Nat  BY PortFacts
    <2>2. CASE p = 0
      <3>1. q = p \/ m_cur_in_port < q  BY <1>1, <2>1, <2>2
      <3> QED  BY <1>2, <3>1 DEF Awaited
    <2>3. CASE p # 0
      <3>1. m_cur_in_port' = p - 1 /\ awake'  BY Zenon, <1>1, <2>3
      <3>2. q = p \/ m_cur_in_port < q  BY <1>1, <1>3, <2>1, <3>1
      <3> QED  BY <1>2, <3>2 DEF Awaited
    <2> QED  BY <2>2, <2>3
  <1>4. \A q \in Ports : ~awake' \/ m_cur_in_port' < q =>
           \A m \in buf'[q].heap : Attended(m)'
    BY <1>1, <1>3 DEF Attended
  <1> QED  BY <1>1, <1>4 DEF Awaited, Due, Attended

LEMMA ResourceStallAwaited == Base /\ Base' /\ Awaited /\ AnyResourceStall => Awaited'
  <1> SUFFICES ASSUME Base, Base', Awaited, AnyResourceStall PROVE Awaited'  OBVIOUS
  <1>1. /\ UNCHANGED <<now, buf, memReq, m_waiting_mem_retry>>
        /\ m_wakeup_ticks' = m_wakeup_ticks \union {now + 1}
    BY DEF AnyResourceStall, ResourceStall, NextPort, mem
  <1>2. Soon'  BY <1>1, SoonNext DEF Base
  <1>3. \A q \in Ports : \A s \in buf'[q].stall : s.msg.time <= now
    BY <1>1 DEF Awaited
  <1> QED  BY <1>1, <1>2, <1>3, AwaitedScan

\* A message of the current port is replaced by one that is due, or removed.
LEMMA ReplaceAwaited ==
    ASSUME Base, Base', Awaited, NEW p \in Ports, NEW m \in buf[p].heap, NEW c,
           buf' = [buf EXCEPT ![p] = c], c.stall = buf[p].stall,
           now' = now, m_wakeup_ticks \subseteq m_wakeup_ticks',
           \A n \in c.heap : n \in buf[p].heap \/ n.time \in m_wakeup_ticks',
           Soon' \/ (awake' /\ m_cur_in_port' = MemPort),
           UNCHANGED m_waiting_mem_retry,
           \A n \in memReq'.heap :
               n \in memReq.heap \/ (n.time \in m_wakeup_ticks' /\ n.time > now)
    PROVE  Awaited'
  <1>1. \A q \in Ports : buf'[q] = IF q = p THEN c ELSE buf[q]  BY DEF Base, TypeOK
  <1>2. \A q \in Ports : \A n \in buf'[q].heap :
           n \in buf[q].heap \/ n.time \in m_wakeup_ticks'
    BY <1>1
  <1>3. \A q \in Ports : \A s \in buf'[q].stall : s.msg.time <= now
    BY <1>1 DEF Awaited
  <1> QED  BY <1>2, <1>3, AwaitedScan

LEMMA DelayAwaited == Base /\ Base' /\ Awaited /\ AnyDelay => Awaited'
  <1> SUFFICES ASSUME Base, Base', Awaited, NEW p \in Ports, NEW m \in buf[p].heap,
                      DelayBlocked(p, m)
               PROVE  Awaited'
    BY DEF AnyDelay
  <1> DEFINE c == delayHead(buf[p], m, now, 1)
  <1>1. buf[p] \in Buffer /\ now \in Nat  BY DEF Base, TypeOK
  <1>2. c.stall = buf[p].stall /\ \A n \in c.heap : n \in buf[p].heap \/ n.time = now + 1
    BY <1>1, DelayHeap
  <1>3. /\ buf' = [buf EXCEPT ![p] = c] /\ now' = now
        /\ m_wakeup_ticks' = m_wakeup_ticks \union {now + 1}
        /\ awake' /\ m_cur_in_port' = MemPort
        /\ UNCHANGED <<m_waiting_mem_retry, memReq>>
    BY DEF DelayBlocked, Peek, mem
  <1> HIDE DEF c
  <1>4. \A n \in c.heap : n \in buf[p].heap \/ n.time \in m_wakeup_ticks'
    BY <1>2, <1>3
  <1> QED  BY Zenon, <1>2, <1>3, <1>4, ReplaceAwaited

LEMMA RecycleAwaited ==
    Base /\ Base' /\ Awaited /\ (AnyRecycleInPort \/ AnyRecycle) => Awaited'
  <1> SUFFICES ASSUME Base, Base', Awaited, NEW p \in Ports, NEW m \in buf[p].heap,
                      RecycleInPort(p, m) \/ Recycle(p, m)
               PROVE  Awaited'
    BY DEF AnyRecycleInPort, AnyRecycle
  <1> DEFINE c == recycle(buf[p], m, now, RecycleLatency)
             u == now + RecycleLatency
  <1>1. buf[p] \in Buffer /\ now \in Nat /\ RecycleLatency \in Nat
    BY PeekFacts DEF Base, TypeOK
  <1>2. c.stall = buf[p].stall /\ \A n \in c.heap : n \in buf[p].heap \/ n.time = u
    BY <1>1, RecycleHeap
  <1>3. /\ buf' = [buf EXCEPT ![p] = c]
        /\ UNCHANGED <<m_waiting_mem_retry, memReq>>
    BY DEF RecycleInPort, Recycle, mem
  <1>4. u \in m_wakeup_ticks' /\ now' = now /\ m_wakeup_ticks \subseteq m_wakeup_ticks'
    <2>1. NextPort({u}) \/ Continue({u})  BY DEF RecycleInPort, Recycle
    <2> QED  BY <2>1 DEF NextPort, Continue
  <1>5. Soon'  BY <1>1, <1>4 DEF Soon
  <1> HIDE DEF c
  <1>6. \A n \in c.heap : n \in buf[p].heap \/ n.time \in m_wakeup_ticks'
    BY <1>2, <1>4
  <1> QED  BY Zenon, <1>2, <1>3, <1>4, <1>5, <1>6, ReplaceAwaited

LEMMA RequestAwaited == Base /\ Base' /\ Awaited /\ (AnyServe \/ AnyFetch) => Awaited'
  <1> SUFFICES ASSUME Base, Base', Awaited, NEW p \in Ports, NEW m \in buf[p].heap,
                      NEW w \in Waits, Serve(p, m, w) \/ Fetch(p, m)
               PROVE  Awaited'
    BY DEF AnyServe, AnyFetch, Waits
  <1> DEFINE c == dequeue(buf[p], m, now)
  <1>1. buf[p] \in Buffer /\ now \in Nat /\ memReq \in Buffer /\ m.addr \in Addrs
    BY PeekFacts DEF Base, TypeOK
  <1>2. c.stall = buf[p].stall /\ c.heap \subseteq buf[p].heap  BY <1>1, DequeueHeap
  <1>3. buf' = [buf EXCEPT ![p] = c] /\ UNCHANGED m_waiting_mem_retry
    BY DEF Serve, Fetch, mem
  <1>4. /\ now' = now /\ m_wakeup_ticks \subseteq m_wakeup_ticks'
        /\ Soon' \/ (awake' /\ m_cur_in_port' = MemPort)
    <2>1. {} \in SUBSET Nat /\ {now + 1} \in SUBSET Nat  BY <1>1
    <2>2. Continue({}) \/ Continue({now + 1})  BY DEF Serve, Fetch
    <2> QED  BY <2>1, <2>2, ContinueScan DEF Base
  <1>5. \A n \in memReq'.heap :
           n \in memReq.heap \/ (n.time \in m_wakeup_ticks' /\ n.time > now)
    <2>1. CASE Serve(p, m, w)  BY <2>1 DEF Serve, mem
    <2>2. CASE Fetch(p, m)
      <3>1. now + 1 \in m_wakeup_ticks'  BY <2>2 DEF Fetch, Continue
      <3>2. \A n \in memReq'.heap : n \in memReq.heap \/ n.time = now + 1
        BY <1>1, <2>2, EnqueueHeap DEF Fetch
      <3> QED  BY <1>1, <3>1, <3>2
    <2> QED  BY <2>1, <2>2
  <1> HIDE DEF c
  <1> QED  BY Zenon, <1>2, <1>3, <1>4, <1>5, ReplaceAwaited

LEMMA StallAwaited == Base /\ Base' /\ Awaited /\ AnyStall => Awaited'
  <1> SUFFICES ASSUME Base, Base', Awaited, NEW p \in Ports, NEW m \in buf[p].heap,
                      NEW a \in Addrs, StallRequest(p, m, a)
               PROVE  Awaited'
    BY DEF AnyStall
  <1> DEFINE c == stallMessage(buf[p], m, a, now)
             s == [msg |-> m, on |-> a]
  <1>1. c.stall = buf[p].stall \union {s} /\ c.heap = buf[p].heap \ {m}
    BY PeekFacts, StallKept
  <1>2. s.msg = m /\ m.time <= now  BY DEF StallRequest, Peek
  <1>3. \A q \in Ports : buf'[q] = IF q = p THEN c ELSE buf[q]
    BY DEF StallRequest, Base, TypeOK
  <1>4. /\ now' = now /\ m_wakeup_ticks \subseteq m_wakeup_ticks'
        /\ Soon' \/ (awake' /\ m_cur_in_port' = MemPort)
    <2>1. {} \in SUBSET Nat /\ Continue({})  BY DEF StallRequest
    <2> QED  BY <2>1, ContinueScan DEF Base
  <1> HIDE DEF c, s
  <1>5. \A q \in Ports : \A n \in buf'[q].heap : n \in buf[q].heap  BY <1>1, <1>3
  <1>6. \A q \in Ports : \A x \in buf'[q].stall : x.msg.time <= now
    BY <1>1, <1>2, <1>3 DEF Awaited
  <1>7. UNCHANGED <<m_waiting_mem_retry, memReq>>  BY DEF StallRequest, mem
  <1> QED  BY <1>4, <1>5, <1>6, <1>7, AwaitedScan

\* An answer leaves, and what it wakes had arrived before.
LEMMA ResponseAwaited ==
    Base /\ Base' /\ Awaited /\ (AnyServeResponse \/ AnyServeWakingAll) => Awaited'
  <1> SUFFICES ASSUME Base, Base', Awaited, NEW p \in Ports, NEW m \in buf[p].heap,
                      ServeResponse(p, m) \/ ServeResponseWakingAll(p, m)
               PROVE  Awaited'
    BY DEF AnyServeResponse, AnyServeWakingAll
  <1>1. \A q \in Ports : buf[q] \in Buffer  BY DEF Base, TypeOK
  <1>2. ASSUME NEW q \in Ports
        PROVE  \/ buf'[q] = dequeue(buf[q], m, now)
               \/ buf'[q] = reanalyzeMessages(buf[q], m.addr)
               \/ buf'[q] = reanalyzeAllMessages(buf[q])
               \/ buf'[q] = buf[q]
    BY ServeResponseBuffers, ServeResponseWakingAllBuffers
  <1>3. ASSUME NEW q \in Ports
        PROVE  /\ \A n \in buf'[q].heap : n \in buf[q].heap \/ n.time <= now
               /\ buf'[q].stall \subseteq buf[q].stall
    <2>1. CASE buf'[q] = dequeue(buf[q], m, now)  BY <1>1, <2>1, DequeueHeap
    <2>2. CASE \/ buf'[q] = reanalyzeMessages(buf[q], m.addr)
               \/ buf'[q] = reanalyzeAllMessages(buf[q])
      BY <1>1, <2>2, ReanalyzeHeap DEF Awaited
    <2>3. CASE buf'[q] = buf[q]  BY <2>3
    <2> QED  BY <1>2, <2>1, <2>2, <2>3
  <1>4. \A q \in Ports : \A s \in buf'[q].stall : s.msg.time <= now
    BY <1>3 DEF Awaited
  <1>5. /\ now' = now /\ m_wakeup_ticks \subseteq m_wakeup_ticks'
        /\ Soon' \/ (awake' /\ m_cur_in_port' = MemPort)
    <2>1. {} \in SUBSET Nat /\ {now} \in SUBSET Nat  BY DEF Base, TypeOK
    <2>2. Continue({}) \/ Continue({now})  BY DEF ServeResponse, ServeResponseWakingAll
    <2> QED  BY <2>1, <2>2, ContinueScan DEF Base
  <1>6. UNCHANGED <<m_waiting_mem_retry, memReq>>
    BY DEF ServeResponse, ServeResponseWakingAll, mem
  <1> QED  BY <1>3, <1>4, <1>5, <1>6, AwaitedScan

LEMMA AwaitedInit == Init => Awaited
  BY PortFacts DEF Init, Awaited, EmptyBuffer

LEMMA AwaitedStep == Base /\ Base' /\ Awaited /\ [Next]_vars => Awaited'
  <1> SUFFICES ASSUME Base, Base', Awaited, [Next]_vars PROVE Awaited'  OBVIOUS
  <1>1. CASE UNCHANGED vars
    BY <1>1 DEF vars, consumer, mem, Awaited, Due, Attended
  <1>2. CASE Next
    BY <1>2, TickAwaited, MessageArrivesAwaited, AwakenAwaited,
       RetryAwaited, SkipAwaited, DelayAwaited, RecycleAwaited, StallAwaited,
       RequestAwaited, ResourceStallAwaited, ResponseAwaited
       DEF Next
  <1> QED  BY <1>1, <1>2

-----------------------------------------------------------------------------
(* The order in which messages leave.                                       *)

\* Only the front m of port p leaves.
LEMMA FrontLeaves ==
    ASSUME Base, NEW p \in Ports, NEW m \in buf[p].heap, IsFront(buf[p], m),
           \A q \in Ports : \A n \in buf[q].heap :
               n \in buf'[q].heap \/ (q = p /\ n = m)
    PROVE  InOrder
  <1> SUFFICES ASSUME NEW q \in Ports, NEW x \in buf[q].heap \ buf'[q].heap, ~x.late,
                      NEW n \in buf[q].heap, ~n.late
               PROVE  x.ctr <= n.ctr
    BY DEF InOrder
  <1>1. q = p /\ x = m  OBVIOUS
  <1>2. Ordered(buf[p], now)  BY DEF Base, Buffers, Kept
  <1>3. m \in Held(buf[p]) /\ n \in Held(buf[p])  BY <1>1 DEF Held
  <1>4. m.time < n.time \/ m.ctr <= n.ctr  BY <1>1 DEF IsFront, Before
  <1> QED  BY <1>1, <1>2, <1>3, <1>4 DEF Ordered

LEMMA HeapsGrow ==
    ASSUME \A q \in Ports : buf[q].heap \subseteq buf'[q].heap
    PROVE  InOrder
  BY DEF InOrder

\* Only the buffer of p changes, and it keeps all but its front m.
LEMMA PortInOrder ==
    ASSUME Base, NEW p \in Ports, NEW m \in buf[p].heap, Peek(p, m), NEW c,
           buf' = [buf EXCEPT ![p] = c], \A n \in buf[p].heap : n \in c.heap \/ n = m
    PROVE  InOrder
  <1>1. \A q \in Ports : buf'[q] = IF q = p THEN c ELSE buf[q]  BY DEF Base, TypeOK
  <1>2. \A q \in Ports : \A n \in buf[q].heap : n \in buf'[q].heap \/ (q = p /\ n = m)
    BY <1>1
  <1> QED  BY <1>2, FrontLeaves DEF Peek

LEMMA PopInOrder == Base /\ (AnyServe \/ AnyFetch) => InOrder
  <1> SUFFICES ASSUME Base, NEW p \in Ports, NEW m \in buf[p].heap, NEW w \in Waits,
                      Serve(p, m, w) \/ Fetch(p, m)
               PROVE  InOrder
    BY DEF AnyServe, AnyFetch, Waits
  <1> DEFINE c == dequeue(buf[p], m, now)
  <1>1. \A n \in buf[p].heap : n \in c.heap \/ n = m  BY DequeueHeap DEF Base, TypeOK
  <1>2. Peek(p, m) /\ buf' = [buf EXCEPT ![p] = c]  BY DEF Serve, Fetch
  <1> HIDE DEF c
  <1> QED  BY Zenon, <1>1, <1>2, PortInOrder

LEMMA DelayInOrder == Base /\ AnyDelay => InOrder
  <1> SUFFICES ASSUME Base, NEW p \in Ports, NEW m \in buf[p].heap, DelayBlocked(p, m)
               PROVE  InOrder
    BY DEF AnyDelay
  <1> DEFINE c == delayHead(buf[p], m, now, 1)
  <1>1. \A n \in buf[p].heap : n \in c.heap \/ n = m  BY DelayHeap DEF Base, TypeOK
  <1>2. Peek(p, m) /\ buf' = [buf EXCEPT ![p] = c]  BY DEF DelayBlocked
  <1> HIDE DEF c
  <1> QED  BY Zenon, <1>1, <1>2, PortInOrder

LEMMA RecycleInOrder == Base /\ (AnyRecycleInPort \/ AnyRecycle) => InOrder
  <1> SUFFICES ASSUME Base, NEW p \in Ports, NEW m \in buf[p].heap,
                      RecycleInPort(p, m) \/ Recycle(p, m)
               PROVE  InOrder
    BY DEF AnyRecycleInPort, AnyRecycle
  <1> DEFINE c == recycle(buf[p], m, now, RecycleLatency)
  <1>0. buf[p] \in Buffer /\ now \in Nat /\ RecycleLatency \in Nat
    BY PeekFacts DEF Base, TypeOK
  <1>1. \A n \in buf[p].heap : n \in c.heap \/ n = m  BY <1>0, RecycleHeap
  <1>2. Peek(p, m) /\ buf' = [buf EXCEPT ![p] = c]  BY DEF RecycleInPort, Recycle
  <1> HIDE DEF c
  <1> QED  BY Zenon, <1>1, <1>2, PortInOrder

LEMMA StallInOrder == Base /\ AnyStall => InOrder
  <1> SUFFICES ASSUME Base, NEW p \in Ports, NEW m \in buf[p].heap, NEW a \in Addrs,
                      StallRequest(p, m, a)
               PROVE  InOrder
    BY DEF AnyStall
  <1> DEFINE c == stallMessage(buf[p], m, a, now)
  <1>1. c.heap = buf[p].heap \ {m}  BY PeekFacts, StallKept
  <1>2. Peek(p, m) /\ buf' = [buf EXCEPT ![p] = c]  BY DEF StallRequest
  <1> HIDE DEF c
  <1> QED  BY Zenon, <1>1, <1>2, PortInOrder

\* The answer leaves; the other ports get their stalled messages back.
LEMMA ResponseInOrder ==
    Base /\ (AnyServeResponse \/ AnyServeWakingAll) => InOrder
  <1> SUFFICES ASSUME Base, NEW p \in Ports, NEW m \in buf[p].heap,
                      ServeResponse(p, m) \/ ServeResponseWakingAll(p, m)
               PROVE  InOrder
    BY DEF AnyServeResponse, AnyServeWakingAll
  <1>1. /\ buf'[p] = dequeue(buf[p], m, now)
        /\ \A q \in Ports \ {p} : \/ buf'[q] = reanalyzeMessages(buf[q], m.addr)
                                  \/ buf'[q] = reanalyzeAllMessages(buf[q])
                                  \/ buf'[q] = buf[q]
    BY ServeResponseBuffers, ServeResponseWakingAllBuffers
  <1>2. IsFront(buf[p], m)  BY DEF ServeResponse, ServeResponseWakingAll, Ends, Peek
  <1>3. \A q \in Ports : buf[q] \in Buffer  BY DEF Base, TypeOK
  <1>4. \A n \in buf[p].heap : n \in buf'[p].heap \/ n = m
    BY <1>1, <1>3, DequeueHeap
  <1>5. \A q \in Ports \ {p} : buf[q].heap \subseteq buf'[q].heap
    BY <1>1, <1>3, ReanalyzeHeap
  <1> QED  BY <1>2, <1>4, <1>5, FrontLeaves

LEMMA ArriveInOrder ==
    Base /\ (AnyRequest \/ AnyResponse \/ AnyMemoryResponse) => InOrder
  <1> SUFFICES ASSUME Base, NEW p \in Ports, NEW a \in Addrs,
                      buf' = [buf EXCEPT ![p] = enqueue(@, a, now, 1)]
               PROVE  InOrder
    BY PortFacts DEF AnyRequest, RequestArrives, AnyResponse, ResponseArrives, Arrive,
                     AnyMemoryResponse, recvTimingResp, ResponsePorts
  <1>1. \A q \in Ports : buf[q] \in Buffer  BY DEF Base, TypeOK
  <1>2. \A q \in Ports :
           buf'[q] = IF q = p THEN enqueue(buf[p], a, now, 1) ELSE buf[q]
    BY DEF Base, TypeOK
  <1>3. buf[p].heap \subseteq enqueue(buf[p], a, now, 1).heap
    BY <1>1, EnqueueHeap DEF Base, TypeOK
  <1> QED  BY <1>2, <1>3, HeapsGrow

LEMMA InOrderStep == Base /\ [Next]_vars => [InOrder]_vars
  <1> SUFFICES ASSUME Base, Next PROVE InOrder  OBVIOUS
  <1>1. ASSUME UNCHANGED buf PROVE InOrder  BY <1>1, HeapsGrow
  <1>2. CASE Tick \/ Wakeup \/ WakeupAndSend \/ WakeupAndRefuse \/ recvReqRetry
             \/ AnySkip \/ AnyResourceStall
    BY <1>1, <1>2
       DEF Tick, Wakeup, WakeupAndSend, WakeupAndRefuse, Awaken, recvReqRetry,
           AnySkip, SkipPort, AnyResourceStall, ResourceStall
  <1> QED  BY <1>2, ArriveInOrder, PopInOrder, DelayInOrder, RecycleInOrder, StallInOrder,
              ResponseInOrder DEF Next

-----------------------------------------------------------------------------
\* The inductive invariant, for every number of ports, slots, lines and
\* transitions per cycle.
Inductive == Base /\ Awaited

LEMMA InductiveInvariant == Spec => []Inductive
  <1>1. Init => Inductive
    BY BaseInit, AwaitedInit DEF Inductive
  <1>2. Inductive /\ [Next]_vars => Inductive'
    BY BaseStep, AwaitedStep DEF Inductive
  <1> QED  BY <1>1, <1>2, PTL DEF Spec

\* The state of the controller, its consumer and its buffers stays well formed:
\* the scan of wakeup() never leaves the ports.
THEOREM ControllerTypes == Spec => []TypeOK
  <1>1. Inductive => TypeOK  BY DEF Inductive, Base
  <1> QED  BY <1>1, InductiveInvariant, PTL

\* No enqueue finds its MessageBuffer full, for every size of the queues:
\* areNSlotsAvailable keeps its promise within the cycle of a pop and after it.
THEOREM SlotsSuffice == Spec => []NeverOverfull
  <1>1. Inductive => NeverOverfull
    BY PortFacts DEF Inductive, Base, Buffers, Kept, Sound, Fits, SlotsOf, NeverOverfull
  <1> QED  BY <1>1, InductiveInvariant, PTL

\* wakeUpBuffers, which forgets the list of an address after waking the lower
\* ranks only, loses no stalled request, however many ports there are.
THEOREM StallsRemembered == Spec => []StalledIsListed
  <1>1. Inductive => StalledIsListed  BY DEF Inductive, Base
  <1> QED  BY <1>1, InductiveInvariant, PTL

\* No wakeup is lost: whatever stays in a queue when wakeup() returns has a
\* wakeup scheduled at its arrival, or at most the recycle latency away.
THEOREM NoWakeupLost == Spec => []NoMessageSleeps
  <1>1. Inductive => NoMessageSleeps  BY DEF Inductive, Awaited, NoMessageSleeps
  <1> QED  BY <1>1, InductiveInvariant, PTL

\* A port takes its messages in the order of their enqueues, but for those that
\* were put back or delayed, also after any number of stalls and wakeups
\* (stallMessage, reanalyzeMessages, reanalyzeAllMessages).
THEOREM PortsKeepOrder == Spec => TakenInOrder
  <1>1. Inductive /\ [Next]_vars => [InOrder]_vars  BY InOrderStep DEF Inductive
  <1> QED  BY <1>1, InductiveInvariant, PTL DEF Spec, TakenInOrder
=============================================================================
