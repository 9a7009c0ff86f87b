--------------------------- MODULE MessageBuffer ---------------------------
(***************************************************************************)
(* The queue between two Ruby controllers.  Messages wait in a heap        *)
(* ordered by arrival time and, for equal times, by the order in which     *)
(* they were enqueued; a message that its controller cannot serve yet may  *)
(* be set aside on the address it waits for.  A buffer is a record, and    *)
(* every operation of the class is an operator that returns the new one.   *)
(***************************************************************************)
EXTENDS Naturals, FiniteSets

CONSTANT Addrs   \* the line addresses messages are about

\* A message is the line it is about, m_LastEnqueueTime and m_msg_counter.
\* `late' records that it lost its place in the order: it was put back.
Message == [addr : Addrs, time : Nat, ctr : Nat, late : BOOLEAN]

\* A stalled message and the address it waits for.
Stalled == [msg : Message, on : Addrs]

Buffer ==
    [heap : SUBSET Message,              \* m_prio_heap
     stall : SUBSET Stalled,             \* m_stall_msg_map
     msg_counter : Nat,                  \* m_msg_counter
     msgs_this_cycle : Nat,              \* m_msgs_this_cycle
     size_at_cycle_start : Nat,          \* m_size_at_cycle_start
     stalled_at_cycle_start : Nat,       \* m_stalled_at_cycle_start
     time_last_time_enqueue : Nat,       \* m_time_last_time_enqueue
     time_last_time_pop : Nat]           \* m_time_last_time_pop

EmptyBuffer ==
    [heap |-> {}, stall |-> {}, msg_counter |-> 0, msgs_this_cycle |-> 0,
     size_at_cycle_start |-> 0, stalled_at_cycle_start |-> 0,
     time_last_time_enqueue |-> 0, time_last_time_pop |-> 0]

\* operator>: arrival time first, then the order of the enqueues.
Before(m, n) == m.time < n.time \/ (m.time = n.time /\ m.ctr <= n.ctr)

\* m is the front of the heap.
IsFront(b, m) == m \in b.heap /\ \A n \in b.heap : Before(m, n)

\* No buffer of the protocol limits its dequeue rate.
isReady(b, now) == \E m \in b.heap : m.time <= now

Occupied(b) == Cardinality(b.heap) + Cardinality(b.stall)

\* Mutant: the stalled messages take no slot in the cycle of a pop.
SlotsIgnoringStalls(b, m_max_size, n, now) ==
    LET current_size ==
            IF b.time_last_time_pop < now THEN Occupied(b)
            ELSE IF b.time_last_time_enqueue < now THEN b.size_at_cycle_start
            ELSE b.size_at_cycle_start + b.msgs_this_cycle
    IN  m_max_size = 0 \/ current_size + n <= m_max_size

\* Pops are not visible to the sender before the next cycle, enqueues are.
\* A size of 0 is unbounded.
areNSlotsAvailable(b, m_max_size, n, now) ==
    LET current_size ==
            IF b.time_last_time_pop < now THEN Cardinality(b.heap)
            ELSE IF b.time_last_time_enqueue < now THEN b.size_at_cycle_start
            ELSE b.size_at_cycle_start + b.msgs_this_cycle
        current_stall_size ==
            IF b.time_last_time_pop < now THEN Cardinality(b.stall)
            ELSE b.stalled_at_cycle_start
    IN  m_max_size = 0 \/ current_size + current_stall_size + n <= m_max_size

Insert(b, a, late, now, delta) ==
    [b EXCEPT
        !.heap = @ \union {[addr |-> a, time |-> now + delta,
                            ctr |-> b.msg_counter + 1, late |-> late]},
        !.msg_counter = @ + 1,
        !.msgs_this_cycle =
            IF b.time_last_time_enqueue < now THEN 1 ELSE @ + 1,
        !.time_last_time_enqueue = now]

enqueue(b, a, now, delta) == Insert(b, a, FALSE, now, delta)

\* The first pop of a cycle notes the sizes the cycle started with.
dequeue(b, m, now) ==
    LET first == b.time_last_time_pop < now
    IN  [b EXCEPT
            !.heap = @ \ {m},
            !.size_at_cycle_start = IF first THEN Cardinality(b.heap) ELSE @,
            !.stalled_at_cycle_start = IF first THEN Cardinality(b.stall) ELSE @,
            !.time_last_time_pop = now]

stallMessage(b, m, a, now) ==
    [dequeue(b, m, now) EXCEPT !.stall = @ \union {[msg |-> m, on |-> a]}]

\* The head keeps its number and gets a later arrival time.
recycle(b, m, now, latency) ==
    [b EXCEPT !.heap = (@ \ {m}) \union
                          {[m EXCEPT !.time = now + latency, !.late = TRUE]}]

\* The head is enqueued again, behind everything that has arrived.
delayHead(b, m, now, delta) ==
    Insert([b EXCEPT !.heap = @ \ {m}], m.addr, TRUE, now, delta)

StalledOn(b, a) == {s \in b.stall : s.on = a}

\* Mutant: the messages arrive again instead of keeping their times.
ReanalyzeAsNew(b, a) ==
    [b EXCEPT !.heap = @ \union {[s.msg EXCEPT !.time = b.time_last_time_pop + 1] :
                                    s \in StalledOn(b, a)},
              !.stall = @ \ StalledOn(b, a)]

\* The messages stalled on a go back to the heap with their old times.
reanalyzeMessages(b, a) ==
    [b EXCEPT !.heap = @ \union {s.msg : s \in StalledOn(b, a)},
              !.stall = @ \ StalledOn(b, a)]

reanalyzeAllMessages(b) ==
    [b EXCEPT !.heap = @ \union {s.msg : s \in b.stall}, !.stall = {}]
=============================================================================
