----------------------------- MODULE BufferProofs -----------------------------
(***************************************************************************)
(* One MessageBuffer and its operations: what each of them preserves, and  *)
(* which messages it leaves in the heap and among the stalled ones.        *)
(***************************************************************************)
EXTENDS MessageBuffer, FiniteSetTheorems, TLAPS

\* What areNSlotsAvailable relies on: after a pop, the sizes noted at the start
\* of the cycle and the enqueues of the cycle bound what the buffer holds.
Fits(b, size, t) ==
    size # 0 =>
        /\ Occupied(b) <= size
        /\ b.time_last_time_pop = t =>
             Occupied(b) <=
                 b.size_at_cycle_start + b.stalled_at_cycle_start
                     + IF b.time_last_time_enqueue = t THEN b.msgs_this_cycle ELSE 0

Sound(b, size, t) ==
    /\ b \in Buffer
    /\ IsFiniteSet(b.heap) /\ IsFiniteSet(b.stall)
    /\ b.time_last_time_enqueue <= t /\ b.time_last_time_pop <= t
    /\ Fits(b, size, t)

\* The messages of a buffer, and that those never put back are in the order
\* of their enqueues.
Held(b) == b.heap \union {s.msg : s \in b.stall}

Ordered(b, t) ==
    /\ \A m \in Held(b) : m.ctr <= b.msg_counter
    /\ \A m \in Held(b) : ~m.late => m.time <= t + 1
    /\ \A m, n \in Held(b) : ~m.late /\ ~n.late /\ m.time < n.time => m.ctr <= n.ctr

-----------------------------------------------------------------------------
\* Bounds on the sizes of the sets that the operations build.
LEMMA AddBound ==
    ASSUME NEW S, NEW x, IsFiniteSet(S)
    PROVE  /\ IsFiniteSet(S \union {x})
           /\ Cardinality(S) \in Nat /\ Cardinality(S \union {x}) \in Nat
           /\ Cardinality(S \union {x}) <= Cardinality(S) + 1
  <1>1. Cardinality(S) \in Nat  BY FS_CardinalityType
  <1>2. /\ IsFiniteSet(S \union {x})
        /\ Cardinality(S \union {x}) =
             IF x \in S THEN Cardinality(S) ELSE Cardinality(S) + 1
    BY FS_AddElement
  <1> QED  BY <1>1, <1>2

LEMMA UnionBound ==
    ASSUME NEW S, NEW T, IsFiniteSet(S), IsFiniteSet(T)
    PROVE  /\ IsFiniteSet(S \union T)
           /\ Cardinality(S \union T) \in Nat
           /\ Cardinality(S \union T) <= Cardinality(S) + Cardinality(T)
  <1>1. /\ IsFiniteSet(S \union T) /\ IsFiniteSet(S \cap T)
        /\ Cardinality(S \union T) =
             Cardinality(S) + Cardinality(T) - Cardinality(S \cap T)
    BY FS_Union, FS_Intersection
  <1>2. /\ Cardinality(S) \in Nat /\ Cardinality(T) \in Nat
        /\ Cardinality(S \union T) \in Nat /\ Cardinality(S \cap T) \in Nat
    BY <1>1, FS_CardinalityType
  <1> QED  BY <1>1, <1>2

LEMMA RemoveSize ==
    ASSUME NEW S, NEW T \in SUBSET S, IsFiniteSet(S)
    PROVE  /\ IsFiniteSet(S \ T) /\ Cardinality(S \ T) \in Nat
           /\ Cardinality(S \ T) = Cardinality(S) - Cardinality(T)
  <1>1. S \cap T = T  OBVIOUS
  <1>2. IsFiniteSet(S \ T) /\ Cardinality(S \ T) = Cardinality(S) - Cardinality(S \cap T)
    BY FS_Difference
  <1> QED  BY Zenon, <1>1, <1>2, FS_CardinalityType

\* The cardinalities of a sound buffer are natural numbers.
LEMMA SizesAreNat ==
    ASSUME NEW b, IsFiniteSet(b.heap), IsFiniteSet(b.stall)
    PROVE  Cardinality(b.heap) \in Nat /\ Cardinality(b.stall) \in Nat
  BY FS_CardinalityType

\* The message that an insertion adds, and the fields it changes.
Added(b, a, late, t, delta) ==
    [addr |-> a, time |-> t + delta, ctr |-> b.msg_counter + 1, late |-> late]

LEMMA InsertFields ==
    ASSUME NEW b \in Buffer, NEW a \in Addrs, NEW late \in BOOLEAN, NEW t \in Nat,
           NEW delta \in Nat, NEW c, c = Insert(b, a, late, t, delta)
    PROVE  /\ Added(b, a, late, t, delta) \in Message
           /\ c \in Buffer
           /\ c.heap = b.heap \union {Added(b, a, late, t, delta)}
           /\ c.stall = b.stall
           /\ c.msg_counter = b.msg_counter + 1
           /\ c.size_at_cycle_start = b.size_at_cycle_start
           /\ c.stalled_at_cycle_start = b.stalled_at_cycle_start
           /\ c.time_last_time_pop = b.time_last_time_pop
           /\ c.time_last_time_enqueue = t
           /\ c.msgs_this_cycle = IF b.time_last_time_enqueue < t THEN 1
                                  ELSE b.msgs_this_cycle + 1
  <1> DEFINE k == IF b.time_last_time_enqueue < t THEN 1 ELSE b.msgs_this_cycle + 1
             h == b.heap \union {Added(b, a, late, t, delta)}
             n == b.msg_counter + 1
  <1>1. Added(b, a, late, t, delta) \in Message  BY DEF Message, Buffer, Added
  <1>2. k \in Nat /\ n \in Nat  BY DEF Buffer
  <1>3. h \in SUBSET Message  BY <1>1 DEF Buffer
  <1>4. c = [b EXCEPT !.heap = h, !.msg_counter = n, !.msgs_this_cycle = k,
                      !.time_last_time_enqueue = t]
    BY Zenon DEF Insert, Added
  <1>5. /\ c \in Buffer /\ c.heap = h /\ c.stall = b.stall
        /\ c.msg_counter = n
        /\ c.size_at_cycle_start = b.size_at_cycle_start
        /\ c.stalled_at_cycle_start = b.stalled_at_cycle_start
        /\ c.time_last_time_pop = b.time_last_time_pop
        /\ c.time_last_time_enqueue = t
        /\ c.msgs_this_cycle = k
    <2> HIDE DEF h, k, n
    <2> QED  BY Zenon, <1>2, <1>3, <1>4 DEF Buffer
  <1> QED  BY <1>1, <1>5

\* An enqueue that was promised a slot finds one.
LEMMA EnqueueSound ==
    ASSUME NEW b, NEW size \in Nat, NEW t \in Nat, Sound(b, size, t), NEW a \in Addrs,
           NEW late \in BOOLEAN, NEW delta \in Nat, areNSlotsAvailable(b, size, 1, t)
    PROVE  Sound(Insert(b, a, late, t, delta), size, t)
  <1> DEFINE m == Added(b, a, late, t, delta)
             c == Insert(b, a, late, t, delta)
  <1>0. b \in Buffer /\ IsFiniteSet(b.heap) /\ IsFiniteSet(b.stall)  BY DEF Sound
  <1>1. /\ Cardinality(b.heap) \in Nat /\ Cardinality(b.stall) \in Nat
    BY <1>0, SizesAreNat
  <1>3. /\ c \in Buffer
        /\ c.heap = b.heap \union {m} /\ c.stall = b.stall
        /\ c.size_at_cycle_start = b.size_at_cycle_start
        /\ c.stalled_at_cycle_start = b.stalled_at_cycle_start
        /\ c.time_last_time_pop = b.time_last_time_pop
        /\ c.time_last_time_enqueue = t
        /\ c.msgs_this_cycle = IF b.time_last_time_enqueue < t THEN 1
                               ELSE b.msgs_this_cycle + 1
    BY <1>0, InsertFields
  <1> HIDE DEF m, c
  <1>4. /\ IsFiniteSet(c.heap)
        /\ Cardinality(c.heap) <= Cardinality(b.heap) + 1
        /\ Cardinality(c.heap) \in Nat
    <2> DEFINE S == b.heap
    <2>1. /\ IsFiniteSet(S \union {m}) /\ Cardinality(S) \in Nat
          /\ Cardinality(S \union {m}) \in Nat
          /\ Cardinality(S \union {m}) <= Cardinality(S) + 1
      <3>1. IsFiniteSet(S)  BY <1>0
      <3> HIDE DEF S
      <3> QED  BY Zenon, <3>1, AddBound
    <2> QED  BY <1>3, <2>1
  <1>5. Occupied(c) <= Occupied(b) + 1 /\ Occupied(c) \in Nat /\ Occupied(b) \in Nat
    BY <1>1, <1>3, <1>4 DEF Occupied
  <1>6. /\ b.size_at_cycle_start \in Nat /\ b.stalled_at_cycle_start \in Nat
        /\ b.msgs_this_cycle \in Nat /\ b.time_last_time_enqueue \in Nat
        /\ b.time_last_time_pop \in Nat
    BY <1>0 DEF Buffer
  <1>7. Fits(c, size, t)
    <2> SUFFICES ASSUME size # 0 PROVE Fits(c, size, t)  BY DEF Fits
    <2>1. CASE b.time_last_time_pop < t
      <3>1. Occupied(b) + 1 <= size
        BY <1>1, <2>1 DEF areNSlotsAvailable, Occupied
      <3> QED  BY <1>3, <1>5, <1>6, <2>1, <3>1 DEF Fits
    <2>2. CASE b.time_last_time_pop = t /\ b.time_last_time_enqueue < t
      <3>1. b.size_at_cycle_start + b.stalled_at_cycle_start + 1 <= size
        BY <1>6, <2>2 DEF areNSlotsAvailable
      <3>2. Occupied(b) <= b.size_at_cycle_start + b.stalled_at_cycle_start
        BY <1>6, <2>2 DEF Sound, Fits
      <3> QED  BY <1>3, <1>5, <1>6, <2>2, <3>1, <3>2 DEF Fits
    <2>3. CASE b.time_last_time_pop = t /\ b.time_last_time_enqueue = t
      <3>1. b.size_at_cycle_start + b.msgs_this_cycle + b.stalled_at_cycle_start + 1
              <= size
        BY <1>6, <2>3 DEF areNSlotsAvailable
      <3>2. Occupied(b) <= b.size_at_cycle_start + b.stalled_at_cycle_start
                             + b.msgs_this_cycle
        BY <1>6, <2>3 DEF Sound, Fits
      <3> QED  BY <1>3, <1>5, <1>6, <2>3, <3>1, <3>2 DEF Fits
    <2> QED  BY <1>6, <2>1, <2>2, <2>3 DEF Sound
  <1> QED  BY <1>0, <1>3, <1>4, <1>6, <1>7 DEF Sound, c

\* A pop notes the sizes first.
LEMMA DequeueSound ==
    ASSUME NEW b, NEW size \in Nat, NEW t \in Nat, Sound(b, size, t), NEW m \in b.heap
    PROVE  /\ Sound(dequeue(b, m, t), size, t)
           /\ dequeue(b, m, t).heap = b.heap \ {m}
           /\ dequeue(b, m, t).stall = b.stall
           /\ dequeue(b, m, t).msg_counter = b.msg_counter
           /\ dequeue(b, m, t).time_last_time_pop = t
           /\ size # 0 => /\ Occupied(dequeue(b, m, t)) + 1 <= size
                          /\ Occupied(dequeue(b, m, t)) + 1 <=
                               dequeue(b, m, t).size_at_cycle_start
                                 + dequeue(b, m, t).stalled_at_cycle_start
                                 + IF b.time_last_time_enqueue = t
                                   THEN b.msgs_this_cycle ELSE 0
  <1> DEFINE c == dequeue(b, m, t)
  <1>0. b \in Buffer /\ IsFiniteSet(b.heap) /\ IsFiniteSet(b.stall)  BY DEF Sound
  <1>1. /\ Cardinality(b.heap) \in Nat /\ Cardinality(b.stall) \in Nat
    BY <1>0, SizesAreNat
  <1>2. /\ IsFiniteSet(b.heap \ {m})
        /\ Cardinality(b.heap \ {m}) = Cardinality(b.heap) - 1
    BY <1>0, FS_RemoveElement
  <1>3. /\ b.size_at_cycle_start \in Nat /\ b.stalled_at_cycle_start \in Nat
        /\ b.msgs_this_cycle \in Nat /\ b.time_last_time_enqueue \in Nat
        /\ b.time_last_time_pop \in Nat
    BY <1>0 DEF Buffer
  <1>4. /\ c \in Buffer
        /\ c.heap = b.heap \ {m} /\ c.stall = b.stall
        /\ c.msg_counter = b.msg_counter
        /\ c.size_at_cycle_start =
             IF b.time_last_time_pop < t THEN Cardinality(b.heap)
             ELSE b.size_at_cycle_start
        /\ c.stalled_at_cycle_start =
             IF b.time_last_time_pop < t THEN Cardinality(b.stall)
             ELSE b.stalled_at_cycle_start
        /\ c.time_last_time_pop = t
        /\ c.time_last_time_enqueue = b.time_last_time_enqueue
        /\ c.msgs_this_cycle = b.msgs_this_cycle
    BY Zenon, <1>0, <1>1 DEF dequeue, Buffer
  <1>5. Occupied(c) + 1 = Occupied(b) /\ Occupied(c) \in Int /\ Occupied(b) \in Int
    BY <1>1, <1>2, <1>4 DEF Occupied
  <1>6. size # 0 => /\ Occupied(c) + 1 <= size
                    /\ Occupied(c) + 1 <=
                         c.size_at_cycle_start + c.stalled_at_cycle_start
                           + IF b.time_last_time_enqueue = t
                             THEN b.msgs_this_cycle ELSE 0
    <2> SUFFICES ASSUME size # 0
                 PROVE  /\ Occupied(b) <= size
                        /\ Occupied(b) <=
                             c.size_at_cycle_start + c.stalled_at_cycle_start
                               + IF b.time_last_time_enqueue = t
                                 THEN b.msgs_this_cycle ELSE 0
      BY <1>5
    <2>1. CASE b.time_last_time_pop < t
      BY <1>1, <1>3, <1>4, <2>1 DEF Sound, Fits, Occupied
    <2>2. CASE b.time_last_time_pop = t
      BY <1>3, <1>4, <2>2 DEF Sound, Fits
    <2> QED  BY <1>3, <2>1, <2>2 DEF Sound
  <1>7. /\ c.size_at_cycle_start \in Nat /\ c.stalled_at_cycle_start \in Nat
    BY <1>4 DEF Buffer
  <1>8. Fits(c, size, t)  BY <1>3, <1>4, <1>5, <1>6, <1>7 DEF Fits
  <1> QED  BY <1>0, <1>2, <1>3, <1>4, <1>6, <1>8 DEF Sound

\* A stalled message keeps its slot.
LEMMA StallSound ==
    ASSUME NEW b, NEW size \in Nat, NEW t \in Nat, Sound(b, size, t), NEW m \in b.heap,
           NEW a \in Addrs
    PROVE  /\ Sound(stallMessage(b, m, a, t), size, t)
           /\ stallMessage(b, m, a, t).heap = b.heap \ {m}
           /\ stallMessage(b, m, a, t).stall = b.stall \union {[msg |-> m, on |-> a]}
           /\ stallMessage(b, m, a, t).msg_counter = b.msg_counter
  <1> DEFINE d == dequeue(b, m, t)
             s == [msg |-> m, on |-> a]
             c == stallMessage(b, m, a, t)
  <1>1. /\ Sound(d, size, t) /\ d.heap = b.heap \ {m} /\ d.stall = b.stall
        /\ d.msg_counter = b.msg_counter /\ d.time_last_time_pop = t
        /\ size # 0 => /\ Occupied(d) + 1 <= size
                       /\ Occupied(d) + 1 <=
                            d.size_at_cycle_start + d.stalled_at_cycle_start
                              + IF d.time_last_time_enqueue = t
                                THEN d.msgs_this_cycle ELSE 0
    <2>1. /\ d.time_last_time_enqueue = b.time_last_time_enqueue
          /\ d.msgs_this_cycle = b.msgs_this_cycle
      BY DEF dequeue, Sound, Buffer
    <2> HIDE DEF d
    <2> QED  BY <2>1, DequeueSound DEF d
  <1>2. s \in Stalled  BY DEF Sound, Buffer, Stalled
  <1>3. c = [d EXCEPT !.stall = @ \union {s}]  BY Zenon DEF stallMessage
  <1> HIDE DEF d, c, s
  <1>4. /\ d \in Buffer /\ IsFiniteSet(d.heap) /\ IsFiniteSet(d.stall)
    BY <1>1 DEF Sound
  <1>5. /\ c \in Buffer /\ c.heap = d.heap /\ c.stall = d.stall \union {s}
        /\ c.msg_counter = d.msg_counter
        /\ c.size_at_cycle_start = d.size_at_cycle_start
        /\ c.stalled_at_cycle_start = d.stalled_at_cycle_start
        /\ c.time_last_time_pop = d.time_last_time_pop
        /\ c.time_last_time_enqueue = d.time_last_time_enqueue
        /\ c.msgs_this_cycle = d.msgs_this_cycle
    <2> DEFINE u == d.stall \union {s}
    <2>1. u \in SUBSET Stalled  BY <1>2, <1>4 DEF Buffer
    <2>2. c = [d EXCEPT !.stall = u]  BY <1>3
    <2> HIDE DEF u
    <2>3. /\ c \in Buffer /\ c.heap = d.heap /\ c.stall = u
          /\ c.msg_counter = d.msg_counter
          /\ c.size_at_cycle_start = d.size_at_cycle_start
          /\ c.stalled_at_cycle_start = d.stalled_at_cycle_start
          /\ c.time_last_time_pop = d.time_last_time_pop
          /\ c.time_last_time_enqueue = d.time_last_time_enqueue
          /\ c.msgs_this_cycle = d.msgs_this_cycle
      BY <1>4, <2>1, <2>2 DEF Buffer
    <2> QED  BY <2>3 DEF u
  <1>6. /\ IsFiniteSet(c.stall) /\ Cardinality(c.stall) <= Cardinality(d.stall) + 1
        /\ Cardinality(c.stall) \in Nat /\ Cardinality(d.stall) \in Nat
        /\ Cardinality(d.heap) \in Nat
    <2> DEFINE S == d.stall
    <2>1. /\ IsFiniteSet(S \union {s}) /\ Cardinality(S) \in Nat
          /\ Cardinality(S \union {s}) \in Nat
          /\ Cardinality(S \union {s}) <= Cardinality(S) + 1
      <3>1. IsFiniteSet(S)  BY <1>4
      <3> HIDE DEF S
      <3> QED  BY Zenon, <3>1, AddBound
    <2>2. Cardinality(d.heap) \in Nat  BY <1>4, FS_CardinalityType
    <2> QED  BY <1>5, <2>1, <2>2
  <1>7. Occupied(c) <= Occupied(d) + 1 /\ Occupied(c) \in Nat /\ Occupied(d) \in Nat
    BY <1>5, <1>6 DEF Occupied
  <1>8. /\ d.size_at_cycle_start \in Nat /\ d.stalled_at_cycle_start \in Nat
        /\ d.msgs_this_cycle \in Nat
    BY <1>4 DEF Buffer
  <1>9. Fits(c, size, t)  BY <1>1, <1>5, <1>7, <1>8 DEF Fits
  <1>10. Sound(c, size, t)  BY <1>1, <1>4, <1>5, <1>6, <1>9 DEF Sound
  <1> QED  BY <1>1, <1>5, <1>10 DEF c, s

\* A message that is put back keeps its slot too.
LEMMA ReplaceSound ==
    ASSUME NEW b, NEW size \in Nat, NEW t \in Nat, Sound(b, size, t), NEW m \in b.heap,
           NEW n \in Message, NEW c \in Buffer,
           c.heap = (b.heap \ {m}) \union {n}, c.stall = b.stall,
           c.size_at_cycle_start = b.size_at_cycle_start,
           c.stalled_at_cycle_start = b.stalled_at_cycle_start,
           c.time_last_time_pop = b.time_last_time_pop,
           \/ /\ c.time_last_time_enqueue = b.time_last_time_enqueue
              /\ c.msgs_this_cycle = b.msgs_this_cycle
           \/ /\ c.time_last_time_enqueue = t
              /\ c.msgs_this_cycle = IF b.time_last_time_enqueue < t THEN 1
                                     ELSE b.msgs_this_cycle + 1
    PROVE  Sound(c, size, t)
  <1>0. b \in Buffer /\ IsFiniteSet(b.heap) /\ IsFiniteSet(b.stall)  BY DEF Sound
  <1>1. /\ Cardinality(b.heap) \in Nat /\ Cardinality(b.stall) \in Nat
    BY <1>0, SizesAreNat
  <1>2. /\ IsFiniteSet(b.heap \ {m})
        /\ Cardinality(b.heap \ {m}) = Cardinality(b.heap) - 1
    BY <1>0, FS_RemoveElement
  <1>3. /\ IsFiniteSet(c.heap) /\ Cardinality(c.heap) <= Cardinality(b.heap)
        /\ Cardinality(c.heap) \in Nat
    <2> DEFINE S == b.heap \ {m}
    <2>1. /\ IsFiniteSet(S \union {n}) /\ Cardinality(S) \in Nat
          /\ Cardinality(S \union {n}) \in Nat
          /\ Cardinality(S \union {n}) <= Cardinality(S) + 1
      <3>1. IsFiniteSet(S)  BY <1>2
      <3> HIDE DEF S
      <3> QED  BY Zenon, <3>1, AddBound
    <2> QED  BY <1>1, <1>2, <2>1
  <1>4. Occupied(c) <= Occupied(b) /\ Occupied(c) \in Nat /\ Occupied(b) \in Nat
    BY <1>1, <1>3 DEF Occupied
  <1>5. /\ b.size_at_cycle_start \in Nat /\ b.stalled_at_cycle_start \in Nat
        /\ b.msgs_this_cycle \in Nat /\ b.time_last_time_enqueue \in Nat
        /\ b.time_last_time_pop \in Nat
    BY <1>0 DEF Buffer
  <1>6. Fits(c, size, t)  BY <1>4, <1>5 DEF Sound, Fits
  <1> QED  BY <1>0, <1>3, <1>5, <1>6 DEF Sound

\* A set of stall entries is woken.
Msgs(S) == {s.msg : s \in S}
Woken(b, S) == [b EXCEPT !.heap = @ \union Msgs(S), !.stall = @ \ S]

\* Waking the messages of a set of stall entries frees no slot and takes none.
LEMMA WakeSound ==
    ASSUME NEW b, NEW size \in Nat, NEW t \in Nat, Sound(b, size, t),
           NEW S \in SUBSET b.stall, NEW c,
           c = Woken(b, S)
    PROVE  /\ Sound(c, size, t)
           /\ c.heap = b.heap \union Msgs(S) /\ c.stall = b.stall \ S
           /\ c.msg_counter = b.msg_counter
  <1> DEFINE M == Msgs(S)
             f == [s \in S |-> s.msg]
  <1>0. b \in Buffer /\ IsFiniteSet(b.heap) /\ IsFiniteSet(b.stall)  BY DEF Sound
  <1>1. /\ Cardinality(b.heap) \in Nat /\ Cardinality(b.stall) \in Nat
    BY <1>0, SizesAreNat
  <1>2. IsFiniteSet(S) /\ Cardinality(S) \in Nat  BY <1>0, FS_Subset, FS_CardinalityType
  <1>3. f \in Surjection(S, M)  BY DEF Surjection, Msgs
  <1>4. IsFiniteSet(M) /\ Cardinality(M) <= Cardinality(S) /\ Cardinality(M) \in Nat
    <2> HIDE DEF f, M
    <2> QED  BY <1>2, <1>3, FS_Surjection, FS_CardinalityType
  <1>5. M \subseteq Message  BY <1>0 DEF Buffer, Stalled, Msgs
  <1>6. /\ c \in Buffer /\ c.heap = b.heap \union M /\ c.stall = b.stall \ S
        /\ c.msg_counter = b.msg_counter
        /\ c.size_at_cycle_start = b.size_at_cycle_start
        /\ c.stalled_at_cycle_start = b.stalled_at_cycle_start
        /\ c.time_last_time_pop = b.time_last_time_pop
        /\ c.time_last_time_enqueue = b.time_last_time_enqueue
        /\ c.msgs_this_cycle = b.msgs_this_cycle
    <2> DEFINE h == b.heap \union M
               u == b.stall \ S
    <2>1. h \in SUBSET Message /\ u \in SUBSET Stalled  BY <1>0, <1>5 DEF Buffer
    <2>2. c = [b EXCEPT !.heap = h, !.stall = u]  BY DEF Woken
    <2> HIDE DEF h, u
    <2>3. /\ c \in Buffer /\ c.heap = h /\ c.stall = u
          /\ c.msg_counter = b.msg_counter
          /\ c.size_at_cycle_start = b.size_at_cycle_start
          /\ c.stalled_at_cycle_start = b.stalled_at_cycle_start
          /\ c.time_last_time_pop = b.time_last_time_pop
          /\ c.time_last_time_enqueue = b.time_last_time_enqueue
          /\ c.msgs_this_cycle = b.msgs_this_cycle
      BY Zenon, <1>0, <2>1, <2>2 DEF Buffer
    <2> QED  BY <2>3 DEF h, u
  <1> HIDE DEF M, f
  <1>7. /\ IsFiniteSet(c.heap)
        /\ Cardinality(c.heap) <= Cardinality(b.heap) + Cardinality(M)
        /\ Cardinality(c.heap) \in Nat
    BY <1>0, <1>4, <1>6, UnionBound
  <1>8. /\ IsFiniteSet(c.stall)
        /\ Cardinality(c.stall) = Cardinality(b.stall) - Cardinality(S)
        /\ Cardinality(c.stall) \in Nat
    <2> DEFINE T == b.stall
    <2>1. /\ IsFiniteSet(T \ S) /\ Cardinality(T \ S) \in Nat
          /\ Cardinality(T \ S) = Cardinality(T) - Cardinality(S)
      <3>1. IsFiniteSet(T) /\ S \in SUBSET T  BY <1>0
      <3> HIDE DEF T
      <3> QED  BY <3>1, RemoveSize
    <2> QED  BY <1>6, <2>1
  <1>9. Occupied(c) <= Occupied(b) /\ Occupied(c) \in Nat /\ Occupied(b) \in Nat
    BY <1>1, <1>2, <1>4, <1>7, <1>8 DEF Occupied
  <1>10. /\ b.size_at_cycle_start \in Nat /\ b.stalled_at_cycle_start \in Nat
         /\ b.msgs_this_cycle \in Nat
    BY <1>0 DEF Buffer
  <1>11. Fits(c, size, t)  BY <1>6, <1>9, <1>10 DEF Sound, Fits
  <1>12. Sound(c, size, t)  BY <1>0, <1>6, <1>7, <1>8, <1>11 DEF Sound
  <1> QED  BY <1>6, <1>12 DEF M

-----------------------------------------------------------------------------
(* Each operation keeps a sound and ordered buffer so.                     *)

Kept(b, size, t) == Sound(b, size, t) /\ Ordered(b, t)

LEMMA EnqueueKept ==
    ASSUME NEW b, NEW size \in Nat, NEW t \in Nat, Kept(b, size, t), NEW a \in Addrs,
           areNSlotsAvailable(b, size, 1, t)
    PROVE  /\ Kept(enqueue(b, a, t, 1), size, t)
           /\ enqueue(b, a, t, 1).stall = b.stall
           /\ \E m \in Message : /\ enqueue(b, a, t, 1).heap = b.heap \union {m}
                                 /\ m.time = t + 1
  <1>1. PICK late \in BOOLEAN : late = FALSE  BY Zenon
  <1> DEFINE c == Insert(b, a, late, t, 1)
             m == Added(b, a, late, t, 1)
  <1>2. enqueue(b, a, t, 1) = c  BY <1>1, Zenon DEF enqueue
  <1>3. b \in Buffer  BY DEF Kept, Sound
  <1>4. /\ m \in Message /\ c.heap = b.heap \union {m} /\ c.stall = b.stall
        /\ c.msg_counter = b.msg_counter + 1
    BY <1>3, InsertFields
  <1>5. Sound(c, size, t)  BY EnqueueSound DEF Kept
  <1>6. m.ctr = b.msg_counter + 1 /\ m.time = t + 1  BY DEF Added
  <1> HIDE DEF c, m
  <1>7. Ordered(c, t)
    <2>1. Held(c) = Held(b) \union {m}  BY <1>4 DEF Held
    <2>2. Held(b) \subseteq Message  BY <1>3 DEF Held, Buffer, Stalled
    <2>3. b.msg_counter \in Nat  BY <1>3 DEF Buffer
    <2> QED  BY <1>4, <1>6, <2>1, <2>2, <2>3 DEF Ordered, Kept, Message
  <1> QED  BY <1>2, <1>4, <1>5, <1>6, <1>7 DEF Kept

LEMMA DequeueKept ==
    ASSUME NEW b, NEW size \in Nat, NEW t \in Nat, Kept(b, size, t), NEW m \in b.heap
    PROVE  /\ Kept(dequeue(b, m, t), size, t)
           /\ dequeue(b, m, t).stall = b.stall
           /\ dequeue(b, m, t).heap = b.heap \ {m}
  <1> DEFINE c == dequeue(b, m, t)
  <1>1. /\ Sound(c, size, t) /\ c.heap = b.heap \ {m} /\ c.stall = b.stall
        /\ c.msg_counter = b.msg_counter
    BY DequeueSound DEF Kept
  <1> HIDE DEF c
  <1>2. Held(c) \subseteq Held(b)  BY <1>1 DEF Held
  <1>3. Ordered(c, t)  BY <1>1, <1>2 DEF Ordered, Kept
  <1> QED  BY <1>1, <1>3 DEF Kept, c

LEMMA StallKept ==
    ASSUME NEW b, NEW size \in Nat, NEW t \in Nat, Kept(b, size, t), NEW m \in b.heap,
           NEW a \in Addrs
    PROVE  /\ Kept(stallMessage(b, m, a, t), size, t)
           /\ stallMessage(b, m, a, t).stall = b.stall \union {[msg |-> m, on |-> a]}
           /\ stallMessage(b, m, a, t).heap = b.heap \ {m}
  <1> DEFINE c == stallMessage(b, m, a, t)
             s == [msg |-> m, on |-> a]
  <1>1. /\ Sound(c, size, t) /\ c.heap = b.heap \ {m} /\ c.stall = b.stall \union {s}
        /\ c.msg_counter = b.msg_counter
    BY StallSound DEF Kept
  <1>2. s.msg = m  OBVIOUS
  <1> HIDE DEF c, s
  <1>3. Held(c) \subseteq Held(b)  BY <1>1, <1>2 DEF Held
  <1>4. Ordered(c, t)  BY <1>1, <1>3 DEF Ordered, Kept
  <1> QED  BY <1>1, <1>4 DEF Kept, c, s

LEMMA RecycleKept ==
    ASSUME NEW b, NEW size \in Nat, NEW t \in Nat, Kept(b, size, t), NEW m \in b.heap,
           NEW latency \in Nat
    PROVE  /\ Kept(recycle(b, m, t, latency), size, t)
           /\ recycle(b, m, t, latency).stall = b.stall
           /\ \E n \in Message :
                /\ recycle(b, m, t, latency).heap = (b.heap \ {m}) \union {n}
                /\ n.time = t + latency /\ n.ctr = m.ctr /\ n.late
  <1> DEFINE n == [m EXCEPT !.time = t + latency, !.late = TRUE]
             h == (b.heap \ {m}) \union {n}
             c == recycle(b, m, t, latency)
  <1>1. b \in Buffer /\ m \in Message  BY DEF Kept, Sound, Buffer
  <1>2. n \in Message /\ n.time = t + latency /\ n.ctr = m.ctr /\ n.late
    <2> DEFINE u == t + latency
    <2>1. PICK late \in BOOLEAN : late = TRUE  BY Zenon
    <2>2. n = [m EXCEPT !.time = u, !.late = late]  BY <2>1, Zenon
    <2>3. u \in Nat  OBVIOUS
    <2> HIDE DEF u, n
    <2>4. n \in Message /\ n.time = u /\ n.ctr = m.ctr /\ n.late = late
      BY Zenon, <1>1, <2>2, <2>3 DEF Message
    <2> QED  BY <2>1, <2>4, Zenon DEF u
  <1>3. h \in SUBSET Message  BY <1>1, <1>2 DEF Buffer
  <1>4. c = [b EXCEPT !.heap = h]  BY Zenon DEF recycle
  <1> HIDE DEF c, h, n
  <1>5. /\ c \in Buffer /\ c.heap = h /\ c.stall = b.stall
        /\ c.msg_counter = b.msg_counter
        /\ c.size_at_cycle_start = b.size_at_cycle_start
        /\ c.stalled_at_cycle_start = b.stalled_at_cycle_start
        /\ c.time_last_time_pop = b.time_last_time_pop
        /\ c.time_last_time_enqueue = b.time_last_time_enqueue
        /\ c.msgs_this_cycle = b.msgs_this_cycle
    BY <1>1, <1>3, <1>4 DEF Buffer
  <1>6. c.heap = (b.heap \ {m}) \union {n}  BY <1>5 DEF h
  <1>7. Sound(c, size, t)  BY <1>2, <1>5, <1>6, ReplaceSound DEF Kept
  <1>8. Ordered(c, t)
    <2>1. Held(c) \subseteq Held(b) \union {n}  BY <1>5, <1>6 DEF Held
    <2>2. m \in Held(b)  BY DEF Held
    <2> QED  BY <1>2, <1>5, <2>1, <2>2 DEF Ordered, Kept
  <1> QED  BY <1>2, <1>5, <1>6, <1>7, <1>8 DEF Kept, c

LEMMA DelayKept ==
    ASSUME NEW b, NEW size \in Nat, NEW t \in Nat, Kept(b, size, t), NEW m \in b.heap
    PROVE  /\ Kept(delayHead(b, m, t, 1), size, t)
           /\ delayHead(b, m, t, 1).stall = b.stall
           /\ \E n \in Message :
                /\ delayHead(b, m, t, 1).heap = (b.heap \ {m}) \union {n}
                /\ n.time = t + 1 /\ n.ctr = b.msg_counter + 1 /\ n.late
  <1>1. PICK late \in BOOLEAN : late = TRUE  BY Zenon
  <1> DEFINE h == b.heap \ {m}
             d == [b EXCEPT !.heap = h]
             c == Insert(d, m.addr, late, t, 1)
             n == Added(d, m.addr, late, t, 1)
  <1>2. delayHead(b, m, t, 1) = c  BY <1>1, Zenon DEF delayHead
  <1>3. b \in Buffer /\ m.addr \in Addrs  BY DEF Kept, Sound, Buffer, Message
  <1>4. /\ d \in Buffer /\ d.heap = h /\ d.stall = b.stall
        /\ d.msg_counter = b.msg_counter
        /\ d.size_at_cycle_start = b.size_at_cycle_start
        /\ d.stalled_at_cycle_start = b.stalled_at_cycle_start
        /\ d.time_last_time_pop = b.time_last_time_pop
        /\ d.time_last_time_enqueue = b.time_last_time_enqueue
        /\ d.msgs_this_cycle = b.msgs_this_cycle
    <2>1. h \in SUBSET Message  BY <1>3 DEF Buffer
    <2> HIDE DEF h
    <2> QED  BY <1>3, <2>1 DEF Buffer
  <1> HIDE DEF d
  <1>5. n.ctr = b.msg_counter + 1 /\ n.time = t + 1 /\ n.late
    <2>1. n.ctr = b.msg_counter + 1 /\ n.time = t + 1 /\ n.late = late
      BY <1>4 DEF Added
    <2> HIDE DEF n
    <2> QED  BY <1>1, <2>1, Zenon
  <1>6. /\ n \in Message /\ c \in Buffer /\ c.heap = (b.heap \ {m}) \union {n}
        /\ c.stall = b.stall
        /\ c.msg_counter = b.msg_counter + 1
        /\ c.size_at_cycle_start = b.size_at_cycle_start
        /\ c.stalled_at_cycle_start = b.stalled_at_cycle_start
        /\ c.time_last_time_pop = b.time_last_time_pop
        /\ c.time_last_time_enqueue = t
        /\ c.msgs_this_cycle = IF b.time_last_time_enqueue < t THEN 1
                               ELSE b.msgs_this_cycle + 1
    BY <1>3, <1>4, InsertFields
  <1> HIDE DEF c, n, h
  <1>7. Sound(c, size, t)  BY <1>6, ReplaceSound DEF Kept
  <1>8. Ordered(c, t)
    <2>1. Held(c) \subseteq Held(b) \union {n}  BY <1>6 DEF Held
    <2>2. Held(b) \subseteq Message /\ b.msg_counter \in Nat
      BY <1>3 DEF Held, Buffer, Stalled
    <2> QED  BY <1>5, <1>6, <2>1, <2>2 DEF Ordered, Kept, Message
  <1> QED  BY <1>2, <1>5, <1>6, <1>7, <1>8 DEF Kept

LEMMA WakeKept ==
    ASSUME NEW b, NEW size \in Nat, NEW t \in Nat, Kept(b, size, t),
           NEW S \in SUBSET b.stall, NEW c,
           c = Woken(b, S)
    PROVE  /\ Kept(c, size, t)
           /\ c.heap = b.heap \union Msgs(S) /\ c.stall = b.stall \ S
  <1>1. /\ Sound(c, size, t) /\ c.heap = b.heap \union Msgs(S)
        /\ c.stall = b.stall \ S /\ c.msg_counter = b.msg_counter
    BY WakeSound DEF Kept
  <1>2. Held(c) \subseteq Held(b)  BY <1>1 DEF Held, Msgs
  <1>3. Ordered(c, t)  BY <1>1, <1>2 DEF Ordered, Kept
  <1> QED  BY <1>1, <1>3 DEF Kept
-----------------------------------------------------------------------------
\* Which messages are in the heap after each operation, and which are stalled.
LEMMA EnqueueHeap ==
    ASSUME NEW b \in Buffer, NEW a \in Addrs, NEW t \in Nat, NEW c,
           c = enqueue(b, a, t, 1)
    PROVE  /\ c.stall = b.stall /\ b.heap \subseteq c.heap
           /\ \A n \in c.heap : n \in b.heap \/ n.time = t + 1
  BY DEF enqueue, Insert, Buffer

LEMMA DequeueHeap ==
    ASSUME NEW b \in Buffer, NEW m, NEW t, NEW c, c = dequeue(b, m, t)
    PROVE  c.stall = b.stall /\ c.heap = b.heap \ {m}
  BY DEF dequeue, Buffer

LEMMA RecycleHeap ==
    ASSUME NEW b \in Buffer, NEW m \in b.heap, NEW t \in Nat, NEW latency \in Nat,
           NEW c, c = recycle(b, m, t, latency)
    PROVE  /\ c.stall = b.stall
           /\ \A n \in c.heap : n \in b.heap \/ n.time = t + latency
           /\ \A n \in b.heap : n \in c.heap \/ n = m
  <1> DEFINE n == [m EXCEPT !.time = t + latency, !.late = TRUE]
             h == (b.heap \ {m}) \union {n}
  <1>1. m \in Message  BY DEF Buffer
  <1>2. n.time = t + latency  BY <1>1 DEF Message
  <1>3. c = [b EXCEPT !.heap = h]  BY Zenon DEF recycle
  <1> HIDE DEF n
  <1>4. c.stall = b.stall /\ c.heap = h
    <2> HIDE DEF h
    <2> QED  BY <1>3 DEF Buffer
  <1> QED  BY <1>2, <1>4

LEMMA DelayHeap ==
    ASSUME NEW b \in Buffer, NEW m \in b.heap, NEW t \in Nat, NEW c,
           c = delayHead(b, m, t, 1)
    PROVE  /\ c.stall = b.stall
           /\ \A n \in c.heap : n \in b.heap \/ n.time = t + 1
           /\ \A n \in b.heap : n \in c.heap \/ n = m
  BY DEF delayHead, Insert, Buffer, Message

LEMMA ReanalyzeHeap ==
    ASSUME NEW b \in Buffer, NEW a, NEW c,
           c = reanalyzeMessages(b, a) \/ c = reanalyzeAllMessages(b)
    PROVE  /\ c.stall \subseteq b.stall /\ b.heap \subseteq c.heap
           /\ \A n \in c.heap : n \in b.heap \/ \E s \in b.stall : n = s.msg
  <1> DEFINE S == IF c = reanalyzeMessages(b, a) THEN StalledOn(b, a) ELSE b.stall
  <1>1. S \subseteq b.stall  BY DEF StalledOn
  <1>2. c = Woken(b, S)
    <2>1. b.stall \ b.stall = {}  OBVIOUS
    <2> QED  BY <2>1, Zenon DEF reanalyzeMessages, reanalyzeAllMessages, Woken, Msgs
  <1> HIDE DEF S
  <1>3. c.heap = b.heap \union Msgs(S) /\ c.stall = b.stall \ S
    BY <1>2 DEF Woken, Buffer
  <1> QED  BY <1>1, <1>3 DEF Msgs
=============================================================================
