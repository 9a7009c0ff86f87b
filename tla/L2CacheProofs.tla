---------------------------- MODULE L2CacheProofs ----------------------------
(***************************************************************************)
(* The L2 forgets no stalled request, whatever the L1s, the directory and  *)
(* the network do.  The proof is by induction on the controller's steps:   *)
(* a step that neither wakes the stalled requests nor stalls one does not  *)
(* lead from a transient state to a settled one (StepKeeps).               *)
(***************************************************************************)
EXTENDS L2Cache, TLAPS

Settled == {"NP", "SS", "M", "MT"}

\* The line keeps its fields, so that its State is what a step says it is.
Shape == DOMAIN L2 = DOMAIN Absent

WakeInv == Shape /\ NoLostWakeup

\* A step that leaves the stalled requests alone keeps the invariant if it
\* starts in a settled state or ends in a transient one.
LEMMA StepKeeps ==
  ASSUME NEW m, NEW line, NEW out, Step(m, line, out), WakeInv,
         DOMAIN line = DOMAIN Absent,
         L2.State \in Settled \/ line.State \notin Settled
  PROVE  WakeInv'
  BY DEF WakeInv, Shape, NoLostWakeup, Step, Settled, Absent

\* A step that wakes the stalled requests keeps the invariant.
LEMMA WakeKeeps ==
  ASSUME NEW m, NEW line, NEW out, StepAndWake(m, line, out),
         DOMAIN line = DOMAIN Absent
  PROVE  WakeInv'
  BY DEF WakeInv, Shape, NoLostWakeup, StepAndWake, Absent

\* A miss starts in a settled state.
LEMMA FetchKeeps ==
  ASSUME WakeInv, NEW m, NEW state \in {"ISS", "IS", "IM"}, NEW sharers, NEW getx,
         Fetch(m, state, sharers, getx)
  PROVE  WakeInv'
  BY Zenon, StepKeeps DEF Fetch, Absent, Settled

\* A request is forwarded to the owner from a settled state.
LEMMA ForwardKeeps ==
  ASSUME WakeInv, NEW m, NEW state, Forward(m, state)
  PROVE  WakeInv'
  BY StepKeeps DEF Forward, In, WakeInv, Shape, Absent, Settled

\* A line whose block has gone to memory is in a transient state.
LEMMA LeftKeeps ==
  ASSUME WakeInv, NEW m, NEW out, Step(m, LeftForMemory, out)
  PROVE  WakeInv'
  BY StepKeeps DEF LeftForMemory, Absent, Settled

\* A step that does not touch the line.
LEMMA SameKeeps ==
  ASSUME WakeInv, NEW m, NEW out, Step(m, L2, out)
  PROVE  WakeInv'
  BY DEF Step, WakeInv, Shape, NoLostWakeup

\* The L1 reads and fetches that the L2 serves.
LEMMA GetsKeep ==
  ASSUME WakeInv, NEW m, L1_GETS(m) \/ L1_GET_INSTR(m)
  PROVE  WakeInv'
  <1>1. CASE Fetch(m, "ISS", {m.from}, NoData) \/ Fetch(m, "IS", {m.from}, NoData)
    BY <1>1, FetchKeeps
  <1>2. CASE Join(m)
    BY Zenon, <1>2, StepKeeps DEF Join, WakeInv, Shape, Absent, Settled
  <1>3. CASE Share(m)
    BY <1>3, StepKeeps DEF Share, WakeInv, Shape, Absent, Settled
  <1>4. CASE L2.State = "M" /\ L1_GETS(m)
    BY <1>4, <1>1, <1>2, <1>3, ForwardKeeps, StepKeeps
       DEF L1_GETS, In, WakeInv, Shape, Absent, Settled
  <1>5. CASE L2.State = "M" /\ L1_GET_INSTR(m)
    BY Zenon, <1>5, <1>1, <1>2, <1>3, ForwardKeeps, StepKeeps
       DEF L1_GET_INSTR, In, WakeInv, Shape, Absent, Settled
  <1>6. CASE Forward(m, "MT_IIB")
    BY <1>6, ForwardKeeps
  <1> QED BY <1>1, <1>2, <1>3, <1>4, <1>5, <1>6 DEF L1_GETS, L1_GET_INSTR

\* The L1 writes that the L2 serves.
LEMMA GetxKeep ==
  ASSUME WakeInv, NEW m, L1_GETX(m) \/ L1_UPGRADE(m)
  PROVE  WakeInv'
  <1>1. CASE Fetch(m, "IM", {}, m.from)
    BY <1>1, FetchKeeps
  <1>2. CASE Forward(m, "MT_MB")
    BY <1>2, ForwardKeeps
  <1>3. ASSUME NEW state, NEW out, L2.State \in Settled, Step(m, In(state), out)
        PROVE  WakeInv'
    BY <1>3, StepKeeps DEF In, WakeInv, Shape, Absent
  <1> QED BY <1>1, <1>2, <1>3 DEF L1_GETX, L1_UPGRADE, Settled

\* Writebacks.
LEMMA PutxKeeps ==
  ASSUME WakeInv, NEW m, L1_PUTX(m)
  PROVE  WakeInv'
  <1> DEFINE wbAck == ToL1(m.from, "WB_ACK")
             taken == IF m.Dirty
                      THEN [L2 EXCEPT !.DataBlk = m.DataBlk, !.Dirty = TRUE]
                      ELSE L2
  <1>1. CASE /\ L2.State = "MT"
             /\ Step(m, [taken EXCEPT !.State = "M", !.Sharers = {}], {wbAck})
    <2>1. DOMAIN [taken EXCEPT !.State = "M", !.Sharers = {}] = DOMAIN Absent
      BY DEF WakeInv, Shape, Absent
    <2> QED BY Zenon, <1>1, <2>1, StepKeeps DEF Settled
  <1>2. CASE Step(m, LeftForMemory, {BlockToMemory(taken), wbAck})
    BY <1>2, LeftKeeps
  <1>3. CASE Step(m, L2, {wbAck})
    BY <1>3, SameKeeps
  <1> QED BY <1>1, <1>2, <1>3 DEF L1_PUTX

\* A request is stalled in a transient state.
LEMMA StallKeeps ==
  ASSUME WakeInv, NEW m, StallRequest(m)
  PROVE  WakeInv'
  <1>1. PICK event : L2.State \in Stalls(event)
    BY DEF StallRequest
  <1>2. L2.State \notin Settled
    BY <1>1 DEF Stalls, Settled, Gets, L2Blocked, L2Evicting, L2Fetching
  <1> QED BY <1>2 DEF StallRequest, WakeInv, Shape, NoLostWakeup, Settled

\* The end of a blocked state.
LEMMA UnblockKeeps ==
  ASSUME WakeInv, NEW m, Exclusive_Unblock(m) \/ UnblockL2(m)
  PROVE  WakeInv'
  <1>1. CASE Exclusive_Unblock(m)
    BY Zenon, <1>1, WakeKeeps DEF Exclusive_Unblock, In, WakeInv, Shape, Absent
  <1>2. CASE UnblockL2(m)
    <2>1. CASE L2.State = "MT_IIB"
      BY Zenon, <1>2, <2>1, StepKeeps DEF UnblockL2, In, WakeInv, Shape, Absent, Settled
    <2>2. CASE L2.State = "MT_SB"
      BY Zenon, <1>2, <2>2, WakeKeeps DEF UnblockL2, In, WakeInv, Shape, Absent
    <2> QED BY <1>2, <2>1, <2>2 DEF UnblockL2
  <1> QED BY <1>1, <1>2

\* What a response of the directory or of an L1 leaves in the line.
LEMMA StoredShape ==
  ASSUME WakeInv, NEW m, NEW state
  PROVE  /\ DOMAIN Stored(m, state) = DOMAIN Absent
         /\ Stored(m, state).State = state
         /\ DOMAIN WithoutTBE(Stored(m, state)) = DOMAIN Absent
         /\ WithoutTBE(Stored(m, state)).State = state
  BY DEF WakeInv, Shape, Stored, WithoutTBE, Absent

\* The directory's answers.
LEMMA MemoryKeeps ==
  ASSUME WakeInv, NEW m, Mem_Data(m) \/ Mem_Ack(m)
  PROVE  WakeInv'
  <1>1. ASSUME NEW state, NEW out, StepAndWake(m, WithoutTBE(Stored(m, state)), out)
        PROVE  WakeInv'
    BY <1>1, StoredShape, WakeKeeps
  <1>2. ASSUME NEW out, Step(m, WithoutTBE(Stored(m, "MT_MB")), out)
        PROVE  WakeInv'
    BY <1>2, StoredShape, StepKeeps DEF Settled
  <1>3. CASE Mem_Data(m)
    BY <1>1, <1>2, <1>3 DEF Mem_Data
  <1>4. CASE Mem_Ack(m)
    BY <1>4, WakeKeeps, SameKeeps DEF Mem_Ack
  <1> QED BY <1>3, <1>4

\* A line that is being evicted is in a transient state.
LEMMA EvictKeeps ==
  ASSUME WakeInv, NEW line, L2' = line, UNCHANGED L2Stalled,
         DOMAIN line = DOMAIN Absent, line.State \in L2Evicting
  PROVE  WakeInv'
  BY DEF WakeInv, Shape, NoLostWakeup, L2Evicting

\* What an eviction leaves of the line.
LEMMA EvictedShape ==
  ASSUME NEW state
  PROVE  /\ DOMAIN Evicted(state) = DOMAIN Absent
         /\ Evicted(state).State = state
         /\ DOMAIN LeftForMemory = DOMAIN Absent
         /\ LeftForMemory.State = "M_I"
  BY DEF Evicted, LeftForMemory, Absent

\* The three ways an eviction starts.
LEMMA EvictionKeeps ==
  ASSUME WakeInv, Evict \/ L2_Replacement \/ L2_Replacement_clean
  PROVE  WakeInv'
  BY EvictKeeps, EvictedShape
     DEF Evict, L2_Replacement, L2_Replacement_clean, L2Evicting

\* Invalidations of the directory.
LEMMA InvKeeps ==
  ASSUME WakeInv, NEW m, MEM_Inv(m)
  PROVE  WakeInv'
  BY EvictionKeeps, SameKeeps DEF MEM_Inv

\* The responses of the L1s.
LEMMA ResponsesKeep ==
  ASSUME WakeInv, NEW m, WB_Data(m) \/ Ack(m) \/ Ack_all(m) \/ Drain(m)
  PROVE  WakeInv'
  <1>1. CASE WB_Data(m)
    <2>1. CASE Step(m, Stored(m, "MT_SB"), {})
      BY <2>1, StoredShape, StepKeeps DEF Settled
    <2>2. CASE StepAndWake(m, Stored(m, "SS"), {})
      BY <2>2, StoredShape, WakeKeeps
    <2> QED BY <1>1, <2>1, <2>2, LeftKeeps DEF WB_Data
  <1>2. CASE Ack(m)
    BY <1>2, StepKeeps DEF Ack, WakeInv, Shape, Absent, Settled
  <1>3. CASE Ack_all(m)
    BY <1>3, LeftKeeps DEF Ack_all
  <1>4. CASE Drain(m)
    BY <1>4, SameKeeps DEF Drain
  <1> QED BY <1>1, <1>2, <1>3, <1>4

\* Decay sets a flag and leaves the state alone.
LEMMA DecayKeeps ==
  ASSUME WakeInv, Decay
  PROVE  WakeInv'
  BY DEF Decay, WakeInv, Shape, NoLostWakeup, Absent

\* In whatever environment the L2 runs, no request stays stalled once the
\* transient state it was stalled in has ended: every transition that ends
\* one runs kd_wakeUpDependents.
THEOREM WakeupCorrect == L2Spec => []NoLostWakeup
  <1>1. L2Init => WakeInv
    BY DEF L2Init, WakeInv, Shape, NoLostWakeup
  <1>2. WakeInv /\ [L2Next]_<<L2, L2Stalled>> => WakeInv'
    <2> SUFFICES ASSUME WakeInv, [L2Next]_<<L2, L2Stalled>> PROVE WakeInv'
      OBVIOUS
    <2>1. ASSUME NEW m \in InFlight, L2Receives(m) PROVE WakeInv'
      BY <2>1, GetsKeep, GetxKeep, PutxKeeps, StallKeeps, UnblockKeeps,
         MemoryKeeps, InvKeeps, ResponsesKeep DEF L2Receives
    <2>2. CASE L2_Replacement \/ L2_Replacement_clean
      BY <2>2, EvictionKeeps
    <2>3. CASE Decay
      BY <2>3, DecayKeeps
    <2>4. CASE UNCHANGED <<L2, L2Stalled>>
      BY <2>4 DEF WakeInv, Shape, NoLostWakeup
    <2> QED BY <2>1, <2>2, <2>3, <2>4 DEF L2Next
  <1>3. WakeInv => NoLostWakeup
    BY DEF WakeInv
  <1> QED BY <1>1, <1>2, <1>3, PTL DEF L2Spec
=============================================================================
