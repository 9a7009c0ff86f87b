------------------------------- MODULE L2Cache -------------------------------
(***************************************************************************)
(* The L2 controller of MESI_Two_Level-L2cache.sm for one line.            *)
(*                                                                         *)
(* The TBE takes over the block when the entry is deallocated, so one      *)
(* DataBlk and one Dirty stand for both.  A stalled request leaves its     *)
(* buffer for L2Stalled and returns on wakeUpBuffers.  A replacement is    *)
(* caused by a request for another line that needs the way, so it can      *)
(* happen in any state that allows it.  decayed is the retention flag that *)
(* CacheMemory::lookup sets; the in_port tests the SLICC field of the same *)
(* name, which is another field and is never set, so its branch is dead.   *)
(***************************************************************************)
EXTENDS MESIMessages, TLC

VARIABLES L2, L2Stalled

L2Evicting == {"M_I", "MT_I", "MCT_I", "I_I", "S_I"}
L2Fetching == {"ISS", "IS", "IM"}
L2Blocked == {"SS_MB", "MT_MB", "MT_IIB", "MT_IB", "MT_SB"}
L2States == {"NP", "SS", "M", "MT"} \cup L2Evicting \cup L2Fetching
              \cup L2Blocked

L2Line == [State : L2States, Sharers : SUBSET L1s,
           Exclusive : L1s \cup {NoData}, DataBlk : DataBlock,
           Dirty : BOOLEAN, decayed : BOOLEAN, pendingAcks : Int,
           L1_GetS_IDs : SUBSET L1s, L1_GetX_ID : L1s \cup {NoData}]

L2TypeOK == L2 \in L2Line /\ L2Stalled \subseteq Message

Absent == [State |-> "NP", Sharers |-> {}, Exclusive |-> NoData,
           DataBlk |-> NoData, Dirty |-> FALSE, decayed |-> FALSE,
           pendingAcks |-> 0, L1_GetS_IDs |-> {}, L1_GetX_ID |-> NoData]

L2Init == L2 = Absent /\ L2Stalled = {}

\* is_valid(cache_entry)
EntryValid == L2.State \notin {"NP"} \cup L2Evicting

IsSharer(m) == EntryValid /\ m.from \in L2.Sharers

\* The event the in_ports trigger for a message.
Event(m) ==
    CASE m.Type = "UPGRADE" -> IF IsSharer(m) THEN "L1_UPGRADE" ELSE "L1_GETX"
      [] m.Type = "PUTX"    -> IF IsSharer(m) THEN "L1_PUTX" ELSE "L1_PUTX_old"
      [] m.Type = "GETX"        -> "L1_GETX"
      [] m.Type = "GETS"        -> "L1_GETS"
      [] m.Type = "GET_INSTR"   -> "L1_GET_INSTR"
      [] m.Type = "UNBLOCK"     -> "Unblock"
      [] m.Type = "EXCLUSIVE_UNBLOCK" -> "Exclusive_Unblock"
      [] m.Type = "MEMORY_DATA" -> "Mem_Data"
      [] m.Type = "MEMORY_ACK"  -> "Mem_Ack"
      [] m.Type = "INV"         -> "MEM_Inv"
      [] m.Type = "DATA" -> IF m.Dirty THEN "WB_Data" ELSE "WB_Data_clean"
      [] m.Type = "ACK"  -> IF /\ L2.State \in L2Evicting \cup L2Fetching
                               /\ L2.pendingAcks = m.AckCount
                            THEN "Ack_all" ELSE "Ack"

Gets == {"L1_GETS", "L1_GET_INSTR"}

\* The states that have a transition for each event.
Transitions ==
    [e \in {"L1_GETS", "L1_GET_INSTR", "L1_GETX"} |-> L2States] @@
    [L1_UPGRADE  |-> {"SS"} \cup L2Blocked \cup L2Evicting,
     L1_PUTX     |-> L2States,
     L1_PUTX_old |-> L2States,
     Unblock     |-> {"MT_IIB", "MT_SB", "NP"},
     Exclusive_Unblock |-> {"SS_MB", "MT_MB", "NP"},
     Mem_Data    |-> L2Fetching,
     Mem_Ack     |-> {"M_I", "NP"} \cup L2Fetching,
     MEM_Inv     |-> L2States,
     WB_Data       |-> {"MT_IIB", "MT_IB", "MT_I", "MCT_I", "M_I", "NP"},
     WB_Data_clean |-> {"MT_IIB", "MT_IB", "MT_I", "MCT_I", "M_I", "NP"},
     Ack     |-> {"I_I", "S_I", "MT_I", "M_I", "NP"},
     Ack_all |-> {"I_I", "S_I", "MT_I", "MCT_I", "M_I", "NP"}]
Receives(m, event) == m.to = "L2Cache" /\ Event(m) = event

-----------------------------------------------------------------------------
(* Ways to finish a transition.                                             *)

Step(m, line, out) == /\ L2' = line
                      /\ Exchange(m, out)
                      /\ UNCHANGED L2Stalled

\* Mutant: the dependents are not woken.
StepNoWake(m, line, out) == Step(m, line, out)

\* kd_wakeUpDependents
StepAndWake(m, line, out) == /\ L2' = line
                             /\ Exchange(m, out \cup L2Stalled)
                             /\ L2Stalled' = {}

In(state) == [L2 EXCEPT !.State = state]

ToL1(i, type) == Control("responseToL1Cache", i, type, "L2Cache")

ToDir(type) == Control("responseToDir", "Directory", type, "L2Cache")

WithBlock(msg) == Carrying(msg, L2.DataBlk, FALSE)

\* Mutant: the block of the L1's response is not written to the TBE.
OwnBlockToMemory(line) == Carrying(ToDir("MEMORY_DATA"), L2.DataBlk, line.Dirty)

\* c_exclusiveReplacement and ct_exclusiveReplacementFromTBE
BlockToMemory(line) == Carrying(ToDir("MEMORY_DATA"), line.DataBlk, line.Dirty)

\* c_exclusiveCleanReplacement
CleanToMemory == ToDir("ACK")

\* The line once its block has been sent to memory.  All that M_I still reads
\* of the TBE is pendingAcks, to tell Ack from Ack_all, and it drains both.
LeftForMemory == [Absent EXCEPT !.State = "M_I"]

-----------------------------------------------------------------------------
(* L1 requests.                                                             *)

\* A miss: allocate, and fetch with the type the L1 asked for.
Fetch(m, state, sharers, getx) ==
    /\ L2.State = "NP"
    /\ Step(m, [Absent EXCEPT !.State = state, !.Sharers = sharers,
                              !.pendingAcks = Cardinality(sharers),
                              !.L1_GetS_IDs = sharers, !.L1_GetX_ID = getx],
            {Control("requestToDir", "Directory", m.Type, "L2Cache")})

\* Another reader while the block is on its way from memory.
Join(m) ==
    /\ L2.State \in {"IS", "ISS"}
    /\ Step(m, [L2 EXCEPT !.State = "IS", !.Sharers = @ \cup {m.from},
                          !.L1_GetS_IDs = @ \cup {m.from}], {})

\* Mutant: the reader is not recorded as a sharer.
ShareUnrecorded(m) ==
    /\ L2.State = "SS"
    /\ Step(m, L2, {WithBlock(ToL1(m.from, "DATA"))})

Share(m) ==
    /\ L2.State = "SS"
    /\ Step(m, [L2 EXCEPT !.Sharers = @ \cup {m.from}],
            {WithBlock(ToL1(m.from, "DATA"))})

\* b_forwardRequestToExclusive
Forward(m, state) ==
    /\ L2.State = "MT"
    /\ Step(m, In(state),
            {Control("requestToL1Cache", L2.Exclusive, m.Type, m.from)})

L1_GETS(m) ==
    /\ Receives(m, "L1_GETS")
    /\ \/ Fetch(m, "ISS", {m.from}, NoData)
       \/ Join(m)
       \/ Share(m)
       \/ /\ L2.State = "M"
          /\ Step(m, In("MT_MB"), {WithBlock(ToL1(m.from, "DATA_EXCLUSIVE"))})
       \/ Forward(m, "MT_IIB")

L1_GET_INSTR(m) ==
    /\ Receives(m, "L1_GET_INSTR")
    /\ \/ Fetch(m, "IS", {m.from}, NoData)
       \/ Join(m)
       \/ Share(m)
       \/ /\ L2.State = "M"
          /\ Step(m, [In("SS") EXCEPT !.Sharers = @ \cup {m.from}],
                  {WithBlock(ToL1(m.from, "DATA"))})
       \/ Forward(m, "MT_IIB")

\* fwm_sendFwdInvToSharersMinusRequestor
InvToOthers(m) == {Control("requestToL1Cache", j, "INV", m.from) :
                      j \in L2.Sharers \ {m.from}}

\* Mutant: the requestor is told to expect its own ack too.
AcksOfAll(m) == 0 - Cardinality(L2.Sharers)

\* Mutant: the requestor is told to wait for nobody.
NoAcksToExpect(m) == 0

\* The AckCount of d_sendDataToRequestor and ts_sendInvAckToUpgrader.
AcksToExpect(m) == 0 - Cardinality(L2.Sharers \ {m.from})

L1_GETX(m) ==
    /\ Receives(m, "L1_GETX")
    /\ \/ Fetch(m, "IM", {}, m.from)
       \/ /\ L2.State = "SS"
          /\ Step(m, In("SS_MB"),
                  InvToOthers(m) \cup
                  {Counting(WithBlock(ToL1(m.from, "DATA")), AcksToExpect(m))})
       \/ /\ L2.State = "M"
          /\ Step(m, In("MT_MB"),
                  {Counting(WithBlock(ToL1(m.from, "DATA")), AcksToExpect(m))})
       \/ Forward(m, "MT_MB")

L1_UPGRADE(m) ==
    /\ Receives(m, "L1_UPGRADE")
    /\ L2.State = "SS"
    /\ Step(m, In("SS_MB"),
            InvToOthers(m) \cup
            {Counting(ToL1(m.from, "ACK"), AcksToExpect(m))})

\* A writeback.  The owner's is stored; one that finds the L2 getting the
\* block back from the owner goes to memory in its place
\* (qqr_writeDataToTBEFromPUTX); any other is acknowledged and dropped.
L1_PUTX(m) ==
    /\ \/ Receives(m, "L1_PUTX")
       \/ Receives(m, "L1_PUTX_old")
    /\ LET wbAck == ToL1(m.from, "WB_ACK")
           taken == IF m.Dirty
                    THEN [L2 EXCEPT !.DataBlk = m.DataBlk, !.Dirty = TRUE]
                    ELSE L2
       IN \/ /\ L2.State = "MT" /\ IsSharer(m)
             /\ Step(m, [taken EXCEPT !.State = "M", !.Sharers = {}], {wbAck})
          \/ /\ L2.State \in {"MCT_I", "MT_I"}
             /\ Step(m, LeftForMemory, {BlockToMemory(taken), wbAck})
          \/ /\ \/ L2.State \in {"NP", "SS", "M", "M_I", "I_I", "S_I",
                                  "MT_IB", "MT_SB"} \cup L2Fetching
                \/ L2.State = "MT" /\ ~IsSharer(m)
             /\ Step(m, L2, {wbAck})

\* The states in which a request has to wait (zz_stallAndWaitL1RequestQueue).
Stalls(event) ==
    CASE event \in Gets                       -> {"IM"} \cup L2Blocked \cup L2Evicting
      [] event = "L1_GETX"                    -> L2Fetching \cup L2Blocked \cup L2Evicting
      [] event = "L1_UPGRADE"                 -> L2Blocked \cup L2Evicting
      [] event \in {"L1_PUTX", "L1_PUTX_old"} -> {"MT_IIB", "MT_MB", "SS_MB"}
      [] OTHER                                -> {}

StallRequest(m) ==
    /\ m.buf = "L1RequestToL2Cache"
    /\ L2.State \in Stalls(Event(m))
    /\ Exchange(m, {})
    /\ L2Stalled' = L2Stalled \cup {m}
    /\ UNCHANGED L2
-----------------------------------------------------------------------------
(* Unblocks.                                                                *)

\* Mutant: the new owner is added to the sharers, but not recorded as owner.
UnblockWithoutOwner(m) ==
    /\ Receives(m, "Exclusive_Unblock")
    /\ L2.State \in {"SS_MB", "MT_MB"}
    /\ StepAndWake(m, [In("MT") EXCEPT !.Sharers = {m.from}], {})

Exclusive_Unblock(m) ==
    /\ Receives(m, "Exclusive_Unblock")
    /\ L2.State \in {"SS_MB", "MT_MB"}
    /\ StepAndWake(m, [In("MT") EXCEPT !.Sharers = {m.from},
                                       !.Exclusive = m.from], {})

UnblockL2(m) ==
    /\ Receives(m, "Unblock")
    /\ \/ /\ L2.State = "MT_IIB"
          /\ Step(m, [In("MT_IB") EXCEPT !.Sharers = @ \cup {m.from}], {})
       \/ /\ L2.State = "MT_SB"
          /\ StepAndWake(m, [In("SS") EXCEPT !.Sharers = @ \cup {m.from}], {})

-----------------------------------------------------------------------------
(* Responses of the directory.                                              *)

\* Mutant: the line does not block until the L1 has its data.
StoredUnblocked(m, state) ==
    [L2 EXCEPT !.State = IF state = "MT_MB" THEN "MT" ELSE state,
               !.DataBlk = m.DataBlk, !.Dirty = @ \/ m.Dirty,
               !.decayed = FALSE]

\* m_writeDataToCache; the write refreshes the cells.
Stored(m, state) == [L2 EXCEPT !.State = state, !.DataBlk = m.DataBlk,
                               !.Dirty = @ \/ m.Dirty, !.decayed = FALSE]

\* s_deallocateTBE
WithoutTBE(line) == [line EXCEPT !.L1_GetS_IDs = {}, !.L1_GetX_ID = NoData,
                                 !.pendingAcks = 0]

Mem_Data(m) ==
    /\ Receives(m, "Mem_Data")
    /\ LET to(ids, type) == {Carrying(ToL1(i, type), m.DataBlk, FALSE) : i \in ids}
       IN \/ /\ L2.State = "ISS"
             /\ Step(m, WithoutTBE(Stored(m, "MT_MB")),
                     to(L2.L1_GetS_IDs, "DATA_EXCLUSIVE"))
          \/ /\ L2.State = "IS"
             /\ StepAndWake(m, WithoutTBE(Stored(m, "SS")),
                            to(L2.L1_GetS_IDs, "DATA"))
          \/ /\ L2.State = "IM"
             /\ Step(m, WithoutTBE(Stored(m, "MT_MB")),
                     to({L2.L1_GetX_ID}, "DATA"))

Mem_Ack(m) ==
    /\ Receives(m, "Mem_Ack")
    /\ \/ L2.State = "M_I" /\ StepAndWake(m, Absent, {})
       \/ L2.State \in {"NP"} \cup L2Fetching /\ Step(m, L2, {})

-----------------------------------------------------------------------------
(* Evictions.                                                               *)

\* Mutant: one ack too many is waited for.
EvictedOffByOne(state) == [Absent EXCEPT !.State = state, !.DataBlk = L2.DataBlk,
                                         !.Dirty = L2.Dirty,
                                         !.pendingAcks = Cardinality(L2.Sharers) + 1]

\* i_allocateTBE, f_sendInvToSharers and rr_deallocateL2CacheBlock
Evicted(state) == [Absent EXCEPT !.State = state, !.DataBlk = L2.DataBlk,
                                 !.Dirty = L2.Dirty,
                                 !.pendingAcks = Cardinality(L2.Sharers)]

InvToSharers == {Control("requestToL1Cache", j, "INV", "L2Cache") :
                    j \in L2.Sharers}

\* The transitions that L2_Replacement and MEM_Inv share.
Evict ==
    /\ \/ L2.State = "SS" /\ L2' = Evicted("S_I") /\ Send(InvToSharers)
       \/ L2.State = "M" /\ L2' = LeftForMemory /\ Send({BlockToMemory(L2)})
       \/ L2.State = "MT" /\ L2' = Evicted("MT_I") /\ Send(InvToSharers)
    /\ UNCHANGED L2Stalled

L2_Replacement == "L2_Replacement" \in workload /\ L2.Dirty /\ Evict

L2_Replacement_clean ==
    /\ "L2_Replacement" \in workload /\ ~L2.Dirty
    /\ \/ L2.State = "SS" /\ L2' = Evicted("I_I") /\ Send(InvToSharers)
       \/ L2.State = "M" /\ L2' = LeftForMemory /\ Send({CleanToMemory})
       \/ L2.State = "MT" /\ L2' = Evicted("MCT_I") /\ Send(InvToSharers)
    /\ UNCHANGED L2Stalled

\* The directory wants the line.  The transition that starts the eviction
\* leaves the message in the buffer, and a blocked line recycles it.
MEM_Inv(m) ==
    /\ Receives(m, "MEM_Inv")
    /\ \/ Evict
       \/ L2.State \in {"NP"} \cup L2Fetching /\ Step(m, L2, {CleanToMemory})
       \/ L2.State \in L2Evicting /\ Step(m, L2, {})

-----------------------------------------------------------------------------
(* Responses of the L1s.                                                    *)

WB_Data(m) ==
    /\ Receives(m, "WB_Data") \/ Receives(m, "WB_Data_clean")
    /\ \/ L2.State = "MT_IIB" /\ Step(m, Stored(m, "MT_SB"), {})
       \/ L2.State = "MT_IB" /\ StepAndWake(m, Stored(m, "SS"), {})
       \/ /\ L2.State \in {"MT_I", "MCT_I"} /\ m.Dirty
          /\ Step(m, LeftForMemory, {BlockToMemory(m)})
       \/ /\ L2.State = "MT_I" /\ ~m.Dirty
          /\ Step(m, LeftForMemory, {BlockToMemory(L2)})
       \/ /\ L2.State = "MCT_I" /\ ~m.Dirty
          /\ Step(m, LeftForMemory, {CleanToMemory})

Ack(m) ==
    /\ Receives(m, "Ack")
    /\ L2.State \in {"I_I", "S_I", "MT_I"}
    /\ Step(m, [L2 EXCEPT !.pendingAcks = @ - m.AckCount], {})

Ack_all(m) ==
    /\ Receives(m, "Ack_all")
    /\ \/ /\ L2.State \in {"I_I", "MCT_I"}
          /\ Step(m, LeftForMemory, {CleanToMemory})
       \/ /\ L2.State \in {"S_I", "MT_I"}
          /\ Step(m, LeftForMemory, {BlockToMemory(L2)})

\* Late messages about a line that is gone, or whose eviction is finished.
Drain(m) ==
    /\ m.to = "L2Cache"
    /\ \/ /\ L2.State \in {"M_I", "NP"}
          /\ Event(m) \in {"Ack", "Ack_all", "WB_Data", "WB_Data_clean"}
       \/ /\ L2.State = "NP"
          /\ Event(m) \in {"Unblock", "Exclusive_Unblock"}
    /\ Step(m, L2, {})

\* CacheMemory::lookup finds the block older than its retention limit; it
\* spares the blocks that are Busy or Maybe_Stale.
Decay ==
    /\ "Decay" \in workload
    /\ L2.State \in {"SS", "M"}
    /\ ~L2.decayed
    /\ L2' = [L2 EXCEPT !.decayed = TRUE]
    /\ UNCHANGED <<net, L2Stalled>>

-----------------------------------------------------------------------------
(* The controller in any environment: the network gives it what it will.    *)

L2Receives(m) ==
    \/ L1_GETS(m) \/ L1_GET_INSTR(m) \/ L1_GETX(m) \/ L1_UPGRADE(m)
    \/ L1_PUTX(m) \/ StallRequest(m)
    \/ Exclusive_Unblock(m) \/ UnblockL2(m)
    \/ Mem_Data(m) \/ Mem_Ack(m) \/ MEM_Inv(m)
    \/ WB_Data(m) \/ Ack(m) \/ Ack_all(m) \/ Drain(m)

L2Next == \/ \E m \in InFlight : L2Receives(m)
          \/ L2_Replacement \/ L2_Replacement_clean \/ Decay

L2Spec == L2Init /\ [][L2Next]_<<L2, L2Stalled>>

\* A request waits at the L2 only while the line is in a transient state,
\* whose end wakes it (kd_wakeUpDependents): none is forgotten.
NoLostWakeup == L2Stalled # {} => L2.State \notin {"NP", "SS", "M", "MT"}
=============================================================================
