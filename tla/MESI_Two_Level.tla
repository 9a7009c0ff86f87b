--------------------------- MODULE MESI_Two_Level ---------------------------
(***************************************************************************)
(* The MESI_Two_Level protocol on one line: the L1 controllers, the L2     *)
(* bank, the directory with its memory and a DMA engine, exchanging        *)
(* messages over the network.                                              *)
(*                                                                         *)
(* A message may be overtaken by any other: the latencies of the actions   *)
(* differ, and a message whose bank is busy is recycled to the tail.       *)
(***************************************************************************)
EXTENDS MESIMessages, FiniteSetsExt

CONSTANT DirInOrder  \* the directory's INV never overtakes its MEMORY_DATA

VARIABLES L1, L2, L2Stalled, Dir, DirStalled, DMAState

L1C == INSTANCE L1Cache
L2C == INSTANCE L2Cache
DirC == INSTANCE Directory
DMAC == INSTANCE DMA

others == <<golden, issued, fault>>
l2vars == <<L2, L2Stalled>>
dirvars == <<Dir, DirStalled>>
vars == <<net, others, L1, l2vars, dirvars, DMAState, workload>>

TypeOK == /\ net \in [InFlight -> Nat \ {0}] /\ InFlight \subseteq Message
          /\ golden \in Version /\ issued \in Version
          /\ L1C!L1TypeOK /\ L2C!L2TypeOK /\ DirC!DirTypeOK /\ DMAC!DMATypeOK

Init == /\ workload \in Workloads
        /\ net = EmptyBag /\ golden = 0 /\ issued = 0 /\ fault = <<>>
        /\ L1C!L1Init /\ L2C!L2Init /\ DirC!DirInit /\ DMAC!DMAInit

-----------------------------------------------------------------------------

Goes == Running /\ UNCHANGED workload

CPURequest(i) ==
    /\ Goes
    /\ \/ L1C!Load(i) \/ L1C!Ifetch(i)
       \/ L1C!Store(i) \/ L1C!L1_Replacement(i)
    /\ UNCHANGED <<fault, l2vars, dirvars, DMAState>>

L1Receives(i) ==
    /\ Goes
    /\ \E m \in InFlight :
          \/ L1C!Inv(i, m) \/ L1C!Fwd_GETX(i, m) \/ L1C!Fwd_GETS(i, m)
          \/ L1C!Data_Exclusive(i, m) \/ L1C!DataS_fromL1(i, m)
          \/ L1C!Data_all_Acks(i, m) \/ L1C!Data(i, m)
          \/ L1C!Ack(i, m) \/ L1C!Ack_all(i, m) \/ L1C!WB_Ack(i, m)
    /\ UNCHANGED <<fault, l2vars, dirvars, DMAState>>

L1RequestsOf(i) == {m \in InBuffer("L1RequestToL2Cache", "L2Cache") : m.from = i}

L2Serves(i) ==
    /\ Goes
    /\ \E m \in L1RequestsOf(i) :
          \/ L2C!L1_GETS(m) \/ L2C!L1_GET_INSTR(m)
          \/ L2C!L1_GETX(m) \/ L2C!L1_UPGRADE(m) \/ L2C!L1_PUTX(m)
    /\ UNCHANGED <<others, L1, dirvars, DMAState>>

L2Stalls(i) ==
    /\ Goes
    /\ \E m \in L1RequestsOf(i) : L2C!StallRequest(m)
    /\ UNCHANGED <<others, L1, dirvars, DMAState>>

DataFromDirOnTheWay ==
    \E m \in InBuffer("responseToL2Cache", "L2Cache") : m.Type = "MEMORY_DATA"

L2Invalidates ==
    /\ Goes
    /\ DirInOrder => ~DataFromDirOnTheWay
    /\ \E m \in InFlight : L2C!MEM_Inv(m)
    /\ UNCHANGED <<others, L1, dirvars, DMAState>>

L2Receives ==
    /\ Goes
    /\ \E m \in InFlight :
          \/ L2C!Exclusive_Unblock(m) \/ L2C!UnblockL2(m)
          \/ L2C!Mem_Data(m) \/ L2C!Mem_Ack(m) \/ L2C!WB_Data(m)
          \/ L2C!Ack(m) \/ L2C!Ack_all(m) \/ L2C!Drain(m)
    /\ UNCHANGED <<others, L1, dirvars, DMAState>>

L2Alone ==
    /\ Goes
    /\ L2C!L2_Replacement \/ L2C!L2_Replacement_clean \/ L2C!Decay
    /\ UNCHANGED <<others, L1, dirvars, DMAState>>

DirFetches ==
    /\ Goes
    /\ \E m \in InFlight : DirC!Fetch(m)
    /\ UNCHANGED <<issued, fault, L1, l2vars, DMAState>>

DirReceives ==
    /\ Goes
    /\ \E m \in InFlight : DirC!DataFromL2(m) \/ DirC!CleanReplacement(m)
    /\ UNCHANGED <<issued, fault, L1, l2vars, DMAState>>

DirServesDMA ==
    /\ Goes
    /\ \E m \in InFlight : DirC!DMA_READ(m) \/ DirC!DMA_WRITE(m)
    /\ UNCHANGED <<issued, fault, L1, l2vars, DMAState>>

MemoryAnswers ==
    /\ Goes
    /\ DirC!Memory_Data \/ DirC!Memory_Ack
    /\ UNCHANGED <<issued, fault, L1, l2vars, DMAState>>

DMARequest ==
    /\ Goes
    /\ DMAC!ReadRequest \/ DMAC!WriteRequest
    /\ UNCHANGED <<golden, fault, L1, l2vars, dirvars>>

DMAReceives ==
    /\ Goes
    /\ \E m \in InFlight : DMAC!DataFromDir(m) \/ DMAC!AckFromDir(m)
    /\ UNCHANGED <<golden, fault, L1, l2vars, dirvars>>

\* Where a message arrives: the controller, its state and the event.
Arrival(m) ==
    CASE m.to \in L1s       -> <<"L1Cache", L1[m.to].State, L1C!Event(m.to, m)>>
      [] m.to = "L2Cache"   -> <<"L2Cache", L2.State, L2C!Event(m)>>
      [] m.to = "Directory" -> <<"Directory", Dir.State, DirC!Event(m)>>
      [] m.to = "DMA"       -> <<"DMA", DMAState, m.Type>>

Handled == [L1Cache |-> L1C!Transitions, L2Cache |-> L2C!Transitions,
            Directory |-> DirC!Transitions, DMA |-> DMAC!Transitions]

\* A message reaches a controller in a state without a transition for it.
InvalidTransition ==
    /\ Goes
    /\ \E m \in InFlight :
          LET a == Arrival(m) IN /\ a[2] \notin Handled[a[1]][a[3]]
                                 /\ Panic(a[1], a[2], a[3])
    /\ UNCHANGED <<net, golden, issued, L1, l2vars, dirvars, DMAState>>

\* Nothing is under way.
Quiet == /\ net = EmptyBag /\ L2Stalled = {} /\ DirStalled = {}
         /\ Dir.memQueue = DirC!NoRequest /\ DMAState = "READY"
         /\ L2.State \in {"NP", "SS", "M", "MT"}
         /\ \A i \in L1s : L1[i].State \in {"I", "S", "E", "M"}

\* The workload is over, or the simulator has stopped.
Finished == /\ Quiet \/ ~Running
            /\ UNCHANGED vars

Next == \/ \E i \in L1s : \/ CPURequest(i) \/ L1Receives(i)
                          \/ L2Serves(i) \/ L2Stalls(i)
        \/ L2Receives \/ L2Invalidates \/ L2Alone
        \/ DirFetches \/ DirReceives \/ DirServesDMA \/ MemoryAnswers
        \/ DMARequest \/ DMAReceives
        \/ InvalidTransition
        \/ Finished

Spec == Init /\ [][Next]_vars

-----------------------------------------------------------------------------
(* Safety.                                                                  *)

Readable(i) == L1[i].State \in {"S", "E", "M"}

Copy == [i \in L1s |-> IF Readable(i) THEN L1[i].DataBlk ELSE NoData]

Line == INSTANCE CoherentLine WITH Cores <- L1s, None <- NoData,
                                   current <- golden, copy <- Copy

\* The controllers implement an atomic line: an L1 gets a readable copy of
\* the last version only, and takes a store only while no other L1 can read.
ImplementsCoherentLine == Line!Spec

\* No controller meets an event that its state has no transition for
\* (panic("Invalid transition") of the generated code).
NoPanic == Running

\* No controller meets an event that its state has no transition for
\* (panic("Invalid transition") of the generated code), but for one: after an
\* L2 replacement, or a recall for DMA, a fetch can keep the type UPGRADE, and
\* the directory's in_port stops with error().
OnlyUpgradePanics ==
    ~Running => /\ fault[3] = "error"
                /\ workload \cap {"L2_Replacement", "DMA_READ", "DMA_WRITE"} # {}

\* What an L1 can read is the last version written, as long as the L2 evicts
\* nothing (the store that a late eviction loses is LastWriteKept's).
CopiesCurrent ==
    "L2_Replacement" \in workload
    \/ \A i \in L1s : Readable(i) => L1[i].DataBlk = golden

\* The acks that an L1 waits for to write, and those the L2 waits for to evict
\* a shared line, are on their way: what is counted is what the L2's AckCount,
\* the ACKs and the INVs that will be answered sum to.
AckSum(ms) == MapThenSumSet(LAMBDA m : m.AckCount * net[m], ms)

INVsFrom(c) == {m \in InFlight : m.buf = "requestToL1Cache"
                                 /\ m.Type = "INV" /\ m.from = c}

AcksAddUp ==
    /\ \A i \in L1s :
         LET acks == {m \in InBuffer("responseToL1Cache", i) :
                         m.Type \in {"ACK", "DATA"}}
         IN L1[i].pendingAcks = AckSum(acks) + Cardinality(INVsFrom(i))
    /\ L2.State \in {"I_I", "S_I"} =>
         LET acks == {m \in InBuffer("responseToL2Cache", "L2Cache") : m.Type = "ACK"}
         IN L2.pendingAcks = AckSum(acks) + Cardinality(INVsFrom("L2Cache"))

\* An L1 that may write is the only one that may read.
SingleWriter ==
    \A i, j \in L1s : i # j /\ L1[i].State \in {"E", "M"} => ~Readable(j)

\* A request waits at the L2 only while the line is in a transient state,
\* whose end wakes it (kd_wakeUpDependents): none is forgotten.
NoLostWakeup == L2C!NoLostWakeup

\* The last version written is somewhere: in an L1, in the L2 or its TBE, in
\* a message, or in memory.
LastWriteKept ==
    \/ golden \in {L2.DataBlk, Dir.memory, Dir.memQueue[2]}
    \/ \E i \in L1s : L1[i].DataBlk = golden
    \/ \E m \in InFlight \cup L2Stalled : m.DataBlk = golden

\* The L2's sharers include every L1 that can read the line.
Inclusion ==
    L2.State \in {"NP", "SS", "M", "MT"} =>
        \A i \in L1s : Readable(i) => i \in L2.Sharers

\* The block the directory sends to a DMA engine is the last version written.
DMAReadsCurrent ==
    [][\A m \in {n \in BagToSet(net') : n.to = "DMA" /\ n.Type = "DATA"} :
          m \in InFlight \/ m.DataBlk = golden]_vars

\* A CleanReplacement that reaches the directory late is always absorbed.
LateReplacementAbsorbed == ~Running => fault[3] # "CleanReplacement"

\* A block whose retention time is over is not passed to an L1.
ExpiredNeverServed ==
    [][L2.decayed =>
          \A m \in BagToSet(net') \ InFlight :
             m.from = "L2Cache" /\ m.buf = "responseToL1Cache" => m.DataBlk = NoData]_vars

-----------------------------------------------------------------------------
(* Liveness.                                                                *)

\* A MessageBuffer delivers every message, so a controller that can take one
\* does.  A request that is stalled returns with its first arrival time, so
\* it is ahead of the requests that came after it and cannot be passed over
\* for ever; nor can a message that is recycled.
Fairness == /\ \A i \in L1s : WF_vars(L1Receives(i)) /\ SF_vars(L2Serves(i))
            /\ WF_vars(L2Receives) /\ SF_vars(L2Invalidates)
            /\ SF_vars(DirFetches /\ Dir.State = "I")
            /\ WF_vars(DirReceives) /\ SF_vars(DirServesDMA)
            /\ WF_vars(MemoryAnswers) /\ WF_vars(DMAReceives)
            /\ WF_vars(InvalidTransition)

LiveSpec == Spec /\ Fairness

\* A load, a fetch or a store that misses is answered (IS, IM and SM of the L1
\* end), unless a controller has stopped the simulation.
MissCompletes ==
    \A i \in L1s : L1[i].State \in {"IS", "IS_I", "IM", "SM"}
                     ~> L1[i].State \in {"I", "S", "E", "M"} \/ ~Running

\* A writeback is acknowledged by the L2 (t_sendWBAck), also when a forward or
\* an invalidation has crossed it.
WritebackCompletes ==
    \A i \in L1s : L1[i].State \in {"M_I", "SINK_WB_ACK"}
                     ~> L1[i].State = "I"

\* The L2 gets rid of a line that it evicts: the acks, the block and Mem_Ack
\* all arrive, unless a controller has stopped the simulation.
EvictionCompletes == L2.State \in L2C!L2Evicting ~> L2.State = "NP" \/ ~Running

\* A DMA request is answered: the directory recalls the line from the L2 when
\* it is the owner, does the access, and the answer (dr_sendDMAData or
\* da_sendDMAAck) takes the DMA controller back to READY, unless a controller
\* has stopped the simulation.
DMACompletes == DMAState # "READY" ~> DMAState = "READY" \/ ~Running
=============================================================================
