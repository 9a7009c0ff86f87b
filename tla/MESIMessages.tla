---------------------------- MODULE MESIMessages ----------------------------
(***************************************************************************)
(* What the controllers of the MESI_Two_Level protocol share: the machines,*)
(* the messages of MESI_Two_Level-msg.sm, the network that carries them,   *)
(* and the way a controller stops the simulation.  One cache line is       *)
(* modelled; controllers keep no state that relates two lines.             *)
(*                                                                         *)
(* A DataBlock is the version of the line it holds: version k is what the  *)
(* k-th write to the line (by a CPU or by a DMA engine) left behind.       *)
(***************************************************************************)
EXTENDS Integers, FiniteSets, Bags

CONSTANTS
    L1s,        \* the L1 controllers, one per core
    MaxWrites,  \* bound on the number of writes in a behaviour
    NoData,     \* the DataBlk of a message or an entry that holds no block
    Workloads   \* the environments the controllers are run in

\* What a workload may contain: the line loses its way in an L1 or in the L2
\* to another line, the L2's copy outlives its retention time, a device asks
\* for the line, and memory answers only when the messages on chip settled.
Condition == {"L1_Replacement", "L2_Replacement", "Decay", "DMA_READ",
              "DMA_WRITE", "SlowMemory"}

ASSUME MESIAssumption == /\ IsFiniteSet(L1s)
                         /\ MaxWrites \in Nat
                         /\ NoData \notin Nat
                         /\ Workloads \subseteq SUBSET Condition
                         /\ L1s \cap {"L2Cache", "Directory", "DMA"} = {}

VARIABLES
    net,     \* bag of the messages in the MessageBuffers between machines
    golden,  \* version left by the last write to the line
    issued,  \* writes asked for so far, bounded by MaxWrites
    fault,   \* machine, state and event at which the simulator panicked
    workload \* the workload of this behaviour; it never changes

Version == 0..MaxWrites
DataBlock == Version \cup {NoData}
Machines == L1s \cup {"L2Cache", "Directory", "DMA"}

\* The MessageBuffers, by the name the receiving machine gives them.
Buffers == {"requestToL1Cache", "responseToL1Cache", "L1RequestToL2Cache",
            "unblockToL2Cache", "responseToL2Cache", "requestToDir",
            "responseToDir", "responseFromDir"}

CoherenceRequestType == {"GETX", "UPGRADE", "GETS", "GET_INSTR", "INV",
                         "PUTX", "DMA_READ", "DMA_WRITE"}
CoherenceResponseType == {"MEMORY_ACK", "DATA", "DATA_EXCLUSIVE",
                          "MEMORY_DATA", "ACK", "WB_ACK", "UNBLOCK",
                          "EXCLUSIVE_UNBLOCK", "INV"}

\* RequestMsg and ResponseMsg; "from" is Requestor in the one and Sender in
\* the other.
Message == [buf : Buffers, to : Machines,
            Type : CoherenceRequestType \cup CoherenceResponseType,
            from : Machines, DataBlk : DataBlock, Dirty : BOOLEAN,
            AckCount : Int]

Control(buf, to, type, from) ==
    [buf |-> buf, to |-> to, Type |-> type, from |-> from,
     DataBlk |-> NoData, Dirty |-> FALSE, AckCount |-> 0]

Counting(msg, acks) == [msg EXCEPT !.AckCount = acks]

Carrying(msg, blk, dirty) == [msg EXCEPT !.DataBlk = blk, !.Dirty = dirty]

InFlight == BagToSet(net)

InBuffer(buf, machine) == {m \in InFlight : m.buf = buf /\ m.to = machine}

\* The controller takes m from its buffer and enqueues the messages in out.
Exchange(m, out) == net' = (net (-) SetToBag({m})) (+) SetToBag(out)

Send(out) == net' = net (+) SetToBag(out)

Running == fault = <<>>

\* An event the state machine has no transition for: the generated code
\* calls panic("Invalid transition"), or error() for a message the in_port
\* does not know, and the simulation ends.
Panic(machine, state, event) == fault' = <<machine, state, event>>
=============================================================================
