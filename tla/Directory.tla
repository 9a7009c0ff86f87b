------------------------------ MODULE Directory ------------------------------
(***************************************************************************)
(* The directory controller of MESI_Two_Level-dir.sm for one line, with    *)
(* the memory behind it.  A line has at most one memory request at a time, *)
(* so memory performs it when it answers.                                  *)
(***************************************************************************)
EXTENDS MESIMessages

VARIABLES Dir, DirStalled

DirBusy == {"ID", "ID_W", "M_DRDI", "M_DWRI", "IM", "MI"}
DirStates == {"I", "M", "M_DRD", "M_DWR"} \cup DirBusy

NoRequest == <<"NONE", NoData>>

DirLine == [State : DirStates, memory : Version,
            memQueue : {"NONE", "MEMORY_READ", "MEMORY_WB"} \X DataBlock]

DirTypeOK == Dir \in DirLine /\ DirStalled \subseteq Message

DirInit == /\ Dir = [State |-> "I", memory |-> 0, memQueue |-> NoRequest]
           /\ DirStalled = {}

isGETRequest(m) == m.Type \in {"GETS", "GET_INSTR", "GETX"}

\* The event the in_ports trigger for a message; "error" stands for the
\* in_port's error("Invalid message").
Event(m) ==
    CASE m.buf = "requestToDir" -> IF isGETRequest(m) THEN "Fetch"
                                   ELSE IF m.Type \in {"DMA_READ", "DMA_WRITE"}
                                   THEN m.Type ELSE "error"
      [] m.buf = "responseToDir" -> IF m.Type = "MEMORY_DATA" THEN "Data"
                                    ELSE "CleanReplacement"

\* The states that have a transition for each event.  The one for Data in
\* DirBusy stalls the request queue, whose head is not the message that
\* triggered it: it fails MessageBuffer::stallMessage's assertion.
Transitions == [Fetch            |-> {"I", "M"} \cup DirBusy,
                DMA_READ         |-> DirStates,
                DMA_WRITE        |-> DirStates,
                Data             |-> {"M", "M_DRD", "M_DWR"},
                CleanReplacement |-> {"M", "I", "MI"},
                error            |-> {}]

Receives(m, event) == m.to = "Directory" /\ Event(m) = event

Entering(state, request) == Dir' = [Dir EXCEPT !.State = state,
                                               !.memQueue = request]

ToL2(type) == Control("responseToL2Cache", "L2Cache", type, "Directory")

ToDMA(type) == Control("responseFromDir", "DMA", type, "Directory")

Take(m, out) == Exchange(m, out) /\ UNCHANGED DirStalled

\* kd_wakeUpDependents
TakeAndWake(m, out) == Exchange(m, out \cup DirStalled) /\ DirStalled' = {}

-----------------------------------------------------------------------------
(* The request network.                                                     *)

Fetch(m) ==
    /\ Receives(m, "Fetch")
    /\ \/ /\ Dir.State = "I"
          /\ Entering("IM", <<"MEMORY_READ", NoData>>)
          /\ Take(m, {})
       \/ /\ Dir.State \in {"M"} \cup DirBusy
          /\ Exchange(m, IF Dir.State = "M" THEN {ToL2("INV")} ELSE {})
          /\ DirStalled' = DirStalled \cup {m}
          /\ UNCHANGED Dir
    /\ UNCHANGED golden

\* Mutant: the line is read from memory although the L2 has it.
ReadBehindL2(m) ==
    /\ Receives(m, "DMA_READ")
    /\ Dir.State \in {"I", "M"}
    /\ Entering("ID", <<"MEMORY_READ", NoData>>)
    /\ Take(m, {})
    /\ UNCHANGED golden

\* A DMA request that finds the line busy is recycled.
DMA_READ(m) ==
    /\ Receives(m, "DMA_READ")
    /\ \/ /\ Dir.State = "I"
          /\ Entering("ID", <<"MEMORY_READ", NoData>>)
          /\ Take(m, {})
       \/ /\ Dir.State = "M"
          /\ Entering("M_DRD", NoRequest)
          /\ Take(m, {ToL2("INV")})
    /\ UNCHANGED golden

\* Mutant: the line is written in memory although the L2 has it.
WriteBehindL2(m) ==
    /\ Receives(m, "DMA_WRITE")
    /\ Dir.State \in {"I", "M"}
    /\ Entering("ID_W", <<"MEMORY_WB", golden + 1>>)
    /\ golden' = golden + 1
    /\ Take(m, {})

\* The DMA's block is ordered among the writes to the line when it is queued
\* to memory.
DMA_WRITE(m) ==
    /\ Receives(m, "DMA_WRITE")
    /\ \/ /\ Dir.State = "I"
          /\ Entering("ID_W", <<"MEMORY_WB", golden + 1>>)
          /\ golden' = golden + 1
          /\ Take(m, {})
       \/ /\ Dir.State = "M"
          /\ Entering("M_DWR", NoRequest)
          /\ UNCHANGED golden
          /\ Take(m, {ToL2("INV")})

-----------------------------------------------------------------------------
(* The response network.                                                    *)

DataFromL2(m) ==
    /\ Receives(m, "Data")
    /\ \/ /\ Dir.State = "M"
          /\ Entering("MI", <<"MEMORY_WB", m.DataBlk>>)
          /\ UNCHANGED golden
          /\ Take(m, {})
       \/ /\ Dir.State = "M_DRD"
          /\ Entering("M_DRDI", <<"MEMORY_WB", m.DataBlk>>)
          /\ UNCHANGED golden
          /\ Take(m, {Carrying(ToDMA("DATA"), m.DataBlk, FALSE)})
       \/ /\ Dir.State = "M_DWR"
          /\ Entering("M_DWRI", <<"MEMORY_WB", golden + 1>>)
          /\ golden' = golden + 1
          /\ Take(m, {})

CleanReplacement(m) ==
    /\ Receives(m, "CleanReplacement")
    /\ \/ /\ Dir.State \in {"M", "I"}
          /\ Entering("I", Dir.memQueue)
          /\ TakeAndWake(m, {ToL2("MEMORY_ACK")})
       \/ /\ Dir.State = "MI"
          /\ UNCHANGED Dir
          /\ Take(m, {})
    /\ UNCHANGED golden

-----------------------------------------------------------------------------
(* The memory queue.                                                        *)

OnChip == {m \in InFlight : m.buf \notin {"L1RequestToL2Cache", "requestToDir",
                                          "responseFromDir"}}

\* Memory performs the queued request and its answer reaches the directory.
Answers(request) == /\ Dir.memQueue[1] = request
                    /\ "SlowMemory" \in workload => OnChip = {}

Finish(state, memory, out) ==
    /\ Dir' = [State |-> state, memory |-> memory, memQueue |-> NoRequest]
    /\ Send(out \cup DirStalled)
    /\ DirStalled' = {}
    /\ UNCHANGED golden

Memory_Data ==
    /\ Answers("MEMORY_READ")
    /\ \/ /\ Dir.State = "IM"
          /\ Finish("M", Dir.memory,
                    {Carrying(ToL2("MEMORY_DATA"), Dir.memory, FALSE)})
       \/ /\ Dir.State = "ID"
          /\ Finish("I", Dir.memory,
                    {Carrying(ToDMA("DATA"), Dir.memory, FALSE)})

\* Mutant: the DMA write that had to recall the line is not acknowledged.
AckToL2Only ==
    /\ Answers("MEMORY_WB")
    /\ Finish("I", Dir.memQueue[2],
              IF Dir.State = "ID_W" THEN {ToDMA("ACK")} ELSE {ToL2("MEMORY_ACK")})

Memory_Ack ==
    /\ Answers("MEMORY_WB")
    /\ Finish("I", Dir.memQueue[2],
              CASE Dir.State \in {"MI", "M_DRDI"} -> {ToL2("MEMORY_ACK")}
                [] Dir.State = "ID_W"   -> {ToDMA("ACK")}
                [] Dir.State = "M_DWRI" -> {ToL2("MEMORY_ACK"), ToDMA("ACK")})
=============================================================================
