--------------------------------- MODULE DMA ---------------------------------
(***************************************************************************)
(* The DMA controller of MESI_Two_Level-dma.sm for one line.  A request    *)
(* that finds the line busy is stalled, which is a request that cannot be  *)
(* made yet.  A write covers the whole line.                               *)
(***************************************************************************)
EXTENDS MESIMessages

VARIABLE DMAState

DMATypeOK == DMAState \in {"READY", "BUSY_RD", "BUSY_WR"}

DMAInit == DMAState = "READY"

\* The state that has a transition for each response of the directory.
Transitions == [DATA |-> {"BUSY_RD"}, ACK |-> {"BUSY_WR"}]

ToDir(type) == Control("requestToDir", "Directory", type, "DMA")

ReadRequest ==
    /\ "DMA_READ" \in workload
    /\ DMAState = "READY"
    /\ DMAState' = "BUSY_RD"
    /\ Send({ToDir("DMA_READ")})
    /\ UNCHANGED issued

WriteRequest ==
    /\ "DMA_WRITE" \in workload
    /\ issued < MaxWrites
    /\ issued' = issued + 1
    /\ DMAState = "READY"
    /\ DMAState' = "BUSY_WR"
    /\ Send({ToDir("DMA_WRITE")})

DataFromDir(m) ==
    /\ m.to = "DMA" /\ m.Type = "DATA"
    /\ DMAState = "BUSY_RD"
    /\ DMAState' = "READY"
    /\ Exchange(m, {})
    /\ UNCHANGED issued

AckFromDir(m) ==
    /\ m.to = "DMA" /\ m.Type = "ACK"
    /\ DMAState = "BUSY_WR"
    /\ DMAState' = "READY"
    /\ Exchange(m, {})
    /\ UNCHANGED issued
=============================================================================
