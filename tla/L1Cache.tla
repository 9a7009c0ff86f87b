------------------------------- MODULE L1Cache -------------------------------
(***************************************************************************)
(* The L1 controller of MESI_Two_Level-L1cache.sm for one line: its CPU    *)
(* events, and the messages of its request and response in_ports.          *)
(*                                                                         *)
(* NP and I have the same transitions and are the one state "I".  The TBE  *)
(* takes over the block when the entry goes, so one DataBlk and one Dirty  *)
(* stand for both; a block that no transition of the state reads is        *)
(* NoData.  A CPU request that would be stalled (stall_and_wait on the     *)
(* mandatory queue) is an event that cannot happen yet: every transition   *)
(* out of a transient state wakes the queue.                               *)
(* The states of the prefetcher and of LL/SC are left out.                 *)
(***************************************************************************)
EXTENDS MESIMessages

VARIABLE L1

L1States == {"I", "S", "E", "M", "IS", "IM", "SM", "IS_I", "M_I",
             "SINK_WB_ACK"}

L1Entry == [State : L1States, DataBlk : DataBlock, Dirty : BOOLEAN,
            pendingAcks : Int]

L1TypeOK == L1 \in [L1s -> L1Entry]

Blank(state) == [State |-> state, DataBlk |-> NoData, Dirty |-> FALSE,
                 pendingAcks |-> 0]

L1Init == L1 = [i \in L1s |-> Blank("I")]

Become(i, entry) == L1' = [L1 EXCEPT ![i] = entry]

In(i, state) == [L1[i] EXCEPT !.State = state]

\* pendingAcks once the acks that m carries are taken off (q_updateAckCount).
Acknowledged(i, m) == L1[i].pendingAcks - m.AckCount

\* The states that have a transition for each event.
Transitions ==
    [Inv            |-> L1States,
     Fwd_GETX       |-> {"E", "M", "M_I"},
     Fwd_GETS       |-> {"E", "M", "M_I"},
     Data_Exclusive |-> {"IS", "IS_I"},
     DataS_fromL1   |-> {"IS", "IS_I"},
     Data_all_Acks  |-> {"IS", "IS_I", "IM"},
     Data           |-> {"IM"},
     Ack            |-> {"SM", "IM"},
     Ack_all        |-> {"SM"},
     WB_Ack         |-> {"M_I", "SINK_WB_ACK"}]

\* The event the in_ports trigger for a message.  Fwd_GET_INSTR has the
\* transitions of Fwd_GETS; pendingAcks of a line with no TBE is read as 0
\* (the states without a TBE have no transition for the events it decides).
Event(i, m) ==
    CASE m.Type = "INV"                  -> "Inv"
      [] m.Type \in {"GETX", "UPGRADE"}   -> "Fwd_GETX"
      [] m.Type \in {"GETS", "GET_INSTR"} -> "Fwd_GETS"
      [] m.Type = "DATA_EXCLUSIVE"       -> "Data_Exclusive"
      [] m.Type = "WB_ACK"               -> "WB_Ack"
      [] m.Type = "DATA" ->
           IF L1[i].State \in {"IS", "IS_I"} /\ m.from \in L1s
           THEN "DataS_fromL1"
           ELSE IF Acknowledged(i, m) = 0
           THEN "Data_all_Acks" ELSE "Data"
      [] m.Type = "ACK" ->
           IF Acknowledged(i, m) = 0 THEN "Ack_all" ELSE "Ack"

Receives(i, m, event) == m.to = i /\ Event(i, m) = event

ToL2(i, type) == Control("L1RequestToL2Cache", "L2Cache", type, i)

-----------------------------------------------------------------------------
(* The mandatory queue: requests of the CPU, and replacements they cause.   *)

Load(i) ==
    /\ L1[i].State = "I"
    /\ Become(i, Blank("IS"))
    /\ Send({ToL2(i, "GETS")})
    /\ UNCHANGED <<golden, issued>>

Ifetch(i) ==
    /\ L1[i].State = "I"
    /\ Become(i, Blank("IS"))
    /\ Send({ToL2(i, "GET_INSTR")})
    /\ UNCHANGED <<golden, issued>>

\* The block after the sequencer's writeCallback and hh_store_hit.
Written == [State |-> "M", DataBlk |-> golden + 1, Dirty |-> TRUE,
            pendingAcks |-> 0]

Store(i) ==
    /\ issued < MaxWrites
    /\ issued' = issued + 1
    /\ \/ /\ L1[i].State = "I"
          /\ Become(i, Blank("IM"))
          /\ Send({ToL2(i, "GETX")})
          /\ UNCHANGED golden
       \/ /\ L1[i].State = "S"
          /\ Become(i, In(i, "SM"))
          /\ Send({ToL2(i, "UPGRADE")})
          /\ UNCHANGED golden
       \/ /\ L1[i].State \in {"E", "M"}
          /\ Become(i, Written)
          /\ golden' = golden + 1
          /\ UNCHANGED net

\* g_issuePUTX: the block goes to the L2 and stays in the TBE.
L1_Replacement(i) ==
    /\ "L1_Replacement" \in workload
    /\ \/ /\ L1[i].State = "S"
          /\ Become(i, Blank("I"))
          /\ UNCHANGED net
       \/ /\ L1[i].State \in {"E", "M"}
          /\ Become(i, In(i, "M_I"))
          /\ Send({Carrying(ToL2(i, "PUTX"), L1[i].DataBlk, L1[i].Dirty)})
    /\ UNCHANGED <<golden, issued>>

-----------------------------------------------------------------------------
(* The request network: invalidations and forwards from the L2.             *)

\* fi_sendInvAck
InvAck(i, m) ==
    Counting(Control(IF m.from \in L1s THEN "responseToL1Cache"
                                       ELSE "responseToL2Cache",
                     m.from, "ACK", i), 1)

\* d_sendDataToRequestor and dt_sendDataToRequestor_fromTBE
DataToRequestor(i, m) ==
    Carrying(Control("responseToL1Cache", m.from, "DATA", i),
             L1[i].DataBlk, L1[i].Dirty)

\* d2_, d2t_, f_ and ft_: the block goes to the L2 as a response.
DataToL2(i) ==
    Carrying(Control("responseToL2Cache", "L2Cache", "DATA", i),
             L1[i].DataBlk, L1[i].Dirty)

Inv(i, m) ==
    /\ Receives(i, m, "Inv")
    /\ \/ /\ L1[i].State \in {"I", "S", "E"}
          /\ Become(i, Blank("I"))
       \/ /\ L1[i].State = "M"
          /\ Become(i, Blank("I"))
       \/ /\ L1[i].State = "M_I"
          /\ Become(i, Blank("SINK_WB_ACK"))
       \/ /\ L1[i].State \in {"IS", "IS_I"}
          /\ Become(i, In(i, "IS_I"))
       \/ /\ L1[i].State \in {"IM", "SM"}
          /\ Become(i, [L1[i] EXCEPT !.State = "IM", !.DataBlk = NoData,
                                     !.Dirty = FALSE])
       \/ /\ L1[i].State = "SINK_WB_ACK"
          /\ UNCHANGED L1
    /\ Exchange(m, IF L1[i].State \in {"M", "M_I"} THEN {DataToL2(i)}
                                                   ELSE {InvAck(i, m)})
    /\ UNCHANGED <<golden, issued>>

Fwd_GETX(i, m) ==
    /\ Receives(i, m, "Fwd_GETX")
    /\ \/ /\ L1[i].State \in {"E", "M"}
          /\ Become(i, Blank("I"))
       \/ /\ L1[i].State = "M_I"
          /\ Become(i, Blank("SINK_WB_ACK"))
    /\ Exchange(m, {DataToRequestor(i, m)})
    /\ UNCHANGED <<golden, issued>>

\* Fwd_GETS and Fwd_GET_INSTR: the requestor and the L2 get the block.
Fwd_GETS(i, m) ==
    /\ Receives(i, m, "Fwd_GETS")
    /\ \/ /\ L1[i].State \in {"E", "M"}
          /\ Become(i, In(i, "S"))
       \/ /\ L1[i].State = "M_I"
          /\ Become(i, Blank("SINK_WB_ACK"))
    /\ Exchange(m, {DataToRequestor(i, m), DataToL2(i)})
    /\ UNCHANGED <<golden, issued>>

-----------------------------------------------------------------------------
(* The response network.                                                     *)

\* u_writeDataToL1Cache, on the way to a state in which no TBE is left.
Filled(state, m) == [State |-> state, DataBlk |-> m.DataBlk,
                     Dirty |-> m.Dirty, pendingAcks |-> 0]

Unblock(i, type) == Control("unblockToL2Cache", "L2Cache", type, i)

Data_Exclusive(i, m) ==
    /\ Receives(i, m, "Data_Exclusive")
    /\ L1[i].State \in {"IS", "IS_I"}
    /\ Become(i, Filled("E", m))
    /\ Exchange(m, {Unblock(i, "EXCLUSIVE_UNBLOCK")})
    /\ UNCHANGED <<golden, issued>>

DataS_fromL1(i, m) ==
    /\ Receives(i, m, "DataS_fromL1")
    /\ \/ L1[i].State = "IS" /\ Become(i, Filled("S", m))
       \/ L1[i].State = "IS_I" /\ Become(i, Blank("I"))
    /\ Exchange(m, {Unblock(i, "UNBLOCK")})
    /\ UNCHANGED <<golden, issued>>

Data_all_Acks(i, m) ==
    /\ Receives(i, m, "Data_all_Acks")
    /\ \/ /\ \/ L1[i].State = "IS" /\ Become(i, Filled("S", m))
             \/ L1[i].State = "IS_I" /\ Become(i, Blank("I"))
          /\ Exchange(m, {})
          /\ UNCHANGED golden
       \/ /\ L1[i].State = "IM"
          /\ Become(i, Written)
          /\ Exchange(m, {Unblock(i, "EXCLUSIVE_UNBLOCK")})
          /\ golden' = golden + 1
    /\ UNCHANGED issued

Data(i, m) ==
    /\ Receives(i, m, "Data")
    /\ L1[i].State = "IM"
    /\ Become(i, [Filled("SM", m) EXCEPT !.pendingAcks = Acknowledged(i, m)])
    /\ Exchange(m, {})
    /\ UNCHANGED <<golden, issued>>

Ack(i, m) ==
    /\ Receives(i, m, "Ack")
    /\ L1[i].State \in {"SM", "IM"}
    /\ Become(i, [L1[i] EXCEPT !.pendingAcks = Acknowledged(i, m)])
    /\ Exchange(m, {})
    /\ UNCHANGED <<golden, issued>>

Ack_all(i, m) ==
    /\ Receives(i, m, "Ack_all")
    /\ L1[i].State = "SM"
    /\ Become(i, Written)
    /\ Exchange(m, {Unblock(i, "EXCLUSIVE_UNBLOCK")})
    /\ golden' = golden + 1
    /\ UNCHANGED issued

WB_Ack(i, m) ==
    /\ Receives(i, m, "WB_Ack")
    /\ L1[i].State \in {"M_I", "SINK_WB_ACK"}
    /\ Become(i, Blank("I"))
    /\ Exchange(m, {})
    /\ UNCHANGED <<golden, issued>>
=============================================================================
