------------------------------ MODULE MCVictim ------------------------------
(***************************************************************************)
(* Expiry and victim selection: a one-zone cache of two two-way sets and   *)
(* three lines that all index set 1, with the clock running.               *)
(***************************************************************************)
EXTENDS CacheMemory

MCLines == {1, 3, 5}
MCRetention == [z \in Zones |-> 1]
MCReadLatency == [z \in Zones |-> 1]
MCWriteLatency == [z \in Zones |-> 2]
=============================================================================
