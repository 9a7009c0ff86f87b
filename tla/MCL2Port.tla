------------------------------ MODULE MCL2Port ------------------------------
(***************************************************************************)
(* Two cores and three lines that compete for the two ways of set 1, with  *)
(* writes that keep the bank busy and blocks that decay.                   *)
(***************************************************************************)
EXTENDS L2Port, TLC

MCLines == {1, 3, 5}
MCRetention == [z \in Zones |-> 2]
MCReadLatency == [z \in Zones |-> 1]
MCWriteLatency == [z \in Zones |-> 2]

CoreSymmetry == Permutations(Cores)
=============================================================================
