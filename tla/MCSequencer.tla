---------------------------- MODULE MCSequencer ----------------------------
(***************************************************************************)
(* A core with a data port and an instruction or walker port.              *)
(***************************************************************************)
EXTENDS Sequencer
=============================================================================
