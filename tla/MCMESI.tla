------------------------------- MODULE MCMESI -------------------------------
(***************************************************************************)
(* Instances of the MESI_Two_Level protocol for TLC.                       *)
(***************************************************************************)
EXTENDS MESI_Two_Level, TLC

CoreSymmetry == Permutations(L1s)
=============================================================================
