---------------------------- MODULE MCController ----------------------------
(***************************************************************************)
(* A directory-like controller: memory responses, responses, requests.     *)
(* Three requests and two responses arrive from the other controllers.     *)
(***************************************************************************)
EXTENDS AbstractController, TLC

MCMaxMsgs == (0 :> 3) @@ (1 :> 2)
AddrSymmetry == Permutations(Addrs)
=============================================================================
