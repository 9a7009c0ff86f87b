--------------------------- MODULE MCDMASequencer ---------------------------
(***************************************************************************)
(* Two devices and three lines of two bytes.  The requests begin and end   *)
(* on and off the line boundaries and cross none, one or two of them.      *)
(***************************************************************************)
EXTENDS DMASequencer

Transfer(paddr, len, write) == [paddr |-> paddr, len |-> len, write |-> write]

MCPackets ==
    {Transfer(0, 2, TRUE), Transfer(1, 1, FALSE), Transfer(0, 4, FALSE),
     Transfer(1, 2, TRUE), Transfer(0, 6, TRUE), Transfer(1, 4, FALSE),
     Transfer(2, 1, TRUE), Transfer(3, 2, FALSE), Transfer(3, 3, TRUE),
     Transfer(4, 2, FALSE), Transfer(4, 1, TRUE), Transfer(5, 1, FALSE)}
=============================================================================
