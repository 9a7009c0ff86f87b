---------------------------- MODULE CoherentLine ----------------------------
(***************************************************************************)
(* What the protocol promises for one line: an atomic block that cores may *)
(* keep readable copies of, written by one core at a time while no other   *)
(* core has a copy, and by a device while no core has one.                 *)
(***************************************************************************)
EXTENDS Naturals

CONSTANTS Cores, None

VARIABLES
    current,  \* version left by the last write
    copy      \* the version each core can read, or None

Init == current = 0 /\ copy = [c \in Cores |-> None]

\* A core's miss is answered, with the last version written.
Fill(c) == /\ copy' = [copy EXCEPT ![c] = current]
           /\ UNCHANGED current

Drop(c) == /\ copy' = [copy EXCEPT ![c] = None]
           /\ UNCHANGED current

Write(c) == /\ \A d \in Cores \ {c} : copy[d] = None
            /\ current' = current + 1
            /\ copy' = [copy EXCEPT ![c] = current']

DeviceWrite == /\ \A c \in Cores : copy[c] = None
               /\ current' = current + 1
               /\ UNCHANGED copy

Next == \/ \E c \in Cores : Fill(c) \/ Drop(c) \/ Write(c)
        \/ DeviceWrite

Spec == Init /\ [][Next]_<<current, copy>>
=============================================================================
