----------------------------- MODULE BlockStore -----------------------------
(***************************************************************************)
(* What a cache array promises its controller: a set of resident lines, in *)
(* which a line appears by being allocated and from which it disappears    *)
(* only by being deallocated itself.  Which slot holds a line, how the     *)
(* page is routed and what decays is invisible here.                       *)
(***************************************************************************)
CONSTANT Lines
VARIABLE resident

Init == resident = {}

Insert(n) == resident' = resident \union {n}
Remove(n) == resident' = resident \ {n}

Next == \E n \in Lines : Insert(n) \/ Remove(n)

Spec == Init /\ [][Next]_resident
=============================================================================
