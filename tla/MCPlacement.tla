---------------------------- MODULE MCPlacement ----------------------------
(***************************************************************************)
(* A four-zone lazy cache of eight sets and one way: every interleaving of *)
(* allocations, evictions, writes, walks, jumps and the passage of time.   *)
(* Line 7 of page 0 and line 71 of page 1 share the index of set 7 (zone   *)
(* 3, and its last set).  A block of zone 0 expires at the second tick.    *)
(***************************************************************************)
EXTENDS CacheMemory

MCLines == {7, 71}
MCRetention == [z \in Zones |-> z + 1]
MCLatency == [z \in Zones |-> 1]
=============================================================================
