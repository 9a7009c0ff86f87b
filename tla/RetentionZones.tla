--------------------------- MODULE RetentionZones ---------------------------
(***************************************************************************)
(* The placement arithmetic of CacheMemory: which set of the L2 array an   *)
(* address is looked for, allocated and charged in.                        *)
(*                                                                         *)
(* A line is identified by its line number, address >> 6.  A page is 64    *)
(* consecutive lines (address >> 12).  The write counters and the          *)
(* redirection table that steer the placement are arguments here; they are *)
(* state of module CacheMemory.                                            *)
(***************************************************************************)
EXTENDS Integers

CONSTANTS
    Lines,        \* the line numbers in play
    NumSets,      \* m_cache_num_sets
    IndexedSets,  \* 2^m_cache_num_set_bits, the sets the index bits can name
    NumZones,     \* m_num_of_retention_zones
    Lazy,         \* m_lazy_redirection_scheme
    CounterMax,   \* the value a SatCounter8 of the page saturates at
    Null          \* the absent value: nullptr, or a key missing from a map

LinesPerPage == 64

(***************************************************************************)
(* init() asserts at least two sets.  The four-zone redirection divides by *)
(* the zone size, so a cache that uses it needs at least four sets.  The   *)
(* index bits are floorLog2(m_cache_num_sets): with four or more sets they *)
(* name a multiple of four sets.                                           *)
(***************************************************************************)
ASSUME GeometryAssumption ==
    /\ Lines \subseteq Nat
    /\ NumSets \in Nat /\ NumSets > 1
    /\ IndexedSets \in 1..NumSets
    /\ NumZones \in 1..4
    /\ Lazy \in BOOLEAN
    /\ Lazy => NumSets >= 4 /\ IndexedSets % 4 = 0
    /\ CounterMax \in Nat \ {0}
    /\ Null \notin Nat

Sets == 0 .. NumSets - 1
Zones == 0 .. NumZones - 1
PageOf(n) == n \div LinesPerPage
Pages == {PageOf(n) : n \in Lines}

(***************************************************************************)
(* Zone boundaries, computed once by init().                               *)
(***************************************************************************)
ZoneSize == NumSets \div NumZones
m_thresholds == [i \in Zones |-> (i + 1) * ZoneSize]

(***************************************************************************)
(* The first zone whose upper boundary is above the set; the sets left     *)
(* over by the division belong to the last zone.                           *)
(***************************************************************************)
getRetentionZone(s) ==
    IF \E i \in Zones : s < m_thresholds[i]
    THEN CHOOSE i \in Zones : /\ s < m_thresholds[i]
                              /\ \A j \in Zones : j < i => s >= m_thresholds[j]
    ELSE NumZones - 1

getDefaultSet(n) == n % IndexedSets

(***************************************************************************)
(* Inter-zone jump: a redirected page moves from the upper half of the     *)
(* cache to the lower half, its lines spread over the destination zone.    *)
(***************************************************************************)
BaseSet(n, offset) ==
    LET default_set == getDefaultSet(n)
        scatter_offset == (offset + (n % LinesPerPage) * 7) % ZoneSize
    IN  CASE default_set >= m_thresholds[2] -> m_thresholds[0] + scatter_offset
          [] /\ default_set >= m_thresholds[1]
             /\ default_set < m_thresholds[2] -> scatter_offset
          [] default_set < m_thresholds[1] -> default_set

(***************************************************************************)
(* Intra-zone walk: one set further for every two writes to the page, at   *)
(* most seven sets, wrapping inside the zone.                              *)
(***************************************************************************)
IntraOffset(writes) == IF writes \div 2 > 7 THEN 7 ELSE writes \div 2

Walk(base_set, writes) ==
    LET zone_start_index == (base_set \div ZoneSize) * ZoneSize
        local_index == base_set % ZoneSize
    IN  IF IntraOffset(writes) > 0
        THEN zone_start_index + ((local_index + IntraOffset(writes)) % ZoneSize)
        ELSE base_set

Route(n, counters, redirections) ==
    IF ~Lazy \/ NumZones # 4
    THEN getDefaultSet(n)
    ELSE LET p == PageOf(n)
             base_set == IF redirections[p] = Null THEN getDefaultSet(n)
                         ELSE BaseSet(n, redirections[p])
         IN  Walk(base_set, counters[p])
=============================================================================
