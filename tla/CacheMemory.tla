---------------------------- MODULE CacheMemory ----------------------------
(***************************************************************************)
(* The set-associative array behind a Ruby cache, with STT-RAM retention:  *)
(* the entries, the tag index that locates a line wherever the placement   *)
(* has put it, the per-page write counters and redirection table, and the  *)
(* occupancy of the data banks.  A controller calls the operations one at  *)
(* a time; every operation is one action.                                  *)
(***************************************************************************)
EXTENDS RetentionZones, BankedArray

CONSTANTS
    Assoc,           \* m_cache_assoc
    IsSttram,        \* m_is_sttram
    RetentionTime,   \* m_retention_table[zone].time
    ReadLatency,     \* m_retention_table[zone].data.read_latency
    WriteLatency,    \* m_retention_table[zone].data.write_latency
    ResourceStalls,  \* m_resource_stalls
    Permissions,     \* the permissions a controller gives a resident block
    MaxTick,         \* bound: the clock stops here
    MaxBacklog       \* bound: no access starts on a bank booked further ahead

AccessPermission ==
    {"Read_Only", "Read_Write", "Invalid", "NotPresent", "Busy", "Maybe_Stale"}

(***************************************************************************)
(* The constructor refuses redirection without STT-RAM.  The tag index     *)
(* packs a set and a way into sixteen bits each.                           *)
(***************************************************************************)
ASSUME CacheAssumption ==
    /\ Assoc \in Nat \ {0}
    /\ NumSets <= 65536 /\ Assoc <= 65536
    /\ IsSttram \in BOOLEAN /\ ResourceStalls \in BOOLEAN
    /\ Lazy => IsSttram
    /\ RetentionTime \in [Zones -> Nat]
    /\ ReadLatency \in [Zones -> Nat]
    /\ WriteLatency \in [Zones -> Nat]
    /\ Permissions \subseteq AccessPermission \ {"NotPresent"}
    /\ MaxTick \in Nat /\ MaxBacklog \in Nat

(***************************************************************************)
(* The zones are configured in the order of their retention times.         *)
(***************************************************************************)
ASSUME ZoneOrderAssumption ==
    \A y, z \in Zones : y <= z => RetentionTime[y] <= RetentionTime[z]

VARIABLES
    m_cache,                    \* slot -> entry, or Null before first use
    m_tag_index,                \* line -> packed slot, or Null
    m_chunk_counters,           \* page -> writes counted (0: no counter yet)
    m_chunk_redirection_table,  \* page -> offset, or Null
    dataArray,                  \* bank -> tick its last access ends
    curTick

vars == <<m_cache, m_tag_index, m_chunk_counters, m_chunk_redirection_table,
          dataArray, curTick>>

Ways == 0 .. Assoc - 1
Slots == Sets \X Ways

Entry == [m_Address : Lines, m_Permission : AccessPermission,
          m_is_expired : BOOLEAN, m_last_refresh_tick : Nat,
          m_retention_limit : Nat, m_last_touch_tick : Nat,
          lastTouchTick : Nat]

ASSUME NullAssumption == Null \notin Entry /\ Null \notin Slots

(***************************************************************************)
(* The array, its index, its tables, its banks and the clock keep their    *)
(* shapes; a page's counter never leaves the range of a SatCounter8.       *)
(***************************************************************************)
TypeOK ==
    /\ m_cache \in [Slots -> Entry \union {Null}]
    /\ m_tag_index \in [Lines -> Nat \union {Null}]
    /\ m_chunk_counters \in [Pages -> 0 .. CounterMax]
    /\ m_chunk_redirection_table \in [Pages -> Nat \union {Null}]
    /\ dataArray \in [BankIds -> Nat]
    /\ curTick \in Nat

Init ==
    /\ m_cache = [slot \in Slots |-> Null]
    /\ m_tag_index = [n \in Lines |-> Null]
    /\ m_chunk_counters = [p \in Pages |-> 0]
    /\ m_chunk_redirection_table = [p \in Pages |-> Null]
    /\ dataArray = [b \in BankIds |-> 0]
    /\ curTick = 0

-----------------------------------------------------------------------------
(***************************************************************************)
(* Locating a line.                                                        *)
(***************************************************************************)
addressToCacheSet(n) == Route(n, m_chunk_counters, m_chunk_redirection_table)

Encode(slot) == (slot[1] % 65536) * 65536 + (slot[2] % 65536)
Decode(encoded) == <<(encoded \div 65536) % 65536, encoded % 65536>>

\* findTagInSetIgnorePermissions: the slot the tag index names, if it holds n.
findTagInSetIgnorePermissions(n) ==
    IF m_tag_index[n] = Null
    THEN Null
    ELSE LET slot == Decode(m_tag_index[n])
         IN  IF m_cache[slot] # Null /\ m_cache[slot].m_Address = n
             THEN slot ELSE Null

Tagged(n) == findTagInSetIgnorePermissions(n) # Null

findTagInSet(n) ==
    IF /\ Tagged(n)
       /\ m_cache[findTagInSetIgnorePermissions(n)].m_Permission # "NotPresent"
    THEN findTagInSetIgnorePermissions(n) ELSE Null

isTagPresent(n) == findTagInSet(n) # Null

Free(slot) == m_cache[slot] # Null => m_cache[slot].m_Permission = "NotPresent"

cacheAvail(n) ==
    Tagged(n) \/ \E w \in Ways : Free(<<addressToCacheSet(n), w>>)

-----------------------------------------------------------------------------
(***************************************************************************)
(* allocate(): reuse the slot of a line that is still tagged, else take    *)
(* the first free way of the set the line is routed to.  Without a free    *)
(* way allocate() panics; the controllers ask cacheAvail() first.          *)
(***************************************************************************)
AllocateReuse(n) ==
    LET slot == findTagInSetIgnorePermissions(n)
    IN  /\ Tagged(n)
        /\ m_cache' = [m_cache EXCEPT
             ![slot].m_is_expired = FALSE,
             ![slot].m_Permission = "Invalid",
             ![slot].m_retention_limit = RetentionTime[getRetentionZone(slot[1])],
             ![slot].m_last_touch_tick = curTick,
             ![slot].m_last_refresh_tick = curTick,
             ![slot].lastTouchTick = curTick]
        /\ m_tag_index' = [m_tag_index EXCEPT ![n] = Encode(slot)]

FirstFreeWay(s) ==
    CHOOSE w \in Ways : /\ Free(<<s, w>>)
                        /\ \A v \in Ways : v < w => ~Free(<<s, v>>)

\* Mutant: the tag of the entry being overwritten goes wherever it leads.
StaleTagAnywhere(a, slot) ==
    m_cache[slot] # Null /\ m_cache[slot].m_Address = a

\* The tag of the entry being overwritten goes only if it names this slot.
StaleTag(a, slot) ==
    /\ m_cache[slot] # Null
    /\ m_cache[slot].m_Address = a
    /\ m_tag_index[a] # Null
    /\ Decode(m_tag_index[a]) = slot

NewEntry(n, s) ==
    [m_Address |-> n, m_Permission |-> "Invalid", m_is_expired |-> FALSE,
     m_last_refresh_tick |-> curTick,
     m_retention_limit |-> IF IsSttram THEN RetentionTime[getRetentionZone(s)]
                           ELSE 0,
     m_last_touch_tick |-> curTick, lastTouchTick |-> curTick]

AllocateNew(n) ==
    LET s == addressToCacheSet(n)
        slot == <<s, FirstFreeWay(s)>>
    IN  /\ ~Tagged(n)
        /\ \E w \in Ways : Free(<<s, w>>)
        /\ m_cache' = [m_cache EXCEPT ![slot] = NewEntry(n, s)]
        /\ m_tag_index' = [a \in Lines |->
             IF a = n THEN Encode(slot)
             ELSE IF StaleTag(a, slot) THEN Null ELSE m_tag_index[a]]

allocate(n) ==
    /\ AllocateReuse(n) \/ AllocateNew(n)
    /\ UNCHANGED <<m_chunk_counters, m_chunk_redirection_table, dataArray, curTick>>

\* Mutant: the tag of an evicted line is left behind.
DeallocateKeepingTag(n) ==
    LET slot == findTagInSetIgnorePermissions(n)
    IN  /\ Tagged(n)
        /\ m_cache' = [m_cache EXCEPT ![slot].lastTouchTick = 0,
                                      ![slot].m_Permission = "NotPresent"]
        /\ UNCHANGED <<m_tag_index, m_chunk_counters, m_chunk_redirection_table,
                       dataArray, curTick>>

deallocate(n) ==
    LET slot == findTagInSetIgnorePermissions(n)
    IN  /\ Tagged(n)
        /\ m_cache' = [m_cache EXCEPT ![slot].lastTouchTick = 0,
                                      ![slot].m_Permission = "NotPresent"]
        /\ m_tag_index' = [m_tag_index EXCEPT ![n] = Null]
        /\ UNCHANGED <<m_chunk_counters, m_chunk_redirection_table, dataArray, curTick>>

-----------------------------------------------------------------------------
(***************************************************************************)
(* lookup(), called whenever a controller fetches the entry of a line,     *)
(* notices passive decay.  A Busy or Maybe_Stale block is never flagged.   *)
(***************************************************************************)
\* Mutant: the tick at which the limit is reached already counts as decay.
DecayedAtLimit(e) ==
    /\ e.m_Permission \notin {"Busy", "Maybe_Stale"}
    /\ curTick >= e.m_last_refresh_tick + e.m_retention_limit

Decayed(e) ==
    /\ e.m_Permission \notin {"Busy", "Maybe_Stale"}
    /\ curTick > e.m_last_refresh_tick + e.m_retention_limit

lookup(n) ==
    LET slot == findTagInSet(n)
    IN  /\ isTagPresent(n)
        /\ m_cache' = [m_cache EXCEPT ![slot].m_is_expired =
                          @ \/ Decayed(m_cache[slot])]
        /\ UNCHANGED <<m_tag_index, m_chunk_counters, m_chunk_redirection_table,
                       dataArray, curTick>>

\* setMRU(Addr): a lookup, then a touch of the replacement data.
setMRU(n) ==
    LET slot == findTagInSet(n)
    IN  /\ isTagPresent(n)
        /\ m_cache' = [m_cache EXCEPT
             ![slot].m_is_expired = @ \/ Decayed(m_cache[slot]),
             ![slot].lastTouchTick = curTick,
             ![slot].m_last_touch_tick = curTick]
        /\ UNCHANGED <<m_tag_index, m_chunk_counters, m_chunk_redirection_table,
                       dataArray, curTick>>

\* A controller gives a resident block the permission of its new state.
changePermission(n, permission) ==
    LET slot == findTagInSet(n)
    IN  /\ isTagPresent(n)
        /\ m_cache' = [m_cache EXCEPT ![slot].m_Permission = permission]
        /\ UNCHANGED <<m_tag_index, m_chunk_counters, m_chunk_redirection_table,
                       dataArray, curTick>>

-----------------------------------------------------------------------------
(***************************************************************************)
(* recordRequestType(): the statistics hook the controllers call on every  *)
(* array access also refreshes the block, counts the page's writes, starts *)
(* its redirection and books the data bank.  The retention zone is that of *)
(* the set the line is routed to, not of the slot that holds it.  The data *)
(* bank is booked even for a line that is not in the array.                *)
(***************************************************************************)
\* Mutant: the zone of the index bits, whatever the redirection.
IndexedZone(n) == getRetentionZone(getDefaultSet(n))

RoutedZone(n) == getRetentionZone(addressToCacheSet(n))

BankBooked(n) ==
    dataArray[mapIndexToBank(addressToCacheSet(n))] > curTick + MaxBacklog

TagArrayRead(n) ==
    LET slot == findTagInSetIgnorePermissions(n)
    IN  /\ m_cache' = IF Tagged(n)
                      THEN [m_cache EXCEPT ![slot].m_last_touch_tick = curTick]
                      ELSE m_cache
        /\ UNCHANGED <<m_tag_index, m_chunk_counters, m_chunk_redirection_table,
                       dataArray, curTick>>

TagArrayWrite(n) ==
    LET slot == findTagInSetIgnorePermissions(n)
    IN  /\ Tagged(n)
        /\ m_cache' = [m_cache EXCEPT
             ![slot].m_last_touch_tick = curTick,
             ![slot].m_last_refresh_tick = curTick,
             ![slot].m_is_expired = FALSE,
             ![slot].m_retention_limit = RetentionTime[getRetentionZone(slot[1])],
             ![slot].m_Permission = IF @ = "NotPresent" THEN "Invalid" ELSE @]
        /\ UNCHANGED <<m_tag_index, m_chunk_counters, m_chunk_redirection_table,
                       dataArray, curTick>>

DataArrayRead(n) ==
    LET slot == findTagInSetIgnorePermissions(n)
    IN  /\ ~BankBooked(n)
        /\ m_cache' = IF Tagged(n)
                      THEN [m_cache EXCEPT ![slot].m_last_touch_tick = curTick]
                      ELSE m_cache
        /\ dataArray' = IF ResourceStalls
                        THEN reserve(dataArray, addressToCacheSet(n),
                                     ReadLatency[RoutedZone(n)], curTick)
                        ELSE dataArray
        /\ UNCHANGED <<m_tag_index, m_chunk_counters, m_chunk_redirection_table, curTick>>

\* Mutant: a counter that wraps, and still counts once the page is redirected.
CountedWrapping(n) ==
    IF Tagged(n) /\ Lazy
    THEN [m_chunk_counters EXCEPT ![PageOf(n)] = (@ + 1) % (CounterMax + 1)]
    ELSE m_chunk_counters

\* The page's counter goes up until it saturates and redirects the page.
Counted(n) ==
    IF Tagged(n) /\ Lazy /\ m_chunk_redirection_table[PageOf(n)] = Null
    THEN [m_chunk_counters EXCEPT ![PageOf(n)] =
             IF @ < CounterMax THEN @ + 1 ELSE CounterMax]
    ELSE m_chunk_counters

Redirected(n) ==
    IF /\ Tagged(n)
       /\ Lazy
       /\ m_chunk_redirection_table[PageOf(n)] = Null
       /\ Counted(n)[PageOf(n)] = CounterMax
    THEN [m_chunk_redirection_table EXCEPT ![PageOf(n)] = PageOf(n) % ZoneSize]
    ELSE m_chunk_redirection_table

\* The bank booked is that of the set the line is routed to after the count.
DataArrayWrite(n) ==
    LET slot == findTagInSetIgnorePermissions(n)
    IN  /\ ~BankBooked(n)
        /\ m_cache' = IF Tagged(n)
                      THEN [m_cache EXCEPT
                              ![slot].m_last_touch_tick = curTick,
                              ![slot].m_last_refresh_tick = curTick,
                              ![slot].m_is_expired = FALSE,
                              ![slot].m_retention_limit = RetentionTime[RoutedZone(n)]]
                      ELSE m_cache
        /\ m_chunk_counters' = Counted(n)
        /\ m_chunk_redirection_table' = Redirected(n)
        /\ dataArray' = IF ResourceStalls
                        THEN reserve(dataArray, Route(n, Counted(n), Redirected(n)),
                                     WriteLatency[RoutedZone(n)], curTick)
                        ELSE dataArray
        /\ UNCHANGED <<m_tag_index, curTick>>

checkResourceAvailable(n) ==
    ResourceStalls => tryAccess(dataArray, addressToCacheSet(n), curTick)

-----------------------------------------------------------------------------
(***************************************************************************)
(* cacheProbe(): the line to evict from a full set.                        *)
(***************************************************************************)
ExpiredWays(s) ==
    {w \in Ways : /\ m_cache[<<s, w>>].m_is_expired
                  /\ m_cache[<<s, w>>].m_Permission # "Busy"}

NotBusyWays(s) == {w \in Ways : m_cache[<<s, w>>].m_Permission # "Busy"}

\* The first of the given ways with the smallest tick.
FirstOldest(ways, tick) ==
    CHOOSE w \in ways : \A v \in ways :
        tick[w] < tick[v] \/ (tick[w] = tick[v] /\ w <= v)

\* LRU::getVictim over all the ways of the set.
getVictim(s) ==
    FirstOldest(Ways, [w \in Ways |-> m_cache[<<s, w>>].lastTouchTick])

\* The victim cacheProbe() looks for by itself when getVictim()'s is Busy.
OldestNotBusy(s) ==
    FirstOldest(NotBusyWays(s), [w \in Ways |-> m_cache[<<s, w>>].m_last_touch_tick])

VictimWay(s) ==
    CASE ExpiredWays(s) # {} ->
            CHOOSE w \in ExpiredWays(s) : \A v \in ExpiredWays(s) : w <= v
      [] ExpiredWays(s) = {} /\ getVictim(s) \in NotBusyWays(s) -> getVictim(s)
      [] ExpiredWays(s) = {} /\ getVictim(s) \notin NotBusyWays(s) ->
            IF NotBusyWays(s) # {} THEN OldestNotBusy(s) ELSE 0

cacheProbe(n) ==
    LET s == addressToCacheSet(n)
    IN  m_cache[<<s, VictimWay(s)>>].m_Address

-----------------------------------------------------------------------------
Tick ==
    /\ curTick < MaxTick
    /\ curTick' = curTick + 1
    /\ UNCHANGED <<m_cache, m_tag_index, m_chunk_counters,
                   m_chunk_redirection_table, dataArray>>

Next ==
    \/ \E n \in Lines :
          \/ allocate(n) \/ deallocate(n) \/ lookup(n) \/ setMRU(n)
          \/ TagArrayRead(n) \/ TagArrayWrite(n)
          \/ DataArrayRead(n) \/ DataArrayWrite(n)
          \/ \E permission \in Permissions : changePermission(n, permission)
    \/ Tick

Spec == Init /\ [][Next]_vars

-----------------------------------------------------------------------------
(***************************************************************************)
(* Properties.                                                             *)
(***************************************************************************)
Resident(slot) == m_cache[slot] # Null /\ m_cache[slot].m_Permission # "NotPresent"

(***************************************************************************)
(* The tag index and the array agree, whatever walks and jumps the routing *)
(* of the pages has made meanwhile: every tag leads to a resident entry of *)
(* its line, and every resident entry is the one its line's tag leads to,  *)
(* so that no line has two copies and no copy is out of lookup()'s reach.  *)
(***************************************************************************)
TagIndexConsistent ==
    /\ \A n \in Lines : m_tag_index[n] # Null => isTagPresent(n)
    /\ \A slot \in Slots : Resident(slot) =>
          m_tag_index[m_cache[slot].m_Address] = Encode(slot)

(***************************************************************************)
(* When cacheProbe() is asked for a victim, the line it names is resident  *)
(* in the very set the request is routed to, so evicting it makes room,    *)
(* and it is in the middle of a transaction only if every way is.          *)
(***************************************************************************)
VictimMakesRoom ==
    \A n \in Lines : ~cacheAvail(n) =>
        LET v == cacheProbe(n)
            s == addressToCacheSet(n)
        IN  /\ isTagPresent(v)
            /\ findTagInSet(v)[1] = s
            /\ \/ m_cache[findTagInSet(v)].m_Permission # "Busy"
               \/ \A w \in Ways : m_cache[<<s, w>>].m_Permission = "Busy"

(***************************************************************************)
(* A block stays where it was allocated while its page's routing moves on, *)
(* but never further than this: it is in the zone its line is routed to    *)
(* now, or, once the page is redirected, in the zone of its index bits.    *)
(***************************************************************************)
PlacementZone ==
    \A slot \in Slots : Resident(slot) =>
        LET n == m_cache[slot].m_Address
        IN  \/ getRetentionZone(slot[1]) = RoutedZone(n)
            \/ /\ Lazy
               /\ m_chunk_redirection_table[PageOf(n)] # Null
               /\ getRetentionZone(slot[1]) = getRetentionZone(getDefaultSet(n))

(***************************************************************************)
(* No resident block is trusted for longer than the cells it is in hold    *)
(* their charge, although a write takes the limit from the routed set.     *)
(***************************************************************************)
RetentionNeverOverstated ==
    \A slot \in Slots : Resident(slot) =>
        m_cache[slot].m_retention_limit <= RetentionTime[getRetentionZone(slot[1])]

(***************************************************************************)
(* No block is condemned while it is healthy: a flagged block has decayed  *)
(* since the last time it was refreshed.                                   *)
(***************************************************************************)
NoFalseExpiry ==
    \A slot \in Slots : Resident(slot) /\ m_cache[slot].m_is_expired =>
        curTick > m_cache[slot].m_last_refresh_tick + m_cache[slot].m_retention_limit

(***************************************************************************)
(* An SRAM cache has no cells to decay and evicts as stock Ruby does: with *)
(* no way in the middle of a transaction the victim is the replacement     *)
(* policy's choice.                                                        *)
(***************************************************************************)
SramEvictsByPolicy ==
    ~IsSttram =>
        \A n \in Lines : ~cacheAvail(n) =>
            LET s == addressToCacheSet(n)
            IN  NotBusyWays(s) = Ways => VictimWay(s) = getVictim(s)

(***************************************************************************)
(* A redirected page has settled: its lines are routed to the same sets    *)
(* for ever, so a request waiting for room waits in one set only.          *)
(***************************************************************************)
RouteSettles ==
    [][\A n \in Lines : m_chunk_redirection_table[PageOf(n)] # Null =>
          addressToCacheSet(n)' = addressToCacheSet(n)]_vars

(***************************************************************************)
(* The array implements the abstract store of resident lines.              *)
(***************************************************************************)
ResidentLines == {n \in Lines : isTagPresent(n)}
Store == INSTANCE BlockStore WITH resident <- ResidentLines
ImplementsBlockStore == Store!Spec
=============================================================================
