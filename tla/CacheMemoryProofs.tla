------------------------- MODULE CacheMemoryProofs -------------------------
(***************************************************************************)
(* The properties of CacheMemory for every geometry, association, set of   *)
(* lines and run of the clock.                                             *)
(***************************************************************************)
EXTENDS CacheMemory, WellFoundedInduction, TLAPS

-----------------------------------------------------------------------------
(***************************************************************************)
(* The placement arithmetic: a line is always routed to a set of the       *)
(* cache, the intra-zone walk stays in its zone, and a jump never leads to *)
(* a longer-retention zone.                                                *)
(***************************************************************************)

(***************************************************************************)
(* Euclidean division, as addressToCacheSet uses it on set numbers.        *)
(***************************************************************************)
LEMMA DivMod ==
    ASSUME NEW a \in Nat, NEW z \in Nat \ {0}
    PROVE  /\ a % z \in 0 .. z - 1
           /\ a \div z \in Nat
           /\ a = (a \div z) * z + (a % z)
  <1>1. a % z \in 0 .. z - 1  BY SMT
  <1>2. a \div z \in Nat  BY SMT
  <1>3. a = (a \div z) * z + (a % z)  BY SMT
  <1> QED  BY <1>1, <1>2, <1>3

\* The quotient is the only number with its defining property.
LEMMA DivUnique ==
    ASSUME NEW a \in Nat, NEW z \in Nat \ {0}, NEW q \in Nat,
           q * z <= a, a < (q + 1) * z
    PROVE  a \div z = q
  BY SMT

(***************************************************************************)
(* The four zones of a lazy cache have the same positive size, and the     *)
(* index bits name only sets that belong to one of them.                   *)
(***************************************************************************)
LEMMA FourZones ==
    ASSUME Lazy, NumZones = 4
    PROVE  /\ ZoneSize \in Nat \ {0}
           /\ 4 * ZoneSize <= NumSets
           /\ m_thresholds[0] = ZoneSize
           /\ m_thresholds[1] = 2 * ZoneSize
           /\ m_thresholds[2] = 3 * ZoneSize
           /\ m_thresholds[3] = 4 * ZoneSize
           /\ \A n \in Nat : getDefaultSet(n) \in 0 .. (4 * ZoneSize) - 1
  <1>1. ZoneSize \in Nat \ {0} /\ 4 * ZoneSize <= NumSets /\ IndexedSets <= 4 * ZoneSize
    BY GeometryAssumption, SMT DEF ZoneSize
  <1>2. /\ m_thresholds[0] = ZoneSize
        /\ m_thresholds[1] = 2 * ZoneSize
        /\ m_thresholds[2] = 3 * ZoneSize
        /\ m_thresholds[3] = 4 * ZoneSize
    BY <1>1 DEF m_thresholds, Zones
  <1>3. \A n \in Nat : getDefaultSet(n) \in 0 .. (4 * ZoneSize) - 1
    <2> TAKE n \in Nat
    <2>1. IndexedSets \in Nat \ {0}  BY GeometryAssumption
    <2>2. getDefaultSet(n) \in 0 .. IndexedSets - 1
      BY <2>1, DivMod DEF getDefaultSet
    <2> QED  BY <1>1, <2>1, <2>2
  <1> QED  BY <1>1, <1>2, <1>3

(***************************************************************************)
(* getRetentionZone() numbers the zones by their boundaries.               *)
(***************************************************************************)
LEMMA ZoneOfSet ==
    ASSUME Lazy, NumZones = 4, NEW s \in Nat, NEW q \in 0 .. 3,
           q * ZoneSize <= s, s < (q + 1) * ZoneSize
    PROVE  getRetentionZone(s) = q
  <1>1. Zones = 0 .. 3  BY DEF Zones
  <1>2. \A i \in Zones : m_thresholds[i] = (i + 1) * ZoneSize
    BY DEF m_thresholds
  <1>3. ZoneSize \in Nat \ {0}  BY FourZones
  <1>4. s < m_thresholds[q]  BY <1>1, <1>2
  <1>5. ASSUME NEW j \in Zones, j < q  PROVE s >= m_thresholds[j]
    <2>1. m_thresholds[j] = (j + 1) * ZoneSize  BY <1>2
    <2>2. j + 1 <= q  BY <1>1, <1>5
    <2>3. (j + 1) * ZoneSize <= q * ZoneSize  BY <1>1, <1>3, <2>2, SMT
    <2> QED  BY <1>1, <1>3, <2>1, <2>3, SMT
  <1>6. ASSUME NEW i \in Zones, s < m_thresholds[i],
               \A j \in Zones : j < i => s >= m_thresholds[j]
        PROVE  i = q
    <2>1. ~(i < q)  BY <1>2, <1>3, <1>5, <1>6, <1>1, SMT
    <2>2. ~(q < i)  BY <1>1, <1>2, <1>3, <1>4, <1>6, SMT
    <2> QED  BY <1>1, <2>1, <2>2
  <1> QED  BY <1>1, <1>4, <1>5, <1>6 DEF getRetentionZone

\* getRetentionZone() of a set is a zone.
LEMMA ZoneInZones ==
    ASSUME NEW s \in Nat
    PROVE  getRetentionZone(s) \in Zones
  <1> DEFINE Below(i) == i \in Zones /\ s < m_thresholds[i]
             First(i) == Below(i) /\ \A j \in Zones : j < i => s >= m_thresholds[j]
  <1>1. Zones \subseteq 0 .. 3 /\ NumZones - 1 \in Zones
    BY GeometryAssumption DEF Zones
  <1>2. \A i \in Zones : m_thresholds[i] \in Nat
    BY GeometryAssumption, SMT DEF m_thresholds, ZoneSize, Zones
  <1>3. ASSUME NEW i \in Zones, Below(i)  PROVE \E k \in Zones : First(k)
    <2>1. CASE Below(0)  BY <1>1, <2>1
    <2>2. CASE ~Below(0) /\ Below(1)  BY <1>1, <1>2, <2>2
    <2>3. CASE ~Below(0) /\ ~Below(1) /\ Below(2)  BY <1>1, <1>2, <2>3
    <2>4. CASE ~Below(0) /\ ~Below(1) /\ ~Below(2) /\ Below(3)  BY <1>1, <1>2, <2>4
    <2> QED  BY <1>1, <1>3, <2>1, <2>2, <2>3, <2>4
  <1> QED  BY Zenon, <1>1, <1>3 DEF getRetentionZone

\* A number below 4z lies in one of the four quarters of size z.
LEMMA QuarterOf ==
    ASSUME NEW z \in Nat \ {0}, NEW s \in 0 .. (4 * z) - 1
    PROVE  \E q \in 0 .. 3 : q * z <= s /\ s < (q + 1) * z
  <1>1. CASE s < z  BY <1>1
  <1>2. CASE z <= s /\ s < 2 * z  BY <1>2
  <1>3. CASE 2 * z <= s /\ s < 3 * z  BY <1>3
  <1>4. CASE 3 * z <= s  BY <1>4
  <1> QED  BY <1>1, <1>2, <1>3, <1>4

(***************************************************************************)
(* The intra-zone walk leaves the zone of its starting set unchanged.      *)
(***************************************************************************)
LEMMA WalkStaysInZone ==
    ASSUME Lazy, NumZones = 4, NEW base_set \in 0 .. (4 * ZoneSize) - 1,
           NEW writes \in Nat
    PROVE  /\ Walk(base_set, writes) \in 0 .. (4 * ZoneSize) - 1
           /\ getRetentionZone(Walk(base_set, writes)) = getRetentionZone(base_set)
  <1>1. ZoneSize \in Nat \ {0}  BY FourZones
  <1>2. PICK q \in 0 .. 3 : q * ZoneSize <= base_set /\ base_set < (q + 1) * ZoneSize
    BY <1>1, QuarterOf
  <1>3. base_set \div ZoneSize = q  BY <1>1, <1>2, DivUnique
  <1>4. IntraOffset(writes) \in Nat  BY SMT DEF IntraOffset
  <1> DEFINE local_index == base_set % ZoneSize
             step == (local_index + IntraOffset(writes)) % ZoneSize
  <1>5. local_index \in Nat  BY <1>1, DivMod
  <1>6. step \in 0 .. ZoneSize - 1
    <2> HIDE DEF local_index
    <2>1. local_index + IntraOffset(writes) \in Nat  BY <1>4, <1>5
    <2> QED  BY Zenon, <1>1, <2>1, DivMod
  <1>7. Walk(base_set, writes) \in {q * ZoneSize + step, base_set}
    BY <1>3 DEF Walk
  <1>8. /\ Walk(base_set, writes) \in Nat
        /\ q * ZoneSize <= Walk(base_set, writes)
        /\ Walk(base_set, writes) < (q + 1) * ZoneSize
    <2> HIDE DEF step
    <2> QED  BY <1>1, <1>2, <1>6, <1>7, SMT
  <1>9. (q + 1) * ZoneSize <= 4 * ZoneSize  BY <1>1, SMT
  <1> QED  BY <1>1, <1>2, <1>8, <1>9, ZoneOfSet

(***************************************************************************)
(* An inter-zone jump never leads to a zone of longer retention.           *)
(***************************************************************************)
LEMMA JumpGoesDown ==
    ASSUME Lazy, NumZones = 4, NEW n \in Nat, NEW offset \in Nat
    PROVE  /\ BaseSet(n, offset) \in 0 .. (4 * ZoneSize) - 1
           /\ getRetentionZone(BaseSet(n, offset)) <= getRetentionZone(getDefaultSet(n))
  <1> DEFINE d == getDefaultSet(n)
             scatter_offset == (offset + (n % LinesPerPage) * 7) % ZoneSize
  <1>1. ZoneSize \in Nat \ {0} /\ d \in 0 .. (4 * ZoneSize) - 1  BY FourZones
  <1>2. n % LinesPerPage \in Nat  BY DivMod DEF LinesPerPage
  <1>3. scatter_offset \in 0 .. ZoneSize - 1
    <2>1. offset + (n % LinesPerPage) * 7 \in Nat  BY <1>2
    <2> QED  BY Zenon, <1>1, <2>1, DivMod
  <1> HIDE DEF d, scatter_offset
  <1>4. CASE d >= 3 * ZoneSize
    <2>1. BaseSet(n, offset) = ZoneSize + scatter_offset
      BY <1>4, FourZones DEF BaseSet, d, scatter_offset
    <2>2. getRetentionZone(d) = 3  BY <1>1, <1>4, ZoneOfSet
    <2>3. getRetentionZone(ZoneSize + scatter_offset) = 1  BY <1>1, <1>3, ZoneOfSet
    <2> QED  BY <1>1, <1>3, <2>1, <2>2, <2>3 DEF d
  <1>5. CASE d >= 2 * ZoneSize /\ d < 3 * ZoneSize
    <2>1. BaseSet(n, offset) = scatter_offset
      BY <1>5, FourZones DEF BaseSet, d, scatter_offset
    <2>2. getRetentionZone(d) = 2  BY <1>1, <1>5, ZoneOfSet
    <2>3. getRetentionZone(scatter_offset) = 0  BY <1>1, <1>3, ZoneOfSet
    <2> QED  BY <1>1, <1>3, <2>1, <2>2, <2>3 DEF d
  <1>6. CASE d < 2 * ZoneSize
    <2>1. BaseSet(n, offset) = d
      BY <1>1, <1>6, FourZones DEF BaseSet, d
    <2>2. PICK q \in 0 .. 3 : getRetentionZone(d) = q
      BY <1>1, QuarterOf, ZoneOfSet
    <2> QED  BY <1>1, <2>1, <2>2 DEF d
  <1> QED  BY <1>1, <1>4, <1>5, <1>6

(***************************************************************************)
(* addressToCacheSet() names a set of the cache for every line, whatever   *)
(* the counter and the table entry of its page hold.                       *)
(***************************************************************************)
THEOREM RouteInSets ==
    ASSUME NEW n \in Nat, NEW counters, NEW redirections,
           counters[PageOf(n)] \in Nat,
           redirections[PageOf(n)] \in Nat \union {Null}
    PROVE  Route(n, counters, redirections) \in Sets
  <1>1. CASE ~Lazy \/ NumZones # 4
    <2>1. IndexedSets \in Nat \ {0}  BY GeometryAssumption
    <2>2. getDefaultSet(n) \in 0 .. IndexedSets - 1  BY <2>1, DivMod DEF getDefaultSet
    <2> QED  BY <1>1, <2>1, <2>2, GeometryAssumption DEF Route, Sets
  <1>2. CASE Lazy /\ NumZones = 4
    <2> DEFINE base_set == IF redirections[PageOf(n)] = Null THEN getDefaultSet(n)
                           ELSE BaseSet(n, redirections[PageOf(n)])
    <2>1. base_set \in 0 .. (4 * ZoneSize) - 1
      BY Zenon, <1>2, FourZones, JumpGoesDown
    <2>2. Route(n, counters, redirections) = Walk(base_set, counters[PageOf(n)])
      BY <1>2 DEF Route
    <2> HIDE DEF base_set
    <2>3. Walk(base_set, counters[PageOf(n)]) \in 0 .. (4 * ZoneSize) - 1
      BY Zenon, <1>2, <2>1, WalkStaysInZone
    <2> QED  BY <1>2, <2>2, <2>3, FourZones, GeometryAssumption DEF Sets
  <1> QED  BY <1>1, <1>2

(***************************************************************************)
(* Until its page is redirected a line is routed to the zone of its index  *)
(* bits, however far the intra-zone walk has gone.                         *)
(***************************************************************************)
THEOREM RouteKeepsZone ==
    ASSUME NEW n \in Nat, NEW counters, NEW redirections,
           counters[PageOf(n)] \in Nat,
           redirections[PageOf(n)] = Null \/ ~Lazy
    PROVE  getRetentionZone(Route(n, counters, redirections)) =
           getRetentionZone(getDefaultSet(n))
  <1>1. CASE ~Lazy \/ NumZones # 4  BY <1>1 DEF Route
  <1>2. CASE Lazy /\ NumZones = 4
    <2>1. Route(n, counters, redirections) = Walk(getDefaultSet(n), counters[PageOf(n)])
      BY <1>2 DEF Route
    <2> QED  BY Zenon, <1>2, <2>1, FourZones, WalkStaysInZone
  <1> QED  BY <1>1, <1>2

(***************************************************************************)
(* Redirection only ever shortens retention: the zone a line is routed to  *)
(* is at most the zone of its index bits.                                  *)
(***************************************************************************)
THEOREM RouteGoesDown ==
    ASSUME NEW n \in Nat, NEW counters, NEW redirections,
           counters[PageOf(n)] \in Nat,
           redirections[PageOf(n)] \in Nat \union {Null}
    PROVE  /\ getRetentionZone(Route(n, counters, redirections)) \in Zones
           /\ getRetentionZone(getDefaultSet(n)) \in Zones
           /\ getRetentionZone(Route(n, counters, redirections)) <=
              getRetentionZone(getDefaultSet(n))
  <1>1. /\ getRetentionZone(Route(n, counters, redirections)) \in Zones
        /\ getRetentionZone(getDefaultSet(n)) \in Zones
    <2>1. getDefaultSet(n) \in Nat  BY GeometryAssumption, DivMod DEF getDefaultSet
    <2>2. Route(n, counters, redirections) \in Nat
      BY RouteInSets DEF Sets
    <2> QED  BY <2>1, <2>2, ZoneInZones
  <1>2. CASE redirections[PageOf(n)] = Null \/ ~Lazy \/ NumZones # 4
    <2>1. getRetentionZone(Route(n, counters, redirections)) =
          getRetentionZone(getDefaultSet(n))
      BY <1>2, RouteKeepsZone DEF Route
    <2> QED  BY <1>1, <2>1 DEF Zones
  <1>3. CASE redirections[PageOf(n)] \in Nat /\ Lazy /\ NumZones = 4
    <2> DEFINE base_set == BaseSet(n, redirections[PageOf(n)])
    <2>1. Route(n, counters, redirections) = Walk(base_set, counters[PageOf(n)])
      BY <1>3, GeometryAssumption DEF Route
    <2>2. /\ base_set \in 0 .. (4 * ZoneSize) - 1
          /\ getRetentionZone(base_set) <= getRetentionZone(getDefaultSet(n))
      BY Zenon, <1>3, JumpGoesDown
    <2> HIDE DEF base_set
    <2> QED  BY Zenon, <1>1, <1>3, <2>1, <2>2, WalkStaysInZone
  <1> QED  BY <1>2, <1>3, GeometryAssumption

-----------------------------------------------------------------------------
(***************************************************************************)
(* Arithmetic.                                                             *)
(***************************************************************************)
LEMMA LeastNatural ==
    ASSUME NEW T \in SUBSET Nat, T # {}
    PROVE  \E x \in T : \A y \in T : x <= y
  <1> DEFINE R == {ss \in Nat \X Nat : ss[1] < ss[2]}
  <1>1. R = OpToRel(<, Nat)  BY DEF OpToRel
  <1>2. IsWellFoundedOn(R, Nat)  BY <1>1, NatLessThanWellFounded
  <1> HIDE DEF R
  <1>3. PICK x \in T : \A y \in T : ~ (<<y, x>> \in R)
    BY Zenon, <1>2, WFMin
  <1>4. ASSUME NEW y \in T PROVE x <= y
    <2>1. x \in Nat /\ y \in Nat  OBVIOUS
    <2>2. y < x => <<y, x>> \in R
      <3>1. <<y, x>> \in Nat \X Nat  BY <2>1
      <3> QED  BY <3>1 DEF R
    <2> QED  BY <1>3, <2>1, <2>2
  <1> QED BY <1>4

\* A set and a way that fit in sixteen bits are what Decode reads back.
LEMMA PackFits ==
    ASSUME NEW s \in Nat, NEW w \in Nat, s < 65536, w < 65536
    PROVE  /\ s % 65536 = s /\ w % 65536 = w
           /\ s * 65536 + w \in Nat
           /\ ((s * 65536 + w) \div 65536) % 65536 = s
           /\ (s * 65536 + w) % 65536 = w
  <1>1. s % 65536 = s /\ w % 65536 = w /\ s * 65536 + w \in Nat  BY SMT
  <1>2. s * 65536 <= s * 65536 + w /\ s * 65536 + w < (s + 1) * 65536  BY SMT
  <1>3. (s * 65536 + w) \div 65536 = s  BY <1>1, <1>2, DivUnique
  <1>4. (s * 65536 + w) % 65536 = w  BY <1>1, <1>3, DivMod
  <1> QED  BY <1>1, <1>3, <1>4

(***************************************************************************)
(* Packing a slot into the tag index loses nothing: sets and ways fit in   *)
(* sixteen bits.                                                           *)
(***************************************************************************)
LEMMA DecodeEncode ==
    ASSUME NEW slot \in Slots
    PROVE  Encode(slot) \in Nat /\ Decode(Encode(slot)) = slot
  <1>1. PICK s \in Sets, w \in Ways : slot = <<s, w>>  BY DEF Slots
  <1>2. s \in Nat /\ w \in Nat /\ s < 65536 /\ w < 65536
    <2>1. NumSets \in Nat /\ NumSets <= 65536  BY GeometryAssumption, CacheAssumption
    <2>2. Assoc \in Nat /\ Assoc <= 65536  BY CacheAssumption
    <2> QED  BY <2>1, <2>2 DEF Sets, Ways
  <1> HIDE DEF Sets, Ways
  <1>3. Encode(slot) = s * 65536 + w
    BY <1>1, <1>2, PackFits DEF Encode
  <1> QED  BY <1>1, <1>2, <1>3, PackFits DEF Decode

-----------------------------------------------------------------------------
(***************************************************************************)
(* TagIndexConsistent is about the slot a tag decodes to.  To be inductive *)
(* it also has to say that every tag is the packed form of a slot.         *)
(***************************************************************************)
TagInv ==
    /\ \A n \in Lines : m_tag_index[n] # Null =>
          \E slot \in Slots : /\ m_tag_index[n] = Encode(slot)
                              /\ Resident(slot)
                              /\ m_cache[slot].m_Address = n
    /\ \A slot \in Slots : Resident(slot) =>
          m_tag_index[m_cache[slot].m_Address] = Encode(slot)

Inv == TypeOK /\ TagInv

(***************************************************************************)
(* Under the invariant every way of looking a line up finds the one slot   *)
(* that holds it, with any permission but NotPresent.                      *)
(***************************************************************************)
LEMMA Located ==
    ASSUME Inv, NEW n \in Lines, m_tag_index[n] # Null
    PROVE  LET slot == findTagInSetIgnorePermissions(n)
           IN  /\ slot \in Slots
               /\ findTagInSet(n) = slot
               /\ Tagged(n) /\ isTagPresent(n)
               /\ m_tag_index[n] = Encode(slot)
               /\ m_cache[slot] \in Entry
               /\ m_cache[slot].m_Address = n
               /\ Resident(slot)
  <1>1. PICK slot \in Slots : /\ m_tag_index[n] = Encode(slot)
                              /\ Resident(slot)
                              /\ m_cache[slot].m_Address = n
    BY DEF Inv, TagInv
  <1>2. Decode(m_tag_index[n]) = slot  BY <1>1, DecodeEncode
  <1>3. m_cache[slot] # Null /\ m_cache[slot].m_Permission # "NotPresent"
    BY <1>1 DEF Resident
  <1>4. findTagInSetIgnorePermissions(n) = slot
    BY <1>1, <1>2, <1>3 DEF findTagInSetIgnorePermissions
  <1>5. slot # Null  BY NullAssumption
  <1>6. Tagged(n)  BY <1>4, <1>5 DEF Tagged
  <1>7. findTagInSet(n) = slot  BY <1>3, <1>4, <1>6 DEF findTagInSet
  <1>8. isTagPresent(n)  BY <1>5, <1>7 DEF isTagPresent
  <1>9. m_cache[slot] \in Entry  BY <1>3 DEF Inv, TypeOK
  <1> QED  BY <1>1, <1>4, <1>6, <1>7, <1>8, <1>9

\* Under the invariant a line is tagged exactly when the index has it.
LEMMA TaggedIffIndexed ==
    ASSUME Inv, NEW n \in Lines
    PROVE  /\ Tagged(n) <=> m_tag_index[n] # Null
           /\ isTagPresent(n) <=> m_tag_index[n] # Null
  <1>1. CASE m_tag_index[n] # Null  BY <1>1, Located
  <1>2. CASE m_tag_index[n] = Null
    BY <1>2 DEF Tagged, isTagPresent, findTagInSet, findTagInSetIgnorePermissions
  <1> QED  BY <1>1, <1>2
-----------------------------------------------------------------------------
(***************************************************************************)
(* Types of the operators.                                                 *)
(***************************************************************************)
LEMMA ZoneTyped ==
    ASSUME NEW s \in Sets
    PROVE  /\ getRetentionZone(s) \in Zones
           /\ RetentionTime[getRetentionZone(s)] \in Nat
           /\ ReadLatency[getRetentionZone(s)] \in Nat
           /\ WriteLatency[getRetentionZone(s)] \in Nat
  <1>1. getRetentionZone(s) \in Zones  BY ZoneInZones DEF Sets
  <1> QED  BY <1>1, CacheAssumption

\* The page of a line is a page.
LEMMA PageTyped ==
    ASSUME NEW n \in Lines
    PROVE  n \in Nat /\ PageOf(n) \in Pages /\ PageOf(n) \in Nat
  <1>1. n \in Nat  BY GeometryAssumption
  <1>2. PageOf(n) \in Nat  BY <1>1, DivMod DEF PageOf, LinesPerPage
  <1> QED  BY <1>1, <1>2 DEF Pages

\* addressToCacheSet() of a line is a set of the array.
LEMMA RouteTyped ==
    ASSUME TypeOK, NEW n \in Lines
    PROVE  /\ addressToCacheSet(n) \in Sets
           /\ RoutedZone(n) \in Zones
           /\ RetentionTime[RoutedZone(n)] \in Nat
           /\ ReadLatency[RoutedZone(n)] \in Nat
           /\ WriteLatency[RoutedZone(n)] \in Nat
  <1>1. /\ m_chunk_counters[PageOf(n)] \in Nat
        /\ m_chunk_redirection_table[PageOf(n)] \in Nat \union {Null}
    BY PageTyped DEF TypeOK
  <1>2. addressToCacheSet(n) \in Sets
    BY <1>1, PageTyped, RouteInSets DEF addressToCacheSet
  <1> QED  BY <1>2, ZoneTyped DEF RoutedZone

\* A write leaves the counters and the redirection table well typed.
LEMMA CountTyped ==
    ASSUME TypeOK, NEW n \in Lines
    PROVE  /\ Counted(n) \in [Pages -> 0 .. CounterMax]
           /\ Redirected(n) \in [Pages -> Nat \union {Null}]
           /\ Route(n, Counted(n), Redirected(n)) \in Sets
  <1>1. CounterMax \in Nat  BY GeometryAssumption
  <1>2. Counted(n) \in [Pages -> 0 .. CounterMax]
    BY <1>1, PageTyped DEF TypeOK, Counted
  <1>3. Lazy => PageOf(n) % ZoneSize \in Nat
    <2> SUFFICES ASSUME Lazy PROVE PageOf(n) % ZoneSize \in Nat  OBVIOUS
    <2>1. ZoneSize \in Nat \ {0}  BY GeometryAssumption, SMT DEF ZoneSize
    <2>2. PageOf(n) % ZoneSize \in 0 .. ZoneSize - 1  BY <2>1, PageTyped, DivMod
    <2> QED  BY <2>1, <2>2
  <1>4. Redirected(n) \in [Pages -> Nat \union {Null}]
    BY <1>3, PageTyped DEF TypeOK, Redirected
  <1>5. /\ Counted(n)[PageOf(n)] \in Nat
        /\ Redirected(n)[PageOf(n)] \in Nat \union {Null}
    BY <1>1, <1>2, <1>4, PageTyped
  <1> QED  BY <1>2, <1>4, <1>5, PageTyped, RouteInSets

\* Booking a bank leaves the banks well typed.
LEMMA ReserveTyped ==
    ASSUME NEW busyBanks \in [BankIds -> Nat], NEW idx \in Nat,
           NEW accessLatency \in Nat, NEW now \in Nat
    PROVE  reserve(busyBanks, idx, accessLatency, now) \in [BankIds -> Nat]
  <1>1. mapIndexToBank(idx) \in BankIds
    BY BankAssumption, DivMod DEF mapIndexToBank, BankIds
  <1>2. busyBanks[mapIndexToBank(idx)] \in Nat  BY <1>1
  <1>3. accessLatency # 0 => (accessLatency - 1) * ClockPeriod \in Nat
    BY BankAssumption, SMT
  <1>4. CASE accessLatency = 0  BY <1>4 DEF reserve
  <1>5. CASE accessLatency # 0
    <2> DEFINE start == IF now > busyBanks[mapIndexToBank(idx)] THEN now
                        ELSE busyBanks[mapIndexToBank(idx)]
               booked == (accessLatency - 1) * ClockPeriod
    <2>1. start \in Nat /\ booked \in Nat  BY <1>2, <1>3, <1>5
    <2>2. reserve(busyBanks, idx, accessLatency, now) =
          [busyBanks EXCEPT ![mapIndexToBank(idx)] = start + booked]
      BY <1>5 DEF reserve
    <2> HIDE DEF start, booked
    <2> QED  BY <1>1, <2>1, <2>2
  <1> QED  BY <1>4, <1>5

(***************************************************************************)
(* allocate() finds the first free way of a set that has one.              *)
(***************************************************************************)
LEMMA FreeWay ==
    ASSUME NEW s, \E w \in Ways : Free(<<s, w>>)
    PROVE  FirstFreeWay(s) \in Ways /\ Free(<<s, FirstFreeWay(s)>>)
  <1> DEFINE T == {w \in Ways : Free(<<s, w>>)}
  <1>1. T \in SUBSET Nat /\ T # {}  BY DEF Ways
  <1>2. PICK w \in T : \A v \in T : w <= v  BY Zenon, <1>1, LeastNatural
  <1>3. \A v \in Ways : v < w => ~Free(<<s, v>>)  BY <1>2 DEF Ways
  <1> QED  BY <1>2, <1>3 DEF FirstFreeWay
-----------------------------------------------------------------------------
(***************************************************************************)
(* The shape of a step.  An operation leaves the array alone, or rewrites  *)
(* the entry of a line it holds, or fills a free slot of the routed set,   *)
(* or frees the slot of a line.                                            *)
(***************************************************************************)
Slot(n) == findTagInSetIgnorePermissions(n)

Kept == m_cache' = m_cache /\ m_tag_index' = m_tag_index

\* A rewritten entry keeps its refresh time and limit, or is refreshed.
Aged(n, e) ==
    LET o == m_cache[Slot(n)]
    IN  \/ /\ e.m_last_refresh_tick = o.m_last_refresh_tick
           /\ e.m_retention_limit = o.m_retention_limit
           /\ e.m_is_expired => o.m_is_expired \/ Decayed(o)
        \/ /\ ~e.m_is_expired
           /\ e.m_retention_limit \in {RetentionTime[getRetentionZone(Slot(n)[1])],
                                       RetentionTime[RoutedZone(n)]}

Rewritten(n, e) ==
    /\ m_tag_index[n] # Null
    /\ e \in Entry /\ e.m_Address = n /\ e.m_Permission # "NotPresent"
    /\ Aged(n, e)
    /\ m_cache' = [m_cache EXCEPT ![Slot(n)] = e]
    /\ m_tag_index' = m_tag_index

Inserted(n, slot) ==
    /\ m_tag_index[n] = Null
    /\ slot[1] = addressToCacheSet(n) /\ ~Resident(slot)
    /\ m_cache' = [m_cache EXCEPT ![slot] = NewEntry(n, slot[1])]
    /\ m_tag_index' = [m_tag_index EXCEPT ![n] = Encode(slot)]

Removed(n, e) ==
    /\ m_tag_index[n] # Null
    /\ e \in Entry /\ e.m_Permission = "NotPresent"
    /\ m_cache' = [m_cache EXCEPT ![Slot(n)] = e]
    /\ m_tag_index' = [m_tag_index EXCEPT ![n] = Null]

ArrayStep ==
    \/ Kept
    \/ \E n \in Lines : \E e \in Entry : Rewritten(n, e)
    \/ \E n \in Lines : \E slot \in Slots : Inserted(n, slot)
    \/ \E n \in Lines : \E e \in Entry : Removed(n, e)

\* What allocate() does to the array and the index when it reuses a slot.
LEMMA AllocateReuseShape ==
    ASSUME Inv, NEW n \in Lines, AllocateReuse(n)
    PROVE  \E e \in Entry : Rewritten(n, e)
  <1>1. m_tag_index[n] # Null  BY TaggedIffIndexed DEF AllocateReuse
  <1>2. /\ Slot(n) \in Slots /\ m_cache[Slot(n)] \in Entry
        /\ m_cache[Slot(n)].m_Address = n /\ m_tag_index[n] = Encode(Slot(n))
    BY <1>1, Located DEF Slot
  <1> DEFINE limit == RetentionTime[getRetentionZone(Slot(n)[1])]
             e == [m_cache[Slot(n)] EXCEPT !.m_is_expired = FALSE,
                     !.m_Permission = "Invalid", !.m_retention_limit = limit,
                     !.m_last_touch_tick = curTick, !.m_last_refresh_tick = curTick,
                     !.lastTouchTick = curTick]
  <1>3. limit \in Nat
    <2>1. Slot(n)[1] \in Sets  BY <1>2 DEF Slots
    <2> QED  BY <2>1, ZoneTyped
  <1>4. m_cache' = [m_cache EXCEPT ![Slot(n)] = e]
    BY Zenon DEF AllocateReuse, Slot
  <1>5. m_tag_index' = m_tag_index
    BY <1>2 DEF AllocateReuse, Slot, Inv, TypeOK
  <1> HIDE DEF limit
  <1>6. e \in Entry /\ e.m_Address = n /\ e.m_Permission # "NotPresent"
    BY Zenon, <1>2, <1>3 DEF Inv, TypeOK, Entry, AccessPermission
  <1>7. Aged(n, e)  BY <1>2 DEF Aged, limit, Entry
  <1> HIDE DEF e
  <1> QED  BY Zenon, <1>1, <1>4, <1>5, <1>6, <1>7 DEF Rewritten
\* What allocate() does to the array and the index when it takes a free way.
LEMMA AllocateNewShape ==
    ASSUME Inv, NEW n \in Lines, AllocateNew(n)
    PROVE  \E slot \in Slots : Inserted(n, slot)
  <1> DEFINE s == addressToCacheSet(n)
             slot == <<s, FirstFreeWay(s)>>
  <1>1. m_tag_index[n] = Null  BY TaggedIffIndexed DEF AllocateNew
  <1>2. s \in Sets  BY RouteTyped DEF Inv
  <1>3. FirstFreeWay(s) \in Ways /\ Free(slot)
    BY FreeWay DEF AllocateNew
  <1>4. slot \in Slots  BY <1>2, <1>3 DEF Slots
  <1>5. ~Resident(slot)  BY <1>3 DEF Free, Resident
  <1>6. \A a \in Lines : ~StaleTag(a, slot)
    <2> SUFFICES ASSUME NEW a \in Lines, StaleTag(a, slot) PROVE FALSE  OBVIOUS
    <2> HIDE DEF slot
    <2>1. PICK t \in Slots : m_tag_index[a] = Encode(t) /\ Resident(t)
      BY DEF Inv, TagInv, StaleTag
    <2>2. t = slot  BY <2>1, DecodeEncode DEF StaleTag
    <2> QED  BY <1>5, <2>1, <2>2
  <1>7. m_tag_index' = [m_tag_index EXCEPT ![n] = Encode(slot)]
    <2> HIDE DEF slot
    <2>1. m_tag_index' = [a \in Lines |->
             IF a = n THEN Encode(slot)
             ELSE IF StaleTag(a, slot) THEN Null ELSE m_tag_index[a]]
      BY DEF AllocateNew, slot
    <2> QED  BY Zenon, <1>6, <2>1 DEF Inv, TypeOK
  <1>8. m_cache' = [m_cache EXCEPT ![slot] = NewEntry(n, s)]  BY DEF AllocateNew
  <1>9. slot[1] = s  OBVIOUS
  <1> HIDE DEF slot, s
  <1> QED  BY Zenon, <1>1, <1>4, <1>5, <1>7, <1>8, <1>9 DEF Inserted, s

\* What deallocate() does to the array and the index.
LEMMA DeallocateShape ==
    ASSUME Inv, NEW n \in Lines, deallocate(n)
    PROVE  \E e \in Entry : Removed(n, e)
  <1>1. m_tag_index[n] # Null  BY TaggedIffIndexed DEF deallocate
  <1>2. Slot(n) \in Slots /\ m_cache[Slot(n)] \in Entry
    BY <1>1, Located DEF Slot
  <1> DEFINE e == [m_cache[Slot(n)] EXCEPT !.lastTouchTick = 0,
                                           !.m_Permission = "NotPresent"]
  <1>3. m_cache' = [m_cache EXCEPT ![Slot(n)] = e]  BY Zenon DEF deallocate, Slot
  <1>4. e \in Entry /\ e.m_Permission = "NotPresent"
    BY Zenon, <1>2 DEF Entry, AccessPermission
  <1>5. m_tag_index' = [m_tag_index EXCEPT ![n] = Null]  BY DEF deallocate
  <1> HIDE DEF e
  <1> QED  BY Zenon, <1>1, <1>3, <1>4, <1>5 DEF Removed

\* lookup() rewrites the entry of its line in place.
LEMMA LookupShape ==
    ASSUME Inv, NEW n \in Lines, lookup(n)
    PROVE  \E e \in Entry : Rewritten(n, e)
  <1>1. m_tag_index[n] # Null  BY TaggedIffIndexed DEF lookup
  <1>2. /\ Slot(n) \in Slots /\ m_cache[Slot(n)] \in Entry
        /\ m_cache[Slot(n)].m_Address = n /\ Resident(Slot(n))
        /\ findTagInSet(n) = Slot(n) /\ Tagged(n)
    BY <1>1, Located DEF Slot
  <1> DEFINE e == [m_cache[Slot(n)] EXCEPT !.m_is_expired = @ \/ Decayed(m_cache[Slot(n)])]
  <1>4. m_cache' = [m_cache EXCEPT ![Slot(n)] = e]
    BY <1>2 DEF lookup, Slot
  <1>5. m_tag_index' = m_tag_index  BY DEF lookup
  <1>6. e \in Entry /\ e.m_Address = n /\ e.m_Permission # "NotPresent"
    BY Zenon, <1>2 DEF Inv, TypeOK, Entry, AccessPermission, Resident
  <1>7. Aged(n, e)  BY <1>2 DEF Aged, Entry
  <1> HIDE DEF e
  <1> QED  BY Zenon, <1>1, <1>4, <1>5, <1>6, <1>7 DEF Rewritten

\* setMRU() rewrites the entry of its line in place.
LEMMA SetMRUShape ==
    ASSUME Inv, NEW n \in Lines, setMRU(n)
    PROVE  \E e \in Entry : Rewritten(n, e)
  <1>1. m_tag_index[n] # Null  BY TaggedIffIndexed DEF setMRU
  <1>2. /\ Slot(n) \in Slots /\ m_cache[Slot(n)] \in Entry
        /\ m_cache[Slot(n)].m_Address = n /\ Resident(Slot(n))
        /\ findTagInSet(n) = Slot(n) /\ Tagged(n)
    BY <1>1, Located DEF Slot
  <1> DEFINE e == [m_cache[Slot(n)] EXCEPT 
                     !.m_is_expired = @ \/ Decayed(m_cache[Slot(n)]),
                     !.lastTouchTick = curTick, !.m_last_touch_tick = curTick]
  <1>4. m_cache' = [m_cache EXCEPT ![Slot(n)] = e]
    BY Zenon, <1>2 DEF setMRU, Slot
  <1>5. m_tag_index' = m_tag_index  BY DEF setMRU
  <1>6. e \in Entry /\ e.m_Address = n /\ e.m_Permission # "NotPresent"
    BY Zenon, <1>2 DEF Inv, TypeOK, Entry, AccessPermission, Resident
  <1>7. Aged(n, e)  BY <1>2 DEF Aged, Entry
  <1> HIDE DEF e
  <1> QED  BY Zenon, <1>1, <1>4, <1>5, <1>6, <1>7 DEF Rewritten

\* changePermission() rewrites the entry of its line in place.
LEMMA ChangePermissionShape ==
    ASSUME Inv, NEW n \in Lines, NEW permission \in Permissions, changePermission(n, permission)
    PROVE  \E e \in Entry : Rewritten(n, e)
  <1>1. m_tag_index[n] # Null  BY TaggedIffIndexed DEF changePermission
  <1>2. /\ Slot(n) \in Slots /\ m_cache[Slot(n)] \in Entry
        /\ m_cache[Slot(n)].m_Address = n /\ Resident(Slot(n))
        /\ findTagInSet(n) = Slot(n) /\ Tagged(n)
    BY <1>1, Located DEF Slot
  <1> DEFINE e == [m_cache[Slot(n)] EXCEPT !.m_Permission = permission]
  <1>4. m_cache' = [m_cache EXCEPT ![Slot(n)] = e]
    BY <1>2 DEF changePermission, Slot
  <1>5. m_tag_index' = m_tag_index  BY DEF changePermission
  <1>6. e \in Entry /\ e.m_Address = n /\ e.m_Permission # "NotPresent"
    BY <1>2, CacheAssumption DEF Inv, TypeOK, Entry, AccessPermission, Resident
  <1>7. Aged(n, e)  BY <1>2 DEF Aged, Entry
  <1> HIDE DEF e
  <1> QED  BY Zenon, <1>1, <1>4, <1>5, <1>6, <1>7 DEF Rewritten

\* A tag read rewrites the entry of its line in place, if there is one.
LEMMA TagArrayReadShape ==
    ASSUME Inv, NEW n \in Lines, m_tag_index[n] # Null, TagArrayRead(n)
    PROVE  \E e \in Entry : Rewritten(n, e)
  <1>1. m_tag_index[n] # Null  OBVIOUS
  <1>2. /\ Slot(n) \in Slots /\ m_cache[Slot(n)] \in Entry
        /\ m_cache[Slot(n)].m_Address = n /\ Resident(Slot(n))
        /\ findTagInSet(n) = Slot(n) /\ Tagged(n)
    BY <1>1, Located DEF Slot
  <1> DEFINE e == [m_cache[Slot(n)] EXCEPT !.m_last_touch_tick = curTick]
  <1>4. m_cache' = [m_cache EXCEPT ![Slot(n)] = e]
    BY <1>2 DEF TagArrayRead, Slot
  <1>5. m_tag_index' = m_tag_index  BY DEF TagArrayRead
  <1>6. e \in Entry /\ e.m_Address = n /\ e.m_Permission # "NotPresent"
    BY <1>2 DEF Inv, TypeOK, Entry, AccessPermission, Resident
  <1>7. Aged(n, e)  BY <1>2 DEF Aged, Entry
  <1> HIDE DEF e
  <1> QED  BY Zenon, <1>1, <1>4, <1>5, <1>6, <1>7 DEF Rewritten

\* A tag write rewrites the entry of its line in place.
LEMMA TagArrayWriteShape ==
    ASSUME Inv, NEW n \in Lines, TagArrayWrite(n)
    PROVE  \E e \in Entry : Rewritten(n, e)
  <1>1. m_tag_index[n] # Null  BY TaggedIffIndexed DEF TagArrayWrite
  <1>2. /\ Slot(n) \in Slots /\ m_cache[Slot(n)] \in Entry
        /\ m_cache[Slot(n)].m_Address = n /\ Resident(Slot(n))
        /\ findTagInSet(n) = Slot(n) /\ Tagged(n)
    BY <1>1, Located DEF Slot
  <1> DEFINE limit == RetentionTime[getRetentionZone(Slot(n)[1])]
  <1>3. limit \in Nat
    <2>1. Slot(n)[1] \in Sets  BY <1>2 DEF Slots
    <2> QED  BY <2>1, ZoneTyped
  <1> DEFINE e == [m_cache[Slot(n)] EXCEPT 
                     !.m_last_touch_tick = curTick, !.m_last_refresh_tick = curTick,
                     !.m_is_expired = FALSE, !.m_retention_limit = limit,
                     !.m_Permission = IF @ = "NotPresent" THEN "Invalid" ELSE @]
  <1>4. m_cache' = [m_cache EXCEPT ![Slot(n)] = e]
    BY Zenon, <1>2 DEF TagArrayWrite, Slot
  <1>5. m_tag_index' = m_tag_index  BY DEF TagArrayWrite
  <1> HIDE DEF limit
  <1>6. e \in Entry /\ e.m_Address = n /\ e.m_Permission # "NotPresent"
    BY Zenon, <1>2, <1>3 DEF Inv, TypeOK, Entry, AccessPermission, Resident
  <1>7. Aged(n, e)  BY <1>2 DEF Aged, Entry, limit
  <1> HIDE DEF e
  <1> QED  BY Zenon, <1>1, <1>4, <1>5, <1>6, <1>7 DEF Rewritten

\* A data read rewrites the entry of its line in place, or no entry.
LEMMA DataArrayReadShape ==
    ASSUME Inv, NEW n \in Lines, m_tag_index[n] # Null, DataArrayRead(n)
    PROVE  \E e \in Entry : Rewritten(n, e)
  <1>1. m_tag_index[n] # Null  OBVIOUS
  <1>2. /\ Slot(n) \in Slots /\ m_cache[Slot(n)] \in Entry
        /\ m_cache[Slot(n)].m_Address = n /\ Resident(Slot(n))
        /\ findTagInSet(n) = Slot(n) /\ Tagged(n)
    BY <1>1, Located DEF Slot
  <1> DEFINE e == [m_cache[Slot(n)] EXCEPT !.m_last_touch_tick = curTick]
  <1>4. m_cache' = [m_cache EXCEPT ![Slot(n)] = e]
    BY <1>2 DEF DataArrayRead, Slot
  <1>5. m_tag_index' = m_tag_index  BY DEF DataArrayRead
  <1>6. e \in Entry /\ e.m_Address = n /\ e.m_Permission # "NotPresent"
    BY <1>2 DEF Inv, TypeOK, Entry, AccessPermission, Resident
  <1>7. Aged(n, e)  BY <1>2 DEF Aged, Entry
  <1> HIDE DEF e
  <1> QED  BY Zenon, <1>1, <1>4, <1>5, <1>6, <1>7 DEF Rewritten

\* A data write rewrites the entry of its line in place, or no entry.
LEMMA DataArrayWriteShape ==
    ASSUME Inv, NEW n \in Lines, m_tag_index[n] # Null, DataArrayWrite(n)
    PROVE  \E e \in Entry : Rewritten(n, e)
  <1>1. m_tag_index[n] # Null  OBVIOUS
  <1>2. /\ Slot(n) \in Slots /\ m_cache[Slot(n)] \in Entry
        /\ m_cache[Slot(n)].m_Address = n /\ Resident(Slot(n))
        /\ findTagInSet(n) = Slot(n) /\ Tagged(n)
    BY <1>1, Located DEF Slot
  <1> DEFINE limit == RetentionTime[RoutedZone(n)]
  <1>3. limit \in Nat  BY RouteTyped DEF Inv
  <1> DEFINE e == [m_cache[Slot(n)] EXCEPT 
                     !.m_last_touch_tick = curTick, !.m_last_refresh_tick = curTick,
                     !.m_is_expired = FALSE, !.m_retention_limit = limit]
  <1>4. m_cache' = [m_cache EXCEPT ![Slot(n)] = e]
    BY Zenon, <1>2 DEF DataArrayWrite, Slot
  <1>5. m_tag_index' = m_tag_index  BY DEF DataArrayWrite
  <1> HIDE DEF limit
  <1>6. e \in Entry /\ e.m_Address = n /\ e.m_Permission # "NotPresent"
    BY Zenon, <1>2, <1>3 DEF Inv, TypeOK, Entry, AccessPermission, Resident
  <1>7. Aged(n, e)  BY <1>2 DEF Aged, Entry, limit
  <1> HIDE DEF e
  <1> QED  BY Zenon, <1>1, <1>4, <1>5, <1>6, <1>7 DEF Rewritten
(***************************************************************************)
(* The placement tables change only by counting a write to a page.         *)
(***************************************************************************)
RouteStep ==
    \/ UNCHANGED <<m_chunk_counters, m_chunk_redirection_table>>
    \/ \E n \in Lines : /\ m_chunk_counters' = Counted(n)
                         /\ m_chunk_redirection_table' = Redirected(n)

ClockStep == dataArray' \in [BankIds -> Nat] /\ curTick' \in Nat /\ curTick <= curTick'

\* What any step may do to the array, to the routing and to the clock.
LEMMA StepShape ==
    ASSUME Inv, Next
    PROVE  ArrayStep /\ RouteStep /\ ClockStep
  <1>0. dataArray \in [BankIds -> Nat] /\ curTick \in Nat  BY DEF Inv, TypeOK
  <1>1. ASSUME NEW n \in Lines, allocate(n)
        PROVE  ArrayStep /\ RouteStep /\ ClockStep
    <2>1. ArrayStep
      BY <1>1, AllocateReuseShape, AllocateNewShape DEF allocate, ArrayStep
    <2> QED  BY <1>0, <1>1, <2>1 DEF allocate, RouteStep, ClockStep
  <1>2. ASSUME NEW n \in Lines, deallocate(n)
        PROVE  ArrayStep /\ RouteStep /\ ClockStep
    <2>1. ArrayStep  BY <1>2, DeallocateShape DEF ArrayStep
    <2> QED  BY <1>0, <1>2, <2>1 DEF deallocate, RouteStep, ClockStep
  <1>3. ASSUME NEW n \in Lines, lookup(n)
        PROVE  ArrayStep /\ RouteStep /\ ClockStep
    <2>1. ArrayStep  BY <1>3, LookupShape DEF ArrayStep
    <2> QED  BY <1>0, <1>3, <2>1 DEF lookup, RouteStep, ClockStep
  <1>4. ASSUME NEW n \in Lines, setMRU(n)
        PROVE  ArrayStep /\ RouteStep /\ ClockStep
    <2>1. ArrayStep  BY <1>4, SetMRUShape DEF ArrayStep
    <2> QED  BY <1>0, <1>4, <2>1 DEF setMRU, RouteStep, ClockStep
  <1>5. ASSUME NEW n \in Lines, TagArrayRead(n)
        PROVE  ArrayStep /\ RouteStep /\ ClockStep
    <2>1. ArrayStep
      <3>1. CASE m_tag_index[n] # Null  BY <1>5, <3>1, TagArrayReadShape DEF ArrayStep
      <3>2. CASE m_tag_index[n] = Null
        BY <1>5, <3>2, TaggedIffIndexed DEF TagArrayRead, ArrayStep, Kept
      <3> QED  BY <3>1, <3>2
    <2> QED  BY <1>0, <1>5, <2>1 DEF TagArrayRead, RouteStep, ClockStep
  <1>6. ASSUME NEW n \in Lines, TagArrayWrite(n)
        PROVE  ArrayStep /\ RouteStep /\ ClockStep
    <2>1. ArrayStep  BY <1>6, TagArrayWriteShape DEF ArrayStep
    <2> QED  BY <1>0, <1>6, <2>1 DEF TagArrayWrite, RouteStep, ClockStep
  <1>7. ASSUME NEW n \in Lines, DataArrayRead(n)
        PROVE  ArrayStep /\ RouteStep /\ ClockStep
    <2>1. ArrayStep
      <3>1. CASE m_tag_index[n] # Null  BY <1>7, <3>1, DataArrayReadShape DEF ArrayStep
      <3>2. CASE m_tag_index[n] = Null
        BY <1>7, <3>2, TaggedIffIndexed DEF DataArrayRead, ArrayStep, Kept
      <3> QED  BY <3>1, <3>2
    <2>2. addressToCacheSet(n) \in Nat /\ ReadLatency[RoutedZone(n)] \in Nat
      BY RouteTyped DEF Inv, Sets
    <2>3. dataArray' \in [BankIds -> Nat]
      BY Zenon, <1>0, <1>7, <2>2, ReserveTyped DEF DataArrayRead
    <2> QED  BY <1>0, <1>7, <2>1, <2>3 DEF DataArrayRead, RouteStep, ClockStep
  <1>8. ASSUME NEW n \in Lines, DataArrayWrite(n)
        PROVE  ArrayStep /\ RouteStep /\ ClockStep
    <2>1. ArrayStep
      <3>1. CASE m_tag_index[n] # Null  BY <1>8, <3>1, DataArrayWriteShape DEF ArrayStep
      <3>2. CASE m_tag_index[n] = Null
        BY <1>8, <3>2, TaggedIffIndexed DEF DataArrayWrite, ArrayStep, Kept
      <3> QED  BY <3>1, <3>2
    <2>2. /\ Route(n, Counted(n), Redirected(n)) \in Nat
          /\ WriteLatency[RoutedZone(n)] \in Nat
      BY RouteTyped, CountTyped DEF Inv, Sets
    <2>3. dataArray' \in [BankIds -> Nat]
      BY <1>0, <1>8, <2>2, ReserveTyped DEF DataArrayWrite
    <2>4. RouteStep  BY <1>8 DEF DataArrayWrite, RouteStep
    <2> QED  BY <1>0, <1>8, <2>1, <2>3, <2>4 DEF DataArrayWrite, ClockStep
  <1>9. ASSUME NEW n \in Lines, NEW permission \in Permissions,
               changePermission(n, permission)
        PROVE  ArrayStep /\ RouteStep /\ ClockStep
    <2>1. ArrayStep  BY <1>9, ChangePermissionShape DEF ArrayStep
    <2> QED  BY <1>0, <1>9, <2>1 DEF changePermission, RouteStep, ClockStep
  <1>10. CASE Tick
    BY <1>0, <1>10 DEF Tick, ArrayStep, Kept, RouteStep, ClockStep
  <1> QED  BY <1>1, <1>2, <1>3, <1>4, <1>5, <1>6, <1>7, <1>8, <1>9, <1>10 DEF Next

-----------------------------------------------------------------------------
(***************************************************************************)
(* The inductive invariant.                                                *)
(***************************************************************************)
LEMMA NewEntryTyped ==
    ASSUME TypeOK, NEW n \in Lines, NEW s \in Sets
    PROVE  NewEntry(n, s) \in Entry
  <1>1. RetentionTime[getRetentionZone(s)] \in Nat  BY ZoneTyped
  <1> QED  BY <1>1 DEF TypeOK, NewEntry, Entry, AccessPermission

\* The empty array satisfies the invariant.
LEMMA InvInit == Init => Inv
  <1> SUFFICES ASSUME Init PROVE Inv  OBVIOUS
  <1>1. TypeOK  BY GeometryAssumption DEF Init, TypeOK
  <1>2. TagInv  BY DEF Init, TagInv, Resident
  <1> QED  BY <1>1, <1>2 DEF Inv

\* Every step keeps the types.
LEMMA TypeStep ==
    ASSUME Inv, Next
    PROVE  TypeOK'
  <1>1. ArrayStep /\ RouteStep /\ ClockStep  BY StepShape
  <1>2. /\ m_chunk_counters' \in [Pages -> 0 .. CounterMax]
        /\ m_chunk_redirection_table' \in [Pages -> Nat \union {Null}]
    BY <1>1, CountTyped DEF RouteStep, Inv, TypeOK
  <1> DEFINE Typed == /\ m_cache' \in [Slots -> Entry \union {Null}]
                      /\ m_tag_index' \in [Lines -> Nat \union {Null}]
  <1>3. Typed
    <2>1. CASE Kept  BY <2>1 DEF Kept, Inv, TypeOK
    <2>2. ASSUME NEW n \in Lines, NEW e \in Entry, Rewritten(n, e)
          PROVE  Typed
      BY <2>2, Located DEF Rewritten, Inv, TypeOK, Slot
    <2>3. ASSUME NEW n \in Lines, NEW slot \in Slots, Inserted(n, slot)
          PROVE  Typed
      <3>1. slot[1] \in Sets  BY DEF Slots
      <3>2. NewEntry(n, slot[1]) \in Entry  BY <3>1, NewEntryTyped DEF Inv
      <3> QED  BY <2>3, <3>2, DecodeEncode DEF Inserted, Inv, TypeOK
    <2>4. ASSUME NEW n \in Lines, NEW e \in Entry, Removed(n, e)
          PROVE  Typed
      BY <2>4, Located DEF Removed, Inv, TypeOK, Slot
    <2> HIDE DEF Typed
    <2> QED  BY <1>1, <2>1, <2>2, <2>3, <2>4 DEF ArrayStep
  <1> QED  BY <1>1, <1>2, <1>3 DEF ClockStep, TypeOK
\* Every step keeps the tag index and the array in agreement.
LEMMA TagStep ==
    ASSUME Inv, Next
    PROVE  TagInv'
  <1>1. ArrayStep  BY StepShape
  <1>2. CASE Kept  BY <1>2 DEF Kept, Inv, TagInv, Resident
  <1>3. ASSUME NEW n \in Lines, NEW e \in Entry, Rewritten(n, e)
        PROVE  TagInv'
    <2>1. /\ Slot(n) \in Slots /\ m_tag_index[n] = Encode(Slot(n))
          /\ m_cache[Slot(n)].m_Address = n /\ Resident(Slot(n))
      BY <1>3, Located DEF Rewritten, Slot
    <2>2. \A t \in Slots : /\ Resident(t)' <=> Resident(t)
                           /\ Resident(t) => m_cache'[t].m_Address = m_cache[t].m_Address
      <3> TAKE t \in Slots
      <3>1. CASE t = Slot(n)
        BY <1>3, <2>1, <3>1, NullAssumption DEF Rewritten, Resident, Inv, TypeOK
      <3>2. CASE t # Slot(n)
        BY <1>3, <2>1, <3>2 DEF Rewritten, Resident, Inv, TypeOK
      <3> QED  BY <3>1, <3>2
    <2>3. m_tag_index' = m_tag_index  BY <1>3 DEF Rewritten
    <2> QED  BY <2>2, <2>3 DEF Inv, TagInv
  <1>4. ASSUME NEW n \in Lines, NEW slot \in Slots, Inserted(n, slot)
        PROVE  TagInv'
    <2>1. m_cache'[slot].m_Address = n /\ Resident(slot)'
      <3>1. m_cache'[slot] = NewEntry(n, slot[1])  BY <1>4 DEF Inserted, Inv, TypeOK
      <3>2. slot[1] \in Sets  BY DEF Slots
      <3>3. NewEntry(n, slot[1]) # Null  BY <3>2, NewEntryTyped, NullAssumption DEF Inv
      <3> QED  BY <3>1, <3>3 DEF NewEntry, Resident
    <2>2. \A t \in Slots : t # slot => m_cache'[t] = m_cache[t]
      BY <1>4 DEF Inserted, Inv, TypeOK
    <2>3. /\ m_tag_index'[n] = Encode(slot)
          /\ \A a \in Lines : a # n => m_tag_index'[a] = m_tag_index[a]
      BY <1>4 DEF Inserted, Inv, TypeOK
    <2>4. ASSUME NEW a \in Lines, m_tag_index'[a] # Null
          PROVE  \E t \in Slots : /\ m_tag_index'[a] = Encode(t)
                                  /\ Resident(t)' /\ m_cache'[t].m_Address = a
      <3>1. CASE a = n  BY <2>1, <2>3, <3>1
      <3>2. CASE a # n
        <4>1. PICK t \in Slots : /\ m_tag_index[a] = Encode(t)
                                 /\ Resident(t) /\ m_cache[t].m_Address = a
          BY <2>3, <2>4, <3>2 DEF Inv, TagInv
        <4>2. t # slot  BY <1>4, <4>1 DEF Inserted
        <4> QED  BY <2>2, <2>3, <3>2, <4>1, <4>2 DEF Resident
      <3> QED  BY <3>1, <3>2
    <2>5. ASSUME NEW t \in Slots, Resident(t)'
          PROVE  m_tag_index'[m_cache'[t].m_Address] = Encode(t)
      <3>1. CASE t = slot  BY <2>1, <2>3, <3>1
      <3>2. CASE t # slot
        <4>1. Resident(t) /\ m_cache'[t] = m_cache[t]  BY <2>2, <2>5, <3>2 DEF Resident
        <4>2. m_tag_index[m_cache[t].m_Address] = Encode(t)
          BY <4>1 DEF Inv, TagInv
        <4>3. m_cache[t].m_Address \in Lines
          BY <4>1 DEF Inv, TypeOK, Entry, Resident
        <4>4. m_cache[t].m_Address # n
          BY <1>4, <4>2, DecodeEncode, GeometryAssumption DEF Inserted
        <4> QED  BY <2>3, <4>1, <4>2, <4>3, <4>4
      <3> QED  BY <3>1, <3>2
    <2> QED  BY <2>4, <2>5 DEF TagInv
  <1>5. ASSUME NEW n \in Lines, NEW e \in Entry, Removed(n, e)
        PROVE  TagInv'
    <2>1. PICK slot \in Slots : /\ slot = Slot(n) /\ m_tag_index[n] = Encode(slot)
                                /\ m_cache[slot].m_Address = n
      BY <1>5, Located DEF Removed, Slot
    <2>2. ~Resident(slot)'
      BY <1>5, <2>1 DEF Removed, Resident, Inv, TypeOK
    <2>3. \A t \in Slots : t # slot => m_cache'[t] = m_cache[t]
      BY <1>5, <2>1 DEF Removed, Inv, TypeOK
    <2>4. /\ m_tag_index'[n] = Null
          /\ \A a \in Lines : a # n => m_tag_index'[a] = m_tag_index[a]
      BY <1>5 DEF Removed, Inv, TypeOK
    <2>5. ASSUME NEW a \in Lines, m_tag_index'[a] # Null
          PROVE  \E t \in Slots : /\ m_tag_index'[a] = Encode(t)
                                  /\ Resident(t)' /\ m_cache'[t].m_Address = a
      <3>1. a # n  BY <2>4, <2>5
      <3>2. PICK t \in Slots : /\ m_tag_index[a] = Encode(t)
                               /\ Resident(t) /\ m_cache[t].m_Address = a
        BY <2>4, <2>5, <3>1 DEF Inv, TagInv
      <3>3. t # slot  BY <2>1, <3>1, <3>2
      <3> QED  BY <2>3, <2>4, <3>1, <3>2, <3>3 DEF Resident
    <2>6. ASSUME NEW t \in Slots, Resident(t)'
          PROVE  m_tag_index'[m_cache'[t].m_Address] = Encode(t)
      <3>1. t # slot  BY <2>2, <2>6
      <3>2. Resident(t) /\ m_cache'[t] = m_cache[t]  BY <2>3, <2>6, <3>1 DEF Resident
      <3>3. m_tag_index[m_cache[t].m_Address] = Encode(t)  BY <3>2 DEF Inv, TagInv
      <3>4. m_cache[t].m_Address \in Lines
        BY <3>2 DEF Inv, TypeOK, Entry, Resident
      <3>5. m_cache[t].m_Address # n  BY <2>1, <3>1, <3>3, DecodeEncode
      <3> QED  BY <2>4, <3>2, <3>3, <3>4, <3>5
    <2> QED  BY <2>5, <2>6 DEF TagInv
  <1> QED  BY <1>1, <1>2, <1>3, <1>4, <1>5 DEF ArrayStep

\* The invariant is inductive.
LEMMA InvStep == Inv /\ [Next]_vars => Inv'
  <1> SUFFICES ASSUME Inv, [Next]_vars PROVE Inv'  OBVIOUS
  <1>1. CASE Next  BY <1>1, TypeStep, TagStep DEF Inv
  <1>2. CASE UNCHANGED vars
    BY <1>2 DEF vars, Inv, TypeOK, TagInv, Resident
  <1> QED  BY <1>1, <1>2

\* The inductive invariant (types, and agreement of the tag index with the
\* array) holds in every state that the operations of CacheMemory reach.
THEOREM Invariance == Spec => []Inv
  BY InvInit, InvStep, PTL DEF Spec

(***************************************************************************)
(* Type correctness of the array and its tables.                           *)
(***************************************************************************)
THEOREM TypeCorrect == Spec => []TypeOK
  <1>1. Inv => TypeOK  BY DEF Inv
  <1> QED  BY <1>1, Invariance, PTL

(***************************************************************************)
(* The tag index and the array agree in every reachable state, for every   *)
(* geometry and every history of walks and jumps: lookup() finds each      *)
(* resident line, and finds one copy of it.                                *)
(***************************************************************************)
THEOREM TagIndexCorrect == Spec => []TagIndexConsistent
  <1>1. Inv => TagIndexConsistent
    BY Located DEF Inv, TagInv, TagIndexConsistent
  <1> QED  BY <1>1, Invariance, PTL

-----------------------------------------------------------------------------
(***************************************************************************)
(* What an array step does to the other slots and to the one it touches.   *)
(***************************************************************************)
LEMMA ArrayStepCases ==
    ASSUME Inv, Next, NEW t \in Slots, Resident(t)'
    PROVE  \/ Resident(t) /\ m_cache'[t] = m_cache[t]
           \/ \E n \in Lines : \E e \in Entry :
                 /\ Rewritten(n, e) /\ t = Slot(n) /\ m_cache'[t] = e /\ Resident(t)
           \/ \E n \in Lines : Inserted(n, t) /\ m_cache'[t] = NewEntry(n, t[1])
  <1>1. ArrayStep  BY StepShape
  <1>2. CASE Kept  BY <1>2 DEF Kept, Resident
  <1>3. ASSUME NEW n \in Lines, NEW e \in Entry, Rewritten(n, e)
        PROVE  \/ Resident(t) /\ m_cache'[t] = m_cache[t]
               \/ /\ t = Slot(n) /\ m_cache'[t] = e /\ Resident(t)
    <2>1. Slot(n) \in Slots /\ Resident(Slot(n))  BY <1>3, Located DEF Rewritten, Slot
    <2>2. CASE t = Slot(n)  BY <1>3, <2>1, <2>2 DEF Rewritten, Inv, TypeOK
    <2>3. CASE t # Slot(n)  BY <1>3, <2>1, <2>3 DEF Rewritten, Inv, TypeOK, Resident
    <2> QED  BY <2>2, <2>3
  <1>4. ASSUME NEW n \in Lines, NEW slot \in Slots, Inserted(n, slot)
        PROVE  \/ Resident(t) /\ m_cache'[t] = m_cache[t]
               \/ Inserted(n, t) /\ m_cache'[t] = NewEntry(n, t[1])
    <2>1. CASE t = slot  BY Zenon, <1>4, <2>1 DEF Inserted, Inv, TypeOK
    <2>2. CASE t # slot  BY <1>4, <2>2 DEF Inserted, Inv, TypeOK, Resident
    <2> QED  BY <2>1, <2>2
  <1>5. ASSUME NEW n \in Lines, NEW e \in Entry, Removed(n, e)
        PROVE  Resident(t) /\ m_cache'[t] = m_cache[t]
    <2>1. Slot(n) \in Slots  BY <1>5, Located DEF Removed, Slot
    <2>2. t # Slot(n)
      BY <1>5, <2>1 DEF Removed, Inv, TypeOK, Resident
    <2> QED  BY <1>5, <2>1, <2>2 DEF Removed, Inv, TypeOK, Resident
  <1> QED  BY <1>1, <1>2, <1>3, <1>4, <1>5 DEF ArrayStep

-----------------------------------------------------------------------------
\* lookup() flags only decayed entries, and every refresh clears the flag.
LEMMA ExpiryStep == Inv /\ NoFalseExpiry /\ [Next]_vars => NoFalseExpiry'
  <1> SUFFICES ASSUME Inv, NoFalseExpiry, [Next]_vars PROVE NoFalseExpiry'  OBVIOUS
  <1>1. CASE UNCHANGED vars  BY <1>1 DEF vars, NoFalseExpiry, Resident
  <1>2. CASE Next
    <2> SUFFICES ASSUME NEW t \in Slots, Resident(t)', m_cache'[t].m_is_expired
                 PROVE  curTick' > m_cache'[t].m_last_refresh_tick +
                                   m_cache'[t].m_retention_limit
      BY DEF NoFalseExpiry
    <2>1. ClockStep /\ curTick \in Nat  BY <1>2, StepShape DEF Inv, TypeOK
    <2>2. CASE Resident(t) /\ m_cache'[t] = m_cache[t]
      <3>1. /\ m_cache[t].m_last_refresh_tick \in Nat
            /\ m_cache[t].m_retention_limit \in Nat
        BY <2>2 DEF Inv, TypeOK, Resident, Entry
      <3>2. curTick > m_cache[t].m_last_refresh_tick + m_cache[t].m_retention_limit
        BY <2>2 DEF NoFalseExpiry
      <3> QED  BY <2>1, <2>2, <3>1, <3>2 DEF ClockStep
    <2>3. ASSUME NEW n \in Lines, NEW e \in Entry,
                 Rewritten(n, e), t = Slot(n), m_cache'[t] = e, Resident(t)
          PROVE  curTick' > e.m_last_refresh_tick + e.m_retention_limit
      <3>1. /\ e.m_last_refresh_tick = m_cache[t].m_last_refresh_tick
            /\ e.m_retention_limit = m_cache[t].m_retention_limit
            /\ m_cache[t].m_is_expired \/ Decayed(m_cache[t])
        BY <2>3 DEF Rewritten, Aged
      <3>2. curTick > e.m_last_refresh_tick + e.m_retention_limit
        BY <2>3, <3>1 DEF NoFalseExpiry, Decayed
      <3>3. e.m_last_refresh_tick \in Nat /\ e.m_retention_limit \in Nat
        BY DEF Entry
      <3> QED  BY <2>1, <3>2, <3>3 DEF ClockStep
    <2>4. ASSUME NEW n \in Lines, m_cache'[t] = NewEntry(n, t[1])
          PROVE  FALSE
      BY <2>4 DEF NewEntry
    <2> QED  BY <1>2, <2>2, <2>3, <2>4, ArrayStepCases
  <1> QED  BY <1>1, <1>2

(***************************************************************************)
(* lookup() never condemns a healthy block, and no refresh leaves a stale  *)
(* flag behind, for every latency, retention time and run of the clock.    *)
(***************************************************************************)
THEOREM ExpiryCorrect == Spec => []NoFalseExpiry
  <1>1. Init => NoFalseExpiry  BY DEF Init, NoFalseExpiry, Resident
  <1> QED  BY <1>1, ExpiryStep, Invariance, PTL DEF Spec

-----------------------------------------------------------------------------
(***************************************************************************)
(* A write counts for its own page only, and not once it is redirected.    *)
(***************************************************************************)
LEMMA RouteStepCases ==
    ASSUME Inv, Next, NEW n \in Lines
    PROVE  \/ /\ m_chunk_counters'[PageOf(n)] = m_chunk_counters[PageOf(n)]
              /\ m_chunk_redirection_table'[PageOf(n)] =
                 m_chunk_redirection_table[PageOf(n)]
           \/ Lazy /\ m_chunk_redirection_table[PageOf(n)] = Null
  <1>1. RouteStep  BY StepShape
  <1>2. CASE UNCHANGED <<m_chunk_counters, m_chunk_redirection_table>>  BY <1>2
  <1>3. ASSUME NEW m \in Lines, m_chunk_counters' = Counted(m),
               m_chunk_redirection_table' = Redirected(m)
        PROVE  \/ /\ m_chunk_counters'[PageOf(n)] = m_chunk_counters[PageOf(n)]
                  /\ m_chunk_redirection_table'[PageOf(n)] =
                     m_chunk_redirection_table[PageOf(n)]
               \/ Lazy /\ m_chunk_redirection_table[PageOf(n)] = Null
    <2>1. CASE PageOf(m) = PageOf(n)
      BY <1>3, <2>1 DEF Counted, Redirected
    <2>2. CASE PageOf(m) # PageOf(n)
      BY <1>3, <2>2, PageTyped DEF Counted, Redirected, Inv, TypeOK
    <2> QED  BY <2>1, <2>2
  <1> QED  BY <1>1, <1>2, <1>3 DEF RouteStep

\* A line's route depends on the counter and the redirection of its page only.
LEMMA RouteIsLocal ==
    ASSUME NEW n, NEW c, NEW d, NEW r, NEW q,
           c[PageOf(n)] = d[PageOf(n)], r[PageOf(n)] = q[PageOf(n)]
    PROVE  Route(n, c, r) = Route(n, d, q)
  BY DEF Route

(***************************************************************************)
(* A redirected page has settled, whatever any later step does.            *)
(***************************************************************************)
THEOREM RoutesSettle == Spec => RouteSettles
  <1> DEFINE Settled == \A n \in Lines : m_chunk_redirection_table[PageOf(n)] # Null =>
                           addressToCacheSet(n)' = addressToCacheSet(n)
  <1>1. Inv /\ [Next]_vars => [Settled]_vars
    <2> SUFFICES ASSUME Inv, Next, NEW n \in Lines,
                        m_chunk_redirection_table[PageOf(n)] # Null
                 PROVE  addressToCacheSet(n)' = addressToCacheSet(n)
      OBVIOUS
    <2>1. /\ m_chunk_counters'[PageOf(n)] = m_chunk_counters[PageOf(n)]
          /\ m_chunk_redirection_table'[PageOf(n)] = m_chunk_redirection_table[PageOf(n)]
      BY RouteStepCases
    <2> QED  BY <2>1, RouteIsLocal DEF addressToCacheSet
  <1> QED  BY <1>1, Invariance, PTL DEF Spec, RouteSettles
-----------------------------------------------------------------------------
(***************************************************************************)
(* Where a line's zones are: a line of a page that is not redirected is    *)
(* routed to the zone of its index bits; redirection is for ever.          *)
(***************************************************************************)
LEMMA RoutedZoneBounds ==
    ASSUME TypeOK, NEW n \in Lines
    PROVE  /\ RoutedZone(n) \in Zones
           /\ getRetentionZone(getDefaultSet(n)) \in Zones
           /\ RoutedZone(n) <= getRetentionZone(getDefaultSet(n))
           /\ (~Lazy \/ m_chunk_redirection_table[PageOf(n)] = Null) =>
                 RoutedZone(n) = getRetentionZone(getDefaultSet(n))
  <1>1. /\ m_chunk_counters[PageOf(n)] \in Nat
        /\ m_chunk_redirection_table[PageOf(n)] \in Nat \union {Null}
    BY PageTyped DEF TypeOK
  <1> QED
    BY <1>1, PageTyped, RouteGoesDown, RouteKeepsZone DEF RoutedZone, addressToCacheSet

\* A step changes the zone a line is routed to only by redirecting its page.
LEMMA RoutedZoneStep ==
    ASSUME Inv, Next, NEW n \in Lines
    PROVE  \/ RoutedZone(n)' = RoutedZone(n)
           \/ /\ Lazy
              /\ m_chunk_redirection_table[PageOf(n)] = Null
              /\ m_chunk_redirection_table'[PageOf(n)] # Null
  <1>1. CASE /\ m_chunk_counters'[PageOf(n)] = m_chunk_counters[PageOf(n)]
             /\ m_chunk_redirection_table'[PageOf(n)] =
                m_chunk_redirection_table[PageOf(n)]
    BY <1>1, RouteIsLocal DEF RoutedZone, addressToCacheSet
  <1>2. CASE /\ Lazy
             /\ m_chunk_redirection_table[PageOf(n)] = Null
             /\ m_chunk_redirection_table'[PageOf(n)] = Null
    <2>1. TypeOK /\ TypeOK'  BY TypeStep DEF Inv
    <2>2. /\ m_chunk_counters[PageOf(n)] \in Nat
          /\ m_chunk_counters'[PageOf(n)] \in Nat
      BY <2>1, PageTyped DEF TypeOK
    <2> QED
      BY <1>2, <2>2, PageTyped, RouteKeepsZone DEF RoutedZone, addressToCacheSet
  <1> QED  BY <1>1, <1>2, RouteStepCases

\* A page that is redirected stays redirected.
LEMMA RedirectionStays ==
    ASSUME Inv, Next, NEW n \in Lines, m_chunk_redirection_table[PageOf(n)] # Null
    PROVE  /\ m_chunk_redirection_table'[PageOf(n)] # Null
           /\ RoutedZone(n)' = RoutedZone(n)
  BY RouteStepCases, RoutedZoneStep

\* Every step keeps PlacementZone.
LEMMA PlacementStep == Inv /\ PlacementZone /\ [Next]_vars => PlacementZone'
  <1> SUFFICES ASSUME Inv, PlacementZone, [Next]_vars PROVE PlacementZone'  OBVIOUS
  <1>1. CASE UNCHANGED vars
    BY <1>1 DEF vars, PlacementZone, Resident, RoutedZone, addressToCacheSet
  <1>2. CASE Next
    <2> DEFINE Placed(t, n) ==
          \/ getRetentionZone(t[1]) = RoutedZone(n)
          \/ /\ Lazy
             /\ m_chunk_redirection_table[PageOf(n)] # Null
             /\ getRetentionZone(t[1]) = getRetentionZone(getDefaultSet(n))
    <2>1. ASSUME NEW t \in Slots, NEW n \in Lines, Placed(t, n)  PROVE Placed(t, n)'
      <3>1. CASE RoutedZone(n)' = RoutedZone(n)
        BY <1>2, <2>1, <3>1, RedirectionStays
      <3>2. CASE /\ Lazy
                 /\ m_chunk_redirection_table[PageOf(n)] = Null
                 /\ m_chunk_redirection_table'[PageOf(n)] # Null
        BY <2>1, <3>2, RoutedZoneBounds DEF Inv
      <3> QED  BY <1>2, <3>1, <3>2, RoutedZoneStep
    <2>2. ASSUME NEW t \in Slots, Resident(t)'
          PROVE  Placed(t, m_cache[t].m_Address)'
      <3>1. CASE Resident(t) /\ m_cache'[t] = m_cache[t]
        <4>1. PICK n \in Lines : n = m_cache[t].m_Address
          BY <3>1 DEF Inv, TypeOK, Resident, Entry
        <4>2. Placed(t, n)  BY <3>1, <4>1 DEF PlacementZone
        <4>3. Placed(t, n)'  BY <2>1, <4>2
        <4> QED  BY <3>1, <4>1, <4>3
      <3>2. ASSUME NEW n \in Lines, NEW e \in Entry,
                   Rewritten(n, e), t = Slot(n), m_cache'[t] = e, Resident(t)
            PROVE  Placed(t, m_cache[t].m_Address)'
        <4>1. m_cache[t].m_Address = n  BY <3>2, Located DEF Rewritten, Slot
        <4>2. Placed(t, n)  BY <3>2, <4>1 DEF PlacementZone
        <4>3. Placed(t, n)'  BY <2>1, <4>2
        <4> QED  BY <3>2, <4>3 DEF Rewritten
      <3>3. ASSUME NEW n \in Lines, Inserted(n, t), m_cache'[t] = NewEntry(n, t[1])
            PROVE  Placed(t, m_cache[t].m_Address)'
        <4>1. Placed(t, n)  BY <3>3 DEF Inserted, RoutedZone
        <4>2. Placed(t, n)'  BY <2>1, <4>1
        <4> QED  BY <3>3, <4>2 DEF NewEntry
      <3> QED  BY <1>2, <2>2, <3>1, <3>2, <3>3, ArrayStepCases
    <2> QED  BY <2>2 DEF PlacementZone
  <1> QED  BY <1>1, <1>2

(***************************************************************************)
(* A block never strays beyond the zone its line is routed to now and the  *)
(* zone of its index bits, for every number of sets and every counter.     *)
(***************************************************************************)
THEOREM PlacementCorrect == Spec => []PlacementZone
  <1>1. Init => PlacementZone  BY DEF Init, PlacementZone, Resident
  <1> QED  BY <1>1, PlacementStep, Invariance, PTL DEF Spec
-----------------------------------------------------------------------------
\* Every step keeps the limit of a resident entry at or below its bound.
LEMMA LimitStep ==
    Inv /\ PlacementZone /\ RetentionNeverOverstated /\ [Next]_vars
        => RetentionNeverOverstated'
  <1> SUFFICES ASSUME Inv, PlacementZone, RetentionNeverOverstated, [Next]_vars
               PROVE  RetentionNeverOverstated'
    OBVIOUS
  <1>1. CASE UNCHANGED vars  BY <1>1 DEF vars, RetentionNeverOverstated, Resident
  <1>2. CASE Next
    <2> SUFFICES ASSUME NEW t \in Slots, Resident(t)'
                 PROVE  m_cache'[t].m_retention_limit <=
                        RetentionTime[getRetentionZone(t[1])]
      BY DEF RetentionNeverOverstated
    <2>1. /\ getRetentionZone(t[1]) \in Zones
          /\ RetentionTime[getRetentionZone(t[1])] \in Nat
      <3>1. t[1] \in Sets  BY DEF Slots
      <3> QED  BY <3>1, ZoneTyped
    <2>2. CASE Resident(t) /\ m_cache'[t] = m_cache[t]
      BY <2>2 DEF RetentionNeverOverstated
    <2>3. ASSUME NEW n \in Lines, NEW e \in Entry,
                 Rewritten(n, e), t = Slot(n), m_cache'[t] = e, Resident(t)
          PROVE  e.m_retention_limit <= RetentionTime[getRetentionZone(t[1])]
      <3>1. m_cache[t].m_Address = n  BY <2>3, Located DEF Rewritten, Slot
      <3>2. RoutedZone(n) \in Zones /\ RoutedZone(n) <= getRetentionZone(t[1])
        <4>1. \/ getRetentionZone(t[1]) = RoutedZone(n)
              \/ getRetentionZone(t[1]) = getRetentionZone(getDefaultSet(n))
          BY <2>3, <3>1 DEF PlacementZone
        <4>2. /\ RoutedZone(n) \in Zones
              /\ RoutedZone(n) <= getRetentionZone(getDefaultSet(n))
          BY RoutedZoneBounds DEF Inv
        <4> QED  BY <4>1, <4>2 DEF Zones
      <3>3. RetentionTime[RoutedZone(n)] <= RetentionTime[getRetentionZone(t[1])]
        BY <2>1, <3>2, ZoneOrderAssumption
      <3>4. CASE e.m_retention_limit = m_cache[t].m_retention_limit
        BY <2>3, <3>4 DEF RetentionNeverOverstated
      <3>5. CASE e.m_retention_limit \in {RetentionTime[getRetentionZone(t[1])],
                                         RetentionTime[RoutedZone(n)]}
        BY <2>1, <3>3, <3>5
      <3> QED  BY <2>3, <3>4, <3>5 DEF Rewritten, Aged
    <2>4. ASSUME NEW n \in Lines, m_cache'[t] = NewEntry(n, t[1])
          PROVE  m_cache'[t].m_retention_limit <= RetentionTime[getRetentionZone(t[1])]
      BY <2>1, <2>4 DEF NewEntry
    <2> QED  BY <1>2, <2>2, <2>3, <2>4, ArrayStepCases
  <1> QED  BY <1>1, <1>2

(***************************************************************************)
(* No block is trusted for longer than its cells hold their charge: the    *)
(* limit a write takes from the routed set is never above that of the slot *)
(* the block is in, because a jump only ever shortens retention.           *)
(***************************************************************************)
THEOREM RetentionCorrect == Spec => []RetentionNeverOverstated
  <1>1. Init => RetentionNeverOverstated
    BY DEF Init, RetentionNeverOverstated, Resident
  <1> QED  BY <1>1, LimitStep, PlacementCorrect, Invariance, PTL DEF Spec

-----------------------------------------------------------------------------
\* The resident lines are the lines that the tag index has.
LEMMA ResidentIndexed == Inv => ResidentLines = {n \in Lines : m_tag_index[n] # Null}
  BY TaggedIffIndexed DEF ResidentLines

\* Every step is a step of the block store or leaves it alone.
LEMMA StoreStep ==
    ASSUME Inv, Next, ResidentLines = {n \in Lines : m_tag_index[n] # Null},
           ResidentLines' = {n \in Lines : m_tag_index'[n] # Null}
    PROVE  Store!Next \/ UNCHANGED ResidentLines
  <1>1. ArrayStep  BY StepShape
  <1>2. m_tag_index \in [Lines -> Nat \union {Null}]  BY DEF Inv, TypeOK
  <1>3. CASE m_tag_index' = m_tag_index  BY <1>3
  <1>4. ASSUME NEW n \in Lines, NEW slot \in Slots, Inserted(n, slot)
        PROVE  Store!Next
    <2>1. Encode(slot) # Null  BY DecodeEncode, GeometryAssumption
    <2>2. ResidentLines' = ResidentLines \union {n}
      BY <1>2, <1>4, <2>1 DEF Inserted
    <2> QED  BY <2>2 DEF Store!Next, Store!Insert
  <1>5. ASSUME NEW n \in Lines, NEW e \in Entry, Removed(n, e)
        PROVE  Store!Next
    <2>1. ResidentLines' = ResidentLines \ {n}
      BY <1>2, <1>5 DEF Removed
    <2> QED  BY <2>1 DEF Store!Next, Store!Remove
  <1> QED  BY <1>1, <1>3, <1>4, <1>5 DEF ArrayStep, Kept, Rewritten

(***************************************************************************)
(* The array implements the abstract store: a line becomes resident only   *)
(* by its own allocation and ceases to be only by its own deallocation,    *)
(* although blocks share slots, stale entries keep their addresses and the *)
(* routing of a page changes under its blocks.                             *)
(***************************************************************************)
THEOREM StoreRefinement == Spec => ImplementsBlockStore
  <1>1. Init => Store!Init
    <2> SUFFICES ASSUME Init PROVE Store!Init  OBVIOUS
    <2>1. \A n \in Lines : ~isTagPresent(n)
      BY DEF Init, isTagPresent, findTagInSet, Tagged, findTagInSetIgnorePermissions
    <2> QED  BY <2>1 DEF Store!Init, ResidentLines
  <1>2. Inv' => (ResidentLines = {n \in Lines : m_tag_index[n] # Null})'
    BY ResidentIndexed, PTL
  <1>3. Inv /\ Inv' /\ [Next]_vars => [Store!Next]_ResidentLines
    <2> SUFFICES ASSUME Inv, Inv', [Next]_vars PROVE [Store!Next]_ResidentLines
      OBVIOUS
    <2>1. /\ ResidentLines = {n \in Lines : m_tag_index[n] # Null}
          /\ ResidentLines' = {n \in Lines : m_tag_index'[n] # Null}
      BY <1>2, ResidentIndexed
    <2>2. CASE Next  BY <2>1, <2>2, StoreStep
    <2>3. CASE UNCHANGED vars  BY <2>1, <2>3 DEF vars
    <2> QED  BY <2>2, <2>3
  <1> QED
    BY <1>1, <1>3, Invariance, PTL DEF Spec, ImplementsBlockStore, Store!Spec
-----------------------------------------------------------------------------
(***************************************************************************)
(* Victim selection always comes to a way of the set.                      *)
(***************************************************************************)
LEMMA OldestExists ==
    ASSUME NEW ways \in SUBSET Nat, ways # {}, NEW tick, \A w \in ways : tick[w] \in Nat
    PROVE  FirstOldest(ways, tick) \in ways
  <1> DEFINE T == {tick[w] : w \in ways}
  <1>1. T \in SUBSET Nat /\ T # {}  BY Zenon
  <1>2. PICK t \in T : \A u \in T : t <= u  BY Zenon, <1>1, LeastNatural
  <1> DEFINE U == {w \in ways : tick[w] = t}
  <1>3. U \in SUBSET Nat /\ U # {}  BY Zenon, <1>2
  <1>4. PICK w \in U : \A v \in U : w <= v  BY Zenon, <1>3, LeastNatural
  <1>5. ASSUME NEW v \in ways
        PROVE  tick[w] < tick[v] \/ (tick[w] = tick[v] /\ w <= v)
    <2>1. /\ t <= tick[v] /\ tick[w] = t
          /\ t \in Nat /\ tick[v] \in Nat
      BY <1>1, <1>2, <1>4
    <2>2. CASE tick[v] = t  BY Zenon, <1>4, <2>1, <2>2
    <2>3. CASE tick[v] # t  BY <2>1, <2>3
    <2> QED  BY <2>2, <2>3
  <1> QED  BY Zenon, <1>4, <1>5 DEF FirstOldest

\* The way that cacheProbe() picks is a way of the set, Busy only if all are.
LEMMA VictimInSet ==
    ASSUME Inv, NEW s \in Sets, \A w \in Ways : m_cache[<<s, w>>] \in Entry
    PROVE  /\ VictimWay(s) \in Ways
           /\ NotBusyWays(s) # {} => VictimWay(s) \in NotBusyWays(s)
  <1>1. Ways \in SUBSET Nat /\ 0 \in Ways  BY CacheAssumption DEF Ways
  <1>2. getVictim(s) \in Ways
    <2> DEFINE tick == [w \in Ways |-> m_cache[<<s, w>>].lastTouchTick]
    <2>1. \A w \in Ways : tick[w] \in Nat  BY DEF Entry
    <2> HIDE DEF tick
    <2>2. FirstOldest(Ways, tick) \in Ways  BY <1>1, <2>1, OldestExists
    <2> QED  BY <2>2 DEF getVictim, tick
  <1>3. NotBusyWays(s) # {} => OldestNotBusy(s) \in NotBusyWays(s)
    <2> DEFINE tick == [w \in Ways |-> m_cache[<<s, w>>].m_last_touch_tick]
    <2>1. \A w \in Ways : tick[w] \in Nat  BY DEF Entry
    <2>2. NotBusyWays(s) \subseteq Ways  BY DEF NotBusyWays
    <2> HIDE DEF tick
    <2>3. NotBusyWays(s) # {} => FirstOldest(NotBusyWays(s), tick) \in NotBusyWays(s)
      BY <1>1, <2>1, <2>2, OldestExists
    <2> QED  BY <2>3 DEF OldestNotBusy, tick
  <1>4. CASE ExpiredWays(s) # {}
    <2>1. ExpiredWays(s) \in SUBSET Nat /\ ExpiredWays(s) \subseteq NotBusyWays(s)
      BY Zenon, <1>1 DEF ExpiredWays, NotBusyWays
    <2>2. PICK w \in ExpiredWays(s) : \A v \in ExpiredWays(s) : w <= v
      BY <1>4, <2>1, LeastNatural
    <2>3. VictimWay(s) \in ExpiredWays(s)
      <3>1. VictimWay(s) = CHOOSE x \in ExpiredWays(s) : \A v \in ExpiredWays(s) : x <= v
        BY <1>4 DEF VictimWay
      <3> QED  BY <2>2, <3>1
    <2> QED  BY <2>1, <2>3 DEF NotBusyWays
  <1>5. CASE ExpiredWays(s) = {}
    <2>1. VictimWay(s) = IF getVictim(s) \in NotBusyWays(s) THEN getVictim(s)
                         ELSE IF NotBusyWays(s) # {} THEN OldestNotBusy(s) ELSE 0
      BY <1>5 DEF VictimWay
    <2> QED  BY <1>1, <1>2, <1>3, <2>1 DEF NotBusyWays
  <1> QED  BY <1>4, <1>5

\* The line that cacheProbe() names is in the full set it was asked about.
LEMMA VictimFound ==
    ASSUME Inv, NEW n \in Lines, ~cacheAvail(n)
    PROVE  LET v == cacheProbe(n)
               s == addressToCacheSet(n)
           IN  /\ v \in Lines
               /\ isTagPresent(v)
               /\ findTagInSet(v)[1] = s
               /\ \/ m_cache[findTagInSet(v)].m_Permission # "Busy"
                  \/ \A w \in Ways : m_cache[<<s, w>>].m_Permission = "Busy"
  <1> DEFINE s == addressToCacheSet(n)
             way == VictimWay(s)
             v == cacheProbe(n)
  <1>1. s \in Sets  BY RouteTyped DEF Inv
  <1>2. \A w \in Ways : <<s, w>> \in Slots /\ Resident(<<s, w>>)
    BY <1>1 DEF cacheAvail, Free, Resident, Slots
  <1>3. \A w \in Ways : m_cache[<<s, w>>] \in Entry
    BY <1>2 DEF Inv, TypeOK, Resident
  <1>4. way \in Ways /\ (NotBusyWays(s) # {} => way \in NotBusyWays(s))
    BY <1>1, <1>3, VictimInSet
  <1>5. v = m_cache[<<s, way>>].m_Address /\ v \in Lines
    BY <1>3, <1>4 DEF cacheProbe, Entry
  <1>6. m_tag_index[v] = Encode(<<s, way>>) /\ <<s, way>> \in Slots
    BY <1>2, <1>4, <1>5 DEF Inv, TagInv
  <1> HIDE DEF s, way, v
  <1>7. m_tag_index[v] # Null  BY <1>6, DecodeEncode, GeometryAssumption
  <1>8. isTagPresent(v) /\ findTagInSet(v) = <<s, way>>
    <2>1. /\ isTagPresent(v) /\ findTagInSet(v) \in Slots
          /\ m_tag_index[v] = Encode(findTagInSet(v))
      BY <1>5, <1>7, Located
    <2> QED  BY <1>6, <2>1, DecodeEncode
  <1>9. \/ m_cache[<<s, way>>].m_Permission # "Busy"
        \/ \A w \in Ways : m_cache[<<s, w>>].m_Permission = "Busy"
    BY <1>4 DEF NotBusyWays
  <1> QED  BY <1>5, <1>8, <1>9 DEF s, v

(***************************************************************************)
(* Evicting the line cacheProbe() names always makes room in the set the   *)
(* request is routed to, and breaks into a transaction only when every way *)
(* of the set is in one.                                                   *)
(***************************************************************************)
THEOREM VictimCorrect == Spec => []VictimMakesRoom
  <1>1. Inv => VictimMakesRoom  BY VictimFound DEF VictimMakesRoom
  <1> QED  BY <1>1, Invariance, PTL
=============================================================================
