---------------------------- MODULE L2BankProofs ----------------------------
(***************************************************************************)
(* The bookings of the data banks, without redirection: the set a line is  *)
(* routed to is that of its index bits, whatever is written.  (With        *)
(* redirection a write books the bank of the set the count moves the line  *)
(* to, and no in_port has asked for that one.)                             *)
(***************************************************************************)
EXTENDS L2PortProofs

Static ==
    /\ ~Lazy
    /\ \A z \in Zones : ReadLatency[z] >= 1 /\ WriteLatency[z] >= 1

Bank(n) == mapIndexToBank(getDefaultSet(n))

\* A resident block is in the set of its index bits.
HomeInv == \A n \in Lines : Indexed(n) => At(n)[1] = getDefaultSet(n)

\* Without redirection a line's route never changes.
LEMMA StaticRoute ==
    ASSUME Static, NEW n
    PROVE  /\ addressToCacheSet(n) = getDefaultSet(n)
           /\ \A c, d : Route(n, c, d) = getDefaultSet(n)
  BY DEF Static, addressToCacheSet, Route

\* The bank of a line is a bank.
LEMMA BankTyped ==
    ASSUME NEW n \in Lines
    PROVE  getDefaultSet(n) \in Nat /\ Bank(n) \in BankIds
  <1>1. n \in Nat /\ IndexedSets \in Nat \ {0}  BY GeometryAssumption
  <1>2. getDefaultSet(n) \in Nat  BY <1>1, DivMod DEF getDefaultSet
  <1>3. Banks \in Nat \ {0}  BY BankAssumption
  <1> QED  BY <1>2, <1>3, DivMod DEF Bank, mapIndexToBank, BankIds

\* Blocks stay at home.
LEMMA HomeStep == Static /\ Inv /\ HomeInv /\ [Next]_vars => HomeInv'
  <1> SUFFICES ASSUME Static, Inv, HomeInv, [Next]_vars PROVE HomeInv'  OBVIOUS
  <1>0. m_tag_index \in [Lines -> Nat \union {Null}]  BY DEF Inv, TypeOK
  <1>1. m_tag_index' = m_tag_index => HomeInv'  BY DEF HomeInv, Indexed, At
  <1>2. ASSUME NEW m \in Lines, NEW slot \in Slots, Inserted(m, slot)
        PROVE  HomeInv'
    <2>1. slot[1] = getDefaultSet(m)  BY <1>2, StaticRoute DEF Inserted
    <2>2. Decode(Encode(slot)) = slot  BY DecodeEncode
    <2>3. \A n \in Lines : m_tag_index'[n] = IF n = m THEN Encode(slot) ELSE m_tag_index[n]
      BY <1>0, <1>2 DEF Inserted
    <2> QED  BY <2>1, <2>2, <2>3 DEF HomeInv, Indexed, At
  <1>3. ASSUME NEW m \in Lines, NEW e \in Entry, Removed(m, e)
        PROVE  HomeInv'
    <2>1. \A n \in Lines : m_tag_index'[n] = IF n = m THEN Null ELSE m_tag_index[n]
      BY <1>0, <1>3 DEF Removed
    <2> QED  BY <2>1 DEF HomeInv, Indexed, At
  <1>4. CASE UNCHANGED vars  BY <1>1, <1>4 DEF vars
  <1>5. CASE Next  BY <1>1, <1>2, <1>3, <1>5, StepShape DEF ArrayStep, Kept, Rewritten
  <1> QED  BY <1>4, <1>5

-----------------------------------------------------------------------------
(***************************************************************************)
(* The data accesses of a transition: at most one write and then at most   *)
(* one read.                                                               *)
(***************************************************************************)
Data == {"DataArrayRead", "DataArrayWrite"}
Quiet(c) == \A i \in 1 .. Len(c) : c[i][1] \notin Data
OneBlock(c) ==
    \A i, j \in 1 .. Len(c) :
        i < j /\ c[i][1] \in Data /\ c[j][1] \in Data =>
            c[i][1] = "DataArrayWrite" /\ c[j][1] = "DataArrayRead"
Only(c, op) == OneBlock(c) /\ \A i \in 1 .. Len(c) : c[i][1] \in Data => c[i][1] = op

\* Joining two lists of calls.
LEMMA Joined ==
    ASSUME NEW T, NEW b \in Seq(T), NEW c \in Seq(T),
           \/ Quiet(b) /\ OneBlock(c)
           \/ OneBlock(b) /\ Quiet(c)
           \/ Only(b, "DataArrayWrite") /\ Only(c, "DataArrayRead")
    PROVE  OneBlock(b \o c) /\ (Quiet(b) /\ Quiet(c) => Quiet(b \o c))
  <1> DEFINE d == b \o c
  <1>1. /\ Len(b) \in Nat /\ Len(c) \in Nat /\ Len(d) = Len(b) + Len(c)
        /\ \A i \in 1 .. Len(b) : d[i] = b[i]
        /\ \A i \in Len(b) + 1 .. Len(d) : d[i] = c[i - Len(b)]
    OBVIOUS
  <1> HIDE DEF d
  <1>2. \A i \in 1 .. Len(d) :
           \/ i \in 1 .. Len(b) /\ d[i] = b[i]
           \/ i > Len(b) /\ i - Len(b) \in 1 .. Len(c) /\ d[i] = c[i - Len(b)]
    <2> TAKE i \in 1 .. Len(d)
    <2>1. CASE i <= Len(b)  BY <1>1, <2>1
    <2>2. CASE i > Len(b)  BY <1>1, <2>2
    <2> QED  BY <1>1, <2>1, <2>2
  <1>3. ASSUME NEW i \in 1 .. Len(d), NEW j \in 1 .. Len(d), i < j,
               d[i][1] \in Data, d[j][1] \in Data
        PROVE  d[i][1] = "DataArrayWrite" /\ d[j][1] = "DataArrayRead"
    <2>1. CASE j <= Len(b)
      <3>1. i \in 1 .. Len(b) /\ j \in 1 .. Len(b) /\ d[i] = b[i] /\ d[j] = b[j]
        BY <1>1, <1>3, <2>1
      <3> QED  BY <1>3, <3>1 DEF OneBlock, Quiet, Only
    <2>2. CASE i > Len(b)
      <3>1. /\ i - Len(b) \in 1 .. Len(c) /\ j - Len(b) \in 1 .. Len(c)
            /\ i - Len(b) < j - Len(b)
            /\ d[i] = c[i - Len(b)] /\ d[j] = c[j - Len(b)]
        BY <1>1, <1>2, <1>3, <2>2
      <3> QED  BY <1>3, <3>1 DEF OneBlock, Quiet, Only
    <2>3. CASE i <= Len(b) /\ j > Len(b)
      <3>1. i \in 1 .. Len(b) /\ d[i] = b[i] /\ j - Len(b) \in 1 .. Len(c)
            /\ d[j] = c[j - Len(b)]
        BY <1>1, <1>2, <2>3
      <3> QED  BY <1>3, <3>1 DEF Quiet, Only
    <2> QED  BY <1>1, <2>1, <2>2, <2>3
  <1>4. OneBlock(d)  BY <1>3 DEF OneBlock
  <1>5. Quiet(b) /\ Quiet(c) => Quiet(d)  BY <1>2 DEF Quiet
  <1> QED  BY <1>4, <1>5 DEF d

\* The lists of calls that the actions make.
LEMMA Blocks ==
    ASSUME NEW n
    PROVE  /\ Only(WriteBlock(n), "DataArrayWrite")
           /\ Only(ReadBlock(n), "DataArrayRead")
           /\ Quiet(ReadTag(n)) /\ Quiet(Touch(n)) /\ Quiet(<<>>)
           /\ \A c : Quiet(c) => OneBlock(c)
  <1>1. /\ Len(WriteBlock(n)) = 2 /\ WriteBlock(n)[1][1] = "TagArrayRead"
        /\ WriteBlock(n)[2][1] = "DataArrayWrite"
    BY DEF WriteBlock, Call
  <1>2. /\ Len(ReadBlock(n)) = 2 /\ ReadBlock(n)[1][1] = "TagArrayRead"
        /\ ReadBlock(n)[2][1] = "DataArrayRead"
    BY DEF ReadBlock, Call
  <1>3. /\ Len(ReadTag(n)) = 1 /\ ReadTag(n)[1][1] = "TagArrayRead"
        /\ Len(Touch(n)) = 1 /\ Touch(n)[1][1] = "setMRU"
    BY DEF ReadTag, Touch, Call
  <1>4. Only(WriteBlock(n), "DataArrayWrite")  BY <1>1 DEF Only, OneBlock, Data
  <1>5. Only(ReadBlock(n), "DataArrayRead")  BY <1>2 DEF Only, OneBlock, Data
  <1>6. Quiet(ReadTag(n)) /\ Quiet(Touch(n))  BY <1>3 DEF Quiet, Data
  <1>7. Quiet(<<>>)  BY DEF Quiet
  <1>8. \A c : Quiet(c) => OneBlock(c)  BY DEF Quiet, OneBlock
  <1> QED  BY <1>4, <1>5, <1>6, <1>7, <1>8

\* getCacheEntry's lookup and the last call of a transition move no data.
LEMMA BracketBlock ==
    ASSUME NEW n, NEW body \in Seq(BodyOps \X {n}), OneBlock(body),
           NEW op \in {"changePermission", "deallocate"}
    PROVE  LET c == <<Call("lookup", n)>> \o body \o <<Call(op, n)>>
           IN  OneBlock(c) /\ (Quiet(body) => Quiet(c))
  <1> DEFINE T == Ops \X {n}
             x == <<Call("lookup", n)>>
             y == <<Call(op, n)>>
             d == x \o body
  <1>1. x \in Seq(T) /\ y \in Seq(T) /\ body \in Seq(T)  BY DEF Ops, Call
  <1>2. Len(x) = 1 /\ x[1][1] = "lookup" /\ Len(y) = 1 /\ y[1][1] = op  BY DEF Call
  <1>3. Quiet(x) /\ Quiet(y)  BY <1>2 DEF Quiet, Data
  <1> HIDE DEF x, y, T
  <1>4. d \in Seq(T) /\ OneBlock(d) /\ (Quiet(body) => Quiet(d))  BY <1>1, <1>3, Joined
  <1> HIDE DEF d
  <1>5. OneBlock(d \o y) /\ (Quiet(d) => Quiet(d \o y))  BY <1>1, <1>3, <1>4, Joined
  <1> QED  BY <1>4, <1>5 DEF d, x, y

-----------------------------------------------------------------------------
(***************************************************************************)
(* A transition that moves data begins with the bank of its line free.     *)
(***************************************************************************)
BankFree(n) == dataArray[Bank(n)] <= curTick
BanksRest == ~ResourceStalls => \A b \in BankIds : dataArray[b] = 0

Booked == \/ Quiet(calls')
          \/ \E n \in Lines : /\ \A i \in 1 .. Len(calls') : calls'[i][2] = n
                              /\ OneBlock(calls')
                              /\ BankFree(n)

\* What the in_ports ask for is that the bank is free.
LEMMA AvailableIsFree ==
    ASSUME Static, TypeOK, BanksRest, NEW n \in Lines, checkResourceAvailable(n)
    PROVE  BankFree(n)
  <1>1. Bank(n) \in BankIds /\ dataArray[Bank(n)] \in Nat /\ curTick \in Nat
    BY BankTyped DEF TypeOK
  <1>2. ResourceStalls => dataArray[Bank(n)] < curTick
    BY StaticRoute DEF checkResourceAvailable, tryAccess, Bank
  <1>3. ~ResourceStalls => dataArray[Bank(n)] = 0  BY <1>1 DEF BanksRest
  <1>4. ResourceStalls \in BOOLEAN  BY CacheAssumption
  <1> QED  BY <1>1, <1>2, <1>3, <1>4 DEF BankFree

\* A transition whose actions move data only with the bank free.
LEMMA TransitionBooked ==
    ASSUME NEW n \in Lines, NEW state, NEW body \in Seq(BodyOps \X {n}),
           Transition(n, state, body), OneBlock(body), ~HasEntry(n) => Quiet(body),
           Quiet(body) \/ BankFree(n)
    PROVE  Booked
  <1>1. CASE HasEntry(n)
    <2>1. calls' = <<Call("lookup", n)>> \o body \o <<Call("changePermission", n)>>
      BY <1>1 DEF Transition
    <2>2. Bracket(n, "changePermission")  BY Zenon, <2>1 DEF Bracket
    <2>3. \A i \in 1 .. Len(calls') : calls'[i][2] = n  BY <2>2, BracketCalls
    <2>4. OneBlock(calls') /\ (Quiet(body) => Quiet(calls'))
      BY Zenon, <2>1, BracketBlock
    <2> QED  BY <2>3, <2>4 DEF Booked
  <1>2. CASE ~HasEntry(n)  BY <1>2 DEF Transition, Booked
  <1> QED  BY <1>1, <1>2

\* An eviction reads the block only with the bank free.
LEMMA EvictBooked ==
    ASSUME NEW n \in Lines, NEW clean \in BOOLEAN, Evict(n, clean), BankFree(n)
    PROVE  Booked
  <1>1. PICK body \in {ReadTag(n), ReadBlock(n)} :
           calls' = <<Call("lookup", n)>> \o body \o <<Call("deallocate", n)>>
    BY Zenon DEF Evict
  <1>2. body \in Seq(BodyOps \X {n}) /\ OneBlock(body)
    BY Zenon, BodyTyped, Blocks DEF Only
  <1>3. Bracket(n, "deallocate")  BY Zenon, <1>1, <1>2 DEF Bracket
  <1>4. \A i \in 1 .. Len(calls') : calls'[i][2] = n  BY <1>3, BracketCalls
  <1>5. OneBlock(calls')  BY Zenon, <1>1, <1>2, BracketBlock
  <1> QED  BY <1>4, <1>5 DEF Booked

\* A transition whose actions make no call moves no data.
LEMMA EmptyBooked ==
    ASSUME NEW n \in Lines, NEW state, Transition(n, state, <<>>)
    PROVE  Booked /\ UNCHANGED array
  <1>1. Booked  BY Zenon, TransitionBooked, BodyTyped, Blocks
  <1>2. UNCHANGED array  BY Zenon DEF Transition
  <1> QED  BY Zenon, <1>1, <1>2

\* Nor does one whose actions only read the tag.
LEMMA TagBooked ==
    ASSUME NEW n \in Lines, NEW state, Transition(n, state, ReadTag(n))
    PROVE  Booked /\ UNCHANGED array
  <1>1. Booked  BY Zenon, TransitionBooked, BodyTyped, Blocks
  <1>2. UNCHANGED array  BY Zenon DEF Transition
  <1> QED  BY Zenon, <1>1, <1>2

\* A miss allocates and reads the tag.
LEMMA MissBooked ==
    ASSUME PortTypeOK, NEW r \in requests, Miss(r)
    PROVE  Booked
  <1> DEFINE n == r.line
             T == Ops \X {n}
             x == <<Call("allocate", n)>>
             y == <<Call("changePermission", n)>>
  <1>1. calls' = (x \o ReadTag(n)) \o y  BY DEF Miss
  <1>2. x \in Seq(T) /\ y \in Seq(T) /\ ReadTag(n) \in Seq(T)
    BY DEF Ops, BodyOps, Call, ReadTag
  <1>3. /\ Len(x) = 1 /\ x[1][1] = "allocate"
        /\ Len(y) = 1 /\ y[1][1] = "changePermission"
    BY DEF Call
  <1>4. Quiet(x) /\ Quiet(y)
    <2> HIDE DEF x, y, T
    <2> QED  BY <1>3 DEF Quiet, Data
  <1>r. Quiet(ReadTag(n)) /\ OneBlock(ReadTag(n))
    BY Zenon, Blocks
  <1> HIDE DEF x, y, T
  <1>5. x \o ReadTag(n) \in Seq(T) /\ Quiet(x \o ReadTag(n))
    BY <1>2, <1>4, <1>r, Joined
  <1>6. Quiet((x \o ReadTag(n)) \o y)  BY Zenon, <1>2, <1>4, <1>5, Blocks, Joined
  <1> QED  BY <1>1, <1>6 DEF Booked

\* A hit reads the block or the tag, and touches the entry.
LEMMA HitBooked ==
    ASSUME Static, PortInv, BanksRest, NEW r \in requests, Hit(r)
    PROVE  Booked
  <1> DEFINE n == r.line
  <1>1. n \in Lines /\ checkResourceAvailable(n)
    BY DEF PortInv, PortTypeOK, Request, Hit, Reaches, Ready
  <1>2. BankFree(n)  BY <1>1, AvailableIsFree DEF PortInv, Inv
  <1>3. PICK state \in {"SS", "SS_MB", "MT_MB", "MT_IIB"},
             body \in {ReadBlock(n) \o ReadTag(n), ReadTag(n), ReadBlock(n)} :
           Transition(n, state, body \o Touch(n))
    BY DEF Hit
  <1>4. HasEntry(n)  BY EntryOfState DEF Hit
  <1> DEFINE T == BodyOps \X {n}
  <1>5. ReadBlock(n) \in Seq(T) /\ ReadTag(n) \in Seq(T) /\ Touch(n) \in Seq(T)
    BY Zenon, BodyTyped
  <1> HIDE DEF T
  <1>6. body \in Seq(T) /\ OneBlock(body)
    <2>1. OneBlock(ReadBlock(n)) /\ OneBlock(ReadTag(n)) /\ Quiet(ReadTag(n))
      BY Blocks DEF Only
    <2>2. OneBlock(ReadBlock(n) \o ReadTag(n))  BY <1>5, <2>1, Joined
    <2>3. ReadBlock(n) \o ReadTag(n) \in Seq(T)  BY <1>5
    <2> QED  BY Zenon, <1>5, <2>1, <2>2, <2>3
  <1>7. body \o Touch(n) \in Seq(T) /\ OneBlock(body \o Touch(n))
    BY <1>5, <1>6, Blocks, Joined
  <1> QED  BY Zenon, <1>1, <1>2, <1>3, <1>4, <1>7, TransitionBooked DEF T

\* The victim is in the set of the request, so its bank is the one asked for.
LEMMA MakeRoomBooked ==
    ASSUME Static, PortInv, HomeInv, BanksRest, NEW r \in requests, MakeRoom(r)
    PROVE  Booked
  <1>1. r.line \in Lines /\ ~cacheAvail(r.line) /\ checkResourceAvailable(r.line)
    BY DEF PortInv, PortTypeOK, Request, MakeRoom, Ready
  <1>2. PICK v \in Lines : /\ v = cacheProbe(r.line) /\ isTagPresent(v)
                           /\ findTagInSet(v)[1] = addressToCacheSet(r.line)
    BY <1>1, VictimFound DEF PortInv
  <1>3. BankFree(v)
    <2>1. Indexed(v)  BY <1>2, TaggedIffIndexed DEF Indexed, PortInv
    <2>2. findTagInSet(v) = At(v)  BY <2>1, AtSlot DEF PortInv
    <2>3. getDefaultSet(v) = getDefaultSet(r.line)
      BY <1>1, <1>2, <2>1, <2>2, StaticRoute DEF HomeInv
    <2>4. BankFree(r.line)  BY <1>1, AvailableIsFree DEF PortInv, Inv
    <2> QED  BY <2>3, <2>4 DEF BankFree, Bank
  <1>4. CASE \E clean \in BOOLEAN : Evict(v, clean)  BY <1>3, <1>4, EvictBooked
  <1>5. CASE Transition(v, L2State[v], <<>>)  BY <1>5, EmptyBooked
  <1>6. CASE calls' = <<Call("lookup", v)>>
    <2>1. Len(calls') = 1 /\ calls'[1][1] = "lookup"  BY <1>6 DEF Call
    <2> QED  BY <2>1 DEF Booked, Quiet, Data
  <1> QED  BY <1>2, <1>4, <1>5, <1>6 DEF MakeRoom

\* A response writes the block it brings, and reads it for the requester.
LEMMA ResponseBooked ==
    ASSUME Static, PortInv, BanksRest, NEW n \in Lines,
           \/ Mem_Data(n) \/ WB_Data(n) \/ Ack_all(n) \/ Mem_Ack(n)
           \/ MEM_Inv(n) \/ Exclusive_Unblock(n) \/ Unblock(n)
    PROVE  Booked
  <1>1. Responds(n) => BankFree(n)
    BY AvailableIsFree DEF Responds, PortInv, Inv
  <1> DEFINE T == BodyOps \X {n}
  <1>2. WriteBlock(n) \in Seq(T) /\ ReadBlock(n) \in Seq(T)  BY Zenon, BodyTyped
  <1>3. OneBlock(WriteBlock(n))  BY Blocks DEF Only
  <1>4. /\ WriteBlock(n) \o ReadBlock(n) \in Seq(T)
        /\ OneBlock(WriteBlock(n) \o ReadBlock(n))
    <2> HIDE DEF T
    <2> QED  BY <1>2, Blocks, Joined
  <1>5. CASE Mem_Data(n)
    <2>1. HasEntry(n) /\ BankFree(n)  BY <1>1, <1>5, EntryOfState DEF Mem_Data, Fetching
    <2>2. \E state : Transition(n, state, WriteBlock(n) \o ReadBlock(n))
      BY <1>5 DEF Mem_Data
    <2> QED  BY Zenon, <1>4, <2>1, <2>2, TransitionBooked
  <1>6. CASE WB_Data(n)
    <2>1. BankFree(n)  BY <1>1, <1>6 DEF WB_Data
    <2>2. CASE L2State[n] \in {"MT_I", "MCT_I"}
      BY <1>6, <2>2, EmptyBooked, TagBooked DEF WB_Data
    <2>3. CASE L2State[n] \in {"MT_IIB", "MT_IB"}
      <3>1. HasEntry(n)  BY <2>3, EntryOfState DEF Blocked
      <3>2. \E state : Transition(n, state, WriteBlock(n))  BY <1>6, <2>3 DEF WB_Data
      <3> QED  BY <1>2, <1>3, <2>1, <3>1, <3>2, TransitionBooked
    <2> QED  BY <1>6, <2>2, <2>3 DEF WB_Data
  <1>7. CASE MEM_Inv(n)
    BY Zenon, <1>1, <1>7, EvictBooked, EmptyBooked, TagBooked DEF MEM_Inv
  <1>8. CASE Ack_all(n) \/ Mem_Ack(n) \/ Exclusive_Unblock(n) \/ Unblock(n)
    BY <1>8, EmptyBooked, TagBooked DEF Ack_all, Mem_Ack, Exclusive_Unblock, Unblock
  <1> QED  BY <1>5, <1>6, <1>7, <1>8

-----------------------------------------------------------------------------
(***************************************************************************)
(* How far ahead an access books its bank.                                 *)
(***************************************************************************)
WriteTicks(z) == (WriteLatency[z] - 1) * ClockPeriod
ReadTicks(z) == (ReadLatency[z] - 1) * ClockPeriod

LEMMA TicksTyped ==
    ASSUME Static, NEW z \in Zones
    PROVE  WriteTicks(z) \in Nat /\ ReadTicks(z) \in Nat
  <1>1. \A l \in Nat, p \in Nat : l >= 1 => (l - 1) * p \in Nat  BY SMT
  <1> QED  BY <1>1, CacheAssumption, BankAssumption DEF Static, WriteTicks, ReadTicks

LEMMA TicksAdd ==
    ASSUME NEW y \in Zones, NEW z \in Zones
    PROVE  (WriteLatency[y] + ReadLatency[z] - 2) * ClockPeriod =
               WriteTicks(y) + ReadTicks(z)
  <1>1. \A k \in Nat, l \in Nat, p \in Nat :
           (k + l - 2) * p = (k - 1) * p + (l - 1) * p
    BY SMT
  <1> QED  BY <1>1, CacheAssumption, BankAssumption DEF WriteTicks, ReadTicks

\* One access books only the bank of its line, from now or from the end of
\* the access before.
LEMMA CallBooks ==
    ASSUME Static, TypeOK, NEW op \in Ops, NEW n \in Lines, Perform(op, n)
    PROVE  /\ curTick' = curTick
           /\ op \notin Data \/ ~ResourceStalls => dataArray' = dataArray
           /\ op \in Data => \A b \in BankIds \ {Bank(n)} : dataArray'[b] = dataArray[b]
           /\ op = "DataArrayWrite" /\ ResourceStalls => \E z \in Zones :
                 dataArray'[Bank(n)] <= IF BankFree(n)
                                        THEN curTick + WriteTicks(z)
                                        ELSE dataArray[Bank(n)] + WriteTicks(z)
           /\ op = "DataArrayRead" /\ ResourceStalls => \E z \in Zones :
                 dataArray'[Bank(n)] <= IF BankFree(n)
                                        THEN curTick + ReadTicks(z)
                                        ELSE dataArray[Bank(n)] + ReadTicks(z)
  <1>1. /\ Bank(n) \in BankIds /\ dataArray \in [BankIds -> Nat]
        /\ dataArray[Bank(n)] \in Nat /\ curTick \in Nat
    BY BankTyped DEF TypeOK
  <1> DEFINE z == RoutedZone(n)
  <1>2. z \in Zones /\ WriteTicks(z) \in Nat /\ ReadTicks(z) \in Nat
    BY RouteTyped, TicksTyped
  <1>3. WriteLatency[z] # 0 /\ ReadLatency[z] # 0
    BY <1>2, RouteTyped DEF Static
  <1>4. op \notin Data \/ ~ResourceStalls => dataArray' = dataArray
    BY DEF Perform, Data, lookup, allocate, deallocate, setMRU, TagArrayRead,
           DataArrayRead, DataArrayWrite, changePermission
  <1>5. curTick' = curTick
    BY DEF Perform, lookup, allocate, deallocate, setMRU, TagArrayRead, DataArrayRead,
           DataArrayWrite, changePermission
  <1> DEFINE start == IF curTick > dataArray[Bank(n)] THEN curTick ELSE dataArray[Bank(n)]
  <1>6. op = "DataArrayWrite" /\ ResourceStalls =>
           dataArray' = [dataArray EXCEPT ![Bank(n)] = start + WriteTicks(z)]
    BY <1>3, StaticRoute DEF Perform, DataArrayWrite, reserve, Bank, WriteTicks
  <1>7. op = "DataArrayRead" /\ ResourceStalls =>
           dataArray' = [dataArray EXCEPT ![Bank(n)] = start + ReadTicks(z)]
    BY <1>3, StaticRoute DEF Perform, DataArrayRead, reserve, Bank, ReadTicks
  <1>8. start = IF BankFree(n) THEN curTick ELSE dataArray[Bank(n)]
    BY <1>1 DEF BankFree
  <1>9. op \in Data => \A b \in BankIds \ {Bank(n)} : dataArray'[b] = dataArray[b]
    BY <1>1, <1>4, <1>6, <1>7 DEF Data
  <1> HIDE DEF start, z
  <1>10. op = "DataArrayWrite" /\ ResourceStalls =>
           dataArray'[Bank(n)] = start + WriteTicks(z)
    BY <1>1, <1>6
  <1>11. op = "DataArrayRead" /\ ResourceStalls =>
           dataArray'[Bank(n)] = start + ReadTicks(z)
    BY <1>1, <1>7
  <1>12. start \in Nat  BY <1>1, <1>8
  <1> QED  BY <1>1, <1>2, <1>4, <1>5, <1>8, <1>9, <1>10, <1>11, <1>12

\* Taking the first call off the list.
LEMMA TailBlock ==
    ASSUME NEW T, NEW c \in Seq(T), c # <<>>
    PROVE  /\ \A i \in 1 .. Len(Tail(c)) : i + 1 \in 1 .. Len(c) /\ Tail(c)[i] = c[i + 1]
           /\ Quiet(c) => Quiet(Tail(c))
           /\ OneBlock(c) => OneBlock(Tail(c))
           /\ OneBlock(c) /\ c[1][1] = "DataArrayRead" => Quiet(Tail(c))
           /\ OneBlock(c) /\ c[1][1] = "DataArrayWrite" =>
                 \A i \in 1 .. Len(Tail(c)) : Tail(c)[i][1] # "DataArrayWrite"
  <1>1. Len(c) \in Nat /\ Len(c) >= 1 /\ Len(Tail(c)) = Len(c) - 1  OBVIOUS
  <1>2. \A i \in 1 .. Len(Tail(c)) : Tail(c)[i] = c[i + 1]  OBVIOUS
  <1> DEFINE t == Tail(c)
  <1>3. \A i \in 1 .. Len(t) : i + 1 \in 1 .. Len(c) /\ 1 < i + 1 /\ 1 \in 1 .. Len(c)
    BY <1>1
  <1>4. \A i, j \in 1 .. Len(t) : i < j => i + 1 < j + 1  BY <1>1
  <1> HIDE DEF t
  <1>5. Quiet(c) => Quiet(t)  BY <1>2, <1>3 DEF t, Quiet
  <1>6. OneBlock(c) => OneBlock(t)  BY <1>2, <1>3, <1>4 DEF t, OneBlock
  <1>7. OneBlock(c) /\ c[1][1] = "DataArrayRead" => Quiet(t)
    BY <1>2, <1>3 DEF t, Quiet, OneBlock, Data
  <1>8. OneBlock(c) /\ c[1][1] = "DataArrayWrite" =>
           \A i \in 1 .. Len(t) : t[i][1] # "DataArrayWrite"
    BY <1>2, <1>3 DEF t, OneBlock, Data
  <1> QED  BY <1>2, <1>3, <1>5, <1>6, <1>7, <1>8 DEF t

\* What begins a transition books nothing yet.
LEMMA PortBooks ==
    ASSUME Static, PortInv, HomeInv, BanksRest, PortNext
    PROVE  \/ Booked /\ UNCHANGED array
           \/ MakeCall
           \/ Advance
           \/ \E r \in Request : L1Sends(r)
  <1>0. PortTypeOK  BY DEF PortInv
  <1>1. AnyMiss => Booked /\ UNCHANGED array
    BY Zenon, <1>0, MissBooked DEF AnyMiss, Miss
  <1>2. AnyHit => Booked /\ UNCHANGED array
    BY HitBooked DEF AnyHit, Hit, Transition
  <1>3. AnyMakeRoom => Booked /\ UNCHANGED array
    BY Zenon, MakeRoomBooked DEF AnyMakeRoom, MakeRoom, Evict, Transition
  <1>4. AnyJoin \/ AnyWriteback \/ AnyWait => Booked /\ UNCHANGED array
    <2>0. \A r \in requests : r.line \in Lines  BY <1>0 DEF PortTypeOK, Request
    <2>1. AnyJoin => Booked /\ UNCHANGED array
      BY Zenon, <2>0, EmptyBooked DEF AnyJoin, Join
    <2>2. AnyWriteback => Booked /\ UNCHANGED array
      BY Zenon, <2>0, EmptyBooked DEF AnyWriteback, Writeback
    <2>3. AnyWait => Booked /\ UNCHANGED array
      BY Zenon, <2>0, EmptyBooked DEF AnyWait, Wait
    <2> QED  BY <2>1, <2>2, <2>3
  <1>5. ASSUME NEW n \in Lines,
               \/ Mem_Data(n) \/ WB_Data(n) \/ Ack_all(n) \/ Mem_Ack(n)
               \/ MEM_Inv(n) \/ Exclusive_Unblock(n) \/ Unblock(n)
        PROVE  Booked /\ UNCHANGED array
    <2>1. Booked  BY <1>5, ResponseBooked
    <2>2. UNCHANGED array
      BY <1>5 DEF Mem_Data, WB_Data, Ack_all, Mem_Ack, MEM_Inv, Exclusive_Unblock,
                  Unblock, Evict, Transition
    <2> QED  BY <2>1, <2>2
  <1> QED  BY <1>1, <1>2, <1>3, <1>4, <1>5 DEF PortNext

-----------------------------------------------------------------------------
(***************************************************************************)
(* What keeps the backlog bounded: as long as the transition under way has *)
(* data to move, its bank is booked at most for the block it has written,  *)
(* and not at all before that.                                             *)
(***************************************************************************)
Bounded(b) == \E y, z \in Zones : dataArray[b] <= curTick + (WriteTicks(y) + ReadTicks(z))
Written(n) == \E y \in Zones : dataArray[Bank(n)] <= curTick + WriteTicks(y)

Moving(n) ==
    /\ \A i \in 1 .. Len(calls) : calls[i][2] = n
    /\ OneBlock(calls)
    /\ (\E i \in 1 .. Len(calls) : calls[i][1] = "DataArrayWrite") => BankFree(n)
    /\ Written(n)

BankInv ==
    /\ BanksRest
    /\ HomeInv
    /\ \A b \in BankIds : Bounded(b)
    /\ Quiet(calls) \/ \E n \in Lines : Moving(n)

LEMMA FreeIsWritten ==
    ASSUME Static, TypeOK, NEW n \in Lines, BankFree(n)
    PROVE  Written(n)
  <1>1. dataArray[Bank(n)] \in Nat /\ curTick \in Nat  BY BankTyped DEF TypeOK
  <1>2. RoutedZone(n) \in Zones /\ WriteTicks(RoutedZone(n)) \in Nat
    BY RouteTyped, TicksTyped
  <1> QED  BY <1>1, <1>2 DEF BankFree, Written

\* A transition begins.
LEMMA BookedKeeps ==
    ASSUME Static, TypeOK, BankInv, HomeInv', Booked, UNCHANGED array
    PROVE  BankInv'
  <1>1. BanksRest' /\ \A b \in BankIds : Bounded(b)'
    BY DEF BankInv, BanksRest, Bounded, array
  <1>2. CASE Quiet(calls')  BY <1>1, <1>2 DEF BankInv
  <1>3. ASSUME NEW n \in Lines, \A i \in 1 .. Len(calls') : calls'[i][2] = n,
               OneBlock(calls'), BankFree(n)
        PROVE  BankInv'
    <2>1. Written(n)  BY <1>3, FreeIsWritten
    <2>2. BankFree(n)' /\ Written(n)'  BY <1>3, <2>1 DEF BankFree, Written, array
    <2>3. Moving(n)'  BY <1>3, <2>2 DEF Moving
    <2> QED  BY <1>1, <2>3 DEF BankInv
  <1> QED  BY <1>2, <1>3 DEF Booked

\* A call is made.
LEMMA CallBookedKeeps ==
    ASSUME Static, PortInv, BankInv, HomeInv', MakeCall
    PROVE  BankInv'
  <1> DEFINE op == calls[1][1]
             n == calls[1][2]
  <1>1. /\ TypeOK /\ calls \in Seq(Ops \X Lines) /\ op \in Ops /\ n \in Lines
        /\ Len(calls) \in Nat /\ 1 \in 1 .. Len(calls)
    BY DEF PortInv, Inv, PortTypeOK, MakeCall
  <1>2. Perform(op, n) /\ calls' = Tail(calls) /\ calls # <<>>  BY DEF MakeCall
  <1>3. /\ Bank(n) \in BankIds /\ curTick \in Nat
        /\ \A b \in BankIds : dataArray[b] \in Nat
    BY <1>1, BankTyped DEF TypeOK
  <1>4. curTick' = curTick  BY <1>1, <1>2, CallBooks
  <1>5. BanksRest'
    BY <1>1, <1>2, CallBooks DEF BankInv, BanksRest
  <1>6. CASE op \notin Data \/ ~ResourceStalls
    <2>1. dataArray' = dataArray  BY <1>1, <1>2, <1>6, CallBooks
    <2>2. \A b \in BankIds : Bounded(b)'  BY <1>4, <2>1 DEF BankInv, Bounded
    <2>3. CASE Quiet(calls)
      <3>1. Quiet(Tail(calls))  BY <1>1, <1>2, <2>3, TailBlock
      <3> QED  BY <1>2, <1>5, <2>2, <3>1 DEF BankInv
    <2>4. ASSUME NEW m \in Lines, Moving(m)  PROVE BankInv'
      <3>1. /\ OneBlock(Tail(calls))
            /\ \A i \in 1 .. Len(Tail(calls)) :
                  i + 1 \in 1 .. Len(calls) /\ Tail(calls)[i] = calls[i + 1]
        BY <1>1, <1>2, <2>4, TailBlock DEF Moving
      <3>2. BankFree(m)' <=> BankFree(m)  BY <1>4, <2>1 DEF BankFree
      <3>3. Written(m)'  BY <1>4, <2>1, <2>4 DEF Written, Moving
      <3>4. Moving(m)'  BY <1>2, <2>4, <3>1, <3>2, <3>3 DEF Moving
      <3> QED  BY <1>5, <2>2, <3>4 DEF BankInv
    <2> QED  BY <2>3, <2>4 DEF BankInv
  <1>7. CASE op \in Data /\ ResourceStalls
    <2>1. PICK m \in Lines : Moving(m)
      BY <1>1, <1>7 DEF BankInv, Quiet
    <2>2. m = n  BY <1>1, <2>1 DEF Moving
    <2>3. OneBlock(calls) /\ Written(m)  BY <2>1, <2>2 DEF Moving
    <2>4. \A b \in BankIds \ {Bank(m)} : dataArray'[b] = dataArray[b]
      BY <1>1, <1>2, <1>7, <2>2, CallBooks
    <2>5. \A b \in BankIds \ {Bank(m)} : Bounded(b)'
      BY <1>4, <2>4 DEF BankInv, Bounded
    <2>6. CASE op = "DataArrayWrite"
      <3>1. BankFree(m)  BY <1>1, <2>1, <2>2, <2>6 DEF Moving
      <3>2. PICK y \in Zones : dataArray'[Bank(m)] <= curTick + WriteTicks(y)
        BY <1>1, <1>2, <1>7, <2>2, <2>6, <3>1, CallBooks
      <3>3. WriteTicks(y) \in Nat /\ ReadTicks(y) \in Nat  BY TicksTyped
      <3>4. dataArray'[Bank(m)] \in Nat
        BY <1>3, <2>2, PortInvStep DEF PortInv, Inv, TypeOK, PortNext
      <3>5. dataArray'[Bank(m)] <= curTick + (WriteTicks(y) + ReadTicks(y))
        <4>1. curTick \in Nat  BY <1>3
        <4> QED  BY <3>2, <3>3, <3>4, <4>1
      <3>6. Bounded(Bank(m))' /\ Written(m)'
        BY <1>4, <3>2, <3>5 DEF Bounded, Written
      <3>7. \A b \in BankIds : Bounded(b)'  BY <2>5, <3>6
      <3>8. /\ OneBlock(Tail(calls))
            /\ \A i \in 1 .. Len(Tail(calls)) :
                  /\ i + 1 \in 1 .. Len(calls) /\ Tail(calls)[i] = calls[i + 1]
                  /\ Tail(calls)[i][1] # "DataArrayWrite"
        BY <1>1, <1>2, <2>3, <2>6, TailBlock
      <3>9. Moving(m)'  BY <1>2, <2>1, <2>2, <3>6, <3>8 DEF Moving
      <3> QED  BY <1>1, <1>5, <3>7, <3>9 DEF BankInv
    <2>7. CASE op = "DataArrayRead"
      <3>1. PICK z \in Zones :
               dataArray'[Bank(m)] <= IF BankFree(m) THEN curTick + ReadTicks(z)
                                      ELSE dataArray[Bank(m)] + ReadTicks(z)
        BY <1>1, <1>2, <1>7, <2>2, <2>7, CallBooks
      <3>2. PICK y \in Zones : dataArray[Bank(m)] <= curTick + WriteTicks(y)
        BY <2>3 DEF Written
      <3>3. WriteTicks(y) \in Nat /\ ReadTicks(z) \in Nat  BY TicksTyped
      <3>4. dataArray'[Bank(m)] \in Nat
        BY <1>3, <2>2, PortInvStep DEF PortInv, Inv, TypeOK, PortNext
      <3>5. dataArray'[Bank(m)] <= curTick + (WriteTicks(y) + ReadTicks(z))
        <4>1. curTick \in Nat /\ dataArray[Bank(m)] \in Nat  BY <1>3, <2>2
        <4>2. \/ dataArray'[Bank(m)] <= curTick + ReadTicks(z)
              \/ dataArray'[Bank(m)] <= dataArray[Bank(m)] + ReadTicks(z)
          BY <3>1
        <4> QED  BY <3>2, <3>3, <3>4, <4>1, <4>2
      <3>6. Bounded(Bank(m))'  BY <1>4, <3>5 DEF Bounded
      <3>7. \A b \in BankIds : Bounded(b)'  BY <2>5, <3>6
      <3>8. Quiet(Tail(calls))  BY <1>1, <1>2, <2>3, <2>7, TailBlock
      <3> QED  BY <1>2, <1>5, <3>7, <3>8 DEF BankInv
    <2> QED  BY <1>7, <2>6, <2>7 DEF Data
  <1> QED  BY <1>6, <1>7

\* The invariant is inductive.
LEMMA BankInvStep ==
    Static /\ PortInv /\ BankInv /\ [PortNext]_portvars => BankInv'
  <1> SUFFICES ASSUME Static, PortInv, BankInv, [PortNext]_portvars PROVE BankInv'
    OBVIOUS
  <1>1. HomeInv'  BY PortArrayStep, HomeStep DEF PortInv, BankInv
  <1>2. TypeOK /\ BanksRest /\ HomeInv  BY DEF PortInv, Inv, BankInv
  <1>3. CASE UNCHANGED portvars
    BY <1>1, <1>3 DEF portvars, array, BankInv, BanksRest, Bounded, Moving, Written, BankFree
  <1>4. CASE Booked /\ UNCHANGED array  BY <1>1, <1>2, <1>4, BookedKeeps
  <1>5. CASE MakeCall  BY <1>1, <1>5, CallBookedKeeps
  <1>6. CASE Advance
    <2>1. /\ dataArray' = dataArray /\ calls' = calls /\ calls = <<>>
          /\ curTick \in Nat /\ curTick' \in Nat /\ curTick <= curTick'
      BY <1>2, <1>6 DEF Advance, Tick, TypeOK
    <2>2. BanksRest' /\ Quiet(calls')  BY <2>1 DEF BankInv, BanksRest, Quiet
    <2>3. ASSUME NEW b \in BankIds  PROVE Bounded(b)'
      <3>1. PICK y \in Zones, z \in Zones :
               dataArray[b] <= curTick + (WriteTicks(y) + ReadTicks(z))
        BY DEF BankInv, Bounded
      <3>2. /\ dataArray[b] \in Nat
            /\ WriteTicks(y) \in Nat /\ ReadTicks(z) \in Nat
        BY <1>2, TicksTyped DEF TypeOK
      <3>3. dataArray'[b] <= curTick' + (WriteTicks(y) + ReadTicks(z))
        BY <2>1, <3>1, <3>2
      <3> QED  BY <3>3 DEF Bounded
    <2> QED  BY <1>1, <2>2, <2>3 DEF BankInv
  <1>7. ASSUME NEW r \in Request, L1Sends(r)  PROVE BankInv'
    BY <1>1, <1>7 DEF L1Sends, array, BankInv, BanksRest, Bounded, Moving, Written, BankFree
  <1> QED  BY <1>2, <1>3, <1>4, <1>5, <1>6, <1>7, PortBooks

LEMMA BankInvInit == Static /\ PortInit => BankInv
  <1> SUFFICES ASSUME Static, PortInit PROVE BankInv  OBVIOUS
  <1>1. /\ dataArray = [b \in BankIds |-> 0] /\ curTick = 0 /\ calls = <<>>
        /\ \A n \in Lines : m_tag_index[n] = Null
    BY DEF PortInit, Init
  <1>2. 0 \in Sets  BY GeometryAssumption DEF Sets
  <1>3. PICK z \in Zones : WriteTicks(z) \in Nat /\ ReadTicks(z) \in Nat
    BY <1>2, ZoneTyped, TicksTyped
  <1>4. \A b \in BankIds : Bounded(b)  BY <1>1, <1>3 DEF Bounded
  <1> QED  BY <1>1, <1>4 DEF BankInv, BanksRest, HomeInv, Indexed, Quiet

\* The bound in the terms of the latencies.
LEMMA BankInvBounds == BankInv => BacklogBounded
  BY TicksAdd DEF BankInv, Bounded, BacklogBounded

(***************************************************************************)
(* With a static placement and accesses that take time, the in_ports'      *)
(* tests keep each data bank from being booked further ahead than the      *)
(* write and the read of one block.                                        *)
(***************************************************************************)
THEOREM BacklogCorrect == ASSUME Static PROVE PortSpec => []BacklogBounded
  <1>1. PortInit => BankInv  BY BankInvInit
  <1>2. PortInv /\ BankInv /\ [PortNext]_portvars => BankInv'  BY BankInvStep
  <1> QED  BY <1>1, <1>2, BankInvBounds, PortInvariance, PTL DEF PortSpec
=============================================================================
