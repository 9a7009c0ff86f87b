---------------------------- MODULE L2PortProofs ----------------------------
(***************************************************************************)
(* The in_ports of the L2 and the array they drive, for every geometry,    *)
(* every number of cores and lines, and every run of the clock.            *)
(***************************************************************************)
EXTENDS L2Port, CacheMemoryProofs

States == Settled \cup Fetching \cup Blocked \cup Evicting

\* The calls that the actions of a transition make on a resident line.
BodyOps == {"setMRU", "TagArrayRead", "DataArrayRead", "DataArrayWrite"}
Ops == BodyOps \cup {"lookup", "allocate", "deallocate", "changePermission"}

PortTypeOK ==
    /\ L2State \in [Lines -> States]
    /\ requests \subseteq Request
    /\ stalled \in [Lines -> SUBSET Request]
    /\ calls \in Seq(Ops \X Lines)

-----------------------------------------------------------------------------
(***************************************************************************)
(* What controller and array must agree on for the line n, and how far a   *)
(* transition of the line m may have taken that agreement apart: the line  *)
(* is in the array until the last call removes it, and its permission is   *)
(* that of its state once the last call has set it.                        *)
(***************************************************************************)
Indexed(n) == m_tag_index[n] # Null
At(n) == Decode(m_tag_index[n])

Matches(n) ==
    /\ HasEntry(n) <=> Indexed(n)
    /\ HasEntry(n) => m_cache[At(n)].m_Permission = Permission(L2State[n])

Op(i) == calls[i][1]

Underway(m) ==
    /\ \A i \in 1 .. Len(calls) : calls[i][2] = m
    /\ \A i \in 2 .. Len(calls) : Op(i) # "allocate"
    /\ \A i \in 1 .. Len(calls) - 1 : Op(i) \notin {"changePermission", "deallocate"}
    /\ \A n \in Lines \ {m} : Matches(n)
    /\ IF Op(1) = "allocate" THEN ~Indexed(m) /\ cacheAvail(m) ELSE Indexed(m)
    /\ \/ Op(Len(calls)) = "changePermission" /\ HasEntry(m)
       \/ Op(Len(calls)) = "deallocate" /\ ~HasEntry(m) /\ Op(1) # "allocate"
       \/ Len(calls) = 1 /\ Op(1) = "lookup" /\ Matches(m)

\* c_exclusiveCleanReplacement reads the tag of the line m, which has left.
Departed(m) == /\ calls = ReadTag(m) /\ ~HasEntry(m)
               /\ \A n \in Lines : Matches(n)

CallInv == /\ calls = <<>> => \A n \in Lines : Matches(n)
           /\ calls # <<>> => \E m \in Lines : Underway(m) \/ Departed(m)

PortInv == Inv /\ PortTypeOK /\ CallInv

-----------------------------------------------------------------------------
(***************************************************************************)
(* Locating entries.                                                       *)
(***************************************************************************)
LEMMA AtSlot ==
    ASSUME Inv, NEW n \in Lines, Indexed(n)
    PROVE  /\ At(n) \in Slots /\ At(n) = Slot(n) /\ findTagInSet(n) = At(n)
           /\ m_cache[At(n)] \in Entry /\ m_cache[At(n)].m_Address = n
           /\ isTagPresent(n)
  <1>1. m_tag_index[n] = Encode(Slot(n)) /\ Slot(n) \in Slots
    BY Located DEF Indexed, Slot
  <1>2. At(n) = Slot(n)  BY <1>1, DecodeEncode DEF At
  <1> QED  BY <1>2, Located DEF Indexed, Slot

\* Two lines of the array are in two slots.
LEMMA AtInjective ==
    ASSUME Inv, NEW m \in Lines, NEW n \in Lines, Indexed(m), Indexed(n), m # n
    PROVE  At(m) # At(n)
  BY AtSlot

\* A step of the array on behalf of the line m.
StepFor(m) ==
    \/ Kept
    \/ \E e \in Entry : Rewritten(m, e)
    \/ \E slot \in Slots : Inserted(m, slot)
    \/ \E e \in Entry : Removed(m, e)

\* A step for one line leaves the entries and the tags of the others alone.
LEMMA OthersKept ==
    ASSUME Inv, NEW m \in Lines, NEW n \in Lines, n # m, StepFor(m)
    PROVE  /\ m_tag_index'[n] = m_tag_index[n]
           /\ Indexed(n) => m_cache'[At(n)] = m_cache[At(n)]
  <1>0. /\ m_tag_index \in [Lines -> Nat \union {Null}]
        /\ m_cache \in [Slots -> Entry \union {Null}]
    BY DEF Inv, TypeOK
  <1>1. CASE Kept  BY <1>1 DEF Kept
  <1>2. ASSUME NEW e \in Entry, Rewritten(m, e) \/ Removed(m, e)
        PROVE  /\ m_tag_index'[n] = m_tag_index[n]
               /\ Indexed(n) => m_cache'[At(n)] = m_cache[At(n)]
    <2>1. Indexed(m)  BY <1>2 DEF Rewritten, Removed, Indexed
    <2>2. At(m) = Slot(m) /\ At(m) \in Slots  BY <2>1, AtSlot
    <2>3. m_tag_index'[n] = m_tag_index[n]  BY <1>0, <1>2 DEF Rewritten, Removed
    <2>4. Indexed(n) => At(n) # At(m) /\ At(n) \in Slots
      BY <2>1, AtInjective, AtSlot
    <2> QED  BY <1>0, <1>2, <2>2, <2>3, <2>4 DEF Rewritten, Removed
  <1>3. ASSUME NEW slot \in Slots, Inserted(m, slot)
        PROVE  /\ m_tag_index'[n] = m_tag_index[n]
               /\ Indexed(n) => m_cache'[At(n)] = m_cache[At(n)]
    <2>1. Indexed(n) => At(n) # slot /\ At(n) \in Slots
      BY <1>3, AtSlot, Located DEF Inserted, Indexed, Slot
    <2> QED  BY <1>0, <1>3, <2>1 DEF Inserted
  <1> QED  BY <1>1, <1>2, <1>3 DEF StepFor

\* So what the controller knows of them still matches.
LEMMA OthersMatch ==
    ASSUME Inv, NEW m \in Lines, NEW n \in Lines, n # m, StepFor(m),
           L2State'[n] = L2State[n], Matches(n)
    PROVE  Matches(n)'
  <1>1. /\ m_tag_index'[n] = m_tag_index[n]
        /\ Indexed(n) => m_cache'[At(n)] = m_cache[At(n)]
    BY OthersKept
  <1>2. At(n)' = At(n) /\ (Indexed(n)' <=> Indexed(n)) /\ (HasEntry(n)' <=> HasEntry(n))
    BY <1>1 DEF At, Indexed, HasEntry
  <1> QED  BY <1>1, <1>2 DEF Matches

-----------------------------------------------------------------------------
(***************************************************************************)
(* The calls of a transition: getCacheEntry's lookup, the calls of the     *)
(* actions, and what the end of the transition does to the entry.          *)
(***************************************************************************)
LEMMA BracketShape ==
    ASSUME NEW T, NEW S \in SUBSET T, NEW x \in T, NEW y \in T, NEW body \in Seq(S)
    PROVE  LET c == <<x>> \o body \o <<y>>
           IN  /\ c \in Seq(T) /\ Len(c) = Len(body) + 2
               /\ c[1] = x /\ c[Len(c)] = y
               /\ \A i \in 2 .. Len(c) - 1 : c[i] \in S
  <1> DEFINE d == <<x>> \o body
             c == d \o <<y>>
  <1>1. body \in Seq(T) /\ Len(body) \in Nat  OBVIOUS
  <1>2. /\ d \in Seq(T) /\ Len(d) = Len(body) + 1 /\ d[1] = x
        /\ \A i \in 2 .. Len(d) : d[i] = body[i - 1]
    BY <1>1
  <1>3. \A i \in 2 .. Len(d) : d[i] \in S
    <2> TAKE i \in 2 .. Len(d)
    <2>1. i - 1 \in 1 .. Len(body)  BY <1>1, <1>2
    <2> QED  BY <1>2, <2>1
  <1> HIDE DEF d
  <1>4. /\ c \in Seq(T) /\ Len(c) = Len(d) + 1 /\ c[Len(c)] = y
        /\ \A i \in 1 .. Len(d) : c[i] = d[i]
    BY <1>1, <1>2
  <1> HIDE DEF c
  <1>5. c[1] = x /\ \A i \in 2 .. Len(c) - 1 : c[i] \in S
    BY <1>1, <1>2, <1>3, <1>4
  <1> QED  BY <1>2, <1>4, <1>5 DEF c, d

Bracket(n, op) ==
    \E body \in Seq(BodyOps \X {n}) :
        calls' = <<Call("lookup", n)>> \o body \o <<Call(op, n)>>

\* What such a list of calls says to Underway.
LEMMA BracketCalls ==
    ASSUME NEW n \in Lines, NEW op \in {"changePermission", "deallocate"}, Bracket(n, op)
    PROVE  /\ calls' \in Seq(Ops \X Lines) /\ Len(calls') \in Nat /\ Len(calls') >= 2
           /\ \A i \in 1 .. Len(calls') : calls'[i][2] = n
           /\ \A i \in 1 .. Len(calls') - 1 : calls'[i][1] \in BodyOps \cup {"lookup"}
           /\ calls'[1] = <<"lookup", n>> /\ calls'[Len(calls')] = <<op, n>>
  <1>1. PICK body \in Seq(BodyOps \X {n}) :
             calls' = <<Call("lookup", n)>> \o body \o <<Call(op, n)>>
    BY Zenon DEF Bracket
  <1>2. BodyOps \X {n} \in SUBSET (Ops \X Lines)  BY DEF Ops
  <1>3. Call("lookup", n) \in Ops \X Lines /\ Call(op, n) \in Ops \X Lines
    BY DEF Ops, Call
  <1>4. /\ calls' \in Seq(Ops \X Lines) /\ Len(calls') = Len(body) + 2
        /\ calls'[1] = <<"lookup", n>> /\ calls'[Len(calls')] = <<op, n>>
        /\ \A i \in 2 .. Len(calls') - 1 : calls'[i] \in BodyOps \X {n}
    BY <1>1, <1>2, <1>3, BracketShape DEF Call
  <1>5. Len(body) \in Nat  OBVIOUS
  <1>6. \A i \in 1 .. Len(calls') - 1 :
           calls'[i][1] \in BodyOps \cup {"lookup"} /\ calls'[i][2] = n
    <2> TAKE i \in 1 .. Len(calls') - 1
    <2>1. CASE i = 1  BY <1>4, <2>1
    <2>2. CASE i # 1  BY <1>4, <1>5, <2>2
    <2> QED  BY <2>1, <2>2
  <1> QED  BY <1>4, <1>5, <1>6

(***************************************************************************)
(* How a transition of the line n begins.                                  *)
(***************************************************************************)
Begins(n) ==
    /\ calls = <<>>
    /\ UNCHANGED array
    /\ \A a \in Lines \ {n} : L2State'[a] = L2State[a]
    /\ \/ calls' \in {<<>>, ReadTag(n)} /\ ~HasEntry(n) /\ ~HasEntry(n)'
       \/ Bracket(n, "changePermission") /\ HasEntry(n) /\ HasEntry(n)'
       \/ Bracket(n, "deallocate") /\ HasEntry(n) /\ ~HasEntry(n)'
       \/ /\ calls' = <<Call("allocate", n)>> \o ReadTag(n)
                          \o <<Call("changePermission", n)>>
          /\ ~HasEntry(n) /\ HasEntry(n)' /\ cacheAvail(n)
       \/ /\ calls' = <<Call("lookup", n)>>
          /\ HasEntry(n) /\ L2State' = L2State

\* While the array rests, so does all that is read from it.
LEMMA ArrayRests ==
    ASSUME UNCHANGED array, NEW n \in Lines
    PROVE  /\ Indexed(n)' <=> Indexed(n)
           /\ At(n)' = At(n) /\ m_cache' = m_cache
           /\ cacheAvail(n)' <=> cacheAvail(n)
           /\ isTagPresent(n)' <=> isTagPresent(n)
           /\ findTagInSet(n)' = findTagInSet(n)
  BY DEF array, Indexed, At, cacheAvail, Tagged, Free, isTagPresent, findTagInSet,
         findTagInSetIgnorePermissions, addressToCacheSet

\* A beginning keeps the agreement.
LEMMA BeginsKeeps ==
    ASSUME PortInv, NEW n \in Lines, Begins(n)
    PROVE  CallInv' /\ calls' \in Seq(Ops \X Lines)
  <1>0. \A op \in BodyOps \cup {"lookup"} :
           op \notin {"allocate", "changePermission", "deallocate"}
    BY DEF BodyOps
  <1>1. \A a \in Lines : Matches(a)  BY DEF PortInv, CallInv, Begins
  <1>2. \A a \in Lines \ {n} : Matches(a)'
    <2> TAKE a \in Lines \ {n}
    <2>1. Indexed(a)' = Indexed(a) /\ At(a)' = At(a) /\ m_cache' = m_cache
      BY ArrayRests DEF Begins, Indexed
    <2>2. L2State'[a] = L2State[a]  BY DEF Begins
    <2> QED  BY <1>1, <2>1, <2>2 DEF Matches, HasEntry
  <1>3. /\ Indexed(n)' <=> Indexed(n)
        /\ At(n)' = At(n) /\ m_cache' = m_cache
        /\ cacheAvail(n)' <=> cacheAvail(n)
        /\ Indexed(n) <=> HasEntry(n)
    BY <1>1, ArrayRests DEF Begins, Matches
  <1>4. CASE calls' \in {<<>>, ReadTag(n)} /\ ~HasEntry(n) /\ ~HasEntry(n)'
    <2>1. \A a \in Lines : Matches(a)'
      <3>1. Matches(n)'  BY <1>3, <1>4 DEF Matches
      <3> QED  BY Zenon, <1>2, <3>1
    <2>2. CASE calls' = <<>>  BY <2>1, <2>2 DEF CallInv
    <2>3. CASE calls' = ReadTag(n)
      <3>1. calls' # <<>> /\ calls' \in Seq(Ops \X Lines)
        BY <2>3 DEF ReadTag, Call, Ops, BodyOps
      <3>2. Departed(n)'  BY Zenon, <1>4, <2>1, <2>3 DEF Departed, ReadTag, Call
      <3> QED  BY Zenon, <3>1, <3>2 DEF CallInv
    <2> QED  BY <1>4, <2>2, <2>3
  <1>5. CASE Bracket(n, "changePermission") /\ HasEntry(n) /\ HasEntry(n)'
    <2>1. /\ calls' \in Seq(Ops \X Lines) /\ Len(calls') \in Nat /\ Len(calls') >= 2
          /\ \A i \in 1 .. Len(calls') : calls'[i][2] = n
          /\ \A i \in 1 .. Len(calls') - 1 : calls'[i][1] \in BodyOps \cup {"lookup"}
          /\ calls'[1][1] = "lookup" /\ calls'[Len(calls')][1] = "changePermission"
      BY <1>5, BracketCalls
    <2>2. \A i \in 1 .. Len(calls') - 1 :
             calls'[i][1] \notin {"allocate", "changePermission", "deallocate"}
      BY Zenon, <1>0, <2>1
    <2>3. \A i \in 2 .. Len(calls') : calls'[i][1] # "allocate"
      <3> TAKE i \in 2 .. Len(calls')
      <3>1. CASE i = Len(calls')  BY <2>1, <3>1
      <3>2. CASE i # Len(calls')  BY <2>1, <2>2, <3>2
      <3> QED  BY <3>1, <3>2
    <2>4. Underway(n)'
      BY <1>2, <1>3, <1>5, <2>1, <2>2, <2>3 DEF Underway, Op
    <2>5. calls' # <<>>  BY <2>1
    <2> QED  BY <2>1, <2>4, <2>5 DEF CallInv
  <1>6. CASE Bracket(n, "deallocate") /\ HasEntry(n) /\ ~HasEntry(n)'
    <2>1. /\ calls' \in Seq(Ops \X Lines) /\ Len(calls') \in Nat /\ Len(calls') >= 2
          /\ \A i \in 1 .. Len(calls') : calls'[i][2] = n
          /\ \A i \in 1 .. Len(calls') - 1 : calls'[i][1] \in BodyOps \cup {"lookup"}
          /\ calls'[1][1] = "lookup" /\ calls'[Len(calls')][1] = "deallocate"
      BY <1>6, BracketCalls
    <2>2. \A i \in 1 .. Len(calls') - 1 :
             calls'[i][1] \notin {"allocate", "changePermission", "deallocate"}
      BY Zenon, <1>0, <2>1
    <2>3. \A i \in 2 .. Len(calls') : calls'[i][1] # "allocate"
      <3> TAKE i \in 2 .. Len(calls')
      <3>1. CASE i = Len(calls')  BY <2>1, <3>1
      <3>2. CASE i # Len(calls')  BY <2>1, <2>2, <3>2
      <3> QED  BY <3>1, <3>2
    <2>4. Underway(n)'
      BY <1>2, <1>3, <1>6, <2>1, <2>2, <2>3 DEF Underway, Op
    <2>5. calls' # <<>>  BY <2>1
    <2> QED  BY <2>1, <2>4, <2>5 DEF CallInv
  <1>7. CASE /\ calls' = <<Call("allocate", n)>> \o ReadTag(n)
                             \o <<Call("changePermission", n)>>
             /\ ~HasEntry(n) /\ HasEntry(n)' /\ cacheAvail(n)
    <2>1. /\ Len(calls') = 3 /\ calls'[1] = <<"allocate", n>>
          /\ calls'[2] = <<"TagArrayRead", n>> /\ calls'[3] = <<"changePermission", n>>
          /\ calls' # <<>> /\ calls' \in Seq(Ops \X Lines)
      <3> DEFINE S == {Call("TagArrayRead", n)}
      <3>1. /\ S \in SUBSET (Ops \X Lines) /\ ReadTag(n) \in Seq(S)
            /\ Call("allocate", n) \in Ops \X Lines
            /\ Call("changePermission", n) \in Ops \X Lines
        BY DEF Call, Ops, BodyOps, ReadTag
      <3>2. Len(ReadTag(n)) = 1  BY DEF ReadTag
      <3>3. /\ calls' \in Seq(Ops \X Lines) /\ Len(calls') = 3
            /\ calls'[1] = Call("allocate", n)
            /\ calls'[3] = Call("changePermission", n)
            /\ \A i \in 2 .. 2 : calls'[i] \in S
        <4> DEFINE c == <<Call("allocate", n)>> \o ReadTag(n)
                          \o <<Call("changePermission", n)>>
        <4> HIDE DEF S
        <4>1. /\ c \in Seq(Ops \X Lines) /\ Len(c) = Len(ReadTag(n)) + 2
              /\ c[1] = Call("allocate", n) /\ c[Len(c)] = Call("changePermission", n)
              /\ \A i \in 2 .. Len(c) - 1 : c[i] \in S
          BY <3>1, BracketShape
        <4> HIDE DEF c
        <4>2. calls' = c  BY <1>7 DEF c
        <4> QED  BY <3>2, <4>1, <4>2
      <3> QED  BY <3>3 DEF Call
    <2>2. Underway(n)'  BY <1>2, <1>3, <1>7, <2>1 DEF Underway, Op
    <2> QED  BY <2>1, <2>2 DEF CallInv
  <1>8. CASE calls' = <<Call("lookup", n)>> /\ HasEntry(n) /\ L2State' = L2State
    <2>1. /\ Len(calls') = 1 /\ calls'[1] = <<"lookup", n>>
          /\ calls' # <<>> /\ calls' \in Seq(Ops \X Lines)
      BY <1>8 DEF Call, Ops
    <2>2. Matches(n)'  BY <1>1, <1>3, <1>8 DEF Matches, HasEntry
    <2>3. Underway(n)'  BY <1>2, <1>3, <1>8, <2>1, <2>2 DEF Underway, Op
    <2> QED  BY <2>1, <2>3 DEF CallInv
  <1> QED  BY <1>4, <1>5, <1>6, <1>7, <1>8 DEF Begins

-----------------------------------------------------------------------------
(***************************************************************************)
(* One call of the array.                                                  *)
(***************************************************************************)
LEMMA PermissionGiven == \A state : Permission(state) \in Permissions
  BY PortAssumption DEF Permission

\* A call is an operation of the array.
LEMMA PerformIsNext ==
    ASSUME NEW op, NEW m \in Lines, Perform(op, m)
    PROVE  Next
  BY PermissionGiven DEF Perform, Next

\* lookup() changes the expiry of an entry and nothing else.
LEMMA LookupKeepsPermission ==
    ASSUME Inv, NEW m \in Lines, Indexed(m), lookup(m)
    PROVE  m_cache'[At(m)].m_Permission = m_cache[At(m)].m_Permission
  <1>1. At(m) \in Slots /\ findTagInSet(m) = At(m) /\ m_cache[At(m)] \in Entry
    BY AtSlot
  <1>2. m_cache'[At(m)] = [m_cache[At(m)] EXCEPT
                              !.m_is_expired = @ \/ Decayed(m_cache[At(m)])]
    BY <1>1 DEF lookup, Inv, TypeOK
  <1> QED  BY <1>1, <1>2 DEF Entry

\* What a call does to its line, which is in the array unless the call is
\* the one that brings it there.
LEMMA PerformShape ==
    ASSUME Inv, NEW op \in Ops, NEW m \in Lines, Perform(op, m),
           op = "allocate" <=> ~Indexed(m)
    PROVE  /\ StepFor(m)
           /\ Indexed(m)' <=> op # "deallocate"
           /\ Indexed(m) /\ op # "deallocate" => At(m)' = At(m)
           /\ op = "lookup" => m_cache'[At(m)].m_Permission = m_cache[At(m)].m_Permission
           /\ op = "changePermission" =>
                 m_cache'[At(m)].m_Permission = Permission(L2State[m])
  <1>0. /\ m_tag_index \in [Lines -> Nat \union {Null}]
        /\ m_cache \in [Slots -> Entry \union {Null}]
    BY DEF Inv, TypeOK
  <1>1. CASE op = "allocate"
    <2>1. allocate(m) /\ ~Tagged(m)
      BY <1>1, TaggedIffIndexed DEF Perform, Indexed
    <2>2. PICK slot \in Slots : Inserted(m, slot)
      BY <2>1, AllocateNewShape DEF allocate, AllocateReuse
    <2>3. Indexed(m)'
      BY <1>0, <2>2, DecodeEncode, GeometryAssumption DEF Inserted, Indexed
    <2> QED  BY <1>1, <2>2, <2>3 DEF StepFor
  <1>2. CASE op = "deallocate"
    <2>1. PICK e \in Entry : Removed(m, e)
      BY <1>2, DeallocateShape DEF Perform
    <2>2. ~Indexed(m)'  BY <1>0, <2>1 DEF Removed, Indexed
    <2> QED  BY <1>2, <2>1, <2>2 DEF StepFor
  <1>3. CASE op \notin {"allocate", "deallocate"}
    <2>1. Indexed(m)  BY <1>3
    <2>2. m_tag_index[m] # Null  BY <2>1 DEF Indexed
    <2>3. Permission(L2State[m]) \in Permissions  BY PermissionGiven
    <2>4. \E e \in Entry : Rewritten(m, e)
      BY <1>3, <2>2, <2>3, LookupShape, SetMRUShape, TagArrayReadShape,
         DataArrayReadShape, DataArrayWriteShape, ChangePermissionShape
         DEF Perform
    <2>5. m_tag_index' = m_tag_index  BY <2>4 DEF Rewritten
    <2>6. At(m) \in Slots /\ findTagInSet(m) = At(m) /\ m_cache[At(m)] \in Entry
      BY <2>1, AtSlot
    <2>7. op = "lookup" => m_cache'[At(m)].m_Permission = m_cache[At(m)].m_Permission
      BY <2>1, LookupKeepsPermission DEF Perform
    <2>8. op = "changePermission" =>
             m_cache'[At(m)].m_Permission = Permission(L2State[m])
      <3> HAVE op = "changePermission"
      <3>1. changePermission(m, Permission(L2State[m]))  BY DEF Perform
      <3>2. m_cache'[At(m)] = [m_cache[At(m)] EXCEPT !.m_Permission = Permission(L2State[m])]
        BY <1>0, <2>6, <3>1 DEF changePermission
      <3> QED  BY <2>6, <3>2 DEF Entry
    <2> QED  BY <1>3, <2>1, <2>4, <2>5, <2>7, <2>8 DEF StepFor, Indexed, At
  <1> QED  BY <1>1, <1>2, <1>3

\* The tag read of a line that has left is the only call, and changes nothing.
LEMMA DepartedCall ==
    ASSUME PortInv, MakeCall, NEW m \in Lines, Departed(m)
    PROVE  /\ calls' = <<>> /\ UNCHANGED array /\ L2State' = L2State
           /\ \A n \in Lines : Matches(n)'
  <1>1. calls = <<<<"TagArrayRead", m>>>>  BY DEF Departed, ReadTag, Call
  <1>2. calls' = <<>> /\ L2State' = L2State  BY <1>1 DEF MakeCall, control
  <1>3. TagArrayRead(m)  BY <1>1 DEF MakeCall, Perform
  <1>4. ~Tagged(m)
    <2>1. ~Indexed(m)  BY DEF Departed, Matches
    <2> QED  BY <2>1, TaggedIffIndexed DEF Indexed, PortInv
  <1>5. UNCHANGED array  BY <1>3, <1>4 DEF TagArrayRead, array
  <1>6. ASSUME NEW n \in Lines  PROVE Matches(n)'
    <2>1. Indexed(n)' = Indexed(n) /\ At(n)' = At(n) /\ m_cache' = m_cache
      BY <1>5, ArrayRests DEF Indexed
    <2> QED  BY <1>2, <2>1 DEF Departed, Matches, HasEntry
  <1> QED  BY <1>2, <1>5, <1>6

\* Making a call of a transition under way keeps the agreement.
LEMMA UnderwayCall ==
    ASSUME PortInv, MakeCall, NEW m \in Lines, Underway(m)
    PROVE  CallInv' /\ calls' \in Seq(Ops \X Lines)
  <1>1. calls \in Seq(Ops \X Lines) /\ calls # <<>> /\ Inv
    BY DEF MakeCall, PortInv, PortTypeOK
  <1>2. Underway(m)  OBVIOUS
  <1> DEFINE N == Len(calls)
             op == calls[1][1]
  <1>3. N \in Nat /\ N >= 1 /\ op \in Ops /\ calls[1][2] = m
    BY <1>1, <1>2 DEF Underway
  <1>4. calls' = Tail(calls) /\ L2State' = L2State /\ Perform(op, m)
    BY <1>3 DEF MakeCall, control
  <1>5. /\ calls' \in Seq(Ops \X Lines) /\ Len(calls') = N - 1
        /\ \A i \in 1 .. N - 1 : calls'[i] = calls[i + 1]
    BY <1>1, <1>3, <1>4
  <1>6. op = "allocate" <=> ~Indexed(m)  BY <1>2 DEF Underway, Op
  <1>7. /\ StepFor(m)
        /\ Indexed(m)' <=> op # "deallocate"
        /\ Indexed(m) /\ op # "deallocate" => At(m)' = At(m)
        /\ op = "lookup" => m_cache'[At(m)].m_Permission = m_cache[At(m)].m_Permission
        /\ op = "changePermission" =>
              m_cache'[At(m)].m_Permission = Permission(L2State[m])
    BY <1>1, <1>3, <1>4, <1>6, PerformShape
  <1>8. \A n \in Lines \ {m} : Matches(n)'
    <2> TAKE n \in Lines \ {m}
    <2>1. Matches(n)  BY <1>2 DEF Underway
    <2> QED  BY <1>1, <1>4, <1>7, <2>1, OthersMatch
  <1>9. HasEntry(m)' <=> HasEntry(m)  BY <1>4 DEF HasEntry
  <1> HIDE DEF N, op
  <1>10. CASE N = 1
    <2>1. calls' = <<>>  BY <1>5, <1>10
    <2>2. \/ op = "changePermission" /\ HasEntry(m)
          \/ op = "deallocate" /\ ~HasEntry(m)
          \/ op = "lookup" /\ Matches(m)
      BY <1>2, <1>10 DEF Underway, Op, N, op
    <2>3. Matches(m)'
      BY <1>4, <1>6, <1>7, <1>9, <2>2 DEF Matches, HasEntry
    <2> QED  BY <1>5, <1>8, <2>1, <2>3 DEF CallInv
  <1>11. CASE N > 1
    <2>1. op \notin {"changePermission", "deallocate"}
      BY <1>2, <1>3, <1>11 DEF Underway, Op, N, op
    <2>2. Indexed(m)'  BY <1>7, <2>1
    <2>3. calls'[N - 1] = calls[N] /\ calls'[1] = calls[2] /\ calls' # <<>>
      BY <1>3, <1>5, <1>11
    <2>4. \A i \in 1 .. N - 1 : calls'[i][2] = m /\ calls'[i][1] # "allocate"
      <3> TAKE i \in 1 .. N - 1
      <3>1. i + 1 \in 1 .. N /\ i + 1 \in 2 .. N  BY <1>3
      <3>2. calls[i + 1][2] = m /\ calls[i + 1][1] # "allocate"
        BY <1>2, <3>1 DEF Underway, Op, N
      <3> QED  BY <1>5, <3>2
    <2>5. \A i \in 1 .. N - 2 : calls'[i][1] \notin {"changePermission", "deallocate"}
      <3> TAKE i \in 1 .. N - 2
      <3>1. i + 1 \in 1 .. N - 1 /\ i \in 1 .. N - 1  BY <1>3
      <3>2. calls[i + 1][1] \notin {"changePermission", "deallocate"}
        BY <1>2, <3>1 DEF Underway, Op, N
      <3> QED  BY <1>5, <3>1, <3>2
    <2>6. \/ calls[N][1] = "changePermission" /\ HasEntry(m)
          \/ calls[N][1] = "deallocate" /\ ~HasEntry(m)
      BY <1>2, <1>11 DEF Underway, Op, N
    <2>7. Len(calls') = N - 1 /\ 1 \in 1 .. N - 1  BY <1>3, <1>5, <1>11
    <2>8. calls'[1][1] # "allocate"  BY <2>4, <2>7
    <2>9. /\ \A i \in 2 .. N - 1 : calls'[i][1] # "allocate"
          /\ \A i \in 1 .. (N - 1) - 1 :
                calls'[i][1] \notin {"changePermission", "deallocate"}
      BY <1>3, <2>4, <2>5
    <2>10. \/ calls'[N - 1][1] = "changePermission" /\ HasEntry(m)'
           \/ calls'[N - 1][1] = "deallocate" /\ ~HasEntry(m)'
      BY <1>9, <2>3, <2>6
    <2>11. Underway(m)'
      BY <1>8, <2>2, <2>4, <2>7, <2>8, <2>9, <2>10 DEF Underway, Op
    <2> QED  BY <1>5, <2>3, <2>11 DEF CallInv
  <1> QED  BY <1>3, <1>5, <1>10, <1>11

\* Making a call keeps the agreement.
LEMMA CallKeeps ==
    ASSUME PortInv, MakeCall
    PROVE  CallInv' /\ calls' \in Seq(Ops \X Lines)
  <1>1. PICK m \in Lines : Underway(m) \/ Departed(m)
    BY DEF MakeCall, PortInv, CallInv
  <1>2. CASE Underway(m)  BY <1>2, UnderwayCall
  <1>3. CASE Departed(m)
    <2>1. calls' = <<>> /\ \A n \in Lines : Matches(n)'  BY <1>3, DepartedCall
    <2>2. <<>> \in Seq(Ops \X Lines)  OBVIOUS
    <2> QED  BY <2>1, <2>2 DEF CallInv
  <1> QED  BY <1>1, <1>2, <1>3

-----------------------------------------------------------------------------
(***************************************************************************)
(* What a step of the in_ports does before the array is called: it begins  *)
(* a transition of one line, which keeps its entry if it is in the middle  *)
(* of a transaction, and wakes the requests that wait for the line if the  *)
(* transaction ends.                                                       *)
(***************************************************************************)
Turn(n) ==
    /\ Begins(n)
    /\ \E state \in States : L2State' = [L2State EXCEPT ![n] = state]
    /\ L2State[n] \in Fetching \cup Blocked => HasEntry(n)'
    /\ requests' \subseteq Request
    /\ stalled' \in [Lines -> SUBSET Request]
    /\ \A a \in Lines \ {n} : stalled'[a] = stalled[a]
    /\ \/ L2State'[n] \notin Settled
       \/ stalled'[n] = {}
       \/ L2State[n] \in Settled /\ stalled'[n] = stalled[n]

\* The calls of the actions are calls on the line of the transition.
LEMMA BodyTyped ==
    ASSUME NEW n
    PROVE  /\ <<>> \in Seq(BodyOps \X {n})
           /\ WriteBlock(n) \in Seq(BodyOps \X {n})
           /\ ReadBlock(n) \in Seq(BodyOps \X {n})
           /\ ReadTag(n) \in Seq(BodyOps \X {n})
           /\ Touch(n) \in Seq(BodyOps \X {n})
           /\ \A b, c \in Seq(BodyOps \X {n}) : b \o c \in Seq(BodyOps \X {n})
  <1>1. \A op \in BodyOps : <<op, n>> \in BodyOps \X {n}  OBVIOUS
  <1>2. /\ <<"TagArrayRead", n>> \in BodyOps \X {n}
        /\ <<"DataArrayRead", n>> \in BodyOps \X {n}
        /\ <<"DataArrayWrite", n>> \in BodyOps \X {n}
        /\ <<"setMRU", n>> \in BodyOps \X {n}
    BY <1>1 DEF BodyOps
  <1> DEFINE T == BodyOps \X {n}
  <1> HIDE DEF T
  <1>3. \A x, y \in T : <<x>> \in Seq(T) /\ <<x, y>> \in Seq(T)  OBVIOUS
  <1>4. \A b, c \in Seq(T) : b \o c \in Seq(T)  OBVIOUS
  <1> QED  BY <1>2, <1>3, <1>4 DEF T, WriteBlock, ReadBlock, ReadTag, Touch, Call

\* A transition that gives the line an entry if and only if it had one.
LEMMA TransitionBegins ==
    ASSUME PortTypeOK, calls = <<>>, NEW n \in Lines, NEW state \in States,
           NEW body \in Seq(BodyOps \X {n}), Transition(n, state, body),
           ~HasEntry(n) => body \in {<<>>, ReadTag(n)},
           HasEntry(n) <=> state \notin {"NP"} \cup Evicting
    PROVE  /\ Begins(n)
           /\ L2State' = [L2State EXCEPT ![n] = state]
           /\ L2State'[n] = state
           /\ HasEntry(n)' <=> HasEntry(n)
  <1>1. /\ L2State' = [L2State EXCEPT ![n] = state]
        /\ L2State'[n] = state
        /\ \A a \in Lines \ {n} : L2State'[a] = L2State[a]
    BY DEF Transition, PortTypeOK
  <1>2. HasEntry(n)' <=> HasEntry(n)  BY <1>1 DEF HasEntry
  <1>3. CASE HasEntry(n)
    <2>1. calls' = <<Call("lookup", n)>> \o body \o <<Call("changePermission", n)>>
      BY <1>3 DEF Transition
    <2>2. Bracket(n, "changePermission")  BY Zenon, <2>1 DEF Bracket
    <2> QED  BY <1>1, <1>2, <1>3, <2>2 DEF Begins, Transition
  <1>4. CASE ~HasEntry(n)
    BY <1>1, <1>2, <1>4 DEF Begins, Transition
  <1> QED  BY <1>1, <1>2, <1>3, <1>4

\* An eviction that is allowed to begin takes the entry of a settled line.
LEMMA EvictBegins ==
    ASSUME PortTypeOK, calls = <<>>, NEW n \in Lines, L2State[n] \in {"SS", "M", "MT"},
           NEW clean \in BOOLEAN, Evict(n, clean)
    PROVE  Turn(n)
  <1>1. PICK body \in {ReadTag(n), ReadBlock(n)} :
           calls' = <<Call("lookup", n)>> \o body \o <<Call("deallocate", n)>>
    BY Zenon DEF Evict
  <1>2. Bracket(n, "deallocate")  BY Zenon, <1>1, BodyTyped DEF Bracket
  <1>3. \E state \in Evicting : L2State' = [L2State EXCEPT ![n] = state]
    BY Zenon DEF Evict, Evicting
  <1>4. L2State'[n] \in Evicting /\ \A a \in Lines \ {n} : L2State'[a] = L2State[a]
    BY <1>3 DEF PortTypeOK
  <1>5. HasEntry(n) /\ ~HasEntry(n)'  BY <1>4 DEF HasEntry, Evicting
  <1>6. Begins(n)  BY <1>2, <1>4, <1>5 DEF Begins, Evict
  <1>7. L2State'[n] \notin Settled /\ L2State[n] \notin Fetching \cup Blocked
    BY <1>4 DEF Settled, Evicting, Fetching, Blocked
  <1>8. UNCHANGED <<requests, stalled>>  BY DEF Evict, NoWake
  <1> QED  BY Zenon, <1>3, <1>6, <1>7, <1>8 DEF Turn, States, PortTypeOK

-----------------------------------------------------------------------------
(***************************************************************************)
(* L1RequestL2Network_in takes its turns.                                  *)
(***************************************************************************)
\* A transition for a request that is popped, of a line that keeps or leaves
\* a settled state, or stays in a transaction.
LEMMA PoppedTurn ==
    ASSUME PortTypeOK, calls = <<>>, NEW n \in Lines, NEW state \in States,
           NEW body \in Seq(BodyOps \X {n}), Transition(n, state, body),
           ~HasEntry(n) => body \in {<<>>, ReadTag(n)},
           HasEntry(n) <=> state \notin {"NP"} \cup Evicting,
           state \in Settled => L2State[n] \in Settled,
           NEW r, Pop(r)
    PROVE  Turn(n)
  <1>1. /\ Begins(n) /\ L2State' = [L2State EXCEPT ![n] = state]
        /\ L2State'[n] = state /\ (HasEntry(n)' <=> HasEntry(n))
    BY TransitionBegins
  <1>2. L2State[n] \in Fetching \cup Blocked => HasEntry(n)
    BY DEF HasEntry, Fetching, Blocked, Evicting
  <1>3. requests' \subseteq Request /\ stalled' = stalled  BY DEF Pop, PortTypeOK
  <1> QED  BY Zenon, <1>1, <1>2, <1>3 DEF Turn, PortTypeOK

\* A request that finds no entry, and a way for one.
LEMMA MissTurn ==
    ASSUME PortTypeOK, NEW r \in requests, Miss(r)
    PROVE  Turn(r.line)
  <1> DEFINE n == r.line
  <1>1. n \in Lines /\ calls = <<>> /\ L2State[n] = "NP"
    BY DEF PortTypeOK, Request, Miss, Reaches, Ready
  <1>2. ~HasEntry(n) /\ cacheAvail(n)  BY <1>1 DEF HasEntry, Miss, Reaches
  <1>3. \E state \in Fetching : L2State' = [L2State EXCEPT ![n] = state]
    BY Zenon DEF Miss, Fetching
  <1>4. L2State'[n] \in Fetching /\ \A a \in Lines \ {n} : L2State'[a] = L2State[a]
    BY <1>1, <1>3 DEF PortTypeOK
  <1>5. HasEntry(n)' /\ L2State'[n] \notin Settled
    BY <1>4 DEF HasEntry, Fetching, Evicting, Settled
  <1>6. calls' = <<Call("allocate", n)>> \o ReadTag(n) \o <<Call("changePermission", n)>>
    BY DEF Miss
  <1>7. Begins(n)  BY <1>1, <1>2, <1>4, <1>5, <1>6 DEF Begins, Miss
  <1>8. requests' \subseteq Request /\ stalled' = stalled  BY DEF Miss, Pop, PortTypeOK
  <1> QED  BY Zenon, <1>3, <1>5, <1>7, <1>8 DEF Turn, PortTypeOK, States

\* A second reader joins the fetch.
LEMMA JoinTurn ==
    ASSUME PortTypeOK, NEW r \in requests, Join(r)
    PROVE  Turn(r.line)
  <1>1. r.line \in Lines /\ calls = <<>>
    BY DEF PortTypeOK, Request, Join, Reaches, Ready
  <1>2. HasEntry(r.line)  BY DEF Join, HasEntry, Evicting
  <1>3. Transition(r.line, "IS", <<>>) /\ Pop(r)  BY DEF Join
  <1>4. "IS" \in States /\ "IS" \notin {"NP"} \cup Evicting /\ "IS" \notin Settled
    BY DEF States, Fetching, Evicting, Settled
  <1> QED  BY Zenon, <1>1, <1>2, <1>3, <1>4, BodyTyped, PoppedTurn

\* A request that finds the line settled in the array.
LEMMA HitTurn ==
    ASSUME PortTypeOK, NEW r \in requests, Hit(r)
    PROVE  Turn(r.line)
  <1> DEFINE n == r.line
  <1>1. n \in Lines /\ calls = <<>>
    BY DEF PortTypeOK, Request, Hit, Reaches, Ready
  <1>2. L2State[n] \in {"SS", "M", "MT"}  BY DEF Hit
  <1>3. HasEntry(n) /\ L2State[n] \in Settled  BY <1>2 DEF HasEntry, Evicting, Settled
  <1>4. PICK state \in {"SS", "SS_MB", "MT_MB", "MT_IIB"},
             body \in {ReadBlock(n) \o ReadTag(n), ReadTag(n), ReadBlock(n)} :
           Transition(n, state, body \o Touch(n))
    BY DEF Hit
  <1>5. state \in States /\ state \notin {"NP"} \cup Evicting
    BY DEF States, Settled, Blocked, Evicting
  <1>6. body \o Touch(n) \in Seq(BodyOps \X {n})  BY Zenon, BodyTyped
  <1>7. Pop(r)  BY DEF Hit
  <1> QED  BY Zenon, <1>1, <1>3, <1>4, <1>5, <1>6, <1>7, PoppedTurn

\* A writeback, of the owner or of a former one.
LEMMA WritebackTurn ==
    ASSUME PortTypeOK, NEW r \in requests, Writeback(r)
    PROVE  Turn(r.line)
  <1> DEFINE n == r.line
  <1>1. n \in Lines /\ calls = <<>> /\ L2State[n] \in States
    BY DEF PortTypeOK, Request, Writeback, Reaches, Ready
  <1>2. Pop(r) /\ <<>> \in Seq(BodyOps \X {n})  BY BodyTyped DEF Writeback
  <1>3. PICK state \in States :
           /\ Transition(n, state, <<>>)
           /\ HasEntry(n) <=> state \notin {"NP"} \cup Evicting
           /\ state \in Settled => L2State[n] \in Settled
    <2>1. CASE L2State[n] = "MT" /\ Transition(n, "M", <<>>)
      BY <2>1 DEF HasEntry, States, Settled, Evicting
    <2>2. CASE L2State[n] \in {"MT_I", "MCT_I"} /\ Transition(n, "M_I", <<>>)
      BY <2>2 DEF HasEntry, States, Settled, Evicting
    <2>3. CASE Transition(n, L2State[n], <<>>)
      BY <1>1, <2>3 DEF HasEntry
    <2> QED  BY <2>1, <2>2, <2>3 DEF Writeback
  <1> QED  BY Zenon, <1>1, <1>2, <1>3, PoppedTurn

\* A request that waits for the transaction of the line n.
LEMMA StallTurn ==
    ASSUME PortTypeOK, calls = <<>>, NEW n \in Lines, NEW r \in requests,
           L2State[n] \notin Settled,
           Transition(n, L2State[n], <<>>), StallOn(r, n)
    PROVE  Turn(n)
  <1>1. L2State[n] \in States  BY DEF PortTypeOK
  <1>2. /\ Begins(n) /\ L2State' = [L2State EXCEPT ![n] = L2State[n]]
        /\ L2State'[n] = L2State[n] /\ (HasEntry(n)' <=> HasEntry(n))
    BY Zenon, <1>1, BodyTyped, TransitionBegins DEF HasEntry
  <1>3. L2State[n] \in Fetching \cup Blocked => HasEntry(n)
    BY DEF HasEntry, Fetching, Blocked, Evicting
  <1>4. /\ requests' \subseteq Request /\ stalled' \in [Lines -> SUBSET Request]
        /\ \A a \in Lines \ {n} : stalled'[a] = stalled[a]
    BY DEF StallOn, PortTypeOK
  <1> QED  BY Zenon, <1>1, <1>2, <1>3, <1>4 DEF Turn

\* A request waits for the transaction of its own line.
LEMMA WaitTurn ==
    ASSUME PortTypeOK, NEW r \in requests, Wait(r)
    PROVE  Turn(r.line)
  <1>1. r.line \in Lines /\ calls = <<>>
    BY DEF PortTypeOK, Request, Wait, Reaches, Ready
  <1>2. L2State[r.line] \notin Settled
    BY DEF Wait, MustWait, Settled, Fetching, Blocked, Evicting
  <1> QED  BY <1>1, <1>2, StallTurn DEF Wait

\* A request that finds its set full begins a transition of the victim.
LEMMA MakeRoomTurn ==
    ASSUME PortInv, NEW r \in requests, MakeRoom(r)
    PROVE  \E n \in Lines : Turn(n)
  <1>1. r.line \in Lines /\ calls = <<>> /\ ~cacheAvail(r.line)
    BY DEF PortInv, PortTypeOK, Request, MakeRoom, Ready
  <1>2. PICK v \in Lines : v = cacheProbe(r.line) /\ isTagPresent(v)
    BY <1>1, VictimFound DEF PortInv
  <1>3. HasEntry(v)
    <2>1. Indexed(v)  BY <1>2, TaggedIffIndexed DEF Indexed, PortInv
    <2>2. Matches(v)  BY <1>1, <1>2 DEF PortInv, CallInv
    <2> QED  BY <2>1, <2>2 DEF Matches
  <1>4. CASE L2State[v] \in {"SS", "M", "MT"} /\ \E clean \in BOOLEAN : Evict(v, clean)
    BY <1>1, <1>2, <1>4, EvictBegins DEF PortInv
  <1>5. CASE L2State[v] \in Blocked /\ Transition(v, L2State[v], <<>>) /\ StallOn(r, v)
    <2>1. L2State[v] \notin Settled  BY <1>5 DEF Blocked, Settled
    <2> QED  BY <1>1, <1>2, <1>5, <2>1, StallTurn DEF PortInv
  <1>6. CASE HasTBE(v) /\ calls' = <<Call("lookup", v)>> /\ UNCHANGED <<array, control, sent>>
    <2>1. Begins(v)  BY <1>1, <1>3, <1>6 DEF Begins, control
    <2>2. L2State' = [L2State EXCEPT ![v] = L2State[v]] /\ L2State[v] \in States
      BY <1>2, <1>6 DEF control, PortInv, PortTypeOK
    <2>3. L2State[v] \notin Settled
      BY <1>6 DEF HasTBE, Settled, Fetching, Evicting
    <2>4. HasEntry(v)'  BY <1>3, <1>6 DEF HasEntry, control
    <2> QED
      BY Zenon, <1>6, <2>1, <2>2, <2>3, <2>4 DEF Turn, control, PortInv, PortTypeOK
  <1> QED  BY <1>2, <1>4, <1>5, <1>6 DEF MakeRoom

-----------------------------------------------------------------------------
(***************************************************************************)
(* responseL2Network_in and L1unblockNetwork_in take their turns.          *)
(***************************************************************************)
\* A transition that stays in a transaction, or ends it and wakes those who
\* wait for it.
LEMMA AnswerTurn ==
    ASSUME PortTypeOK, calls = <<>>, NEW n \in Lines, NEW state \in States,
           NEW body \in Seq(BodyOps \X {n}), Transition(n, state, body),
           ~HasEntry(n) => body \in {<<>>, ReadTag(n)},
           HasEntry(n) <=> state \notin {"NP"} \cup Evicting,
           Wake(n) \/ (NoWake /\ (state \in Settled => L2State[n] \in Settled))
    PROVE  Turn(n)
  <1>1. /\ Begins(n) /\ L2State' = [L2State EXCEPT ![n] = state]
        /\ L2State'[n] = state /\ (HasEntry(n)' <=> HasEntry(n))
    BY TransitionBegins
  <1>2. L2State[n] \in Fetching \cup Blocked => HasEntry(n)
    BY DEF HasEntry, Fetching, Blocked, Evicting
  <1>3. CASE Wake(n)
    <2>1. /\ requests' \subseteq Request /\ stalled' \in [Lines -> SUBSET Request]
          /\ stalled'[n] = {} /\ \A a \in Lines \ {n} : stalled'[a] = stalled[a]
      BY <1>3 DEF Wake, PortTypeOK
    <2> QED  BY Zenon, <1>1, <1>2, <2>1 DEF Turn
  <1>4. CASE NoWake /\ (state \in Settled => L2State[n] \in Settled)
    BY Zenon, <1>1, <1>2, <1>4 DEF Turn, NoWake, PortTypeOK
  <1> QED  BY <1>3, <1>4

\* Which lines have an entry, by the state they are in.
LEMMA EntryOfState ==
    ASSUME NEW n
    PROVE  /\ L2State[n] \in Fetching \cup Blocked \cup {"SS", "M", "MT"} => HasEntry(n)
           /\ L2State[n] \in Evicting => ~HasEntry(n)
           /\ States \ ({"NP"} \cup Evicting) = Fetching \cup Blocked \cup {"SS", "M", "MT"}
           /\ (Fetching \cup Blocked \cup Evicting) \cap Settled = {}
  BY DEF HasEntry, States, Settled, Fetching, Blocked, Evicting

\* The block arrives from memory.
LEMMA MemDataTurn ==
    ASSUME PortTypeOK, NEW n \in Lines, Mem_Data(n)
    PROVE  Turn(n)
  <1>1. calls = <<>>  BY DEF Mem_Data, Responds
  <1>2. WriteBlock(n) \o ReadBlock(n) \in Seq(BodyOps \X {n})  BY Zenon, BodyTyped
  <1>3. HasEntry(n)  BY EntryOfState DEF Mem_Data, Fetching
  <1>4. /\ "MT_MB" \in States \ ({"NP"} \cup Evicting) /\ "MT_MB" \notin Settled
        /\ "SS" \in States \ ({"NP"} \cup Evicting)
    BY DEF States, Settled, Blocked, Evicting
  <1> QED  BY Zenon, <1>1, <1>2, <1>3, <1>4, AnswerTurn DEF Mem_Data

\* The owner's block arrives.
LEMMA WBDataTurn ==
    ASSUME PortTypeOK, NEW n \in Lines, WB_Data(n)
    PROVE  Turn(n)
  <1>1. calls = <<>>  BY DEF WB_Data, Responds
  <1>2. WriteBlock(n) \in Seq(BodyOps \X {n}) /\ <<>> \in Seq(BodyOps \X {n})
    BY BodyTyped
  <1>3. /\ {"MT_SB", "SS"} \subseteq States \ ({"NP"} \cup Evicting)
        /\ "MT_SB" \notin Settled /\ "M_I" \in Evicting \cap States /\ "M_I" \notin Settled
    BY DEF States, Settled, Blocked, Evicting
  <1>4. CASE L2State[n] \in {"MT_IIB", "MT_IB"}
    <2>1. HasEntry(n)  BY <1>4, EntryOfState DEF Blocked
    <2> QED  BY <1>1, <1>2, <1>3, <1>4, <2>1, AnswerTurn DEF WB_Data
  <1>5. CASE L2State[n] \in {"MT_I", "MCT_I"}
    <2>1. ~HasEntry(n)  BY <1>5, EntryOfState DEF Evicting
    <2>2. PICK body \in {<<>>, ReadTag(n)} : Transition(n, "M_I", body) /\ NoWake
      BY <1>5 DEF WB_Data
    <2>3. body \in Seq(BodyOps \X {n})  BY Zenon, BodyTyped
    <2> QED  BY Zenon, <1>1, <1>3, <2>1, <2>2, <2>3, AnswerTurn
  <1> QED  BY <1>4, <1>5 DEF WB_Data

\* The last sharer, or the owner, has acknowledged the eviction.
LEMMA AckAllTurn ==
    ASSUME PortTypeOK, NEW n \in Lines, Ack_all(n)
    PROVE  Turn(n)
  <1>1. calls = <<>>  BY DEF Ack_all, Responds
  <1>2. ~HasEntry(n)  BY EntryOfState DEF Ack_all, Evicting
  <1>3. "M_I" \in Evicting \cap States /\ "M_I" \notin Settled
    BY DEF States, Settled, Evicting
  <1>4. PICK body \in {<<>>, ReadTag(n)} : Transition(n, "M_I", body) /\ NoWake
    BY DEF Ack_all
  <1>5. body \in Seq(BodyOps \X {n})  BY Zenon, BodyTyped
  <1> QED  BY Zenon, <1>1, <1>2, <1>3, <1>4, <1>5, AnswerTurn

\* The directory has acknowledged the eviction.
LEMMA MemAckTurn ==
    ASSUME PortTypeOK, NEW n \in Lines, Mem_Ack(n)
    PROVE  Turn(n)
  <1>1. calls = <<>> /\ <<>> \in Seq(BodyOps \X {n})  BY BodyTyped DEF Mem_Ack, Responds
  <1>2. ~HasEntry(n)  BY EntryOfState DEF Mem_Ack, Evicting
  <1>3. "NP" \in States  BY DEF States, Settled
  <1> QED  BY Zenon, <1>1, <1>2, <1>3, AnswerTurn DEF Mem_Ack

\* The directory's INV evicts the line, or leaves its state alone.
LEMMA MEMInvTurn ==
    ASSUME PortTypeOK, NEW n \in Lines, MEM_Inv(n)
    PROVE  Turn(n)
  <1>1. calls = <<>>  BY DEF MEM_Inv, Responds
  <1>2. CASE L2State[n] \in {"SS", "M", "MT"} /\ Evict(n, FALSE)
    BY Zenon, <1>1, <1>2, EvictBegins
  <1>3. ASSUME NEW body \in {<<>>, ReadTag(n)}, Transition(n, L2State[n], body), NoWake
        PROVE  Turn(n)
    <2>1. body \in Seq(BodyOps \X {n})  BY Zenon, BodyTyped
    <2>2. L2State[n] \in States  BY DEF PortTypeOK
    <2>3. HasEntry(n) <=> L2State[n] \notin {"NP"} \cup Evicting  BY DEF HasEntry
    <2> QED  BY Zenon, <1>1, <1>3, <2>1, <2>2, <2>3, AnswerTurn
  <1> QED  BY Zenon, <1>2, <1>3 DEF MEM_Inv

\* The requester unblocks the line.
LEMMA UnblockTurn ==
    ASSUME PortTypeOK, NEW n \in Lines, Exclusive_Unblock(n) \/ Unblock(n)
    PROVE  Turn(n)
  <1>1. calls = <<>> /\ <<>> \in Seq(BodyOps \X {n})
    BY BodyTyped DEF Exclusive_Unblock, Unblock
  <1>2. HasEntry(n)  BY EntryOfState DEF Exclusive_Unblock, Unblock, Blocked
  <1>3. /\ {"MT", "MT_IB", "SS"} \subseteq States \ ({"NP"} \cup Evicting)
        /\ "MT_IB" \notin Settled
    BY DEF States, Settled, Blocked, Evicting
  <1> QED  BY Zenon, <1>1, <1>2, <1>3, AnswerTurn DEF Exclusive_Unblock, Unblock

-----------------------------------------------------------------------------
\* A step of the L2 takes a turn, makes a call, lets time pass between two
\* transitions, or sees a request arrive.
LEMMA PortSteps ==
    ASSUME PortInv, PortNext
    PROVE  \/ \E n \in Lines : Turn(n)
           \/ MakeCall
           \/ Advance
           \/ \E r \in Request : L1Sends(r)
  <1> USE DEF PortInv
  <1>1. AnyMiss => \E n \in Lines : Turn(n)
    BY MissTurn DEF AnyMiss, PortTypeOK, Request
  <1>2. AnyJoin => \E n \in Lines : Turn(n)
    BY JoinTurn DEF AnyJoin, PortTypeOK, Request
  <1>3. AnyHit => \E n \in Lines : Turn(n)
    BY HitTurn DEF AnyHit, PortTypeOK, Request
  <1>4. AnyWriteback => \E n \in Lines : Turn(n)
    BY WritebackTurn DEF AnyWriteback, PortTypeOK, Request
  <1>5. AnyWait => \E n \in Lines : Turn(n)
    BY WaitTurn DEF AnyWait, PortTypeOK, Request
  <1>6. AnyMakeRoom => \E n \in Lines : Turn(n)
    BY MakeRoomTurn DEF AnyMakeRoom
  <1> QED
    BY <1>1, <1>2, <1>3, <1>4, <1>5, <1>6, MemDataTurn, WBDataTurn, AckAllTurn,
       MemAckTurn, MEMInvTurn, UnblockTurn DEF PortNext

\* A step of the L2 is a step of the array or leaves it alone.
LEMMA PortArrayStep == PortInv /\ [PortNext]_portvars => [Next]_vars
  <1> SUFFICES ASSUME PortInv, [PortNext]_portvars PROVE [Next]_vars  OBVIOUS
  <1>1. CASE UNCHANGED portvars  BY <1>1 DEF portvars, array, vars
  <1>2. ASSUME NEW n \in Lines, Turn(n)  PROVE UNCHANGED vars
    BY <1>2 DEF Turn, Begins, array, vars
  <1>3. CASE MakeCall
    <2>1. calls[1][2] \in Lines
      BY <1>3 DEF PortInv, PortTypeOK, MakeCall
    <2> QED  BY <1>3, <2>1, PerformIsNext DEF MakeCall
  <1>4. CASE Advance  BY <1>4 DEF Advance, Next
  <1>5. ASSUME NEW r \in Request, L1Sends(r)  PROVE UNCHANGED vars
    BY <1>5 DEF L1Sends, array, vars
  <1> QED  BY <1>1, <1>2, <1>3, <1>4, <1>5, PortSteps

\* The invariant is inductive.
LEMMA PortInvStep == PortInv /\ [PortNext]_portvars => PortInv'
  <1> SUFFICES ASSUME PortInv, [PortNext]_portvars PROVE PortInv'  OBVIOUS
  <1>1. Inv'  BY PortArrayStep, InvStep DEF PortInv
  <1> DEFINE Idle == UNCHANGED <<m_cache, m_tag_index, m_chunk_counters,
                                 m_chunk_redirection_table, L2State, calls>>
  <1>2. Idle => CallInv'
    <2> SUFFICES ASSUME Idle PROVE CallInv'  OBVIOUS
    <2>1. \A n \in Lines : (Matches(n)' <=> Matches(n)) /\ (Indexed(n)' <=> Indexed(n))
      BY DEF Matches, Indexed, At, HasEntry
    <2>2. \A n \in Lines : /\ HasEntry(n)' <=> HasEntry(n)
                           /\ cacheAvail(n)' <=> cacheAvail(n)
      BY DEF HasEntry, cacheAvail, Tagged, Free, findTagInSetIgnorePermissions,
             addressToCacheSet
    <2>3. ASSUME NEW m \in Lines, Underway(m)  PROVE Underway(m)'
      <3>1. calls' = calls  OBVIOUS
      <3>2. /\ \A i \in 1 .. Len(calls) : calls'[i][2] = m
            /\ \A i \in 2 .. Len(calls) : calls'[i][1] # "allocate"
            /\ \A i \in 1 .. Len(calls) - 1 :
                  calls'[i][1] \notin {"changePermission", "deallocate"}
        BY Zenon, <2>3, <3>1 DEF Underway, Op
      <3>3. /\ \A n \in Lines \ {m} : Matches(n)'
            /\ IF calls'[1][1] = "allocate" THEN ~Indexed(m)' /\ cacheAvail(m)'
                                            ELSE Indexed(m)'
        BY Zenon, <2>1, <2>2, <2>3, <3>1 DEF Underway, Op
      <3>4. \/ calls'[Len(calls)][1] = "changePermission" /\ HasEntry(m)'
            \/ /\ calls'[Len(calls)][1] = "deallocate" /\ ~HasEntry(m)'
               /\ calls'[1][1] # "allocate"
            \/ Len(calls) = 1 /\ calls'[1][1] = "lookup" /\ Matches(m)'
        BY Zenon, <2>1, <2>2, <2>3, <3>1 DEF Underway, Op
      <3>5. Len(calls') = Len(calls)  BY Zenon, <3>1
      <3> QED  BY <3>2, <3>3, <3>4, <3>5 DEF Underway, Op
    <2>4. ASSUME NEW m \in Lines, Departed(m)  PROVE Departed(m)'
      BY Zenon, <2>1, <2>2, <2>4 DEF Departed, ReadTag, Call
    <2> QED  BY <2>1, <2>3, <2>4 DEF PortInv, CallInv
  <1>3. CASE UNCHANGED portvars
    BY <1>1, <1>2, <1>3 DEF portvars, array, control, PortInv, PortTypeOK
  <1>4. ASSUME NEW n \in Lines, Turn(n)  PROVE PortInv'
    <2>1. CallInv' /\ calls' \in Seq(Ops \X Lines)  BY <1>4, BeginsKeeps DEF Turn
    <2>2. L2State' \in [Lines -> States]  BY <1>4 DEF Turn, PortInv, PortTypeOK
    <2> QED  BY <1>1, <1>4, <2>1, <2>2 DEF Turn, PortInv, PortTypeOK
  <1>5. CASE MakeCall
    <2>1. CallInv' /\ calls' \in Seq(Ops \X Lines)  BY <1>5, CallKeeps
    <2> QED  BY <1>1, <1>5, <2>1 DEF MakeCall, control, PortInv, PortTypeOK
  <1>6. CASE Advance
    BY <1>1, <1>2, <1>6 DEF Advance, Tick, control, PortInv, PortTypeOK
  <1>7. ASSUME NEW r \in Request, L1Sends(r)  PROVE PortInv'
    BY <1>1, <1>2, <1>7 DEF L1Sends, array, PortInv, PortTypeOK
  <1> QED  BY <1>3, <1>4, <1>5, <1>6, <1>7, PortSteps

\* The empty array and the idle controller agree.
LEMMA PortInvInit == PortInit => PortInv
  <1> SUFFICES ASSUME PortInit PROVE PortInv  OBVIOUS
  <1>1. Inv  BY InvInit DEF PortInit
  <1>2. PortTypeOK  BY DEF PortInit, PortTypeOK, States, Settled
  <1>3. CallInv
    BY DEF PortInit, Init, CallInv, Matches, HasEntry, Indexed
  <1> QED  BY <1>1, <1>2, <1>3 DEF PortInv

\* Controller and array agree in every reachable state, but for what the
\* transition under way has yet to call for.
THEOREM PortInvariance == PortSpec => []PortInv
  BY PortInvInit, PortInvStep, PTL DEF PortSpec

(***************************************************************************)
(* The in_ports use the array only through its operations, so that all     *)
(* that is proved of CacheMemory holds of the array of the L2: the tag     *)
(* index is consistent, no limit is overstated, no block is condemned      *)
(* while healthy, and a victim makes room.                                 *)
(***************************************************************************)
THEOREM PortUsesArray == PortSpec => Spec
  <1>1. PortInit => Init  BY DEF PortInit
  <1> QED  BY <1>1, PortArrayStep, PortInvariance, PTL DEF PortSpec, Spec

(***************************************************************************)
(* Between two transitions, an entry is in the array exactly for the lines *)
(* whose state has one, with the permission of that state: cacheProbe()    *)
(* sees Busy where, and only where, a transaction is under way.            *)
(***************************************************************************)
THEOREM AgreementCorrect == PortSpec => []StateMatchesArray
  <1>1. PortInv => StateMatchesArray
    <2> SUFFICES ASSUME PortInv, calls = <<>>, NEW n \in Lines
                 PROVE  /\ HasEntry(n) <=> isTagPresent(n)
                        /\ HasEntry(n) =>
                              m_cache[findTagInSet(n)].m_Permission = Permission(L2State[n])
      BY DEF StateMatchesArray
    <2>1. Matches(n) /\ Inv  BY DEF PortInv, CallInv
    <2>2. isTagPresent(n) <=> Indexed(n)  BY <2>1, TaggedIffIndexed DEF Indexed
    <2>3. Indexed(n) => findTagInSet(n) = At(n)  BY <2>1, AtSlot
    <2> QED  BY <2>1, <2>2, <2>3 DEF Matches
  <1> QED  BY <1>1, PortInvariance, PTL

(***************************************************************************)
(* Every call a transition makes is one the array can serve: allocate()    *)
(* never panics for want of a way, and nothing but the tag read of         *)
(* c_exclusiveCleanReplacement is asked of a line that is not there.       *)
(***************************************************************************)
THEOREM CallsCorrect == PortSpec => []CallsAreServed
  <1>1. PortInv => CallsAreServed
    <2> SUFFICES ASSUME PortInv, calls # <<>>
                 PROVE  IF calls[1][1] = "allocate" THEN cacheAvail(calls[1][2])
                        ELSE \/ isTagPresent(calls[1][2])
                             \/ calls[1][1] = "TagArrayRead" /\ ~HasEntry(calls[1][2])
      BY DEF CallsAreServed
    <2>1. PICK m \in Lines : Underway(m) \/ Departed(m)  BY DEF PortInv, CallInv
    <2>2. CASE Underway(m)
      <3>1. Len(calls) >= 1 /\ Len(calls) \in Nat  BY DEF PortInv, PortTypeOK
      <3>2. calls[1][2] = m  BY <2>2, <3>1 DEF Underway
      <3>3. Indexed(m) => isTagPresent(m)  BY AtSlot DEF PortInv
      <3> QED  BY <2>2, <3>2, <3>3 DEF Underway, Op
    <2>3. CASE Departed(m)
      BY <2>3 DEF Departed, ReadTag, Call
    <2> QED  BY <2>1, <2>2, <2>3
  <1> QED  BY <1>1, PortInvariance, PTL

(***************************************************************************)
(* A request only ever waits for a line in the middle of a transaction,    *)
(* its own or the victim's, so that kd_wakeUpDependents will reach it.     *)
(***************************************************************************)
THEOREM StallCorrect == PortSpec => []StalledOnTransaction
  <1>1. PortInit => StalledOnTransaction
    BY DEF PortInit, StalledOnTransaction
  <1>2. PortInv /\ StalledOnTransaction /\ [PortNext]_portvars => StalledOnTransaction'
    <2> SUFFICES ASSUME PortInv, StalledOnTransaction, [PortNext]_portvars
                 PROVE  StalledOnTransaction'
      OBVIOUS
    <2>1. UNCHANGED <<L2State, stalled>> => StalledOnTransaction'
      BY DEF StalledOnTransaction
    <2>2. ASSUME NEW n \in Lines, Turn(n)  PROVE StalledOnTransaction'
      <3>1. \A a \in Lines \ {n} : L2State'[a] = L2State[a] /\ stalled'[a] = stalled[a]
        BY <2>2 DEF Turn, Begins
      <3>2. stalled'[n] # {} => L2State'[n] \notin Settled
        BY <2>2 DEF Turn, StalledOnTransaction
      <3> QED  BY <3>1, <3>2 DEF StalledOnTransaction
    <2>3. \/ UNCHANGED portvars \/ MakeCall \/ Advance \/ \E r \in Request : L1Sends(r)
          => UNCHANGED <<L2State, stalled>>
      BY DEF portvars, control, MakeCall, Advance, L1Sends
    <2> QED  BY <2>1, <2>2, <2>3, PortSteps
  <1> QED  BY <1>1, <1>2, PortInvariance, PTL DEF PortSpec

\* lookup() finds a line of the array where its tag leads, before and after
\* a step.
LEMMA Found == Inv => \A n \in Lines : Indexed(n) => findTagInSet(n) = At(n)
  BY AtSlot

\* The same of the state after a step.
LEMMA FoundNext == Inv' => (\A n \in Lines : Indexed(n) => findTagInSet(n) = At(n))'
  BY Found, PTL

(***************************************************************************)
(* A line in the middle of a transaction keeps its entry and its way,      *)
(* whichever victim cacheProbe() names and whatever is called meanwhile.   *)
(***************************************************************************)
THEOREM WayKept == PortSpec => TransactionKeepsWay
  <1> DEFINE Keeps(n) == /\ HasEntry(n)'
                         /\ isTagPresent(n) => findTagInSet(n)' = findTagInSet(n)
  <1>1. PortInv /\ PortInv' /\ [PortNext]_portvars =>
           [\A n \in Lines : L2State[n] \in Fetching \cup Blocked => Keeps(n)]_portvars
    <2> SUFFICES ASSUME PortInv, PortInv', PortNext,
                        NEW n \in Lines, L2State[n] \in Fetching \cup Blocked
                 PROVE  Keeps(n)
      OBVIOUS
    <2>1. HasEntry(n)  BY EntryOfState
    <2>2. ASSUME NEW m \in Lines, Turn(m)  PROVE Keeps(n)
      <3>1. UNCHANGED array  BY <2>2 DEF Turn, Begins
      <3>2. HasEntry(n)'
        BY <2>1, <2>2 DEF Turn, Begins, HasEntry
      <3> QED  BY <3>1, <3>2, ArrayRests
    <2>3. CASE MakeCall
      <3>1. calls \in Seq(Ops \X Lines) /\ calls # <<>> /\ Inv /\ Inv'
        BY <2>3 DEF MakeCall, PortInv, PortTypeOK
      <3>0. PICK m \in Lines : Underway(m) \/ Departed(m)  BY <3>1 DEF PortInv, CallInv
      <3>a. CASE Departed(m)
        <4>1. UNCHANGED array /\ L2State' = L2State  BY <2>3, <3>a, DepartedCall
        <4>2. HasEntry(n)'  BY <2>1, <4>1 DEF HasEntry
        <4> QED  BY <4>1, <4>2, ArrayRests
      <3> SUFFICES ASSUME Underway(m) PROVE Keeps(n)  BY <3>0, <3>a
      <3>2. Underway(m)  OBVIOUS
      <3>3. calls[1][1] \in Ops /\ calls[1][2] = m /\ Len(calls) >= 1 /\ Len(calls) \in Nat
        BY <3>1, <3>2 DEF Underway
      <3>4. Perform(calls[1][1], m) /\ L2State' = L2State
        BY <2>3, <3>3 DEF MakeCall, control
      <3>5. calls[1][1] = "allocate" <=> ~Indexed(m)  BY <3>2 DEF Underway, Op
      <3>6. /\ StepFor(m)
            /\ Indexed(m)' <=> calls[1][1] # "deallocate"
            /\ Indexed(m) /\ calls[1][1] # "deallocate" => At(m)' = At(m)
        BY <3>1, <3>3, <3>4, <3>5, PerformShape
      <3>7. HasEntry(n)'  BY <2>1, <3>4 DEF HasEntry
      <3>8. isTagPresent(n) <=> Indexed(n)  BY <3>1, TaggedIffIndexed DEF Indexed
      <3>9. ASSUME Indexed(n)  PROVE Indexed(n)' /\ At(n)' = At(n)
        <4>1. CASE n # m
          <5>1. m_tag_index'[n] = m_tag_index[n]  BY <3>1, <3>6, <4>1, OthersKept
          <5> QED  BY <3>9, <5>1 DEF Indexed, At
        <4>2. CASE n = m
          <5>1. calls[1][1] # "deallocate"
            <6>1. CASE Len(calls) = 1  BY <2>1, <3>2, <4>2, <6>1 DEF Underway, Op
            <6>2. CASE Len(calls) > 1  BY <3>2, <3>3, <6>2 DEF Underway, Op
            <6>3. Len(calls) = 1 \/ Len(calls) > 1
              <7>1. \A k \in Nat : k >= 1 => k = 1 \/ k > 1  OBVIOUS
              <7> QED  BY Zenon, <3>3, <7>1
            <6> QED  BY <6>1, <6>2, <6>3
          <5> QED  BY <3>6, <3>9, <4>2, <5>1
        <4> QED  BY <4>1, <4>2
      <3>10. Indexed(n)' => findTagInSet(n)' = At(n)'  BY <3>1, FoundNext
      <3>11. Indexed(n) => findTagInSet(n) = At(n)  BY <3>1, AtSlot
      <3> QED  BY <3>7, <3>8, <3>9, <3>10, <3>11
    <2>4. CASE Advance
      BY <2>1, <2>4 DEF Advance, Tick, control, HasEntry, findTagInSet, Tagged,
                        findTagInSetIgnorePermissions
    <2>5. ASSUME NEW r \in Request, L1Sends(r)  PROVE Keeps(n)
      <3>1. HasEntry(n)'  BY <2>1, <2>5 DEF L1Sends, HasEntry
      <3> QED  BY <2>5, <3>1, ArrayRests DEF L1Sends
    <2> QED  BY <2>2, <2>3, <2>4, <2>5, PortSteps
  <1> QED  BY <1>1, PortInvariance, PTL DEF PortSpec, TransactionKeepsWay

=============================================================================
