------------------------------- MODULE L2Port -------------------------------
(***************************************************************************)
(* The in_ports of MESI_Two_Level-L2cache.sm over the array: which message *)
(* of which line is taken while the data bank is busy, which line is       *)
(* evicted for a miss that finds its set full, and where a request waits   *)
(* when the victim is in the middle of a transaction of its own.           *)
(*                                                                         *)
(* Module L2Cache has one line and every message; this one has the lines   *)
(* that compete for a set and their states.  A response that a state waits *)
(* for may come at any time, and so may the directory's INV; the stray     *)
(* acks, data and Mem_Acks that are only popped are left out.  A           *)
(* transition calls the array several times: the calls it still has to     *)
(* make are in calls, and no other message is looked at before they are    *)
(* made.  A message that is recycled is one that is not taken yet.         *)
(***************************************************************************)
EXTENDS CacheMemory, Sequences, FiniteSets

CONSTANTS
    Cores,       \* the L1s; each has one request on its way at a time
    MaxRequests  \* bound: the L1s send no more requests than this

ASSUME PortAssumption ==
    /\ IsFiniteSet(Cores) /\ MaxRequests \in Nat
    /\ {"Read_Only", "Read_Write", "Maybe_Stale", "Busy"} \subseteq Permissions

VARIABLES
    L2State,    \* line -> state, of the TBE if there is one, else of the entry
    requests,   \* the messages in L1RequestToL2Cache
    stalled,    \* line -> the requests that wait for its transaction to end
    calls,      \* the calls of the array that the transition has yet to make
    sent        \* the requests sent so far

array == <<m_cache, m_tag_index, m_chunk_counters, m_chunk_redirection_table,
           dataArray, curTick>>
control == <<L2State, requests, stalled>>
portvars == <<array, control, calls, sent>>

Fetching == {"ISS", "IS", "IM"}
Blocked == {"SS_MB", "MT_MB", "MT_IIB", "MT_IB", "MT_SB"}
Evicting == {"I_I", "S_I", "MT_I", "MCT_I", "M_I"}
Settled == {"NP", "SS", "M", "MT"}

\* L2Cache_State_to_permission
Permission(state) == CASE state = "SS" -> "Read_Only"
                       [] state = "M"  -> "Read_Write"
                       [] state = "MT" -> "Maybe_Stale"
                       [] OTHER        -> "Busy"

\* An UPGRADE is a GETX: where it matters, the L1 is still a sharer or not.
Request == [from : Cores, line : Lines,
            Type : {"GETS", "GET_INSTR", "GETX", "PUTX"}]

HasEntry(n) == L2State[n] \notin {"NP"} \cup Evicting
HasTBE(n) == L2State[n] \in Fetching \cup Evicting

PortInit == /\ Init
            /\ L2State = [n \in Lines |-> "NP"]
            /\ requests = {}
            /\ stalled = [n \in Lines |-> {}]
            /\ calls = <<>>
            /\ sent = 0

-----------------------------------------------------------------------------
(* The calls of the array.                                                  *)

Call(op, n) == <<op, n>>

\* m_writeDataToCache, and the actions that send the block from the array.
WriteBlock(n) == <<Call("TagArrayRead", n), Call("DataArrayWrite", n)>>
ReadBlock(n) == <<Call("TagArrayRead", n), Call("DataArrayRead", n)>>
ReadTag(n) == <<Call("TagArrayRead", n)>>
Touch(n) == <<Call("setMRU", n)>>

\* The call at the head of calls; changePermission is the last one of a
\* transition and gives the block the permission of the line's new state.
Perform(op, n) ==
    \/ op = "lookup" /\ lookup(n)
    \/ op = "allocate" /\ allocate(n)
    \/ op = "deallocate" /\ deallocate(n)
    \/ op = "setMRU" /\ setMRU(n)
    \/ op = "TagArrayRead" /\ TagArrayRead(n)
    \/ op = "DataArrayRead" /\ DataArrayRead(n)
    \/ op = "DataArrayWrite" /\ DataArrayWrite(n)
    \/ op = "changePermission" /\ changePermission(n, Permission(L2State[n]))

MakeCall == /\ calls # <<>>
            /\ Perform(calls[1][1], calls[1][2])
            /\ calls' = Tail(calls)
            /\ UNCHANGED <<control, sent>>

\* Mutant: the permission of the old state is left on the entry.
TransitionKeepingPermission(n, state, body) ==
    /\ L2State' = [L2State EXCEPT ![n] = state]
    /\ calls' = IF HasEntry(n) THEN <<Call("lookup", n)>> \o body ELSE body
    /\ UNCHANGED <<array, sent>>

\* The transition of line n to the given state: getCacheEntry looks the
\* entry up, the actions make their calls, and trigger sets the permission.
Transition(n, state, body) ==
    /\ L2State' = [L2State EXCEPT ![n] = state]
    /\ calls' = IF HasEntry(n)
                THEN <<Call("lookup", n)>> \o body \o <<Call("changePermission", n)>>
                ELSE body
    /\ UNCHANGED <<array, sent>>

\* Mutant: only the requests for the line itself are woken.
WakeOwn(n) == /\ requests' = requests \cup {r \in stalled[n] : r.line = n}
              /\ stalled' = [stalled EXCEPT ![n] = {r \in @ : r.line # n}]

\* kd_wakeUpDependents
Wake(n) == /\ requests' = requests \cup stalled[n]
           /\ stalled' = [stalled EXCEPT ![n] = {}]

NoWake == UNCHANGED <<requests, stalled>>

Pop(r) == /\ requests' = requests \ {r}
          /\ UNCHANGED stalled

-----------------------------------------------------------------------------
(* L1RequestL2Network_in.                                                   *)

OnTheirWay == requests \cup UNION {stalled[n] : n \in Lines}

L1Sends(r) == /\ \A q \in OnTheirWay : q.from # r.from
              /\ sent < MaxRequests
              /\ sent' = sent + 1
              /\ requests' = requests \cup {r}
              /\ UNCHANGED <<array, L2State, stalled, calls>>

\* The port looks at r, and the bank of its line is free.
Ready(r) == calls = <<>> /\ checkResourceAvailable(r.line)

\* Mutant: a miss does not ask for room.
ReachesWithoutRoom(r) == Ready(r)

\* r is on the way to the transition of its own line.
Reaches(r) == Ready(r) /\ (HasEntry(r.line) \/ cacheAvail(r.line))

Miss(r) ==
    /\ Reaches(r) /\ L2State[r.line] = "NP" /\ r.Type # "PUTX"
    /\ L2State' = [L2State EXCEPT ![r.line] =
                      CASE r.Type = "GETS"      -> "ISS"
                        [] r.Type = "GET_INSTR" -> "IS"
                        [] OTHER                -> "IM"]
    /\ calls' = <<Call("allocate", r.line)>> \o ReadTag(r.line)
                    \o <<Call("changePermission", r.line)>>
    /\ Pop(r)
    /\ UNCHANGED <<array, sent>>

Join(r) ==
    /\ Reaches(r) /\ L2State[r.line] \in {"ISS", "IS"}
    /\ r.Type \in {"GETS", "GET_INSTR"}
    /\ Transition(r.line, "IS", <<>>)
    /\ Pop(r)

Hit(r) ==
    LET n == r.line
        To(state, body) == Transition(n, state, body \o Touch(n))
    IN  /\ Reaches(r) /\ r.Type # "PUTX"
        /\ \/ /\ L2State[n] = "SS"
              /\ \/ r.Type = "GETX" /\ To("SS_MB", ReadBlock(n) \o ReadTag(n))
                 \/ r.Type = "GETX" /\ To("SS_MB", ReadTag(n))
                 \/ r.Type # "GETX" /\ To("SS", ReadBlock(n))
           \/ /\ L2State[n] = "M"
              /\ To(IF r.Type = "GET_INSTR" THEN "SS" ELSE "MT_MB", ReadBlock(n))
           \/ /\ L2State[n] = "MT"
              /\ To(IF r.Type = "GETX" THEN "MT_MB" ELSE "MT_IIB",
                    ReadTag(n))
        /\ Pop(r)

\* The owner's writeback is stored, without a call of the array.  The one
\* that meets the eviction from the owner ends it; others are dropped.
Writeback(r) ==
    /\ Reaches(r) /\ r.Type = "PUTX"
    /\ \/ L2State[r.line] = "MT" /\ Transition(r.line, "M", <<>>)
       \/ L2State[r.line] \in {"MT_I", "MCT_I"} /\ Transition(r.line, "M_I", <<>>)
       \/ /\ L2State[r.line] \notin {"MT_I", "MCT_I", "MT_IIB", "MT_MB", "SS_MB"}
          /\ Transition(r.line, L2State[r.line], <<>>)
    /\ Pop(r)

\* zz_stallAndWaitL1RequestQueue: r waits for the transaction of line n.
StallOn(r, n) == /\ requests' = requests \ {r}
                 /\ stalled' = [stalled EXCEPT ![n] = @ \cup {r}]

MustWait(r) ==
    CASE r.Type = "PUTX" -> {"MT_IIB", "MT_MB", "SS_MB"}
      [] r.Type \in {"GETS", "GET_INSTR"} -> {"IM"} \cup Blocked \cup Evicting
      [] OTHER -> Fetching \cup Blocked \cup Evicting

Wait(r) == /\ Reaches(r) /\ L2State[r.line] \in MustWait(r)
           /\ Transition(r.line, L2State[r.line], <<>>)
           /\ StallOn(r, r.line)

\* The transitions of L2_Replacement_clean and, when clean is FALSE, of
\* L2_Replacement and MEM_Inv: the block leaves the array, read from it if
\* it has to be written to memory.
Evict(v, clean) ==
    /\ L2State' = [L2State EXCEPT ![v] =
                      CASE @ = "SS" -> IF clean THEN "I_I" ELSE "S_I"
                        [] @ = "MT" -> IF clean THEN "MCT_I" ELSE "MT_I"
                        [] @ = "M"  -> "M_I"]
    /\ calls' = <<Call("lookup", v)>>
                    \o (IF L2State[v] = "M" /\ ~clean THEN ReadBlock(v) ELSE ReadTag(v))
                    \o <<Call("deallocate", v)>>
    /\ NoWake
    /\ UNCHANGED <<array, sent>>

\* Mutant: the victim is evicted whatever it is in the middle of.
MakeRoomByForce(r) ==
    LET v == cacheProbe(r.line)
    IN  /\ Ready(r) /\ ~HasEntry(r.line) /\ ~cacheAvail(r.line)
        /\ L2State' = [L2State EXCEPT ![v] = "M_I"]
        /\ calls' = <<Call("lookup", v), Call("deallocate", v)>>
        /\ NoWake
        /\ UNCHANGED <<array, sent>>

\* The set is full: the victim is evicted and r is looked at again, or waits
\* for the victim's transaction.  A victim with a TBE has r recycled, after
\* getCacheEntry has looked the victim up.
MakeRoom(r) ==
    LET v == cacheProbe(r.line)
    IN  /\ Ready(r) /\ ~HasEntry(r.line) /\ ~cacheAvail(r.line)
        /\ \/ L2State[v] \in {"SS", "M", "MT"} /\ \E clean \in BOOLEAN : Evict(v, clean)
           \/ /\ L2State[v] \in Blocked
              /\ Transition(v, L2State[v], <<>>)
              /\ StallOn(r, v)
           \/ /\ HasTBE(v)
              /\ calls' = <<Call("lookup", v)>>
              /\ UNCHANGED <<array, control, sent>>

-----------------------------------------------------------------------------
(* responseL2Network_in and L1unblockNetwork_in.                            *)

\* Mutant: the response port does not ask for the bank.
RespondsAnyway(n) == calls = <<>>

\* The response port looks at a message of line n, and its bank is free.
Responds(n) == calls = <<>> /\ checkResourceAvailable(n)

Mem_Data(n) ==
    /\ Responds(n)
    /\ \/ /\ L2State[n] \in {"ISS", "IM"}
          /\ Transition(n, "MT_MB", WriteBlock(n) \o ReadBlock(n)) /\ NoWake
       \/ /\ L2State[n] = "IS"
          /\ Transition(n, "SS", WriteBlock(n) \o ReadBlock(n)) /\ Wake(n)

\* A clean writeback ends a clean eviction with c_exclusiveCleanReplacement,
\* which reads the tag of a line that has left the array.
WB_Data(n) ==
    /\ Responds(n)
    /\ \/ L2State[n] = "MT_IIB" /\ Transition(n, "MT_SB", WriteBlock(n)) /\ NoWake
       \/ L2State[n] = "MT_IB" /\ Transition(n, "SS", WriteBlock(n)) /\ Wake(n)
       \/ L2State[n] \in {"MT_I", "MCT_I"} /\ Transition(n, "M_I", <<>>) /\ NoWake
       \/ L2State[n] = "MCT_I" /\ Transition(n, "M_I", ReadTag(n)) /\ NoWake

Ack_all(n) ==
    /\ Responds(n)
    /\ \/ L2State[n] = "S_I" /\ Transition(n, "M_I", <<>>)
       \/ L2State[n] \in {"I_I", "MCT_I"} /\ Transition(n, "M_I", ReadTag(n))
    /\ NoWake

Mem_Ack(n) ==
    /\ Responds(n)
    /\ L2State[n] = "M_I" /\ Transition(n, "NP", <<>>) /\ Wake(n)

\* The directory's INV: the line is evicted, is reported as clean when there
\* is nothing to evict, or is leaving already; a blocked line has the INV
\* recycled, after getCacheEntry has looked the line up.
MEM_Inv(n) ==
    /\ Responds(n)
    /\ \/ L2State[n] \in {"SS", "M", "MT"} /\ Evict(n, FALSE)
       \/ /\ L2State[n] \in {"NP"} \cup Fetching
          /\ Transition(n, L2State[n], ReadTag(n)) /\ NoWake
       \/ /\ L2State[n] \in Evicting \cup Blocked
          /\ Transition(n, L2State[n], <<>>) /\ NoWake

Exclusive_Unblock(n) ==
    /\ calls = <<>>
    /\ L2State[n] \in {"SS_MB", "MT_MB"}
    /\ Transition(n, "MT", <<>>) /\ Wake(n)

Unblock(n) ==
    /\ calls = <<>>
    /\ \/ L2State[n] = "MT_IIB" /\ Transition(n, "MT_IB", <<>>) /\ NoWake
       \/ L2State[n] = "MT_SB" /\ Transition(n, "SS", <<>>) /\ Wake(n)

\* Time passes between two transitions, never inside one.
Advance == calls = <<>> /\ Tick /\ UNCHANGED <<control, calls, sent>>

AnyMiss == \E r \in requests : Miss(r)
AnyJoin == \E r \in requests : Join(r)
AnyHit == \E r \in requests : Hit(r)
AnyWriteback == \E r \in requests : Writeback(r)
AnyWait == \E r \in requests : Wait(r)
AnyMakeRoom == \E r \in requests : MakeRoom(r)

PortNext ==
    \/ \E r \in Request : L1Sends(r)
    \/ AnyMiss \/ AnyJoin \/ AnyHit \/ AnyWriteback \/ AnyWait \/ AnyMakeRoom
    \/ \E n \in Lines : \/ Mem_Data(n) \/ WB_Data(n) \/ Ack_all(n) \/ Mem_Ack(n)
                        \/ MEM_Inv(n) \/ Exclusive_Unblock(n) \/ Unblock(n)
    \/ MakeCall
    \/ Advance

PortSpec == PortInit /\ [][PortNext]_portvars

-----------------------------------------------------------------------------
(* Properties.                                                              *)

\* Between two transitions the controller and the array agree on which lines
\* have an entry and on what may be done with it: a Busy permission, which
\* keeps cacheProbe() away, is there exactly as long as the transaction.
StateMatchesArray ==
    calls = <<>> =>
        \A n \in Lines :
            /\ HasEntry(n) <=> isTagPresent(n)
            /\ HasEntry(n) =>
                  m_cache[findTagInSet(n)].m_Permission = Permission(L2State[n])

\* Every call of the array is one it can serve: allocate() finds a free way
\* and does not panic, and lookups, data accesses, changePermission, setMRU
\* and deallocate() are for a line that is there.  Only the tag read of
\* c_exclusiveCleanReplacement may be for a line that has left, and then the
\* controller has no entry of it either.
CallsAreServed ==
    calls # <<>> =>
        LET op == calls[1][1]
            n == calls[1][2]
        IN  IF op = "allocate" THEN cacheAvail(n)
            ELSE isTagPresent(n) \/ (op = "TagArrayRead" /\ ~HasEntry(n))

\* A request waits only for a line in the middle of a transaction, whose end
\* wakes it, also when that line is the victim and not the one it asks for.
StalledOnTransaction ==
    \A n \in Lines : stalled[n] # {} => L2State[n] \notin Settled

\* Under the static placement (Lazy = FALSE), where a page keeps its bank, the
\* tests of checkResourceAvailable keep a bank from being booked further ahead
\* than the one block that is written and read by a fill.
BacklogBounded ==
    \A b \in BankIds : \E y, z \in Zones :
        dataArray[b] <= curTick + (WriteLatency[y] + ReadLatency[z] - 2) * ClockPeriod

\* A line in the middle of a transaction keeps its way, also when every way of
\* the set is in one and cacheProbe() names it as the victim.
TransactionKeepsWay ==
    [][\A n \in Lines : L2State[n] \in Fetching \cup Blocked =>
          /\ HasEntry(n)'
          /\ isTagPresent(n) => findTagInSet(n)' = findTagInSet(n)]_portvars
=============================================================================
