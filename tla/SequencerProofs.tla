-------------------------- MODULE SequencerProofs --------------------------
(***************************************************************************)
(* The sequencer for any number of ports and lines and any limit on the    *)
(* outstanding requests.  The inductive invariant has a part for each      *)
(* structure: the retry lists, the running callback, the requests in the   *)
(* cache, the locked access, the drain and the count.                      *)
(***************************************************************************)
EXTENDS Sequencer, Integers, FiniteSetTheorems, TLAPS

Serving == callback # None /\ callback.serving

Retries == IF callback = None THEN <<>> ELSE callback.retries

Once(s) == \A i, j \in DOMAIN s : s[i] = s[j] => i = j

\* The ports on the two lists are the ports with a refused request, each once.
RetryInv ==
    /\ \A i \in DOMAIN retryList : refused[retryList[i]] # None
    /\ \A i \in DOMAIN Retries : refused[Retries[i]] # None
    /\ Once(retryList) /\ Once(Retries)
    /\ \A i \in DOMAIN retryList, j \in DOMAIN Retries : retryList[i] # Retries[j]
    /\ \A p \in Ports : refused[p] # None =>
         /\ refused[p].port = p
         /\ \/ \E i \in DOMAIN retryList : retryList[i] = p
            \/ \E i \in DOMAIN Retries : Retries[i] = p

CallbackInv ==
    /\ callback # None /\ ~callback.serving => callback.retries = <<>>
    /\ Serving => m_RequestTable[callback.line] # <<>>

\* TypeOK in two halves; that the count is not negative follows from CountInv.
TableTypes ==
    /\ m_RequestTable \in [Lines -> Seq(SequencerRequest)]
    /\ m_outstanding_count \in Int
    /\ m_mandatory_q \in [Lines -> Seq({"LD", "ST"})]
    /\ m_block_map \subseteq Lines
    /\ drainState \in {"Running", "Draining", "Drained"}
    /\ deadlockCheckEvent \in BOOLEAN

PortTypes ==
    /\ retryList \in Seq(Ports)
    /\ refused \in [Ports -> Request \union {None}]
    /\ locking \in Lines \union {None}
    /\ callback \in Callback \union {None}

Shape == TableTypes /\ PortTypes /\ RetryInv /\ CallbackInv

-----------------------------------------------------------------------------
(* What the two outcomes of makeRequest change.                             *)

LEMMA RequestFields ==
    ASSUME NEW r \in Request
    PROVE  r.port \in Ports /\ r.line \in Lines /\ r.type \in Types
  BY DEF Request

LEMMA AppendSome ==
    ASSUME NEW S, NEW t \in Seq(S), NEW e \in S PROVE Append(t, e) # <<>>
  <1>1. Len(Append(t, e)) = Len(t) + 1 /\ Len(t) \in Nat  OBVIOUS
  <1>2. Len(<<>>) = 0  OBVIOUS
  <1> QED  BY <1>1, <1>2

LEMMA AcceptTable ==
    ASSUME TableTypes, NEW r \in Request, Accept(r)
    PROVE  /\ m_RequestTable' \in [Lines -> Seq(SequencerRequest)]
           /\ \A l \in Lines \ {r.line} : m_RequestTable'[l] = m_RequestTable[l]
           /\ \E e \in SequencerRequest :
                /\ e.type = r.type
                /\ m_RequestTable'[r.line] = Append(m_RequestTable[r.line], e)
  <1>1. r.port \in Ports /\ r.line \in Lines /\ r.type \in Types  BY RequestFields
  <1> DEFINE e == [port |-> r.port, type |-> r.type]
  <1>2. e \in SequencerRequest /\ e.type = r.type  BY <1>1 DEF SequencerRequest
  <1>3. m_RequestTable' = [m_RequestTable EXCEPT ![r.line] = Append(@, e)]
    BY Zenon DEF Accept
  <1> HIDE DEF e
  <1>4. m_RequestTable[r.line] \in Seq(SequencerRequest)  BY <1>1 DEF TableTypes
  <1>5. Append(m_RequestTable[r.line], e) \in Seq(SequencerRequest)  BY <1>2, <1>4
  <1>6. /\ m_RequestTable' \in [Lines -> Seq(SequencerRequest)]
        /\ \A l \in Lines \ {r.line} : m_RequestTable'[l] = m_RequestTable[l]
        /\ m_RequestTable'[r.line] = Append(m_RequestTable[r.line], e)
    BY <1>1, <1>3, <1>5 DEF TableTypes
  <1> QED  BY <1>2, <1>6

LEMMA IssueTypes ==
    ASSUME TableTypes, NEW l \in Lines, NEW type, issueRequest(l, type)
    PROVE  /\ m_mandatory_q' \in [Lines -> Seq({"LD", "ST"})]
           /\ m_mandatory_q'[l] = Append(m_mandatory_q[l], secondary_type(type))
           /\ \A k \in Lines \ {l} : m_mandatory_q'[k] = m_mandatory_q[k]
  <1>1. secondary_type(type) \in {"LD", "ST"}  BY DEF secondary_type
  <1>2. m_mandatory_q[l] \in Seq({"LD", "ST"})  BY DEF TableTypes
  <1>3. Append(m_mandatory_q[l], secondary_type(type)) \in Seq({"LD", "ST"})
    BY <1>1, <1>2
  <1> QED  BY <1>3 DEF issueRequest, TableTypes

LEMMA AcceptTypes ==
    ASSUME TableTypes, NEW r \in Request, Accept(r)
    PROVE  TableTypes'
  <1>1. r.line \in Lines  BY RequestFields
  <1>2. m_RequestTable' \in [Lines -> Seq(SequencerRequest)]  BY AcceptTable
  <1>3. m_mandatory_q' \in [Lines -> Seq({"LD", "ST"})]
    <2>1. CASE issueRequest(r.line, r.type)  BY <1>1, <2>1, IssueTypes
    <2>2. CASE UNCHANGED m_mandatory_q  BY <2>2 DEF TableTypes
    <2> QED  BY <2>1, <2>2 DEF Accept
  <1>4. deadlockCheckEvent' \in BOOLEAN  BY DEF Accept
  <1>5. m_outstanding_count' \in Int /\ UNCHANGED <<m_block_map, drainState>>
    BY DEF Accept, TableTypes
  <1> QED  BY <1>2, <1>3, <1>4, <1>5 DEF TableTypes

LEMMA RefuseTypes ==
    ASSUME TableTypes, NEW r, NEW list, Refuse(r, list) PROVE TableTypes'
  BY DEF Refuse, TableTypes

\* A port joins the list unless it is on it.
WithPort(list, p) ==
    IF \E i \in DOMAIN list : list[i] = p THEN list ELSE Append(list, p)

Joined(list, p, s) ==
    /\ s \in Seq(Ports) /\ s # <<>>
    /\ \A i \in DOMAIN list : \E j \in DOMAIN s : s[j] = list[i]
    /\ \E j \in DOMAIN s : s[j] = p
    /\ \A j \in DOMAIN s : s[j] = p \/ \E i \in DOMAIN list : s[j] = list[i]
    /\ Once(list) => Once(s)

LEMMA ListPort ==
    ASSUME NEW list \in Seq(Ports), NEW p \in Ports
    PROVE  Joined(list, p, WithPort(list, p))
  <1>1. CASE \E i \in DOMAIN list : list[i] = p
    BY <1>1 DEF Joined, WithPort, Once
  <1>2. CASE ~\E i \in DOMAIN list : list[i] = p
    <2> DEFINE s == WithPort(list, p)
    <2>1. s = Append(list, p)  BY <1>2 DEF WithPort
    <2>2. /\ s \in Seq(Ports) /\ Len(s) = Len(list) + 1 /\ DOMAIN s = 1 .. Len(s)
          /\ DOMAIN list = 1 .. Len(list) /\ Len(list) \in Nat
          /\ s[Len(list) + 1] = p
          /\ \A i \in 1 .. Len(list) : s[i] = list[i]
      BY <2>1
    <2> HIDE DEF s
    <2>3. Joined(list, p, s)  BY <1>2, <2>2 DEF Joined, Once
    <2> QED  BY <2>3 DEF s
  <1> QED  BY <1>1, <1>2

LEMMA RefusePorts ==
    ASSUME PortTypes, NEW r \in Request, Refuse(r, retryList)
    PROVE  /\ Joined(retryList, r.port, retryList')
           /\ refused' \in [Ports -> Request \union {None}]
           /\ refused'[r.port] = r /\ r # None
           /\ \A p \in Ports \ {r.port} : refused'[p] = refused[p]
  <1>1. r.port \in Ports  BY RequestFields
  <1>2. retryList' = WithPort(retryList, r.port)  BY DEF Refuse, WithPort
  <1>3. Joined(retryList, r.port, WithPort(retryList, r.port))
    BY <1>1, ListPort DEF PortTypes
  <1>4. refused' = [refused EXCEPT ![r.port] = r]  BY DEF Refuse
  <1> QED  BY <1>1, <1>2, <1>3, <1>4, NoneAssumption DEF PortTypes

\* A step that leaves the ports' lists, their requests and the callback alone.
LEMMA ListsKept ==
    ASSUME RetryInv, UNCHANGED <<retryList, refused, callback>> PROVE RetryInv'
  BY DEF RetryInv, Retries

\* The callback's record and its updates.
LEMMA CallbackFields ==
    ASSUME NEW c \in Callback
    PROVE  /\ c.line \in Lines /\ c.kind \in {"read", "write"}
           /\ c.ruby_request \in BOOLEAN /\ c.serving \in BOOLEAN
           /\ c.retries \in Seq(Ports)
  BY DEF Callback

StartServing(c, s) ==
    [c EXCEPT !.serving = TRUE, !.ruby_request = FALSE, !.retries = s]

StopServing(c) == [c EXCEPT !.serving = FALSE]

LEMMA CallbackServes ==
    ASSUME NEW c \in Callback, NEW s \in Seq(Ports)
    PROVE  /\ StartServing(c, s) \in Callback /\ StartServing(c, s).serving
           /\ StartServing(c, s).retries = s /\ StartServing(c, s).line = c.line
           /\ StartServing(c, s).kind = c.kind
  <1> DEFINE d == StartServing(c, s)
  <1>1. PICK t \in BOOLEAN, f \in BOOLEAN : t = TRUE /\ f = FALSE  BY Zenon
  <1>2. d = [c EXCEPT !.serving = t, !.ruby_request = f, !.retries = s]
    BY <1>1, Zenon DEF StartServing
  <1> HIDE DEF d
  <1>3. /\ d \in Callback /\ d.serving = t /\ d.retries = s /\ d.line = c.line
        /\ d.kind = c.kind
    BY <1>2, Zenon DEF Callback
  <1> QED  BY <1>1, <1>3, Zenon DEF d

LEMMA CallbackStops ==
    ASSUME NEW c \in Callback
    PROVE  /\ StopServing(c) \in Callback /\ ~StopServing(c).serving
           /\ StopServing(c).retries = c.retries /\ StopServing(c).line = c.line
           /\ StopServing(c).kind = c.kind
  <1> DEFINE d == StopServing(c)
  <1>1. PICK f \in BOOLEAN : f = FALSE  BY Zenon
  <1>2. d = [c EXCEPT !.serving = f]  BY <1>1, Zenon DEF StopServing
  <1> HIDE DEF d
  <1>3. /\ d \in Callback /\ d.serving = f /\ d.retries = c.retries
        /\ d.line = c.line /\ d.kind = c.kind
    BY <1>2 DEF Callback
  <1> QED  BY <1>1, <1>3, Zenon DEF d

LEMMA CallbackRetries ==
    ASSUME NEW c \in Callback, c.retries # <<>>, NEW d,
           d = [c EXCEPT !.retries = Tail(@)]
    PROVE  /\ d \in Callback /\ d.serving = c.serving /\ d.line = c.line
           /\ d.retries = Tail(c.retries) /\ d.kind = c.kind
  <1>1. c.retries \in Seq(Ports)  BY CallbackFields
  <1>2. Tail(c.retries) \in Seq(Ports)  BY <1>1
  <1> QED  BY <1>2 DEF Callback

CallbackOf(l, k, t, s, f) ==
    [line |-> l, ruby_request |-> t, kind |-> k, retries |-> s, serving |-> f]

LEMMA CallbackRecord ==
    \A l \in Lines, k \in {"read", "write"}, t \in BOOLEAN, s \in Seq(Ports), f \in BOOLEAN :
        /\ CallbackOf(l, k, t, s, f) \in Callback
        /\ CallbackOf(l, k, t, s, f).serving = f
        /\ CallbackOf(l, k, t, s, f).retries = s
        /\ CallbackOf(l, k, t, s, f).line = l
  BY DEF Callback, CallbackOf

LEMMA CallbackStarts ==
    ASSUME NEW l \in Lines, NEW k \in {"read", "write"}, NEW d,
           d = CallbackOf(l, k, TRUE, <<>>, FALSE)
    PROVE  d \in Callback /\ ~d.serving /\ d.retries = <<>> /\ d.line = l
  <1>1. PICK t \in BOOLEAN, f \in BOOLEAN : t = TRUE /\ f = FALSE  BY Zenon
  <1>2. <<>> \in Seq(Ports)  OBVIOUS
  <1>3. PICK s \in Seq(Ports) : s = <<>>  BY <1>2, Zenon
  <1>4. d = CallbackOf(l, k, t, s, f)  BY <1>1, <1>3, Zenon
  <1>5. CallbackOf(l, k, t, s, f) \in Callback  BY CallbackRecord
  <1>6. /\ CallbackOf(l, k, t, s, f).serving = f
        /\ CallbackOf(l, k, t, s, f).retries = s
        /\ CallbackOf(l, k, t, s, f).line = l
    BY CallbackRecord
  <1> QED  BY <1>1, <1>3, <1>4, <1>5, <1>6, Zenon

LEMMA ShapeInit == Init => Shape
  <1> SUFFICES ASSUME Init PROVE Shape  OBVIOUS
  <1>1. TableTypes
    <2>1. deadlockCheckEvent \in BOOLEAN  BY Zenon DEF Init
    <2>2. \A S : <<>> \in Seq(S)  OBVIOUS
    <2>3. /\ m_RequestTable \in [Lines -> Seq(SequencerRequest)]
          /\ m_mandatory_q \in [Lines -> Seq({"LD", "ST"})]
      BY <2>2 DEF Init
    <2>4. /\ m_outstanding_count \in Int /\ m_block_map \subseteq Lines
          /\ drainState \in {"Running", "Draining", "Drained"}
      BY DEF Init
    <2> QED  BY <2>1, <2>3, <2>4 DEF TableTypes
  <1>2. PortTypes  BY DEF Init, PortTypes
  <1>3. callback = None /\ retryList = <<>> /\ \A p \in Ports : refused[p] = None
    BY DEF Init
  <1>4. RetryInv  BY <1>3 DEF RetryInv, Retries, Once
  <1>5. CallbackInv  BY <1>3 DEF CallbackInv, Serving
  <1> QED  BY <1>1, <1>2, <1>4, <1>5 DEF Shape

LEMMA SendShape == Shape /\ AnySend => Shape'
  <1> SUFFICES ASSUME Shape, NEW r \in Request, Send(r) PROVE Shape'  BY DEF AnySend
  <1>1. TableTypes'  BY AcceptTypes DEF Shape, Send
  <1>2. r.port \in Ports /\ r.line \in Lines  BY RequestFields
  <1>3. /\ callback = None /\ callback' = None /\ retryList' = retryList
        /\ refused[r.port] = None
        /\ refused' = [refused EXCEPT ![r.port] = None]
        /\ locking' \in Lines \union {None}
    BY <1>2 DEF Send, MaySend, Accept, Shape, PortTypes
  <1>4. refused' = refused  BY <1>2, <1>3 DEF Shape, PortTypes
  <1>5. PortTypes'  BY <1>3, <1>4, Zenon DEF Shape, PortTypes
  <1>6. RetryInv'  BY <1>3, <1>4, ListsKept DEF Shape
  <1> QED  BY <1>1, <1>3, <1>5, <1>6 DEF Shape, CallbackInv, Serving

LEMMA SendRefusedShape == Shape /\ AnySendRefused => Shape'
  <1> SUFFICES ASSUME Shape, NEW r \in Request, SendRefused(r) PROVE Shape'
    BY DEF AnySendRefused
  <1>1. TableTypes'  BY RefuseTypes DEF Shape, SendRefused
  <1>2. r.port \in Ports /\ r.line \in Lines  BY RequestFields
  <1>3. /\ callback = None /\ callback' = None
        /\ locking' \in Lines \union {None}
    BY <1>2 DEF SendRefused, MaySend, Shape, PortTypes
  <1>4. /\ Joined(retryList, r.port, retryList')
        /\ refused' \in [Ports -> Request \union {None}]
        /\ refused'[r.port] = r /\ r # None
        /\ \A p \in Ports \ {r.port} : refused'[p] = refused[p]
    BY RefusePorts DEF Shape, SendRefused
  <1>5. PortTypes'  BY <1>3, <1>4 DEF PortTypes, Joined
  <1>6. Retries = <<>> /\ Retries' = <<>>  BY <1>3 DEF Retries
  <1>7. RetryInv'
    <2>1. \A i \in DOMAIN retryList : retryList[i] \in Ports  BY DEF Shape, PortTypes
    <2>2. Once(retryList')  BY <1>4 DEF Joined, Shape, RetryInv
    <2>3. \A j \in DOMAIN retryList' : refused'[retryList'[j]] # None
      BY <1>4, <2>1 DEF Shape, RetryInv, Joined
    <2>4. ASSUME NEW p \in Ports, refused'[p] # None
          PROVE  refused'[p].port = p /\ \E i \in DOMAIN retryList' : retryList'[i] = p
      <3>1. CASE p = r.port  BY <1>4, <3>1 DEF Joined
      <3>2. CASE p # r.port
        <4>1. refused'[p] = refused[p]  BY <1>4, <3>2
        <4>2. /\ refused[p].port = p
              /\ \/ \E i \in DOMAIN retryList : retryList[i] = p
                 \/ \E i \in DOMAIN Retries : Retries[i] = p
          BY <2>4, <4>1 DEF Shape, RetryInv
        <4>3. \E i \in DOMAIN retryList : retryList[i] = p  BY <1>6, <4>2
        <4> QED  BY <1>4, <4>1, <4>2, <4>3 DEF Joined
      <3> QED  BY <3>1, <3>2
    <2> QED  BY <1>6, <2>2, <2>3, <2>4 DEF RetryInv, Once
  <1> QED  BY <1>1, <1>3, <1>5, <1>7 DEF Shape, CallbackInv, Serving

LEMMA RunningCallback ==
    ASSUME Shape, callback # None
    PROVE  /\ callback \in Callback /\ callback.line \in Lines
           /\ callback.retries \in Seq(Ports) /\ Retries = callback.retries
           /\ m_RequestTable[callback.line] \in Seq(SequencerRequest)
  <1>1. callback \in Callback  BY DEF Shape, PortTypes
  <1> QED  BY <1>1, CallbackFields DEF Retries, Shape, TableTypes

LEMMA AnswerShape == Shape /\ AnyAnswer => Shape'
  <1> SUFFICES ASSUME Shape, NEW l \in Lines, Answer(l) PROVE Shape'  BY DEF AnyAnswer
  <1> DEFINE k == IF Head(m_mandatory_q[l]) = "LD" THEN "read" ELSE "write"
  <1>1. callback' = CallbackOf(l, k, TRUE, <<>>, FALSE)  BY Zenon DEF Answer, CallbackOf
  <1>2. k \in {"read", "write"}  OBVIOUS
  <1> HIDE DEF k
  <1>3. callback' \in Callback /\ ~callback'.serving /\ callback'.retries = <<>>
    BY <1>1, <1>2, CallbackStarts, Zenon
  <1>4. callback = None /\ UNCHANGED <<retryList, refused, locking>>  BY DEF Answer
  <1>5. TableTypes'
    <2>1. m_mandatory_q[l] \in Seq({"LD", "ST"}) /\ m_mandatory_q[l] # <<>>
      BY DEF Shape, TableTypes, Answer
    <2>2. Tail(m_mandatory_q[l]) \in Seq({"LD", "ST"})  BY <2>1
    <2>3. m_mandatory_q' \in [Lines -> Seq({"LD", "ST"})]
      BY <2>2 DEF Answer, Shape, TableTypes
    <2> QED  BY <2>3 DEF Answer, Shape, TableTypes
  <1>6. PortTypes'  BY <1>3, <1>4 DEF Shape, PortTypes
  <1>7. Retries = <<>> /\ Retries' = <<>>  BY <1>3, <1>4 DEF Retries
  <1>8. RetryInv'  BY <1>4, <1>7 DEF Shape, RetryInv
  <1> QED  BY <1>3, <1>5, <1>6, <1>8 DEF Shape, CallbackInv, Serving

LEMMA ServeFrontShape == Shape /\ ServeFront => Shape'
  <1> SUFFICES ASSUME Shape, ServeFront PROVE Shape'  OBVIOUS
  <1>1. /\ callback # None /\ ~callback.serving
        /\ m_RequestTable[callback.line] # <<>>
    BY DEF ServeFront, Between
  <1>2. /\ callback \in Callback /\ callback.line \in Lines /\ Retries = <<>>
    BY <1>1, RunningCallback DEF Shape, CallbackInv
  <1>3. retryList \in Seq(Ports)  BY DEF Shape, PortTypes
  <1>4. /\ callback' \in Callback /\ callback'.serving /\ callback'.retries = retryList
        /\ callback'.line = callback.line
    <2>1. callback' = StartServing(callback, retryList)
      BY Zenon DEF ServeFront, StartServing
    <2> QED  BY <1>2, <1>3, <2>1, CallbackServes
  <1>5. /\ retryList' = <<>> /\ refused' = refused /\ locking' \in Lines \union {None}
        /\ m_RequestTable' = m_RequestTable
    BY DEF ServeFront, Shape, PortTypes
  <1>6. TableTypes'
    <2>1. m_block_map' \subseteq Lines
      BY <1>2 DEF ServeFront, Shape, TableTypes
    <2>2. m_outstanding_count' \in Int  BY DEF ServeFront, Shape, TableTypes
    <2> QED  BY <2>1, <2>2 DEF ServeFront, Shape, TableTypes
  <1>7. PortTypes'  BY <1>4, <1>5 DEF PortTypes, Shape
  <1>8. Retries' = retryList  BY <1>4, NoneAssumption DEF Retries
  <1>9. RetryInv'  BY <1>2, <1>5, <1>8 DEF Shape, RetryInv, Once
  <1> QED  BY <1>1, <1>4, <1>5, <1>6, <1>7, <1>9 DEF Shape, CallbackInv, Serving

\* The request that the running callback retries.
LEMMA RetriedRequest ==
    ASSUME Shape, Retrying
    PROVE  /\ callback \in Callback /\ callback.serving /\ Retries = callback.retries
           /\ Retries \in Seq(Ports) /\ Retries # <<>> /\ Head(Retries) \in Ports
           /\ Retried \in Request /\ Retried.port = Head(Retries)
  <1>1. /\ callback \in Callback /\ callback.serving /\ Retries = callback.retries
        /\ Retries \in Seq(Ports) /\ Retries # <<>>
    BY RunningCallback DEF Retrying
  <1>2. Head(Retries) \in Ports /\ 1 \in DOMAIN Retries /\ Head(Retries) = Retries[1]
    BY <1>1
  <1>3. Retried = refused[Head(Retries)]  BY <1>1 DEF Retried
  <1>4. refused[Head(Retries)] # None /\ refused[Head(Retries)].port = Head(Retries)
    BY <1>2 DEF Shape, RetryInv
  <1> QED  BY <1>1, <1>2, <1>3, <1>4 DEF Shape, PortTypes

LEMMA TailOnce ==
    ASSUME NEW s \in Seq(Ports), s # <<>>, Once(s)
    PROVE  /\ Tail(s) \in Seq(Ports) /\ Once(Tail(s))
           /\ \A j \in DOMAIN Tail(s) : Tail(s)[j] # Head(s) /\ \E i \in DOMAIN s : Tail(s)[j] = s[i]
           /\ \A i \in DOMAIN s : s[i] = Head(s) \/ \E j \in DOMAIN Tail(s) : Tail(s)[j] = s[i]
  <1>1. /\ Tail(s) \in Seq(Ports) /\ Len(s) \in Nat \ {0} /\ Len(Tail(s)) = Len(s) - 1
        /\ DOMAIN s = 1 .. Len(s) /\ DOMAIN Tail(s) = 1 .. Len(s) - 1 /\ Head(s) = s[1]
        /\ \A j \in 1 .. Len(s) - 1 : Tail(s)[j] = s[j + 1]
    OBVIOUS
  <1> DEFINE t == Tail(s)
  <1> HIDE DEF t
  <1>2. \A j \in 1 .. Len(s) - 1 : j + 1 \in 1 .. Len(s) /\ j + 1 # 1  BY <1>1
  <1>3. \A i \in 1 .. Len(s) : i = 1 \/ (i - 1 \in 1 .. Len(s) - 1 /\ i - 1 + 1 = i)
    BY <1>1
  <1>4. Once(Tail(s))  BY <1>1, <1>2 DEF Once
  <1>5. \A j \in DOMAIN Tail(s) : Tail(s)[j] # Head(s) /\ \E i \in DOMAIN s : Tail(s)[j] = s[i]
    BY <1>1, <1>2 DEF Once
  <1>6. \A i \in DOMAIN s : s[i] = Head(s) \/ \E j \in DOMAIN Tail(s) : Tail(s)[j] = s[i]
    BY <1>1, <1>3, Zenon
  <1> QED  BY <1>1, <1>4, <1>5, <1>6

\* The port of the retried request leaves the callback's list.
LEMMA RetryStep ==
    ASSUME Shape, Retrying, callback' = [callback EXCEPT !.retries = Tail(@)]
    PROVE  /\ callback' \in Callback /\ callback'.serving /\ callback'.line = callback.line
           /\ callback'.kind = callback.kind
           /\ Retries' = Tail(Retries) /\ callback # None /\ callback' # None
  <1>1. /\ callback \in Callback /\ callback.serving /\ Retries = callback.retries
        /\ Retries # <<>>
    BY RetriedRequest
  <1>2. /\ callback' \in Callback /\ callback'.serving = callback.serving
        /\ callback'.line = callback.line /\ callback'.retries = Tail(callback.retries)
        /\ callback'.kind = callback.kind
    BY <1>1, CallbackRetries, Zenon
  <1> QED  BY <1>1, <1>2, NoneAssumption DEF Retries

LEMMA RetryAcceptedShape == Shape /\ RetryAccepted => Shape'
  <1> SUFFICES ASSUME Shape, RetryAccepted PROVE Shape'  OBVIOUS
  <1> DEFINE p == Head(Retries)
  <1>1. Retrying /\ callback' = [callback EXCEPT !.retries = Tail(@)]
    BY DEF RetryAccepted
  <1>2. /\ Retries \in Seq(Ports) /\ Retries # <<>> /\ p \in Ports
        /\ Retried \in Request /\ Retried.port = p
    BY <1>1, RetriedRequest
  <1>3. /\ callback' \in Callback /\ callback'.serving /\ callback'.line = callback.line
        /\ Retries' = Tail(Retries) /\ callback # None
    BY <1>1, RetryStep
  <1>4. TableTypes'  BY <1>2, AcceptTypes DEF RetryAccepted, Shape
  <1>5. /\ refused' \in [Ports -> Request \union {None}] /\ refused'[p] = None
        /\ \A q \in Ports \ {p} : refused'[q] = refused[q]
    <2>1. refused' = [refused EXCEPT ![p] = None]  BY <1>2 DEF RetryAccepted, Accept
    <2> QED  BY <1>2, <2>1 DEF Shape, PortTypes
  <1>6. UNCHANGED <<retryList, locking>>  BY DEF RetryAccepted
  <1>7. PortTypes'  BY <1>3, <1>5, <1>6 DEF PortTypes, Shape
  <1>8. RetryInv'
    <2> DEFINE t == Tail(Retries)
    <2>1. /\ t \in Seq(Ports) /\ Once(t)
          /\ \A j \in DOMAIN t : t[j] # p /\ \E i \in DOMAIN Retries : t[j] = Retries[i]
          /\ \A i \in DOMAIN Retries : Retries[i] = p \/ \E j \in DOMAIN t : t[j] = Retries[i]
      BY <1>2, TailOnce DEF Shape, RetryInv
    <2>2. \E i \in DOMAIN Retries : Retries[i] = p  BY <1>2
    <2>3. Retries' = t /\ retryList' = retryList  BY <1>3, <1>6
    <2> HIDE DEF t, p
    <2>4. /\ \A i \in DOMAIN retryList : retryList[i] \in Ports /\ retryList[i] # p
          /\ \A i \in DOMAIN t : t[i] \in Ports
      BY <2>1, <2>2 DEF Shape, PortTypes, RetryInv
    <2>5. /\ \A i \in DOMAIN retryList : refused'[retryList[i]] # None
          /\ \A i \in DOMAIN t : refused'[t[i]] # None
      <3>1. \A i \in DOMAIN retryList : refused[retryList[i]] # None
        BY DEF Shape, RetryInv
      <3>2. \A i \in DOMAIN t : t[i] # p /\ refused[t[i]] # None
        BY <2>1 DEF Shape, RetryInv
      <3>3. \A i \in DOMAIN retryList : refused'[retryList[i]] # None
        BY <1>5, <2>4, <3>1
      <3>4. \A i \in DOMAIN t : refused'[t[i]] # None  BY <1>5, <2>4, <3>2
      <3> QED  BY <3>3, <3>4
    <2>6. \A i \in DOMAIN retryList, j \in DOMAIN t : retryList[i] # t[j]
      BY <2>1 DEF Shape, RetryInv
    <2>7. \A q \in Ports : refused'[q] # None =>
            /\ refused'[q].port = q
            /\ \/ \E i \in DOMAIN retryList : retryList[i] = q
               \/ \E i \in DOMAIN t : t[i] = q
      BY <1>5, <2>1 DEF Shape, RetryInv
    <2> QED  BY <2>1, <2>3, <2>5, <2>6, <2>7 DEF Shape, RetryInv
  <1>9. CallbackInv'
    <2>1. callback.line \in Lines /\ m_RequestTable[callback.line] \in Seq(SequencerRequest)
      BY <1>3, RunningCallback
    <2>2. m_RequestTable[callback.line] # <<>>
      BY <1>1 DEF Shape, CallbackInv, Serving, Retrying
    <2>3. m_RequestTable'[callback.line] # <<>>
      <3>1. PICK r \in Request : Accept(r)  BY <1>2 DEF RetryAccepted
      <3>2. PICK e \in SequencerRequest :
                 m_RequestTable'[r.line] = Append(m_RequestTable[r.line], e)
        BY <3>1, AcceptTable DEF Shape
      <3>3. \A l \in Lines \ {r.line} : m_RequestTable'[l] = m_RequestTable[l]
        BY <3>1, AcceptTable DEF Shape
      <3>4. Append(m_RequestTable[callback.line], e) # <<>>  BY <2>1, AppendSome
      <3> QED  BY <2>1, <2>2, <3>2, <3>3, <3>4, Zenon
    <2> QED  BY <1>3, <2>3 DEF CallbackInv, Serving
  <1> QED  BY <1>4, <1>7, <1>8, <1>9 DEF Shape

LEMMA RetryRefusedShape == Shape /\ RetryRefused => Shape'
  <1> SUFFICES ASSUME Shape, RetryRefused PROVE Shape'  OBVIOUS
  <1> DEFINE p == Head(Retries)
  <1>1. Retrying /\ callback' = [callback EXCEPT !.retries = Tail(@)]
    BY DEF RetryRefused
  <1>2. /\ Retries \in Seq(Ports) /\ Retries # <<>> /\ p \in Ports
        /\ Retried \in Request /\ Retried.port = p
    BY <1>1, RetriedRequest
  <1>3. /\ callback' \in Callback /\ callback'.serving /\ callback'.line = callback.line
        /\ Retries' = Tail(Retries) /\ callback # None
    BY <1>1, RetryStep
  <1>4. TableTypes'  BY RefuseTypes DEF RetryRefused, Shape
  <1>5. /\ Joined(retryList, p, retryList')
        /\ refused' \in [Ports -> Request \union {None}]
        /\ refused'[p] = Retried /\ Retried # None
        /\ \A q \in Ports \ {p} : refused'[q] = refused[q]
    <2>1. PortTypes /\ Refuse(Retried, retryList)  BY DEF Shape, RetryRefused
    <2> QED  BY <1>2, <2>1, RefusePorts
  <1>6. UNCHANGED <<locking, m_RequestTable>>  BY DEF RetryRefused, Refuse
  <1>7. PortTypes'  BY <1>3, <1>5, <1>6 DEF PortTypes, Shape, Joined
  <1>8. RetryInv'
    <2> DEFINE t == Tail(Retries)
    <2>1. /\ t \in Seq(Ports) /\ Once(t)
          /\ \A j \in DOMAIN t : t[j] # p /\ \E i \in DOMAIN Retries : t[j] = Retries[i]
          /\ \A i \in DOMAIN Retries : Retries[i] = p \/ \E j \in DOMAIN t : t[j] = Retries[i]
      BY <1>2, TailOnce DEF Shape, RetryInv
    <2>2. Retries' = t  BY <1>3
    <2>0. \E i \in DOMAIN Retries : Retries[i] = p  BY <1>2
    <2> HIDE DEF t, p
    <2>3. /\ \A i \in DOMAIN retryList : retryList[i] \in Ports
          /\ \A i \in DOMAIN t : t[i] \in Ports
      BY <2>1 DEF Shape, PortTypes
    <2>4. /\ \A i \in DOMAIN retryList' : refused'[retryList'[i]] # None
          /\ \A i \in DOMAIN t : refused'[t[i]] # None
      <3>1. \A i \in DOMAIN retryList : retryList[i] # p /\ refused[retryList[i]] # None
        BY <2>0 DEF Shape, RetryInv
      <3>2. \A i \in DOMAIN t : t[i] # p /\ refused[t[i]] # None
        BY <2>1 DEF Shape, RetryInv
      <3>3. \A i \in DOMAIN retryList : refused'[retryList[i]] # None
        BY <1>5, <2>3, <3>1
      <3>4. \A i \in DOMAIN t : refused'[t[i]] # None  BY <1>5, <2>3, <3>2
      <3> QED  BY <1>5, <3>3, <3>4 DEF Joined
    <2>5. \A i \in DOMAIN retryList', j \in DOMAIN t : retryList'[i] # t[j]
      BY <1>5, <2>1 DEF Shape, RetryInv, Joined
    <2>6. \A q \in Ports : refused'[q] # None =>
            /\ refused'[q].port = q
            /\ \/ \E i \in DOMAIN retryList' : retryList'[i] = q
               \/ \E i \in DOMAIN t : t[i] = q
      BY <1>2, <1>5, <2>1 DEF Shape, RetryInv, Joined
    <2>7. Once(retryList')  BY <1>5 DEF Shape, RetryInv, Joined
    <2> QED  BY <2>1, <2>2, <2>4, <2>5, <2>6, <2>7 DEF RetryInv
  <1>9. CallbackInv'
    BY <1>1, <1>3, <1>6 DEF CallbackInv, Serving, Shape, Retrying
  <1> QED  BY <1>4, <1>7, <1>8, <1>9 DEF Shape

\* The served request leaves the front of its line's list.
LEMMA ServedTable ==
    ASSUME Shape, Served
    PROVE  /\ callback \in Callback /\ callback.line \in Lines /\ Serving
           /\ m_RequestTable[callback.line] \in Seq(SequencerRequest)
           /\ m_RequestTable[callback.line] # <<>>
           /\ m_RequestTable' \in [Lines -> Seq(SequencerRequest)]
           /\ m_RequestTable'[callback.line] = Tail(m_RequestTable[callback.line])
           /\ \A l \in Lines \ {callback.line} : m_RequestTable'[l] = m_RequestTable[l]
           /\ callback' \in Callback /\ ~callback'.serving
           /\ callback'.retries = <<>> /\ callback'.line = callback.line
           /\ callback'.kind = callback.kind
           /\ callback' # None /\ Retries = <<>> /\ Retries' = <<>>
  <1>1. callback # None /\ callback.serving /\ callback.retries = <<>>  BY DEF Served
  <1>2. /\ callback \in Callback /\ callback.line \in Lines /\ Retries = <<>>
        /\ m_RequestTable[callback.line] \in Seq(SequencerRequest)
        /\ m_RequestTable[callback.line] # <<>>
    BY <1>1, RunningCallback DEF Shape, CallbackInv, Serving
  <1>3. Tail(m_RequestTable[callback.line]) \in Seq(SequencerRequest)  BY <1>2
  <1>4. /\ m_RequestTable' \in [Lines -> Seq(SequencerRequest)]
        /\ m_RequestTable'[callback.line] = Tail(m_RequestTable[callback.line])
        /\ \A l \in Lines \ {callback.line} : m_RequestTable'[l] = m_RequestTable[l]
    BY <1>2, <1>3 DEF Served, Shape, TableTypes
  <1>5. callback' = StopServing(callback)  BY Zenon DEF Served, StopServing
  <1>6. /\ callback' \in Callback /\ ~callback'.serving
        /\ callback'.retries = <<>> /\ callback'.line = callback.line
        /\ callback'.kind = callback.kind
    BY <1>1, <1>2, <1>5, CallbackStops
  <1>7. callback' # None /\ Retries' = <<>>  BY <1>6, NoneAssumption DEF Retries
  <1>8. Serving  BY <1>1 DEF Serving
  <1> QED  BY <1>2, <1>4, <1>6, <1>7, <1>8

LEMMA ServedShape == Shape /\ Served => Shape'
  <1> SUFFICES ASSUME Shape, Served PROVE Shape'  OBVIOUS
  <1>1. /\ m_RequestTable' \in [Lines -> Seq(SequencerRequest)]
        /\ callback' \in Callback /\ ~callback'.serving /\ callback'.retries = <<>>
        /\ Retries = <<>> /\ Retries' = <<>>
    BY ServedTable
  <1>2. TableTypes'  BY <1>1 DEF Served, Shape, TableTypes
  <1>3. UNCHANGED <<retryList, refused, locking>>  BY DEF Served
  <1>4. PortTypes' /\ RetryInv'  BY <1>1, <1>3 DEF Shape, PortTypes, RetryInv
  <1> QED  BY <1>1, <1>2, <1>4 DEF Shape, CallbackInv, Serving

LEMMA EndShape == Shape /\ (Reissue \/ Return) => Shape'
  <1> SUFFICES ASSUME Shape, Reissue \/ Return PROVE Shape'  OBVIOUS
  <1>1. /\ callback # None /\ ~callback.serving /\ callback' = None
        /\ UNCHANGED <<m_RequestTable, retryList, refused, locking>>
    BY DEF Reissue, Return, Between
  <1>2. callback.line \in Lines /\ Retries = <<>>
    BY <1>1, RunningCallback DEF Shape, CallbackInv
  <1>3. m_mandatory_q' \in [Lines -> Seq({"LD", "ST"})]
    <2>1. CASE Reissue  BY <1>2, <2>1, IssueTypes DEF Reissue, Shape
    <2>2. CASE Return  BY <2>2 DEF Return, Shape, TableTypes
    <2> QED  BY <2>1, <2>2
  <1>4. TableTypes'  BY <1>3 DEF Reissue, Return, Shape, TableTypes
  <1>5. Retries' = <<>>  BY <1>1 DEF Retries
  <1>6. PortTypes' /\ RetryInv'  BY <1>1, <1>2, <1>5 DEF Shape, PortTypes, RetryInv
  <1> QED  BY <1>1, <1>4, <1>6 DEF Shape, CallbackInv, Serving

LEMMA DrainShape == Shape /\ (drain \/ resume \/ wakeup) => Shape'
  <1> SUFFICES ASSUME Shape, drain \/ resume \/ wakeup PROVE Shape'  OBVIOUS
  <1>1. deadlockCheckEvent' \in BOOLEAN
    <2>1. CASE drain  BY <2>1, Zenon DEF drain
    <2>2. CASE resume  BY <2>2 DEF resume, Shape, TableTypes
    <2>3. CASE wakeup  BY <2>3 DEF wakeup
    <2> QED  BY <2>1, <2>2, <2>3
  <1>2. drainState' \in {"Running", "Draining", "Drained"}
    BY DEF drain, resume, wakeup, Shape, TableTypes
  <1>3. UNCHANGED <<m_RequestTable, m_outstanding_count, m_mandatory_q, m_block_map,
                    retryList, refused, locking, callback>>
    BY DEF drain, resume, wakeup
  <1>4. TableTypes' /\ PortTypes'  BY <1>1, <1>2, <1>3 DEF Shape, TableTypes, PortTypes
  <1>5. RetryInv'  BY <1>3, ListsKept DEF Shape
  <1> QED  BY <1>3, <1>4, <1>5 DEF Shape, CallbackInv, Serving

LEMMA ShapeStep == Shape /\ [Next]_vars => Shape'
  <1> SUFFICES ASSUME Shape, [Next]_vars PROVE Shape'  OBVIOUS
  <1>1. CASE UNCHANGED vars
    <2>1. UNCHANGED <<retryList, refused, callback>>  BY <1>1 DEF vars
    <2>2. RetryInv'  BY <2>1, ListsKept DEF Shape
    <2> QED  BY <1>1, <2>2 DEF vars, Shape, TableTypes, PortTypes, CallbackInv, Serving
  <1> QED  BY <1>1, SendShape, SendRefusedShape, AnswerShape, ServeFrontShape,
              RetryAcceptedShape, RetryRefusedShape, ServedShape, EndShape, DrainShape
           DEF Next

-----------------------------------------------------------------------------
(* The count.                                                              *)

Places(T) == UNION {{l} \X DOMAIN T[l] : l \in Lines}

\* A list that is one longer than another has one more place.
LEMMA OnePlace ==
    ASSUME NEW T \in [Lines -> Seq(SequencerRequest)],
           NEW U \in [Lines -> Seq(SequencerRequest)],
           NEW l \in Lines, Len(U[l]) = Len(T[l]) + 1,
           \A k \in Lines \ {l} : U[k] = T[k],
           IsFiniteSet(Places(T)) \/ IsFiniteSet(Places(U))
    PROVE  /\ IsFiniteSet(Places(T)) /\ IsFiniteSet(Places(U))
           /\ Cardinality(Places(U)) = Cardinality(Places(T)) + 1
           /\ Cardinality(Places(T)) \in Nat
  <1> DEFINE x == <<l, Len(U[l])>>
  <1>1. \A k \in Lines : /\ DOMAIN T[k] = 1 .. Len(T[k]) /\ Len(T[k]) \in Nat
                         /\ DOMAIN U[k] = 1 .. Len(U[k]) /\ Len(U[k]) \in Nat
    <2> TAKE k \in Lines
    <2>1. T[k] \in Seq(SequencerRequest) /\ U[k] \in Seq(SequencerRequest)  OBVIOUS
    <2> QED  BY <2>1
  <1>2. /\ DOMAIN U[l] = DOMAIN T[l] \union {Len(U[l])} /\ Len(U[l]) \notin DOMAIN T[l]
        /\ \A k \in Lines \ {l} : DOMAIN U[k] = DOMAIN T[k]
    BY <1>1
  <1>3. x \notin Places(T)  BY <1>2 DEF Places
  <1>4. Places(U) = Places(T) \union {x}  BY <1>2 DEF Places
  <1> HIDE DEF x
  <1>5. Places(T) \subseteq Places(U)  BY <1>4
  <1>6. IsFiniteSet(Places(T))  BY <1>5, FS_Subset
  <1>7. /\ IsFiniteSet(Places(T) \union {x})
        /\ Cardinality(Places(T) \union {x}) = Cardinality(Places(T)) + 1
    BY <1>3, <1>6, FS_AddElement
  <1> QED  BY <1>4, <1>6, <1>7, FS_CardinalityType

CountInv == IsFiniteSet(Outstanding) /\ CountMatches

LEMMA CountInit == Init => CountInv
  <1> SUFFICES ASSUME Init PROVE CountInv  OBVIOUS
  <1>1. Outstanding = {}  BY DEF Init, Outstanding
  <1>2. IsFiniteSet({}) /\ Cardinality({}) = 0  BY FS_EmptySet
  <1> QED  BY <1>1, <1>2, SequencerAssumption DEF Init, CountInv, CountMatches

LEMMA AcceptCount ==
    ASSUME Shape, CountInv, NEW r \in Request, Accept(r), Serving' = Serving
    PROVE  CountInv'
  <1>1. r.line \in Lines  BY RequestFields
  <1>2. /\ m_RequestTable' \in [Lines -> Seq(SequencerRequest)]
        /\ \A l \in Lines \ {r.line} : m_RequestTable'[l] = m_RequestTable[l]
        /\ \E e \in SequencerRequest :
             m_RequestTable'[r.line] = Append(m_RequestTable[r.line], e)
    BY AcceptTable DEF Shape
  <1>3. m_RequestTable[r.line] \in Seq(SequencerRequest)
    BY <1>1 DEF Shape, TableTypes
  <1>4. Len(m_RequestTable'[r.line]) = Len(m_RequestTable[r.line]) + 1
    BY <1>2, <1>3
  <1>5. Outstanding = Places(m_RequestTable) /\ Outstanding' = Places(m_RequestTable')
    BY DEF Outstanding, Places
  <1>6. /\ IsFiniteSet(Outstanding') /\ Cardinality(Outstanding) \in Nat
        /\ Cardinality(Outstanding') = Cardinality(Outstanding) + 1
    BY <1>1, <1>2, <1>4, <1>5, OnePlace, Zenon DEF Shape, TableTypes, CountInv
  <1>7. /\ m_outstanding_count' = m_outstanding_count + 1
        /\ ~(m_outstanding_count >= m_max_outstanding_requests)
    BY DEF Accept, RequestStatus
  <1> QED  BY <1>6, <1>7, SequencerAssumption
           DEF CountInv, CountMatches, Shape, TableTypes, Serving

\* A step that changes neither the table nor the count nor what is served.
LEMMA CountKept ==
    ASSUME CountInv, UNCHANGED <<m_RequestTable, m_outstanding_count>>,
           Serving' = Serving
    PROVE  CountInv'
  <1>1. Outstanding' = Outstanding  BY DEF Outstanding
  <1> QED  BY <1>1 DEF CountInv, CountMatches, Serving

\* There is a request while a line's list is not empty.
LEMMA SomePlace ==
    ASSUME Shape, CountInv, NEW l \in Lines, m_RequestTable[l] # <<>>
    PROVE  Cardinality(Outstanding) \in Nat /\ Cardinality(Outstanding) > 0
  <1>1. m_RequestTable[l] \in Seq(SequencerRequest)  BY DEF Shape, TableTypes
  <1>2. 1 \in DOMAIN m_RequestTable[l]  BY <1>1
  <1>3. <<l, 1>> \in Outstanding  BY <1>2 DEF Outstanding
  <1>4. IsFiniteSet(Outstanding)  BY DEF CountInv
  <1>5. Cardinality(Outstanding) \in Nat /\ Cardinality(Outstanding) # 0
    BY <1>3, <1>4, FS_CardinalityType, FS_EmptySet
  <1> QED  BY <1>5

LEMMA NatCount ==
    ASSUME Shape, CountInv PROVE m_outstanding_count \in Nat
  <1>1. Cardinality(Outstanding) \in Nat  BY FS_CardinalityType DEF CountInv
  <1>2. CASE Serving
    <2>1. callback.line \in Lines /\ m_RequestTable[callback.line] # <<>>
      BY <1>2, RunningCallback DEF Serving, Shape, CallbackInv
    <2>2. Cardinality(Outstanding) > 0  BY <2>1, SomePlace
    <2> QED  BY <1>1, <1>2, <2>2 DEF CountInv, CountMatches, Shape, TableTypes, Serving
  <1>3. CASE ~Serving
    BY <1>1, <1>3 DEF CountInv, CountMatches, Shape, TableTypes, Serving
  <1> QED  BY <1>2, <1>3

LEMMA CountStep == Shape /\ CountInv /\ [Next]_vars => CountInv'
  <1> SUFFICES ASSUME Shape, CountInv, [Next]_vars PROVE CountInv'  OBVIOUS
  <1>1. ASSUME NEW r \in Request, Send(r) PROVE CountInv'
    <2>1. Serving' = Serving  BY <1>1 DEF Send, Serving
    <2> QED  BY <1>1, <2>1, AcceptCount DEF Send
  <1>2. ASSUME NEW r \in Request, SendRefused(r) PROVE CountInv'
    <2>1. Serving' = Serving  BY <1>2 DEF SendRefused, Serving
    <2> QED  BY <1>2, <2>1, CountKept DEF SendRefused, Refuse
  <1>3. CASE AnyAnswer
    <2> PICK l \in Lines : Answer(l)  BY <1>3 DEF AnyAnswer
    <2> DEFINE k == IF Head(m_mandatory_q[l]) = "LD" THEN "read" ELSE "write"
    <2>1. callback' = CallbackOf(l, k, TRUE, <<>>, FALSE)  BY Zenon DEF Answer, CallbackOf
    <2>2. k \in {"read", "write"}  OBVIOUS
    <2> HIDE DEF k
    <2>3. ~callback'.serving  BY <2>1, <2>2, CallbackStarts, Zenon
    <2>4. callback = None /\ UNCHANGED <<m_RequestTable, m_outstanding_count>>
      BY DEF Answer
    <2>5. ~Serving /\ ~Serving'  BY <2>3, <2>4 DEF Serving
    <2>6. Serving' = Serving  BY <2>5 DEF Serving
    <2> QED  BY <2>4, <2>6, CountKept
  <1>4. CASE ServeFront
    <2>1. /\ callback # None /\ ~callback.serving /\ m_RequestTable' = m_RequestTable
          /\ m_outstanding_count' = m_outstanding_count - 1
      BY <1>4 DEF ServeFront, Between
    <2>2. callback \in Callback /\ retryList \in Seq(Ports)
      BY <2>1, RunningCallback DEF Shape, PortTypes
    <2>3. callback' = StartServing(callback, retryList)
      BY <1>4, Zenon DEF ServeFront, StartServing
    <2>4. callback' # None /\ callback'.serving
      BY <2>2, <2>3, CallbackServes, NoneAssumption
    <2>5. Outstanding' = Outstanding  BY <2>1 DEF Outstanding
    <2>6. Cardinality(Outstanding) \in Nat  BY FS_CardinalityType DEF CountInv
    <2> QED  BY <2>1, <2>4, <2>5, <2>6, SequencerAssumption
             DEF CountInv, CountMatches, Shape, TableTypes
  <1>5. CASE RetryAccepted
    <2>1. Retrying /\ callback' = [callback EXCEPT !.retries = Tail(@)] /\ Accept(Retried)
      BY <1>5 DEF RetryAccepted
    <2>2. Retried \in Request  BY <2>1, RetriedRequest
    <2>3. callback # None /\ callback.serving /\ callback' # None /\ callback'.serving
      BY <2>1, RetryStep DEF Retrying
    <2>4. Serving' = Serving  BY <2>3 DEF Serving
    <2> QED  BY <2>1, <2>2, <2>4, AcceptCount
  <1>6. CASE RetryRefused
    <2>1. Retrying /\ callback' = [callback EXCEPT !.retries = Tail(@)]
      BY <1>6 DEF RetryRefused
    <2>2. callback # None /\ callback.serving /\ callback' # None /\ callback'.serving
      BY <2>1, RetryStep DEF Retrying
    <2>3. Serving' = Serving  BY <2>2 DEF Serving
    <2> QED  BY <1>6, <2>3, CountKept DEF RetryRefused, Refuse
  <1>7. CASE Served
    <2> DEFINE l == callback.line
    <2>1. /\ l \in Lines /\ Serving /\ m_RequestTable[l] \in Seq(SequencerRequest)
          /\ m_RequestTable[l] # <<>>
          /\ m_RequestTable' \in [Lines -> Seq(SequencerRequest)]
          /\ m_RequestTable'[l] = Tail(m_RequestTable[l])
          /\ \A k \in Lines \ {l} : m_RequestTable'[k] = m_RequestTable[k]
          /\ ~callback'.serving
      BY <1>7, ServedTable
    <2>2. Len(m_RequestTable[l]) = Len(m_RequestTable'[l]) + 1  BY <2>1
    <2> HIDE DEF l
    <2>3. \A k \in Lines \ {l} : m_RequestTable[k] = m_RequestTable'[k]  BY <2>1
    <2>4. Outstanding = Places(m_RequestTable) /\ Outstanding' = Places(m_RequestTable')
      BY DEF Outstanding, Places
    <2>5. /\ IsFiniteSet(Outstanding') /\ Cardinality(Outstanding') \in Nat
          /\ Cardinality(Outstanding) = Cardinality(Outstanding') + 1
      BY <2>1, <2>2, <2>3, <2>4, OnePlace, Zenon DEF Shape, TableTypes, CountInv
    <2>6. m_outstanding_count' = m_outstanding_count  BY <1>7 DEF Served
    <2> QED  BY <2>1, <2>5, <2>6 DEF CountInv, CountMatches, Serving, Shape, TableTypes
  <1>8. CASE Reissue \/ Return
    <2>1. /\ ~callback.serving /\ callback' = None
          /\ UNCHANGED <<m_RequestTable, m_outstanding_count>>
      BY <1>8 DEF Reissue, Return, Between
    <2>2. Serving' = Serving  BY <2>1 DEF Serving
    <2> QED  BY <2>1, <2>2, CountKept
  <1>9. CASE drain \/ resume \/ wakeup \/ UNCHANGED vars
    <2>1. UNCHANGED <<m_RequestTable, m_outstanding_count, callback>>
      BY <1>9 DEF drain, resume, wakeup, vars
    <2>2. Serving' = Serving  BY <2>1 DEF Serving
    <2> QED  BY <2>1, <2>2, CountKept
  <1> QED  BY <1>1, <1>2, <1>3, <1>4, <1>5, <1>6, <1>7, <1>8, <1>9
           DEF Next, AnySend, AnySendRefused

-----------------------------------------------------------------------------
(* The requests in the cache.                                              *)

Busy(l) == callback # None /\ callback.line = l

\* A line has its first request in the cache except while its callback runs.
CacheInv ==
    \A l \in Lines :
        /\ m_RequestTable[l] = <<>> \/ Busy(l) => m_mandatory_q[l] = <<>>
        /\ m_RequestTable[l] # <<>> /\ ~Busy(l) =>
             m_mandatory_q[l] = <<secondary_type(Head(m_RequestTable[l]).type)>>

LEMMA AcceptCache ==
    ASSUME Shape, CacheInv, NEW r \in Request, Accept(r), callback # None => Serving,
           \A l \in Lines : Busy(l)' <=> Busy(l)
    PROVE  CacheInv'
  <1>1. r.line \in Lines  BY RequestFields
  <1>2. PICK e \in SequencerRequest :
             /\ e.type = r.type
             /\ m_RequestTable'[r.line] = Append(m_RequestTable[r.line], e)
    BY AcceptTable DEF Shape
  <1>3. \A l \in Lines \ {r.line} : m_RequestTable'[l] = m_RequestTable[l]
    BY AcceptTable DEF Shape
  <1>4. m_RequestTable[r.line] \in Seq(SequencerRequest)
    BY <1>1 DEF Shape, TableTypes
  <1>5. m_RequestTable'[r.line] # <<>>  BY <1>2, <1>4, AppendSome
  <1>6. CASE m_RequestTable[r.line] = <<>>
    <2>1. issueRequest(r.line, r.type)  BY <1>6 DEF Accept
    <2>2. /\ m_mandatory_q'[r.line] = Append(m_mandatory_q[r.line], secondary_type(r.type))
          /\ \A k \in Lines \ {r.line} : m_mandatory_q'[k] = m_mandatory_q[k]
      BY <1>1, <2>1, IssueTypes DEF Shape
    <2>3. m_mandatory_q[r.line] = <<>>  BY <1>1, <1>6 DEF CacheInv
    <2>4. Head(m_RequestTable'[r.line]) = e  BY <1>2, <1>4, <1>6
    <2>5. m_mandatory_q'[r.line] = <<secondary_type(Head(m_RequestTable'[r.line]).type)>>
      BY <1>2, <2>2, <2>3, <2>4
    <2>6. ~Busy(r.line)  BY <1>6 DEF Busy, Serving, Shape, CallbackInv
    <2> QED  BY <1>1, <1>3, <1>5, <2>2, <2>5, <2>6 DEF CacheInv
  <1>7. CASE m_RequestTable[r.line] # <<>>
    <2>1. m_mandatory_q' = m_mandatory_q  BY <1>7 DEF Accept
    <2>2. Head(m_RequestTable'[r.line]) = Head(m_RequestTable[r.line])
      BY <1>2, <1>4, <1>7
    <2> QED  BY <1>1, <1>3, <1>5, <1>7, <2>1, <2>2 DEF CacheInv
  <1> QED  BY <1>6, <1>7

LEMMA CacheKept ==
    ASSUME CacheInv, UNCHANGED <<m_RequestTable, m_mandatory_q>>,
           \A l \in Lines : Busy(l)' <=> Busy(l)
    PROVE  CacheInv'
  BY DEF CacheInv

LEMMA CacheStep == Shape /\ CacheInv /\ [Next]_vars => CacheInv'
  <1> SUFFICES ASSUME Shape, CacheInv, [Next]_vars PROVE CacheInv'  OBVIOUS
  <1>1. ASSUME NEW r \in Request, Send(r) PROVE CacheInv'
    <2>1. callback = None /\ callback' = callback  BY <1>1 DEF Send, MaySend
    <2> QED  BY <1>1, <2>1, AcceptCache DEF Send, Busy
  <1>2. ASSUME NEW r \in Request, SendRefused(r) PROVE CacheInv'
    BY <1>2, CacheKept DEF SendRefused, Refuse, Busy
  <1>3. CASE AnyAnswer
    <2> PICK l \in Lines : Answer(l)  BY <1>3 DEF AnyAnswer
    <2> DEFINE k == IF Head(m_mandatory_q[l]) = "LD" THEN "read" ELSE "write"
    <2>1. callback' = CallbackOf(l, k, TRUE, <<>>, FALSE)  BY Zenon DEF Answer, CallbackOf
    <2>2. k \in {"read", "write"}  OBVIOUS
    <2> HIDE DEF k
    <2>3. callback' # None /\ callback'.line = l
      BY <2>1, <2>2, CallbackStarts, NoneAssumption, Zenon
    <2>4. callback = None /\ m_RequestTable' = m_RequestTable /\ m_mandatory_q[l] # <<>>
          /\ m_mandatory_q' = [m_mandatory_q EXCEPT ![l] = Tail(@)]
      BY DEF Answer
    <2>5. /\ \A j \in Lines : ~Busy(j)
          /\ Busy(l)' /\ \A j \in Lines \ {l} : ~Busy(j)'
      BY <2>3, <2>4 DEF Busy
    <2>6. m_mandatory_q[l] = <<secondary_type(Head(m_RequestTable[l]).type)>>
      BY <2>4, <2>5 DEF CacheInv
    <2>7. Tail(m_mandatory_q[l]) = <<>>  BY <2>6
    <2>8. m_mandatory_q'[l] = <<>> /\ \A j \in Lines \ {l} : m_mandatory_q'[j] = m_mandatory_q[j]
      BY <2>4, <2>7 DEF Shape, TableTypes
    <2> QED  BY <2>4, <2>5, <2>8 DEF CacheInv
  <1>4. CASE ServeFront
    <2>1. /\ callback # None
          /\ UNCHANGED <<m_RequestTable, m_mandatory_q>>
      BY <1>4 DEF ServeFront, Between
    <2>2. callback \in Callback /\ retryList \in Seq(Ports)
      BY <2>1, RunningCallback DEF Shape, PortTypes
    <2>3. callback' = StartServing(callback, retryList)
      BY <1>4, Zenon DEF ServeFront, StartServing
    <2>4. callback' # None /\ callback'.line = callback.line
      BY <2>2, <2>3, CallbackServes, NoneAssumption
    <2> QED  BY <2>1, <2>4, CacheKept DEF Busy
  <1>5. CASE RetryAccepted
    <2>1. Retrying /\ callback' = [callback EXCEPT !.retries = Tail(@)] /\ Accept(Retried)
      BY <1>5 DEF RetryAccepted
    <2>2. Retried \in Request  BY <2>1, RetriedRequest
    <2>3. /\ callback # None /\ callback' # None /\ callback'.line = callback.line
          /\ callback.serving
      BY <2>1, RetryStep DEF Retrying
    <2> QED  BY <2>1, <2>2, <2>3, AcceptCache DEF Serving, Busy
  <1>6. CASE RetryRefused
    <2>1. Retrying /\ callback' = [callback EXCEPT !.retries = Tail(@)]
      BY <1>6 DEF RetryRefused
    <2>2. callback # None /\ callback' # None /\ callback'.line = callback.line
      BY <2>1, RetryStep
    <2> QED  BY <1>6, <2>2, CacheKept DEF RetryRefused, Refuse, Busy
  <1>7. CASE Served
    <2>1. /\ callback # None /\ callback' # None /\ callback'.line = callback.line
          /\ \A l \in Lines \ {callback.line} : m_RequestTable'[l] = m_RequestTable[l]
      BY <1>7, ServedTable DEF Served
    <2>2. m_mandatory_q' = m_mandatory_q  BY <1>7 DEF Served
    <2> QED  BY <2>1, <2>2 DEF CacheInv, Busy
  <1>8. CASE Reissue
    <2> DEFINE l == callback.line
    <2>1. /\ callback # None /\ m_RequestTable[l] # <<>> /\ callback' = None
          /\ issueRequest(l, seq_req.type) /\ m_RequestTable' = m_RequestTable
      BY <1>8 DEF Reissue, Between
    <2>2. l \in Lines /\ seq_req = Head(m_RequestTable[l])
      BY <2>1, RunningCallback DEF seq_req
    <2>3. Busy(l) /\ \A j \in Lines \ {l} : ~Busy(j)  BY <2>1 DEF Busy
    <2>4. \A j \in Lines : ~Busy(j)'  BY <2>1 DEF Busy
    <2> HIDE DEF l
    <2>5. /\ m_mandatory_q'[l] = Append(m_mandatory_q[l], secondary_type(seq_req.type))
          /\ \A j \in Lines \ {l} : m_mandatory_q'[j] = m_mandatory_q[j]
      BY <2>1, <2>2, IssueTypes DEF Shape
    <2>6. m_mandatory_q[l] = <<>>  BY <2>2, <2>3 DEF CacheInv
    <2>7. m_mandatory_q'[l] = <<secondary_type(Head(m_RequestTable[l]).type)>>
      BY <2>2, <2>5, <2>6
    <2> QED  BY <2>1, <2>2, <2>3, <2>4, <2>5, <2>7 DEF CacheInv
  <1>9. CASE Return
    <2>1. /\ callback # None /\ m_RequestTable[callback.line] = <<>> /\ callback' = None
          /\ UNCHANGED <<m_RequestTable, m_mandatory_q>>
      BY <1>9 DEF Return, Between
    <2> QED  BY <2>1 DEF CacheInv, Busy
  <1>10. CASE drain \/ resume \/ wakeup \/ UNCHANGED vars
    BY <1>10, CacheKept DEF drain, resume, wakeup, vars, Busy
  <1> QED  BY <1>1, <1>2, <1>3, <1>4, <1>5, <1>6, <1>7, <1>8, <1>9, <1>10
           DEF Next, AnySend, AnySendRefused

-----------------------------------------------------------------------------
(* The drain and the deadlock check.                                       *)

DrainInv ==
    /\ drainState = "Draining" => ~deadlockCheckEvent
    /\ drainState = "Draining" => m_outstanding_count > 0 \/ Serving
    /\ drainState # "Draining" /\ m_outstanding_count > 0 => deadlockCheckEvent

LEMMA DrainStep == Shape /\ CountInv /\ DrainInv /\ [Next]_vars => DrainInv'
  <1> SUFFICES ASSUME Shape, CountInv, DrainInv, [Next]_vars PROVE DrainInv'  OBVIOUS
  <1>0. m_outstanding_count \in Nat  BY NatCount
  <1>1. ASSUME NEW r, Accept(r) PROVE DrainInv'
    <2>1. /\ m_outstanding_count' = m_outstanding_count + 1
          /\ drainState' = drainState
      BY <1>1 DEF Accept
    <2>2. deadlockCheckEvent' <=> (deadlockCheckEvent \/ drainState # "Draining")
      BY <1>1, Zenon DEF Accept
    <2>3. m_outstanding_count' > 0  BY <1>0, <2>1
    <2> QED  BY <2>1, <2>2, <2>3 DEF DrainInv
  <1>2. ASSUME NEW r, NEW list, Refuse(r, list), Serving => Serving' PROVE DrainInv'
    BY <1>2 DEF Refuse, DrainInv
  <1>3. CASE AnyAnswer
    <2> PICK l \in Lines : Answer(l)  BY <1>3 DEF AnyAnswer
    <2>1. /\ ~Serving
          /\ UNCHANGED <<m_outstanding_count, drainState, deadlockCheckEvent>>
      BY DEF Answer, Serving
    <2> QED  BY <2>1 DEF DrainInv
  <1>4. CASE ServeFront
    <2>1. callback # None  BY <1>4 DEF ServeFront, Between
    <2>2. callback \in Callback /\ retryList \in Seq(Ports)
      BY <2>1, RunningCallback DEF Shape, PortTypes
    <2>3. callback' = StartServing(callback, retryList)
      BY <1>4, Zenon DEF ServeFront, StartServing
    <2>4. Serving'  BY <2>2, <2>3, CallbackServes, NoneAssumption DEF Serving
    <2>5. /\ m_outstanding_count' = m_outstanding_count - 1
          /\ UNCHANGED <<drainState, deadlockCheckEvent>>
      BY <1>4 DEF ServeFront
    <2> QED  BY <1>0, <2>4, <2>5 DEF DrainInv
  <1>5. CASE Served
    <2>1. /\ drainState' = IF drainState = "Draining" /\ m_outstanding_count = 0
                           THEN "Drained" ELSE drainState
          /\ UNCHANGED <<m_outstanding_count, deadlockCheckEvent>>
      BY <1>5 DEF Served
    <2> QED  BY <1>0, <2>1 DEF DrainInv
  <1>6. CASE Reissue \/ Return
    <2>1. ~Serving /\ UNCHANGED <<m_outstanding_count, drainState, deadlockCheckEvent>>
      BY <1>6 DEF Reissue, Return, Between, Serving
    <2> QED  BY <2>1 DEF DrainInv
  <1>7. CASE drain  BY <1>0, <1>7 DEF drain, DrainInv
  <1>8. CASE resume  BY <1>8 DEF resume, DrainInv
  <1>9. CASE wakeup  BY <1>9, Zenon DEF wakeup, DrainInv
  <1>10. CASE UNCHANGED vars  BY <1>10 DEF vars, DrainInv, Serving
  <1>11. ASSUME NEW r \in Request, SendRefused(r) PROVE DrainInv'
    <2>1. Refuse(r, retryList) /\ (Serving => Serving')
      BY <1>11 DEF SendRefused, Serving
    <2> QED  BY <1>2, <2>1
  <1>12. CASE RetryRefused
    <2>1. /\ Retrying /\ callback' = [callback EXCEPT !.retries = Tail(@)]
          /\ Refuse(Retried, retryList)
      BY <1>12 DEF RetryRefused
    <2>2. Serving'  BY <2>1, RetryStep DEF Serving
    <2> QED  BY <1>2, <2>1, <2>2
  <1>13. CASE AnySend \/ RetryAccepted  BY <1>1, <1>13 DEF AnySend, Send, RetryAccepted
  <1> QED  BY <1>3, <1>4, <1>5, <1>6, <1>7, <1>8, <1>9, <1>10, <1>11, <1>12, <1>13
           DEF Next, AnySendRefused

-----------------------------------------------------------------------------
(* The locked access.  Its two halves are requests of their own: at any    *)
(* time at most one of them is in the table or refused, the line it        *)
(* belongs to is the core's, and the line is blocked for the second.       *)

Lock == {"Locked_RMW_Read", "Locked_RMW_Write"}

\* A half of the locked access that is in the table and not yet performed.
Pending(l, i) ==
    /\ i \in DOMAIN m_RequestTable[l]
    /\ ~(Serving /\ callback.line = l /\ i = 1)
    /\ m_RequestTable[l][i].type \in Lock

Holds(l, type) ==
    /\ locking = l
    /\ type = "Locked_RMW_Read" => m_block_map = {}
    /\ type = "Locked_RMW_Write" => m_block_map = {l}

RefusedLock(p) == refused[p] # None /\ refused[p].type \in Lock

LockInv ==
    /\ m_block_map \subseteq {locking}
    /\ \A l \in Lines, i \in Nat : Pending(l, i) =>
         /\ Holds(l, m_RequestTable[l][i].type)
         /\ \A k \in Lines, j \in Nat : Pending(k, j) => k = l /\ j = i
         /\ \A p \in Ports : ~RefusedLock(p)
    /\ \A p \in Ports : RefusedLock(p) =>
         p = LockPort /\ Holds(refused[p].line, refused[p].type)

\* A blocked line has only the second half in the table, or the callback that
\* blocked it still serves what was coalesced with the first; a callback for
\* loads never meets a blocked line.
ExclusiveInv ==
    /\ callback # None /\ callback.kind = "read" => callback.line \notin m_block_map
    /\ \A l \in m_block_map : ~Busy(l) =>
         \A i \in DOMAIN m_RequestTable[l] :
             m_RequestTable[l][i].type = "Locked_RMW_Write"

\* There is someone to retry the refused requests.
RetriedInv == retryList # <<>> => m_outstanding_count > 0 \/ LockedReadDone

\* The pending halves are those of before, moved up by d.
LEMMA LocksMove ==
    ASSUME LockInv, UNCHANGED <<m_block_map, locking, refused>>,
           NEW d \in [Lines -> Nat],
           \A l \in Lines, i \in Nat : Pending(l, i)' =>
               /\ Pending(l, i + d[l])
               /\ m_RequestTable'[l][i].type = m_RequestTable[l][i + d[l]].type
    PROVE  LockInv'
  <1>1. \A p \in Ports : RefusedLock(p)' <=> RefusedLock(p)  BY DEF RefusedLock
  <1>3. ASSUME NEW l \in Lines, NEW i \in Nat, Pending(l, i)'
        PROVE  /\ Holds(l, m_RequestTable[l][i].type)'
               /\ \A k \in Lines, j \in Nat : Pending(k, j)' => k = l /\ j = i
               /\ \A p \in Ports : ~RefusedLock(p)
    <2>1. /\ Pending(l, i + d[l]) /\ i + d[l] \in Nat
          /\ m_RequestTable'[l][i].type = m_RequestTable[l][i + d[l]].type
      BY <1>3
    <2>2. /\ Holds(l, m_RequestTable[l][i + d[l]].type)
          /\ \A k \in Lines, j \in Nat : Pending(k, j) => k = l /\ j = i + d[l]
          /\ \A p \in Ports : ~RefusedLock(p)
      BY <2>1 DEF LockInv
    <2>3. ASSUME NEW k \in Lines, NEW j \in Nat, Pending(k, j)' PROVE k = l /\ j = i
      <3>1. Pending(k, j + d[k]) /\ j + d[k] \in Nat  BY <2>3
      <3>2. k = l /\ j + d[k] = i + d[l]  BY <2>2, <3>1
      <3> QED  BY <3>2
    <2>4. Holds(l, m_RequestTable[l][i].type)'  BY <2>1, <2>2 DEF Holds
    <2> QED  BY <2>2, <2>3, <2>4
  <1>4. \A p \in Ports : RefusedLock(p)' =>
          p = LockPort /\ Holds(refused[p].line, refused[p].type)'
    BY <1>1 DEF LockInv, Holds
  <1>5. (m_block_map \subseteq {locking})'  BY DEF LockInv
  <1> QED  BY <1>1, <1>3, <1>4, <1>5 DEF LockInv

\* Nothing about the locked access changes.
LEMMA LocksKept ==
    ASSUME LockInv, UNCHANGED <<m_block_map, locking, refused>>,
           \A l \in Lines, i \in Nat : Pending(l, i)' =>
               /\ Pending(l, i)
               /\ m_RequestTable'[l][i].type = m_RequestTable[l][i].type
    PROVE  LockInv'
  <1> DEFINE d == [l \in Lines |-> 0]
  <1>1. d \in [Lines -> Nat] /\ \A l \in Lines : d[l] = 0  OBVIOUS
  <1> HIDE DEF d
  <1>2. \A l \in Lines, i \in Nat : i + d[l] = i  BY <1>1
  <1>3. \A l \in Lines, i \in Nat : Pending(l, i)' =>
            /\ Pending(l, i + d[l])
            /\ m_RequestTable'[l][i].type = m_RequestTable[l][i + d[l]].type
    BY <1>2
  <1> QED  BY <1>1, <1>3, LocksMove

LEMMA AcceptPending ==
    ASSUME Shape, NEW r \in Request, Accept(r), Serving' = Serving,
           Serving => callback'.line = callback.line
    PROVE  \A l \in Lines, i \in Nat : Pending(l, i)' =>
               \/ /\ Pending(l, i)
                  /\ m_RequestTable'[l][i].type = m_RequestTable[l][i].type
               \/ /\ l = r.line /\ i = Len(m_RequestTable[r.line]) + 1 /\ r.type \in Lock
                  /\ m_RequestTable'[l][i].type = r.type
  <1> SUFFICES ASSUME NEW l \in Lines, NEW i \in Nat, Pending(l, i)'
               PROVE  \/ /\ Pending(l, i)
                         /\ m_RequestTable'[l][i].type = m_RequestTable[l][i].type
                      \/ /\ l = r.line /\ i = Len(m_RequestTable[r.line]) + 1
                         /\ r.type \in Lock /\ m_RequestTable'[l][i].type = r.type
    OBVIOUS
  <1>1. r.line \in Lines  BY RequestFields
  <1>2. PICK e \in SequencerRequest :
             /\ e.type = r.type
             /\ m_RequestTable'[r.line] = Append(m_RequestTable[r.line], e)
    BY AcceptTable DEF Shape
  <1>3. \A k \in Lines \ {r.line} : m_RequestTable'[k] = m_RequestTable[k]
    BY AcceptTable DEF Shape
  <1>4. m_RequestTable[r.line] \in Seq(SequencerRequest)
    BY <1>1 DEF Shape, TableTypes
  <1>5. /\ i \in DOMAIN m_RequestTable'[l] /\ m_RequestTable'[l][i].type \in Lock
        /\ ~(Serving /\ callback.line = l /\ i = 1)
    BY DEF Pending
  <1>6. CASE l # r.line  BY <1>3, <1>5, <1>6 DEF Pending
  <1>7. CASE l = r.line /\ i \in DOMAIN m_RequestTable[r.line]
    <2>1. m_RequestTable'[l][i] = m_RequestTable[l][i]  BY <1>2, <1>4, <1>7
    <2> QED  BY <1>5, <1>7, <2>1 DEF Pending
  <1>8. CASE l = r.line /\ i \notin DOMAIN m_RequestTable[r.line]
    <2>1. i = Len(m_RequestTable[r.line]) + 1 /\ m_RequestTable'[l][i] = e
      BY <1>2, <1>4, <1>5, <1>8
    <2> QED  BY <1>2, <1>5, <1>8, <2>1
  <1> QED  BY <1>6, <1>7, <1>8

\* The only half of a locked access is the request r, in place n of its line.
LEMMA OnlyPending ==
    ASSUME NEW r, NEW n,
           \A l \in Lines, i \in Nat : Pending(l, i)' =>
               l = r.line /\ i = n /\ m_RequestTable'[l][i].type = r.type,
           \A p \in Ports : ~RefusedLock(p)',
           Holds(r.line, r.type)', (m_block_map \subseteq {locking})'
    PROVE  LockInv'
  <1>1. ASSUME NEW l \in Lines, NEW i \in Nat, Pending(l, i)'
        PROVE  Holds(l, m_RequestTable[l][i].type)'
    <2>1. l = r.line /\ m_RequestTable'[l][i].type = r.type  BY <1>1
    <2> QED  BY <2>1 DEF Holds
  <1> QED  BY <1>1 DEF LockInv

\* The core starts a half of a locked access only when no other is under way.
LEMMA LockSent ==
    ASSUME Shape, LockInv, NEW r \in Request, MaySend(r), r.type \in Lock,
           locking' = (IF r.type = "Locked_RMW_Read" THEN r.line ELSE locking),
           m_block_map' = m_block_map
    PROVE  /\ \A l \in Lines, i \in Nat : ~Pending(l, i)
           /\ \A p \in Ports : ~RefusedLock(p)
           /\ Holds(r.line, r.type)' /\ (m_block_map \subseteq {locking})'
           /\ r.port = LockPort
  <1>1. r.line \in Lines  BY RequestFields
  <1>2. \A p \in Ports : RefusedLock(p) => refused[p].line \in Lines
    BY RequestFields DEF RefusedLock, Shape, PortTypes
  <1>3. CASE r.type = "Locked_RMW_Read"
    <2>1. r.port = LockPort /\ locking = None  BY <1>3 DEF MaySend
    <2>2. m_block_map = {}
      BY <2>1, NoneAssumption DEF LockInv, Shape, TableTypes
    <2>3. \A l \in Lines : \A t : ~Holds(l, t)  BY <2>1, NoneAssumption DEF Holds
    <2>4. /\ \A l \in Lines, i \in Nat : ~Pending(l, i)
          /\ \A p \in Ports : ~RefusedLock(p)
      BY <1>2, <2>3 DEF LockInv
    <2>5. Holds(r.line, r.type)'  BY <1>3, <2>2 DEF Holds
    <2> QED  BY <2>1, <2>2, <2>4, <2>5
  <1>4. CASE r.type = "Locked_RMW_Write"
    <2>1. /\ r.port = LockPort /\ locking \in m_block_map /\ r.line = locking
          /\ refused[LockPort] = None
          /\ \A i \in DOMAIN m_RequestTable[locking] :
               m_RequestTable[locking][i].type # "Locked_RMW_Write"
      BY <1>4 DEF MaySend, LockedReadDone
    <2>2. m_block_map = {r.line}  BY <2>1 DEF LockInv
    <2>3. \A p \in Ports : ~RefusedLock(p)  BY <2>1 DEF LockInv, RefusedLock
    <2>4. ASSUME NEW l \in Lines, NEW i \in Nat, Pending(l, i) PROVE FALSE
      <3>1. Holds(l, m_RequestTable[l][i].type)  BY <2>4 DEF LockInv
      <3>2. l = locking /\ m_RequestTable[l][i].type # "Locked_RMW_Read"
        BY <2>2, <3>1 DEF Holds
      <3> QED  BY <2>1, <2>4, <3>2 DEF Pending, Lock
    <2>5. locking' = locking  BY <1>4
    <2>6. Holds(r.line, r.type)' /\ (m_block_map \subseteq {locking})'
      BY <1>4, <2>1, <2>2, <2>5 DEF Holds
    <2> QED  BY <2>1, <2>3, <2>4, <2>6
  <1> QED  BY <1>3, <1>4 DEF Lock

LEMMA SendLocks == Shape /\ LockInv /\ AnySend => LockInv'
  <1> SUFFICES ASSUME Shape, LockInv, NEW r \in Request, Send(r) PROVE LockInv'
    BY DEF AnySend
  <1>1. /\ MaySend(r) /\ Accept(r) /\ callback = None /\ callback' = None
        /\ refused[r.port] = None /\ refused' = [refused EXCEPT ![r.port] = None]
        /\ m_block_map' = m_block_map
        /\ locking' = IF r.type = "Locked_RMW_Read" THEN r.line ELSE locking
    BY DEF Send, MaySend, Accept
  <1>2. r.port \in Ports  BY RequestFields
  <1>3. refused' = refused  BY <1>1, <1>2 DEF Shape, PortTypes
  <1>4. ~Serving /\ Serving' = Serving  BY <1>1 DEF Serving
  <1>5. \A l \in Lines, i \in Nat : Pending(l, i)' =>
            \/ /\ Pending(l, i)
               /\ m_RequestTable'[l][i].type = m_RequestTable[l][i].type
            \/ /\ l = r.line /\ i = Len(m_RequestTable[r.line]) + 1 /\ r.type \in Lock
               /\ m_RequestTable'[l][i].type = r.type
    BY <1>1, <1>4, AcceptPending
  <1>6. CASE r.type \in Lock
    <2>1. /\ \A l \in Lines, i \in Nat : ~Pending(l, i)
          /\ \A p \in Ports : ~RefusedLock(p)
          /\ Holds(r.line, r.type)' /\ (m_block_map \subseteq {locking})'
      BY <1>1, <1>6, LockSent
    <2>2. \A p \in Ports : ~RefusedLock(p)'  BY <1>3, <2>1 DEF RefusedLock
    <2>3. \A l \in Lines, i \in Nat : Pending(l, i)' =>
              /\ l = r.line /\ i = Len(m_RequestTable[r.line]) + 1
              /\ m_RequestTable'[l][i].type = r.type
      BY <1>5, <2>1
    <2>4. PICK n : n = Len(m_RequestTable[r.line]) + 1  OBVIOUS
    <2>5. \A l \in Lines, i \in Nat : Pending(l, i)' =>
              l = r.line /\ i = n /\ m_RequestTable'[l][i].type = r.type
      BY <2>3, <2>4
    <2> QED  BY <2>1, <2>2, <2>5, OnlyPending
  <1>7. CASE r.type \notin Lock
    <2>1. locking' = locking  BY <1>1, <1>7 DEF Lock
    <2>2. \A l \in Lines, i \in Nat : Pending(l, i)' =>
              /\ Pending(l, i)
              /\ m_RequestTable'[l][i].type = m_RequestTable[l][i].type
      BY <1>5, <1>7
    <2> QED  BY <1>1, <1>3, <2>1, <2>2, LocksKept
  <1> QED  BY <1>6, <1>7

LEMMA SendRefusedLocks == Shape /\ LockInv /\ AnySendRefused => LockInv'
  <1> SUFFICES ASSUME Shape, LockInv, NEW r \in Request, SendRefused(r) PROVE LockInv'
    BY DEF AnySendRefused
  <1>1. /\ MaySend(r) /\ Refuse(r, retryList) /\ callback' = callback
        /\ UNCHANGED <<m_block_map, m_RequestTable>>
        /\ locking' = IF r.type = "Locked_RMW_Read" THEN r.line ELSE locking
    BY DEF SendRefused, Refuse
  <1>2. /\ r.port \in Ports /\ refused'[r.port] = r /\ r # None
        /\ \A p \in Ports \ {r.port} : refused'[p] = refused[p]
    BY <1>1, RefusePorts, RequestFields DEF Shape
  <1>3. \A l \in Lines, i \in Nat :
            /\ Pending(l, i)' <=> Pending(l, i)
            /\ m_RequestTable'[l][i].type = m_RequestTable[l][i].type
    BY <1>1 DEF Pending, Serving
  <1>4. CASE r.type \in Lock
    <2>1. /\ \A l \in Lines, i \in Nat : ~Pending(l, i)
          /\ \A p \in Ports : ~RefusedLock(p)
          /\ Holds(r.line, r.type)' /\ (m_block_map \subseteq {locking})'
          /\ r.port = LockPort
      BY <1>1, <1>4, LockSent
    <2>2. \A p \in Ports \ {r.port} : ~RefusedLock(p)'  BY <1>2, <2>1 DEF RefusedLock
    <2>3. Holds(refused[r.port].line, refused[r.port].type)'
      BY <1>2, <2>1 DEF Holds
    <2>4. \A p \in Ports : RefusedLock(p)' =>
            p = LockPort /\ Holds(refused[p].line, refused[p].type)'
      BY <2>1, <2>2, <2>3
    <2> QED  BY <1>3, <2>1, <2>4 DEF LockInv
  <1>5. CASE r.type \notin Lock
    <2>1. locking' = locking  BY <1>1, <1>5 DEF Lock
    <2>2. ~RefusedLock(r.port)'  BY <1>2, <1>5 DEF RefusedLock
    <2>3. \A p \in Ports : RefusedLock(p)' => p # r.port /\ RefusedLock(p)
      BY <1>2, <2>2 DEF RefusedLock
    <2>4. \A p \in Ports : RefusedLock(p)' =>
            p = LockPort /\ Holds(refused[p].line, refused[p].type)'
      BY <1>1, <1>2, <2>1, <2>3 DEF LockInv, Holds
    <2>5. \A l \in Lines, i \in Nat : Pending(l, i)' =>
            Holds(l, m_RequestTable[l][i].type)'
      BY <1>1, <1>3, <2>1 DEF LockInv, Holds
    <2>6. (m_block_map \subseteq {locking})'  BY <1>1, <2>1 DEF LockInv
    <2> QED  BY <1>3, <2>3, <2>4, <2>5, <2>6 DEF LockInv
  <1> QED  BY <1>4, <1>5

LEMMA ServeFrontLocks == Shape /\ LockInv /\ ServeFront => LockInv'
  <1> SUFFICES ASSUME Shape, LockInv, ServeFront PROVE LockInv'  OBVIOUS
  <1>1. PICK l \in Lines : l = callback.line
    BY RunningCallback DEF ServeFront, Between
  <1>2. /\ ~Serving /\ m_RequestTable[l] # <<>> /\ seq_req = Head(m_RequestTable[l])
        /\ m_RequestTable[l] \in Seq(SequencerRequest) /\ callback # None
        /\ UNCHANGED <<m_RequestTable, refused>>
    BY <1>1, RunningCallback DEF ServeFront, Between, Serving, seq_req
  <1>3. 1 \in DOMAIN m_RequestTable[l] /\ seq_req = m_RequestTable[l][1]  BY <1>2
  <1>4. Serving' /\ callback'.line = l
    <2>1. callback \in Callback /\ retryList \in Seq(Ports)
      BY <1>2, RunningCallback DEF Shape, PortTypes
    <2>2. callback' = StartServing(callback, retryList)
      BY Zenon DEF ServeFront, StartServing
    <2> QED  BY <1>1, <2>1, <2>2, CallbackServes, NoneAssumption DEF Serving
  <1>5. \A k \in Lines, i \in Nat : Pending(k, i)' =>
            /\ Pending(k, i) /\ ~(k = l /\ i = 1)
            /\ m_RequestTable'[k][i].type = m_RequestTable[k][i].type
    BY <1>2, <1>4 DEF Pending
  <1>6. CASE seq_req.type \notin Lock
    <2>1. UNCHANGED <<m_block_map, locking>>  BY <1>6 DEF ServeFront, Lock
    <2> QED  BY <1>2, <1>5, <2>1, LocksKept
  <1>7. CASE seq_req.type \in Lock
    <2>1. Pending(l, 1)  BY <1>2, <1>3, <1>7 DEF Pending
    <2>2. /\ Holds(l, seq_req.type)
          /\ \A k \in Lines, i \in Nat : Pending(k, i) => k = l /\ i = 1
          /\ \A p \in Ports : ~RefusedLock(p)
      BY <1>3, <2>1 DEF LockInv
    <2>3. /\ \A k \in Lines, i \in Nat : ~Pending(k, i)'
          /\ \A p \in Ports : ~RefusedLock(p)'
      BY <1>2, <1>5, <2>2 DEF RefusedLock
    <2>4. (m_block_map \subseteq {locking})'
      <3>1. CASE seq_req.type = "Locked_RMW_Read"
        <4>1. m_block_map' = m_block_map \union {l} /\ locking' = locking
          BY <1>1, <3>1 DEF ServeFront
        <4> QED  BY <2>2, <3>1, <4>1 DEF Holds
      <3>2. CASE seq_req.type = "Locked_RMW_Write"
        <4>1. m_block_map' = m_block_map \ {l}  BY <1>1, <3>2 DEF ServeFront
        <4> QED  BY <2>2, <3>2, <4>1 DEF Holds
      <3> QED  BY <1>7, <3>1, <3>2 DEF Lock
    <2> QED  BY <2>3, <2>4 DEF LockInv
  <1> QED  BY <1>6, <1>7

LEMMA RetryAcceptedLocks == Shape /\ LockInv /\ RetryAccepted => LockInv'
  <1> SUFFICES ASSUME Shape, LockInv, RetryAccepted PROVE LockInv'  OBVIOUS
  <1>1. /\ Retrying /\ callback' = [callback EXCEPT !.retries = Tail(@)]
        /\ Accept(Retried) /\ locking' = locking
    BY DEF RetryAccepted
  <1>2. PICK r \in Request : r = Retried  BY <1>1, RetriedRequest
  <1>3. /\ Accept(r) /\ m_block_map' = m_block_map
        /\ refused' = [refused EXCEPT ![r.port] = None]
    BY <1>1, <1>2 DEF Accept
  <1>4. r.port \in Ports /\ refused[r.port] = r /\ r # None
    <2>1. Retries = callback.retries /\ r.port = Head(Retries) /\ r.port \in Ports
      BY <1>1, <1>2, RetriedRequest
    <2> QED  BY <1>2, <2>1, NoneAssumption DEF Retried
  <1>5. Serving' = Serving /\ callback'.line = callback.line
    BY <1>1, RetryStep DEF Serving, Retrying
  <1>6. /\ refused'[r.port] = None
        /\ \A p \in Ports \ {r.port} : refused'[p] = refused[p]
    BY <1>3, <1>4 DEF Shape, PortTypes
  <1>7. \A p \in Ports : RefusedLock(p)' =>
            p # r.port /\ RefusedLock(p) /\ refused'[p] = refused[p]
    BY <1>6 DEF RefusedLock
  <1>8. (m_block_map \subseteq {locking})'  BY <1>1, <1>3 DEF LockInv
  <1>9. \A l \in Lines, i \in Nat : Pending(l, i)' =>
            \/ /\ Pending(l, i)
               /\ m_RequestTable'[l][i].type = m_RequestTable[l][i].type
            \/ /\ l = r.line /\ i = Len(m_RequestTable[r.line]) + 1 /\ r.type \in Lock
               /\ m_RequestTable'[l][i].type = r.type
    BY <1>3, <1>5, AcceptPending
  <1>10. CASE r.type \in Lock
    <2>1. RefusedLock(r.port)  BY <1>4, <1>10 DEF RefusedLock
    <2>2. /\ \A l \in Lines, i \in Nat : ~Pending(l, i)
          /\ r.port = LockPort /\ Holds(r.line, r.type)
          /\ \A p \in Ports : RefusedLock(p) => p = LockPort
      BY <1>4, <2>1 DEF LockInv
    <2>3. \A p \in Ports : ~RefusedLock(p)'  BY <1>7, <2>2
    <2>4. PICK n : n = Len(m_RequestTable[r.line]) + 1  OBVIOUS
    <2>5. \A l \in Lines, i \in Nat : Pending(l, i)' =>
              l = r.line /\ i = n /\ m_RequestTable'[l][i].type = r.type
      BY <1>9, <2>2, <2>4
    <2>6. Holds(r.line, r.type)'  BY <1>1, <1>3, <2>2 DEF Holds
    <2> QED  BY <1>8, <2>3, <2>5, <2>6, OnlyPending
  <1>11. CASE r.type \notin Lock
    <2>1. \A l \in Lines, i \in Nat : Pending(l, i)' =>
              /\ Pending(l, i)
              /\ m_RequestTable'[l][i].type = m_RequestTable[l][i].type
      BY <1>9, <1>11
    <2>2. \A l \in Lines, i \in Nat : Pending(l, i)' =>
            Holds(l, m_RequestTable[l][i].type)'
      BY <1>1, <1>3, <2>1 DEF LockInv, Holds
    <2>3. \A p \in Ports : RefusedLock(p)' =>
            p = LockPort /\ Holds(refused[p].line, refused[p].type)'
      BY <1>1, <1>3, <1>7 DEF LockInv, Holds
    <2> QED  BY <1>7, <1>8, <2>1, <2>2, <2>3 DEF LockInv
  <1> QED  BY <1>10, <1>11

LEMMA TailPlaces ==
    ASSUME NEW S, NEW s \in Seq(S), s # <<>>
    PROVE  \A i \in DOMAIN Tail(s) :
               i + 1 \in DOMAIN s /\ i + 1 # 1 /\ Tail(s)[i] = s[i + 1]
  <1>1. /\ Len(Tail(s)) = Len(s) - 1 /\ Len(s) \in Nat /\ DOMAIN s = 1 .. Len(s)
        /\ Tail(s) \in Seq(S)
    OBVIOUS
  <1>2. DOMAIN Tail(s) = 1 .. Len(Tail(s))  BY <1>1
  <1>3. \A i \in 1 .. Len(s) - 1 : Tail(s)[i] = s[i + 1]  OBVIOUS
  <1> QED  BY <1>1, <1>2, <1>3

LEMMA ServedLocks == Shape /\ LockInv /\ Served => LockInv'
  <1> SUFFICES ASSUME Shape, LockInv, Served PROVE LockInv'  OBVIOUS
  <1>1. PICK c \in Lines : c = callback.line  BY ServedTable
  <1>2. /\ Serving /\ ~callback'.serving
        /\ m_RequestTable[c] \in Seq(SequencerRequest) /\ m_RequestTable[c] # <<>>
        /\ m_RequestTable'[c] = Tail(m_RequestTable[c])
        /\ \A l \in Lines \ {c} : m_RequestTable'[l] = m_RequestTable[l]
    BY <1>1, ServedTable
  <1>3. UNCHANGED <<m_block_map, locking, refused>>  BY DEF Served
  <1> DEFINE d == [l \in Lines |-> IF l = c THEN 1 ELSE 0]
  <1>4. d \in [Lines -> Nat] /\ d[c] = 1 /\ \A l \in Lines \ {c} : d[l] = 0  OBVIOUS
  <1> HIDE DEF d
  <1>5. ASSUME NEW l \in Lines, NEW i \in Nat, Pending(l, i)'
        PROVE  /\ Pending(l, i + d[l])
               /\ m_RequestTable'[l][i].type = m_RequestTable[l][i + d[l]].type
    <2>1. i \in DOMAIN m_RequestTable'[l] /\ m_RequestTable'[l][i].type \in Lock
      BY <1>5 DEF Pending
    <2>2. CASE l = c
      <3>1. /\ i + 1 \in DOMAIN m_RequestTable[c] /\ i + 1 # 1
            /\ m_RequestTable'[c][i] = m_RequestTable[c][i + 1]
        BY <1>2, <2>1, <2>2, TailPlaces, Zenon
      <3>2. m_RequestTable[c][i + 1].type \in Lock  BY <2>1, <2>2, <3>1
      <3>3. Pending(c, i + 1)  BY <3>1, <3>2 DEF Pending
      <3>4. i + d[l] = i + 1  BY <1>4, <2>2
      <3> QED  BY <2>2, <3>1, <3>3, <3>4
    <2>3. CASE l # c
      <3>1. m_RequestTable'[l] = m_RequestTable[l] /\ i + d[l] = i
        BY <1>2, <1>4, <2>3
      <3> QED  BY <1>1, <2>1, <2>3, <3>1 DEF Pending
    <2> QED  BY <2>2, <2>3
  <1> QED  BY <1>3, <1>4, <1>5, LocksMove

LEMMA OtherLocks ==
    ASSUME LockInv, \/ AnyAnswer \/ Reissue \/ Return \/ drain \/ resume \/ wakeup
                    \/ UNCHANGED vars,
           Shape
    PROVE  LockInv'
  <1>1. UNCHANGED <<m_block_map, locking, refused, m_RequestTable>>
    BY DEF AnyAnswer, Answer, Reissue, Return, drain, resume, wakeup, vars
  <1>2. ~Serving \/ UNCHANGED callback
    BY DEF AnyAnswer, Answer, Reissue, Return, Between, drain, resume, wakeup, vars, Serving
  <1>3. \A l \in Lines, i \in Nat : Pending(l, i)' =>
            /\ Pending(l, i)
            /\ m_RequestTable'[l][i].type = m_RequestTable[l][i].type
    BY <1>1, <1>2 DEF Pending, Serving
  <1> QED  BY <1>1, <1>3, LocksKept

LEMMA RetryRefusedLocks == Shape /\ LockInv /\ RetryRefused => LockInv'
  <1> SUFFICES ASSUME Shape, LockInv, RetryRefused PROVE LockInv'  OBVIOUS
  <1>1. /\ Retrying /\ callback' = [callback EXCEPT !.retries = Tail(@)]
        /\ Refuse(Retried, retryList) /\ UNCHANGED <<locking, m_block_map, m_RequestTable>>
    BY DEF RetryRefused, Refuse
  <1>2. /\ Retried \in Request /\ Retried.port = Head(Retries) /\ Retried.port \in Ports
        /\ Retries = callback.retries
    BY <1>1, RetriedRequest
  <1>3. refused' = [refused EXCEPT ![Retried.port] = Retried]  BY <1>1 DEF Refuse
  <1>4. refused[Retried.port] = Retried  BY <1>2 DEF Retried
  <1>5. refused' = refused  BY <1>2, <1>3, <1>4 DEF Shape, PortTypes
  <1>6. Serving' = Serving /\ callback'.line = callback.line
    BY <1>1, RetryStep DEF Serving, Retrying
  <1>7. \A l \in Lines, i \in Nat : Pending(l, i)' =>
            /\ Pending(l, i)
            /\ m_RequestTable'[l][i].type = m_RequestTable[l][i].type
    BY <1>1, <1>6 DEF Pending
  <1> QED  BY <1>1, <1>5, <1>7, LocksKept

LEMMA LockStep == Shape /\ LockInv /\ [Next]_vars => LockInv'
  BY SendLocks, SendRefusedLocks, ServeFrontLocks, RetryAcceptedLocks,
     RetryRefusedLocks, ServedLocks, OtherLocks DEF Next

-----------------------------------------------------------------------------
(* Requests refused, and the requests of a blocked line.                   *)

LEMMA RefusedIsRetried ==
    ASSUME Shape, CountInv, LockInv, NEW r \in Request, NEW list, Refuse(r, list)
    PROVE  m_outstanding_count > 0 \/ LockedReadDone
  <1>1. r.line \in Lines  BY RequestFields
  <1>2. \/ m_outstanding_count >= m_max_outstanding_requests
        \/ r.line \in m_block_map
    BY DEF Refuse, RequestStatus
  <1>3. CASE m_outstanding_count >= m_max_outstanding_requests
    BY <1>3, SequencerAssumption, NatCount
  <1>4. CASE r.line \in m_block_map
    BY <1>1, <1>4, NoneAssumption DEF LockInv, LockedReadDone
  <1> QED  BY <1>2, <1>3, <1>4

LEMMA RetriedStep ==
    ASSUME Shape, CountInv, LockInv, RetriedInv, [Next]_vars PROVE RetriedInv'
  <1>0. m_outstanding_count \in Nat  BY NatCount
  <1>1. ASSUME NEW r \in Request, Send(r) PROVE RetriedInv'
    <2>1. m_outstanding_count' = m_outstanding_count + 1  BY <1>1 DEF Send, Accept
    <2> QED  BY <1>0, <2>1 DEF RetriedInv
  <1>2. ASSUME NEW r \in Request, SendRefused(r) PROVE RetriedInv'
    <2>1. /\ MaySend(r) /\ Refuse(r, retryList)
          /\ UNCHANGED <<m_outstanding_count, m_block_map>>
          /\ locking' = IF r.type = "Locked_RMW_Read" THEN r.line ELSE locking
      BY <1>2 DEF SendRefused, Refuse
    <2>2. m_outstanding_count > 0 \/ LockedReadDone  BY <2>1, RefusedIsRetried
    <2>3. LockedReadDone => locking' = locking
      BY <2>1 DEF MaySend, LockedReadDone
    <2> QED  BY <2>1, <2>2, <2>3 DEF RetriedInv, LockedReadDone
  <1>3. CASE ServeFront  BY <1>3 DEF ServeFront, RetriedInv
  <1>4. CASE RetryAccepted
    <2>1. m_outstanding_count' = m_outstanding_count + 1  BY <1>4 DEF RetryAccepted, Accept
    <2> QED  BY <1>0, <2>1 DEF RetriedInv
  <1>5. CASE RetryRefused
    <2>1. /\ Retrying /\ Refuse(Retried, retryList)
          /\ UNCHANGED <<m_outstanding_count, m_block_map, locking>>
      BY <1>5 DEF RetryRefused, Refuse
    <2>2. PICK r \in Request : r = Retried  BY <2>1, RetriedRequest
    <2>3. m_outstanding_count > 0 \/ LockedReadDone  BY <2>1, <2>2, RefusedIsRetried
    <2> QED  BY <2>1, <2>3 DEF RetriedInv, LockedReadDone
  <1>6. CASE \/ AnyAnswer \/ Served \/ Reissue \/ Return \/ drain \/ resume \/ wakeup
             \/ UNCHANGED vars
    <2>1. UNCHANGED <<m_outstanding_count, m_block_map, locking, retryList>>
      BY <1>6 DEF AnyAnswer, Answer, Served, Reissue, Return, drain, resume, wakeup, vars
    <2> QED  BY <2>1 DEF RetriedInv, LockedReadDone
  <1> QED  BY <1>1, <1>2, <1>3, <1>4, <1>5, <1>6 DEF Next, AnySend, AnySendRefused

LEMMA AcceptExclusive ==
    ASSUME Shape, ExclusiveInv, NEW r \in Request, Accept(r),
           callback = None <=> callback' = None,
           callback # None => /\ callback'.line = callback.line
                              /\ callback'.kind = callback.kind
    PROVE  ExclusiveInv'
  <1>1. m_block_map' = m_block_map /\ m_block_map \subseteq Lines
    BY DEF Accept, Shape, TableTypes
  <1>2. \A l \in Lines : Busy(l)' <=> Busy(l)  BY DEF Busy
  <1>3. PICK e \in SequencerRequest :
             /\ e.type = r.type
             /\ m_RequestTable'[r.line] = Append(m_RequestTable[r.line], e)
    BY AcceptTable DEF Shape
  <1>4. \A k \in Lines \ {r.line} : m_RequestTable'[k] = m_RequestTable[k]
    BY AcceptTable DEF Shape
  <1>5. ASSUME NEW l \in m_block_map, ~Busy(l), NEW i \in DOMAIN m_RequestTable'[l]
        PROVE  m_RequestTable'[l][i].type = "Locked_RMW_Write"
    <2>1. l \in Lines /\ m_RequestTable[l] \in Seq(SequencerRequest)
      BY <1>1 DEF Shape, TableTypes
    <2>2. CASE l = r.line
      <3>1. r.type = "Locked_RMW_Write"  BY <2>2 DEF Accept, RequestStatus
      <3>2. \/ m_RequestTable'[l][i] = e
            \/ /\ i \in DOMAIN m_RequestTable[l]
               /\ m_RequestTable'[l][i] = m_RequestTable[l][i]
        BY <1>3, <1>5, <2>1, <2>2
      <3> QED  BY <1>3, <1>5, <3>1, <3>2 DEF ExclusiveInv
    <2>3. CASE l # r.line  BY <1>4, <1>5, <2>1, <2>3 DEF ExclusiveInv
    <2> QED  BY <2>2, <2>3
  <1>6. callback' # None /\ callback'.kind = "read" => callback'.line \notin m_block_map'
    BY <1>1 DEF ExclusiveInv
  <1> QED  BY <1>1, <1>2, <1>5, <1>6 DEF ExclusiveInv

LEMMA ExclusiveKept ==
    ASSUME Shape, ExclusiveInv, UNCHANGED <<m_RequestTable, m_block_map>>,
           callback = None <=> callback' = None,
           callback # None => /\ callback'.line = callback.line
                              /\ callback'.kind = callback.kind
    PROVE  ExclusiveInv'
  BY DEF ExclusiveInv, Busy

\* The callback of a blocked line answers the second half, which is a store.
LEMMA AnswerExclusive ==
    Shape /\ CacheInv /\ ExclusiveInv /\ AnyAnswer => ExclusiveInv'
  <1> SUFFICES ASSUME Shape, CacheInv, ExclusiveInv, NEW l \in Lines, Answer(l)
               PROVE  ExclusiveInv'
    BY DEF AnyAnswer
  <1> DEFINE k == IF Head(m_mandatory_q[l]) = "LD" THEN "read" ELSE "write"
  <1>1. callback' = CallbackOf(l, k, TRUE, <<>>, FALSE)  BY Zenon DEF Answer, CallbackOf
  <1>2. k \in {"read", "write"}  OBVIOUS
  <1>3. k = "read" => Head(m_mandatory_q[l]) = "LD"  OBVIOUS
  <1> HIDE DEF k
  <1>4. callback'.line = l /\ callback'.kind = k  BY <1>1, Zenon DEF CallbackOf
  <1>5. /\ callback = None /\ m_mandatory_q[l] # <<>>
        /\ UNCHANGED <<m_RequestTable, m_block_map>>
    BY DEF Answer
  <1>6. ~Busy(l) /\ \A j \in Lines : ~Busy(j)  BY <1>5 DEF Busy
  <1>7. l \in m_block_map => k # "read"
    <2> SUFFICES ASSUME l \in m_block_map, k = "read" PROVE FALSE  OBVIOUS
    <2>1. /\ m_RequestTable[l] # <<>>
          /\ m_mandatory_q[l] = <<secondary_type(Head(m_RequestTable[l]).type)>>
      BY <1>5, <1>6 DEF CacheInv
    <2>2. m_RequestTable[l] \in Seq(SequencerRequest)  BY DEF Shape, TableTypes
    <2>3. 1 \in DOMAIN m_RequestTable[l] /\ Head(m_RequestTable[l]) = m_RequestTable[l][1]
      BY <2>1, <2>2
    <2>4. Head(m_RequestTable[l]).type = "Locked_RMW_Write"
      BY <1>6, <2>3 DEF ExclusiveInv
    <2>5. Head(m_mandatory_q[l]) = "ST"  BY <2>1, <2>4 DEF secondary_type
    <2> QED  BY <1>3, <2>5
  <1>8. \A j \in m_block_map : j \in Lines  BY DEF Shape, TableTypes
  <1> QED  BY <1>4, <1>5, <1>6, <1>7, <1>8 DEF ExclusiveInv

\* A callback for loads blocks nothing; what another one blocks is its own line.
LEMMA ServeFrontExclusive == Shape /\ ExclusiveInv /\ ServeFront => ExclusiveInv'
  <1> SUFFICES ASSUME Shape, ExclusiveInv, ServeFront PROVE ExclusiveInv'  OBVIOUS
  <1>1. /\ callback # None /\ m_RequestTable' = m_RequestTable
        /\ callback.kind = "read" => seq_req.type = "LD"
    BY DEF ServeFront, Between, Reissues
  <1>2. callback \in Callback /\ retryList \in Seq(Ports)
    BY <1>1, RunningCallback DEF Shape, PortTypes
  <1>3. callback' = StartServing(callback, retryList)
    BY Zenon DEF ServeFront, StartServing
  <1>4. /\ callback' # None /\ callback'.line = callback.line
        /\ callback'.kind = callback.kind
    BY <1>2, <1>3, CallbackServes, NoneAssumption
  <1>5. m_block_map' \subseteq m_block_map \union {callback.line}  BY DEF ServeFront
  <1>6. seq_req.type = "LD" => m_block_map' = m_block_map  BY DEF ServeFront
  <1>7. callback'.kind = "read" => callback'.line \notin m_block_map'
    BY <1>1, <1>4, <1>6 DEF ExclusiveInv
  <1>8. ASSUME NEW l \in m_block_map', ~Busy(l)'
        PROVE  l \in m_block_map /\ ~Busy(l)
    BY <1>4, <1>5, <1>8 DEF Busy
  <1> QED  BY <1>1, <1>7, <1>8 DEF ExclusiveInv

\* A callback that blocked its line returns when the list is empty.
LEMMA EndExclusive == Shape /\ ExclusiveInv /\ (Reissue \/ Return) => ExclusiveInv'
  <1> SUFFICES ASSUME Shape, ExclusiveInv, Reissue \/ Return PROVE ExclusiveInv'
    OBVIOUS
  <1>1. /\ callback # None /\ callback' = None
        /\ UNCHANGED <<m_RequestTable, m_block_map>>
    BY DEF Reissue, Return, Between
  <1>2. callback.line \in m_block_map => m_RequestTable[callback.line] = <<>>
    BY <1>1 DEF Reissue, Return, Reissues, ExclusiveInv
  <1>3. ASSUME NEW l \in m_block_map, NEW i \in DOMAIN m_RequestTable[l]
        PROVE  m_RequestTable[l][i].type = "Locked_RMW_Write"
    <2>1. CASE l = callback.line
      <3>1. m_RequestTable[l] = <<>>  BY <1>2, <2>1
      <3>2. DOMAIN m_RequestTable[l] = {}  BY <3>1
      <3> QED  BY <1>3, <3>2
    <2>2. CASE l # callback.line  BY <1>3, <2>2 DEF ExclusiveInv, Busy
    <2> QED  BY <2>1, <2>2
  <1> QED  BY <1>1, <1>3 DEF ExclusiveInv

LEMMA ExclusiveStep ==
    Shape /\ CacheInv /\ ExclusiveInv /\ [Next]_vars => ExclusiveInv'
  <1> SUFFICES ASSUME Shape, CacheInv, ExclusiveInv, [Next]_vars PROVE ExclusiveInv'
    OBVIOUS
  <1>1. ASSUME NEW r \in Request, Send(r) PROVE ExclusiveInv'
    <2>1. Accept(r) /\ callback' = callback  BY <1>1 DEF Send
    <2> QED  BY <2>1, AcceptExclusive
  <1>2. CASE RetryAccepted
    <2>1. Retrying /\ Accept(Retried) /\ callback' = [callback EXCEPT !.retries = Tail(@)]
      BY <1>2 DEF RetryAccepted
    <2>2. PICK r \in Request : r = Retried  BY <2>1, RetriedRequest
    <2>3. /\ callback # None /\ callback' # None /\ callback'.line = callback.line
          /\ callback'.kind = callback.kind
      BY <2>1, RetryStep
    <2> QED  BY <2>1, <2>2, <2>3, AcceptExclusive
  <1>3. CASE RetryRefused
    <2>1. /\ Retrying /\ callback' = [callback EXCEPT !.retries = Tail(@)]
          /\ UNCHANGED <<m_RequestTable, m_block_map>>
      BY <1>3 DEF RetryRefused, Refuse
    <2>2. /\ callback # None /\ callback' # None /\ callback'.line = callback.line
          /\ callback'.kind = callback.kind
      BY <2>1, RetryStep
    <2> QED  BY <2>1, <2>2, ExclusiveKept
  <1>4. CASE Served
    <2>1. /\ callback # None /\ callback' # None /\ callback'.line = callback.line
          /\ callback'.kind = callback.kind
          /\ \A l \in Lines \ {callback.line} : m_RequestTable'[l] = m_RequestTable[l]
      BY <1>4, ServedTable DEF Served
    <2>2. m_block_map' = m_block_map /\ m_block_map \subseteq Lines
      BY <1>4 DEF Served, Shape, TableTypes
    <2> QED  BY <2>1, <2>2 DEF ExclusiveInv, Busy
  <1>5. CASE AnySendRefused \/ drain \/ resume \/ wakeup \/ UNCHANGED vars
    <2>1. UNCHANGED <<m_RequestTable, m_block_map, callback>>
      BY <1>5 DEF AnySendRefused, SendRefused, Refuse, drain, resume, wakeup, vars
    <2> QED  BY <2>1, ExclusiveKept
  <1> QED  BY <1>1, <1>2, <1>3, <1>4, <1>5, AnswerExclusive, ServeFrontExclusive,
              EndExclusive DEF Next, AnySend

-----------------------------------------------------------------------------
Inductive ==
    /\ Shape /\ CountInv /\ CacheInv /\ DrainInv
    /\ LockInv /\ ExclusiveInv /\ RetriedInv

LEMMA InductiveInit == Init => Inductive
  <1> SUFFICES ASSUME Init PROVE Inductive  OBVIOUS
  <1>1. Shape /\ CountInv  BY ShapeInit, CountInit
  <1>2. /\ \A l \in Lines : m_RequestTable[l] = <<>> /\ m_mandatory_q[l] = <<>>
        /\ m_outstanding_count = 0 /\ m_block_map = {} /\ retryList = <<>>
        /\ \A p \in Ports : refused[p] = None
        /\ drainState = "Running"
    BY DEF Init
  <1>3. CacheInv /\ DrainInv /\ RetriedInv
    BY <1>2 DEF CacheInv, DrainInv, RetriedInv
  <1>4. LockInv  BY <1>2 DEF LockInv, Pending, RefusedLock
  <1>5. ExclusiveInv  BY <1>2 DEF ExclusiveInv, Init
  <1> QED  BY <1>1, <1>3, <1>4, <1>5 DEF Inductive

LEMMA InductiveStep == Inductive /\ [Next]_vars => Inductive'
  BY ShapeStep, CountStep, CacheStep, DrainStep, LockStep, ExclusiveStep, RetriedStep
  DEF Inductive

LEMMA InductiveInvariant == Spec => []Inductive
  BY InductiveInit, InductiveStep, PTL DEF Spec

\* The types of the sequencer's state; that the count of outstanding requests
\* never goes below zero is part of it.
THEOREM SequencerTypes == Spec => []TypeOK
  <1>1. Inductive => TypeOK
    BY NatCount DEF Inductive, Shape, TableTypes, PortTypes, TypeOK
  <1> QED  BY <1>1, InductiveInvariant, PTL

\* The count of outstanding requests is the number of requests in the table
\* and within the limit, whatever the retries of a callback let in.
THEOREM CountCorrect == Spec => []CountMatches
  <1>1. Inductive => CountMatches  BY DEF Inductive, CountInv
  <1> QED  BY <1>1, InductiveInvariant, PTL

\* Every line with requests has exactly its first in the cache.
THEOREM OneIssued == Spec => []OneInTheCache
  <1>1. Inductive => OneInTheCache
    BY DEF Inductive, CacheInv, Busy, OneInTheCache
  <1> QED  BY <1>1, InductiveInvariant, PTL

\* No refused port is forgotten, and someone is left to retry it.
THEOREM RetriesKept == Spec => []NoLostRetry
  <1>1. Inductive => NoLostRetry
    <2> SUFFICES ASSUME Inductive PROVE NoLostRetry  OBVIOUS
    <2>1. RetryInv /\ RetriedInv  BY DEF Inductive, Shape
    <2>2. ASSUME NEW p \in Ports, refused[p] # None
          PROVE  \/ \E i \in DOMAIN retryList : retryList[i] = p
                 \/ /\ callback # None
                    /\ \E i \in DOMAIN callback.retries : callback.retries[i] = p
      BY <2>1, <2>2 DEF RetryInv, Retries
    <2> QED  BY <2>1, <2>2 DEF NoLostRetry, RetriedInv
  <1> QED  BY <1>1, InductiveInvariant, PTL

\* A draining sequencer has a request whose callback ends the drain, and the
\* deadlock check watches every request that is outstanding otherwise.
THEOREM DrainCorrect == Spec => []DrainAndWatch
  <1>1. Inductive => DrainAndWatch  BY DEF Inductive, DrainInv, DrainAndWatch, Serving
  <1> QED  BY <1>1, InductiveInvariant, PTL

\* A locked line is the core's alone: when the callback of the Locked_RMW_Read has
\* returned, only the Locked_RMW_Write can be in its list, so that no other access
\* of the line comes before it.
THEOREM LockCorrect == Spec => []LockExclusive
  <1>1. Inductive => LockExclusive
    BY DEF Inductive, LockInv, ExclusiveInv, Busy, LockExclusive
  <1> QED  BY <1>1, InductiveInvariant, PTL
=============================================================================
