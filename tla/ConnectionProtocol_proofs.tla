---------------------- MODULE ConnectionProtocol_proofs ----------------------
(* Theorems about ConnectionProtocol, for every set of invitees and slots,  *)
(* every bound and every kind of fault.                                     *)
EXTENDS ConnectionProtocol, TLAPS

\* Sending a message adds it to those in transit, delivering one adds none.
LEMMA PutDomain ==
  ASSUME NEW b, NEW m
  PROVE  DOMAIN Put(b, m) = DOMAIN b \cup {m}
BY DEF Put, (+), SetToBag

\* Delivering or losing a message leaves none in transit that was not there.
LEMMA TakeDomain ==
  ASSUME NEW b, NEW m
  PROVE  DOMAIN Take(b, m) \subseteq DOMAIN b
BY DEF Take, (-), SetToBag

\* An empty network holds no message.
LEMMA EmptyBagDomain == DOMAIN EmptyBag = {}
BY DEF EmptyBag, SetToBag

\* The record an agent starts with is a record.
LEMMA BlankType == Blank \in Record
BY DEF Blank, Record, States, Threads

\* An idle task is a task.
LEMMA IdleType == Idle \in Task
BY BlankType DEF Idle, Task, Ops

\* Msg makes messages.
LEMMA MsgType ==
  ASSUME NEW type \in MessageTypes, NEW from \in Agents, NEW to \in Agents,
         NEW thread \in Threads
  PROVE  Msg(type, from, to, thread) \in Message
BY DEF Msg, Message

\* createOutboundMessage makes a message, or none without a did document.
LEMMA OutboundType ==
  ASSUME NEW type \in MessageTypes, NEW a \in Agents, NEW rec \in Record,
         NEW thread \in Threads
  PROVE  Outbound(type, a, rec, thread) \in Message \cup {NoMessage}
BY MsgType DEF Outbound, Record

\* A call that starts a write keeps the tasks well typed.
LEMMA WriteType ==
  ASSUME TypeOK, NEW a \in Agents, NEW s \in Slots, NEW rec \in Record,
         NEW op \in Ops, NEW out \in Message \cup {NoMessage},
         Write(a, s, rec, op, out)
  PROVE  task' \in [Agents -> [Slots -> Task]]
BY DEF TypeOK, Write, Task

\* A task that ends keeps the tasks well typed.
LEMMA EndType ==
  ASSUME TypeOK, NEW a \in Agents, NEW s \in Slots, End(a, s)
  PROVE  task' \in [Agents -> [Slots -> Task]]
BY IdleType DEF TypeOK, End

\* A fault is counted.
LEMMA StrikesType ==
  ASSUME TypeOK, NEW kind, Strikes(kind)
  PROVE  mishaps' \in 0..MaxFaults
BY BoundsAssumption DEF TypeOK, Strikes

\* A task that begins keeps the count of faults and the history of overlaps well typed.
LEMMA BeginType ==
  ASSUME TypeOK, NEW a, NEW s, Begin(a, s)
  PROVE  mishaps' \in 0..MaxFaults /\ serial' \in BOOLEAN
BY StrikesType DEF TypeOK, Begin

\* A message that is given no thread id has one all the same.
LEMMA ThreadIdType ==
  ASSUME NEW thread \in Threads
  PROVE  ThreadId(thread) \in Threads /\ ThreadId(thread) # NoThread
BY NoThreadAssumption DEF ThreadId, Threads

\* The record of any agent is a record.
LEMMA RecordType ==
  ASSUME TypeOK, NEW a \in Agents, NEW st \in States
  PROVE  /\ record[a] \in Record
         /\ [record[a] EXCEPT !.state = st] \in Record
BY DEF TypeOK, Record

-----------------------------------------------------------------------------
(* Type correctness                                                          *)

\* TypeOK holds at the start.
LEMMA InitType == Init => TypeOK
<1> SUFFICES ASSUME Init PROVE TypeOK
    OBVIOUS
<1>1. record \in [Agents -> Record]
  BY BlankType DEF Init
<1>2. task \in [Agents -> [Slots -> Task]]
  BY IdleType DEF Init
<1>3. DOMAIN net \subseteq Message
  BY EmptyBagDomain DEF Init
<1>4. /\ calls \in [Agents -> 0..MaxCalls]
      /\ mishaps \in 0..MaxFaults /\ serial \in BOOLEAN
      /\ waiting \subseteq Agents /\ torn \subseteq Agents
  BY BoundsAssumption DEF Init
<1> QED
  BY <1>1, <1>2, <1>3, <1>4 DEF TypeOK

\* The service's create operations keep the tasks well typed.
LEMMA CreateType ==
  ASSUME TypeOK, NEW a \in Agents, NEW s \in Slots, NEW caller \in Record,
         NEW m \in Message,
         \/ CreateRequest(a, s, m)
         \/ CreateResponse(a, s, caller)
         \/ CreateTrustPing(a, s, caller)
  PROVE  task' \in [Agents -> [Slots -> Task]]
<1>1. /\ record[a] \in Record
      /\ record[a].thread \in Threads
      /\ NoThread \in Threads
  BY DEF TypeOK, Record, Threads
<1>2. CASE CreateRequest(a, s, m)
  BY <1>2, RecordType, WriteType DEF CreateRequest, States, Ops
<1>3. CASE CreateResponse(a, s, caller)
  <2>1. Outbound("response", a, caller, ThreadId(record[a].thread)) \in Message \cup {NoMessage}
    BY <1>1, ThreadIdType, OutboundType DEF MessageTypes
  <2> QED
    BY <1>3, <2>1, RecordType, WriteType DEF CreateResponse, States, Ops
<1>4. CASE CreateTrustPing(a, s, caller)
  <2>1. Outbound("ping", a, caller, NoThread) \in Message \cup {NoMessage}
    BY <1>1, OutboundType DEF MessageTypes
  <2> QED
    BY <1>4, <2>1, RecordType, WriteType DEF CreateTrustPing, States, Ops
<1> QED
  BY <1>2, <1>3, <1>4

\* An accept call of the API keeps TypeOK.
LEMMA CallType ==
  ASSUME TypeOK, NEW a \in Agents, NEW s \in Slots,
         AcceptInvitation(a, s) \/ AcceptRequest(a, s) \/ AcceptResponse(a, s)
  PROVE  TypeOK'
<1>1. calls' \in [Agents -> 0..MaxCalls] /\ calls'[a] \in 1..MaxCalls
  BY BoundsAssumption DEF TypeOK, AcceptInvitation, AcceptRequest, AcceptResponse, Call
<1>2. UNCHANGED <<record, net, waiting, torn>> /\ Begin(a, s)
  BY DEF AcceptInvitation, AcceptRequest, AcceptResponse, Call
<1>3. record[a] \in Record
  BY DEF TypeOK
<1>4. CASE AcceptInvitation(a, s)
  <2>1. a \in Invitees /\ <<a, calls'[a]>> \in Threads
    BY <1>1, <1>4 DEF AcceptInvitation, CreateRequest, MayRequest, Threads, RequestIds
  <2>2. Msg("request", a, Inviter, <<a, calls'[a]>>) \in Message
    BY <2>1, MsgType DEF MessageTypes, Agents
  <2>3. CreateRequest(a, s, Msg("request", a, Inviter, <<a, calls'[a]>>))
    BY <1>4 DEF AcceptInvitation
  <2>4. task' \in [Agents -> [Slots -> Task]]
    BY <1>3, <2>2, <2>3, CreateType
  <2> QED
    BY <1>1, <1>2, <2>4, BeginType DEF TypeOK
<1>5. CASE AcceptRequest(a, s) \/ AcceptResponse(a, s)
  <2>1. CreateResponse(a, s, record[a]) \/ CreateTrustPing(a, s, record[a])
    BY <1>5 DEF AcceptRequest, AcceptResponse
  <2>2. task' \in [Agents -> [Slots -> Task]]
    <3>1. NoThread \in Threads /\ a \in Agents
      BY DEF Threads
    <3>2. Msg("ping", a, a, NoThread) \in Message
      BY <3>1, MsgType DEF MessageTypes
    <3> QED
      BY <1>3, <2>1, <3>2, CreateType
  <2> QED
    BY <1>1, <1>2, <2>2, BeginType DEF TypeOK
<1> QED
  BY <1>4, <1>5

\* A handler keeps TypeOK.
LEMMA HandleType ==
  ASSUME TypeOK, NEW a \in Agents, NEW s \in Slots, Handle(a, s)
  PROVE  TypeOK'
<1> PICK m \in DOMAIN net :
         \/ ProcessRequest(a, s, m) \/ ProcessResponse(a, s, m)
         \/ ProcessPing(a, s, m) \/ ProcessAck(a, s, m) \/ Refuse(a, s, m)
    BY DEF Handle
<1>1. Receive(a, s, m)
  BY DEF ProcessRequest, ProcessResponse, ProcessPing, ProcessAck, Refuse
<1>2. /\ DOMAIN net' \subseteq Message
      /\ UNCHANGED <<record, waiting, calls, torn>>
      /\ mishaps' \in 0..MaxFaults /\ serial' \in BOOLEAN
  BY <1>1, TakeDomain, BeginType DEF TypeOK, Receive
<1>3. /\ m \in Message /\ m.from \in Agents /\ m.thread \in Threads
      /\ record[a] \in Record /\ record[a].thread \in Threads
  BY DEF TypeOK, Message, Record
<1>4. [record[a] EXCEPT !.state = "complete"] \in Record
  BY RecordType DEF States
<1>5. \A st \in States :
        [state |-> st, theirKey |-> m.from, thread |-> m.thread] \in Record
  BY <1>3 DEF Record
<1>6. Outbound("pingResponse", a, record[a], m.thread) \in Message \cup {NoMessage}
  BY <1>3, OutboundType DEF MessageTypes
<1>7. task' \in [Agents -> [Slots -> Task]]
  <2>1. CASE ProcessRequest(a, s, m)
    BY <1>5, <2>1, WriteType DEF ProcessRequest, OnAutoAccept, Ops, States
  <2>2. CASE ProcessResponse(a, s, m)
    BY <1>5, <2>2, WriteType DEF ProcessResponse, OnAutoAccept, Ops, States
  <2>3. CASE ProcessPing(a, s, m)
    <3>1. CASE Write(a, s, [record[a] EXCEPT !.state = "complete"], "none",
                     Outbound("pingResponse", a, record[a], m.thread))
      BY <1>4, <1>6, <3>1, WriteType DEF Ops
    <3>2. CASE task' = [task EXCEPT ![a][s] =
                 [pc |-> "send", op |-> "none", rec |-> record[a],
                  out |-> Outbound("pingResponse", a, record[a], m.thread)]]
      BY <1>3, <1>6, <3>2 DEF TypeOK, Task, Ops
    <3>3. CASE UNCHANGED task
      BY <3>3 DEF TypeOK
    <3> QED
      BY <2>3, <3>1, <3>2, <3>3 DEF ProcessPing
  <2>4. CASE ProcessAck(a, s, m)
    BY <1>4, <2>4, WriteType DEF ProcessAck, Ops
  <2>5. CASE Refuse(a, s, m)
    BY <2>5 DEF Refuse, TypeOK
  <2> QED
    BY <2>1, <2>2, <2>3, <2>4, <2>5
<1> QED
  BY <1>2, <1>7 DEF TypeOK

\* The two writes of the wallet keep TypeOK.
LEMMA StoreType ==
  ASSUME TypeOK, NEW a \in Agents, NEW s \in Slots, StoreValue(a, s) \/ StoreTags(a, s)
  PROVE  TypeOK'
<1> PICK t \in Task : t = task[a][s]
  BY DEF TypeOK
<1>1. CASE StoreValue(a, s)
  <2>1. record' = [record EXCEPT ![a] = [t.rec EXCEPT !.thread = record[a].thread]]
    BY <1>1 DEF StoreValue
  <2>2. record' \in [Agents -> Record]
    BY <2>1 DEF TypeOK, Task, Record
  <2>3. task' \in [Agents -> [Slots -> Task]]
    BY <1>1 DEF StoreValue, TypeOK, Task
  <2> QED BY <1>1, <2>2, <2>3 DEF StoreValue, TypeOK
<1>2. CASE StoreTags(a, s)
  <2>1. record' \in [Agents -> Record] /\ waiting' \subseteq Agents
    BY <1>2 DEF StoreTags, StillWaiting, TypeOK, Task, Record
  <2>2. task' \in [Agents -> [Slots -> Task]]
    <3>1. CASE task' = [task EXCEPT ![a][s].pc = "send"]
      BY <3>1 DEF TypeOK, Task
    <3>2. CASE task' = [task EXCEPT ![a][s].pc = "load"]
      BY <3>2 DEF TypeOK, Task
    <3>3. CASE End(a, s)
      BY <3>3, EndType
    <3> QED BY <1>2, <3>1, <3>2, <3>3 DEF StoreTags
  <2> QED BY <1>2, <2>1, <2>2 DEF StoreTags, TypeOK
<1> QED BY <1>1, <1>2

\* The auto accept half of a handler keeps TypeOK.
LEMMA AcceptType ==
  ASSUME TypeOK, NEW a \in Agents, NEW s \in Slots, Accept(a, s),
         task[a][s].op = "createRequest" => task[a][s].out \in Message
  PROVE  TypeOK'
<1> DEFINE t == task[a][s]
<1>1. t \in Task /\ t.rec \in Record
  BY DEF TypeOK, Task
<1>2. Msg("ping", a, a, NoThread) \in Message
  BY MsgType DEF MessageTypes, Threads
<1>3. task' \in [Agents -> [Slots -> Task]]
  <2>1. CASE End(a, s)
    BY <2>1, EndType
  <2>2. CASE t.op = "createRequest" /\ CreateRequest(a, s, t.out)
    BY <1>1, <2>2, CreateType
  <2>3. CASE CreateResponse(a, s, t.rec) \/ CreateTrustPing(a, s, t.rec)
    BY <1>1, <1>2, <2>3, CreateType
  <2> QED
    BY <2>1, <2>2, <2>3 DEF Accept
<1> QED
  BY <1>3 DEF TypeOK, Accept

-----------------------------------------------------------------------------
(* The inductive invariant                                                   *)

\* An idle task holds nothing that could break the invariant.
LEMMA IdleSafe == ASSUME NEW a \in Agents PROVE SafeTask(a, Idle)
BY AgentsAssumption, NoMessageAssumption
   DEF SafeTask, Idle, Blank, HasPeer, NeedsPeer, IsReady

\* The inductive invariant holds at the start.
LEMMA InitInv == Init => HandshakeInv
<1> SUFFICES ASSUME Init PROVE HandshakeInv
    OBVIOUS
<1>1. TypeOK
  BY InitType
<1>2. RecordInv /\ PeerAsked
  BY AgentsAssumption
  DEF Init, Blank, RecordInv, HasPeer, NeedsPeer, IsReady, PeerAsked, Agents
<1>3. NetInv
  BY EmptyBagDomain DEF Init, NetInv
<1>4. TaskInv
  BY IdleSafe DEF Init, TaskInv
<1> QED
  BY <1>1, <1>2, <1>3, <1>4 DEF HandshakeInv

\* The steps that write a record.
LEMMA WhoWrites ==
  ASSUME [Next]_vars
  PROVE  \/ UNCHANGED record
         \/ CreateConnection
         \/ \E i \in Invitees, s \in Slots : ReceiveInvitation(i, s)
         \/ \E a \in Agents, s \in Slots : StoreValue(a, s) \/ StoreTags(a, s)
<1>1. ASSUME NEW a \in Agents, NEW s \in Slots,
             AcceptInvitation(a, s) \/ AcceptRequest(a, s) \/ AcceptResponse(a, s)
      PROVE  UNCHANGED record
  BY <1>1 DEF AcceptInvitation, AcceptRequest, AcceptResponse, Call
<1>2. ASSUME NEW a \in Agents, NEW s \in Slots, Handle(a, s)
      PROVE  UNCHANGED record
  BY <1>2 DEF Handle, ProcessRequest, ProcessResponse, ProcessPing, ProcessAck,
              Refuse, Receive
<1>3. ASSUME NEW a \in Agents, NEW s \in Slots, Accept(a, s) \/ Send(a, s) \/ Fail(a, s)
      PROVE  UNCHANGED record
  BY <1>3 DEF Accept, Send, Fail
<1>4. ASSUME NEW i, PeerAck(i) PROVE UNCHANGED record
  BY <1>4 DEF PeerAck
<1>5. ASSUME NEW a, ReturnWhenIsConnected(a) \/ Crash(a) PROVE UNCHANGED record
  BY <1>5 DEF ReturnWhenIsConnected, Crash
<1>6. ASSUME NEW m, Lose(m) \/ Duplicate(m) PROVE UNCHANGED record
  BY <1>6 DEF Lose, Duplicate
<1>7. ASSUME UNCHANGED vars PROVE UNCHANGED record
  BY <1>7 DEF vars
<1> QED
  BY <1>1, <1>2, <1>3, <1>4, <1>5, <1>6, <1>7 DEF Next

\* What a step makes of one record.
LEMMA RecordSteps ==
  ASSUME TypeOK, [Next]_vars, NEW a \in Agents
  PROVE  \/ record'[a] = record[a]
         \/ /\ record[a].state = "none"
            /\ record'[a] = [record[a] EXCEPT !.state = "invited"]
         \/ \E s \in Slots :
              /\ StoreValue(a, s)
              /\ record'[a] = [task[a][s].rec EXCEPT !.thread = record[a].thread]
         \/ \E s \in Slots :
              /\ StoreTags(a, s)
              /\ record'[a] = [record[a] EXCEPT !.thread =
                   IF task[a][s].rec.thread = NoThread THEN @ ELSE task[a][s].rec.thread]
<1>0. record \in [Agents -> Record]
  BY DEF TypeOK
<1>1. ASSUME NEW b \in Agents, record[b].state = "none",
             record' = [record EXCEPT ![b].state = "invited"]
      PROVE  \/ record'[a] = record[a]
             \/ /\ record[a].state = "none"
                /\ record'[a] = [record[a] EXCEPT !.state = "invited"]
  BY <1>0, <1>1
<1>2. CASE CreateConnection
  BY <1>1, <1>2 DEF CreateConnection, CreateInvitation, Agents
<1>3. ASSUME NEW i \in Invitees, NEW s \in Slots, ReceiveInvitation(i, s)
      PROVE  \/ record'[a] = record[a]
             \/ /\ record[a].state = "none"
                /\ record'[a] = [record[a] EXCEPT !.state = "invited"]
  BY <1>1, <1>3 DEF ReceiveInvitation, ProcessInvitation, Agents
<1>4. ASSUME NEW b \in Agents, NEW s \in Slots, StoreValue(b, s)
      PROVE  \/ record'[a] = record[a]
             \/ /\ StoreValue(a, s)
                /\ record'[a] = [task[a][s].rec EXCEPT !.thread = record[a].thread]
  <2>1. record' = [record EXCEPT ![b] = [task[b][s].rec EXCEPT !.thread = record[b].thread]]
    BY <1>4 DEF StoreValue
  <2> QED BY <1>0, <1>4, <2>1, Zenon
<1>5. ASSUME NEW b \in Agents, NEW s \in Slots, StoreTags(b, s)
      PROVE  \/ record'[a] = record[a]
             \/ /\ StoreTags(a, s)
                /\ record'[a] = [record[a] EXCEPT !.thread =
                     IF task[a][s].rec.thread = NoThread THEN @ ELSE task[a][s].rec.thread]
  BY <1>0, <1>5 DEF StoreTags
<1> QED
  BY <1>2, <1>3, <1>4, <1>5, WhoWrites

\* No step takes an invitee's record back before its request.
LEMMA AskedStable ==
  ASSUME HandshakeInv, [Next]_vars, NEW i \in Invitees, Asked(i)
  PROVE  Asked(i)'
<1>0. i \in Agents /\ TypeOK
  BY DEF Agents, HandshakeInv
<1>1. CASE record'[i] = record[i]
  BY <1>1 DEF Asked
<1>2. ASSUME NEW s \in Slots, StoreValue(i, s),
             record'[i] = [task[i][s].rec EXCEPT !.thread = record[i].thread]
      PROVE  Asked(i)'
  <2> PICK rec \in Record : rec = task[i][s].rec
    BY <1>0 DEF TypeOK, Task
  <2>1. rec.state \notin {"none", "invited"}
    BY <1>0, <1>2 DEF StoreValue, TaskInv, SafeTask, HandshakeInv
  <2>2. [rec EXCEPT !.thread = record[i].thread].state = rec.state
    BY DEF Record
  <2> QED BY <1>2, <2>1, <2>2 DEF Asked
<1>3. ASSUME NEW thread, record'[i] = [record[i] EXCEPT !.thread = thread]
      PROVE  Asked(i)'
  <2> PICK old \in Record : old = record[i]
    BY <1>0 DEF TypeOK
  <2>1. [old EXCEPT !.thread = thread].state = old.state
    BY DEF Record
  <2> QED BY <1>3, <2>1 DEF Asked
<1>4. record[i].state # "none"
  BY DEF Asked
<1> HIDE DEF Asked
<1> QED
  BY <1>0, <1>1, <1>2, <1>3, <1>4, RecordSteps

\* A task between its two writes stays there until it makes the second or is stopped.
LEMMA TagsKept ==
  ASSUME TypeOK, [Next]_vars, NEW a \in Agents, NEW s \in Slots, task[a][s].pc = "tags"
  PROVE  \/ task'[a][s] = task[a][s]
         \/ StoreTags(a, s)
         \/ a \in torn'
<1> DEFINE Kept == task'[a][s] = task[a][s]
<1>0. task \in [Agents -> [Slots -> Task]]
  BY DEF TypeOK
<1>1. ASSUME NEW b \in Agents, NEW r \in Slots, task[b][r].pc # "tags", NEW t,
             task' = [task EXCEPT ![b][r] = t]
      PROVE  Kept
  BY <1>0, <1>1
<1>2. ASSUME NEW b \in Agents, NEW r \in Slots, task[b][r].pc # "tags", End(b, r)
      PROVE  Kept
  BY <1>1, <1>2 DEF End
<1>3. ASSUME NEW b \in Agents, NEW r \in Slots, task[b][r].pc # "tags",
             NEW rec, NEW op, NEW out, Write(b, r, rec, op, out)
      PROVE  Kept
  BY <1>1, <1>3 DEF Write
<1>4. ASSUME NEW b \in Agents, NEW r \in Slots, task[b][r].pc # "tags", NEW x,
             CreateRequest(b, r, x) \/ CreateResponse(b, r, x) \/ CreateTrustPing(b, r, x)
      PROVE  Kept
  BY <1>3, <1>4 DEF CreateRequest, CreateResponse, CreateTrustPing
<1>5. ASSUME NEW b \in Agents, NEW r \in Slots,
             AcceptInvitation(b, r) \/ AcceptRequest(b, r) \/ AcceptResponse(b, r)
      PROVE  Kept
  <2>1. task[b][r].pc # "tags"
    BY <1>5 DEF AcceptInvitation, AcceptRequest, AcceptResponse, Call, Begin, Free
  <2> QED BY <1>4, <1>5, <2>1 DEF AcceptInvitation, AcceptRequest, AcceptResponse
<1>6. ASSUME NEW b \in Agents, NEW r \in Slots, Handle(b, r)
      PROVE  Kept
  <2> PICK m : \/ ProcessRequest(b, r, m) \/ ProcessResponse(b, r, m)
               \/ ProcessPing(b, r, m) \/ ProcessAck(b, r, m) \/ Refuse(b, r, m)
    BY <1>6 DEF Handle
  <2>1. task[b][r].pc # "tags"
    BY DEF ProcessRequest, ProcessResponse, ProcessPing, ProcessAck, Refuse, Receive, Begin, Free
  <2>2. CASE ProcessRequest(b, r, m)
    BY <1>3, <2>1, <2>2 DEF ProcessRequest
  <2>3. CASE ProcessResponse(b, r, m)
    BY <1>3, <2>1, <2>3 DEF ProcessResponse
  <2>4. CASE ProcessPing(b, r, m)
    BY <1>1, <1>3, <2>1, <2>4 DEF ProcessPing
  <2>5. CASE ProcessAck(b, r, m)
    BY <1>3, <2>1, <2>5 DEF ProcessAck
  <2>6. CASE Refuse(b, r, m)
    BY <2>6 DEF Refuse
  <2> QED BY <2>2, <2>3, <2>4, <2>5, <2>6
<1>7. ASSUME NEW b \in Agents, NEW r \in Slots, StoreValue(b, r)
      PROVE  Kept
  BY <1>0, <1>7 DEF StoreValue
<1>8. ASSUME NEW b \in Agents, NEW r \in Slots, StoreTags(b, r)
      PROVE  Kept \/ StoreTags(a, s)
  <2>1. CASE a = b /\ s = r
    BY <1>8, <2>1
  <2>2. CASE ~(a = b /\ s = r)
    <3>1. \A x, y : /\ [task EXCEPT ![b][r].pc = x][a][s] = task[a][s]
                    /\ [task EXCEPT ![b][r] = y][a][s] = task[a][s]
      BY <1>0, <2>2
    <3> QED BY <1>8, <3>1 DEF StoreTags, End
  <2> QED BY <2>1, <2>2
<1>9. ASSUME NEW b \in Agents, NEW r \in Slots, Accept(b, r) \/ Send(b, r)
      PROVE  Kept
  <2>1. task[b][r].pc # "tags"
    BY <1>9 DEF Accept, Send
  <2> QED BY <1>2, <1>4, <1>9, <2>1 DEF Accept, Send
<1>10. ASSUME NEW b \in Agents, NEW r \in Slots, Fail(b, r)
       PROVE  Kept \/ a \in torn'
  BY <1>0, <1>10 DEF Fail, End, TornBy
<1>11. ASSUME NEW b \in Agents, Crash(b)
       PROVE  Kept \/ a \in torn'
  BY <1>0, <1>11 DEF Crash, TornBy
<1>12. ASSUME NEW i \in Invitees, NEW r \in Slots, ReceiveInvitation(i, r)
       PROVE  Kept
  <2>1. task[i][r].pc # "tags" /\ i \in Agents
    BY <1>12 DEF ReceiveInvitation, Begin, Free, Agents
  <2>2. CASE i \in AutoAccept
    <3> PICK t : t = [pc |-> "load", op |-> "createRequest", rec |-> record'[i],
                      out |-> Msg("request", i, Inviter, <<i, calls'[i]>>)]
      OBVIOUS
    <3>1. task' = [task EXCEPT ![i][r] = t]
      BY <1>12, <2>2 DEF ReceiveInvitation
    <3> QED BY <1>1, <2>1, <3>1
  <2>3. CASE i \notin AutoAccept
    BY <1>12, <2>3 DEF ReceiveInvitation
  <2> QED BY <2>2, <2>3
<1>13. ASSUME UNCHANGED task PROVE Kept
  BY <1>13
<1> QED
  BY <1>5, <1>6, <1>7, <1>8, <1>9, <1>10, <1>11, <1>12, <1>13
  DEF Next, CreateConnection, PeerAck, ReturnWhenIsConnected, Lose, Duplicate, vars

\* An agent that was stopped between two writes has been for good.
LEMMA TornStable == [Next]_vars => torn \subseteq torn'
<1> SUFFICES ASSUME [Next]_vars PROVE torn \subseteq torn'
  OBVIOUS
<1>1. ASSUME NEW a \in Agents, NEW s \in Slots, Handle(a, s)
      PROVE  UNCHANGED torn
  BY <1>1 DEF Handle, ProcessRequest, ProcessResponse, ProcessPing, ProcessAck, Refuse, Receive
<1>2. ASSUME NEW a \in Agents, NEW s \in Slots,
             \/ AcceptInvitation(a, s) \/ AcceptRequest(a, s) \/ AcceptResponse(a, s)
             \/ StoreValue(a, s) \/ StoreTags(a, s) \/ Accept(a, s) \/ Send(a, s)
      PROVE  UNCHANGED torn
  BY <1>2 DEF AcceptInvitation, AcceptRequest, AcceptResponse, Call, StoreValue, StoreTags,
              Accept, Send
<1>3. ASSUME NEW a \in Agents, Crash(a) \/ \E s \in Slots : Fail(a, s)
      PROVE  torn \subseteq torn'
  BY <1>3 DEF Crash, Fail, TornBy
<1>4. ASSUME NEW a, PeerAck(a) \/ ReturnWhenIsConnected(a)
                    \/ \E s \in Slots : ReceiveInvitation(a, s)
      PROVE  UNCHANGED torn
  BY <1>4 DEF PeerAck, ReturnWhenIsConnected, ReceiveInvitation
<1>5. ASSUME NEW m, Lose(m) \/ Duplicate(m) PROVE UNCHANGED torn
  BY <1>5 DEF Lose, Duplicate
<1>6. CASE CreateConnection \/ UNCHANGED vars
  BY <1>6 DEF CreateConnection, vars
<1> QED
  BY <1>1, <1>2, <1>3, <1>4, <1>5, <1>6 DEF Next

\* A thread that is stored, or about to be, or lost in a stop, does not go away.
LEMMA ThreadComesStable ==
  ASSUME TypeOK, [Next]_vars, NEW a \in Agents, ThreadComes(a)
  PROVE  ThreadComes(a)'
<1> PICK old \in Record : old = record[a]
  BY DEF TypeOK
<1>1. CASE record[a].thread # NoThread
  <2>1. [old EXCEPT !.state = "invited"].thread = old.thread
    BY DEF Record
  <2>2. \A x : [old EXCEPT !.thread = x].thread = x
    BY DEF Record
  <2>3. \A rec \in Record : [rec EXCEPT !.thread = old.thread].thread = old.thread
    BY DEF Record
  <2>4. \A s \in Slots : task[a][s].rec \in Record
    BY DEF TypeOK, Task
  <2>5. record'[a].thread # NoThread
    <3>1. CASE record'[a] = [record[a] EXCEPT !.state = "invited"]
      BY <1>1, <2>1, <3>1
    <3>2. ASSUME NEW s \in Slots,
                 record'[a] = [task[a][s].rec EXCEPT !.thread = record[a].thread]
          PROVE  record'[a].thread # NoThread
      BY <1>1, <2>3, <2>4, <3>2
    <3>3. ASSUME NEW s \in Slots,
                 record'[a] = [record[a] EXCEPT !.thread =
                   IF task[a][s].rec.thread = NoThread THEN @ ELSE task[a][s].rec.thread]
          PROVE  record'[a].thread # NoThread
      <4> PICK x : x = IF task[a][s].rec.thread = NoThread THEN old.thread
                       ELSE task[a][s].rec.thread
        OBVIOUS
      <4>1. record'[a] = [old EXCEPT !.thread = x]
        BY <3>3
      <4> QED BY <1>1, <2>2, <4>1
    <3> QED BY <1>1, <3>1, <3>2, <3>3, RecordSteps
  <2> QED BY <2>5 DEF ThreadComes
<1>2. CASE a \in torn
  BY <1>2, TornStable DEF ThreadComes
<1>3. ASSUME NEW s \in Slots, task[a][s].pc = "tags", task[a][s].rec.thread # NoThread
      PROVE  ThreadComes(a)'
  <2>1. CASE task'[a][s] = task[a][s]
    BY <1>3, <2>1 DEF ThreadComes
  <2>2. CASE StoreTags(a, s)
    <3>1. record'[a].thread = task[a][s].rec.thread
      BY <1>3, <2>2 DEF StoreTags, TypeOK, Record
    <3> QED BY <1>3, <3>1 DEF ThreadComes
  <2>3. CASE a \in torn'
    BY <2>3 DEF ThreadComes
  <2> QED BY <1>3, <2>1, <2>2, <2>3, TagsKept
<1> QED
  BY <1>1, <1>2, <1>3 DEF ThreadComes

\* What a task was entitled to it stays entitled to.
LEMMA SafeStable ==
  ASSUME HandshakeInv, [Next]_vars, NEW a \in Agents, NEW t \in Task, SafeTask(a, t)
  PROVE  SafeTask(a, t)'
<1>1. \A i \in Invitees : Asked(i) => Asked(i)'
  BY AskedStable
<1>2. ThreadComes(a) => ThreadComes(a)'
  BY ThreadComesStable DEF HandshakeInv
<1> QED
  BY <1>1, <1>2 DEF SafeTask

\* A step that changes one task, or none, keeps TaskInv if the new task is safe.
LEMMA TaskStep ==
  ASSUME HandshakeInv, [Next]_vars, NEW a \in Agents, NEW s \in Slots,
         NEW t \in Task, SafeTask(a, t)',
         task' = [task EXCEPT ![a][s] = t]
  PROVE  TaskInv'
<1>1. ASSUME NEW b \in Agents, NEW r \in Slots
      PROVE  SafeTask(b, task[b][r])'
  <2> PICK u \in Task : u = task[b][r]
    BY DEF HandshakeInv, TypeOK
  <2>1. SafeTask(b, u)'
    BY SafeStable DEF HandshakeInv, TaskInv
  <2>2. task'[b][r] = IF b = a /\ r = s THEN t ELSE u
    BY DEF HandshakeInv, TypeOK
  <2> QED
    BY <2>1, <2>2
<1> QED
  BY <1>1 DEF TaskInv

\* TaskStep for a step that changes no task.
LEMMA TaskSame ==
  ASSUME HandshakeInv, [Next]_vars, UNCHANGED task
  PROVE  TaskInv'
<1>1. ASSUME NEW b \in Agents, NEW r \in Slots
      PROVE  SafeTask(b, task[b][r])'
  <2> PICK u \in Task : u = task[b][r]
    BY DEF HandshakeInv, TypeOK
  <2>1. SafeTask(b, u)'
    BY SafeStable DEF HandshakeInv, TaskInv
  <2> QED
    BY <2>1
<1> QED
  BY <1>1 DEF TaskInv

\* The other parts of the invariant, when no record is written and every new
\* message is one the invariant allows.
LEMMA NetStep ==
  ASSUME HandshakeInv, [Next]_vars, UNCHANGED record,
         \A m \in DOMAIN net' \ DOMAIN net :
           NamesThread(m) /\ (m.type = "request" => m.from \in Invitees /\ Asked(m.from))
  PROVE  RecordInv' /\ PeerAsked' /\ NetInv'
<1>1. \A a \in Agents : ThreadComes(a) => ThreadComes(a)'
  BY ThreadComesStable DEF HandshakeInv
<1>2. RecordInv'
  BY <1>1 DEF HandshakeInv, RecordInv, HasPeer, NeedsPeer, IsReady
<1>3. PeerAsked'
  BY DEF HandshakeInv, PeerAsked, Asked
<1>4. NetInv'
  BY DEF HandshakeInv, NetInv, Asked
<1> QED BY <1>2, <1>3, <1>4

\* TaskStep for a task that ends, and for one that starts a write.
LEMMA EndStep ==
  ASSUME HandshakeInv, [Next]_vars, NEW a \in Agents, NEW s \in Slots, End(a, s)
  PROVE  TaskInv'
<1>1. SafeTask(a, Idle)'
  BY IdleSafe, IdleType, SafeStable
<1> QED
  BY <1>1, IdleType, TaskStep DEF End

\* A task that starts to write a safe record is safe.
LEMMA WriteStep ==
  ASSUME HandshakeInv, [Next]_vars, NEW a \in Agents, NEW s \in Slots,
         NEW rec \in Record, NEW op \in Ops, NEW out \in Message \cup {NoMessage},
         Write(a, s, rec, op, out),
         HasPeer(a, rec),
         NeedsPeer(a, rec) => rec.thread # NoThread \/ ThreadComes(a),
         rec.state \notin {"none", "invited"},
         op # "createRequest",
         out # NoMessage =>
           /\ NamesThread(out)
           /\ out.type = "request" => out.from = a /\ a \in Invitees,
         a = Inviter /\ rec.theirKey \in Invitees => Asked(rec.theirKey)
  PROVE  TaskInv'
<1> PICK t \in Task : t = [pc |-> "store", op |-> op, rec |-> rec, out |-> out]
  BY DEF Task
<1>1. SafeTask(a, t)
  BY DEF SafeTask
<1>2. SafeTask(a, t)'
  BY <1>1, SafeStable
<1> QED
  BY <1>2, TaskStep DEF Write

\* What the invariant says of a record an agent has just read.
LEMMA ReadRecord ==
  ASSUME HandshakeInv, NEW a \in Agents
  PROVE  /\ record[a] \in Record
         /\ HasPeer(a, record[a])
         /\ NeedsPeer(a, record[a]) => ThreadComes(a)
         /\ a = Inviter /\ record[a].theirKey \in Invitees => Asked(record[a].theirKey)
<1>1. record[a] \in Record
  BY DEF HandshakeInv, TypeOK
<1>2. HasPeer(a, record[a]) /\ (NeedsPeer(a, record[a]) => ThreadComes(a))
  BY DEF HandshakeInv, RecordInv
<1>3. a = Inviter /\ record[a].theirKey \in Invitees => Asked(record[a].theirKey)
  BY DEF HandshakeInv, PeerAsked
<1> QED BY <1>1, <1>2, <1>3

\* Only requests and responses carry a thread that the receiver stores.
LEMMA OutboundSafe ==
  ASSUME NEW a \in Agents, NEW rec \in Record, NEW type \in MessageTypes,
         NEW thread \in Threads, type # "request",
         type = "response" => thread # NoThread,
         Outbound(type, a, rec, thread) # NoMessage
  PROVE  LET out == Outbound(type, a, rec, thread) IN
           NamesThread(out) /\ out.type # "request"
BY DEF Outbound, Msg, NamesThread

\* The create operations write safe records and send safe messages.
LEMMA CreateInv ==
  ASSUME HandshakeInv, [Next]_vars, NEW a \in Agents, NEW s \in Slots,
         NEW caller \in Record, NEW m \in Message,
         \/ CreateRequest(a, s, m) /\ m.from = a /\ NamesThread(m)
         \/ CreateResponse(a, s, caller)
         \/ CreateTrustPing(a, s, caller)
  PROVE  TaskInv'
<1>1. /\ record[a] \in Record
      /\ HasPeer(a, record[a])
      /\ NeedsPeer(a, record[a]) => ThreadComes(a)
      /\ a = Inviter /\ record[a].theirKey \in Invitees => Asked(record[a].theirKey)
  BY ReadRecord
<1>2. \A st \in States : /\ [record[a] EXCEPT !.state = st] \in Record
                         /\ [record[a] EXCEPT !.state = st].state = st
                         /\ [record[a] EXCEPT !.state = st].theirKey = record[a].theirKey
                         /\ [record[a] EXCEPT !.state = st].thread = record[a].thread
  BY <1>1 DEF Record
<1>3. record[a].thread \in Threads /\ NoThread \in Threads
  BY <1>1 DEF Record, Threads
<1> PICK id : id = ThreadId(record[a].thread)
  OBVIOUS
<1>7. id \in Threads /\ id # NoThread
  BY <1>3, ThreadIdType
<1>4. CASE CreateRequest(a, s, m) /\ m.from = a /\ NamesThread(m)
  <2>1. a \in Invitees /\ a # Inviter
    BY <1>4, AgentsAssumption DEF CreateRequest, MayRequest
  <2> PICK rec \in Record : rec = [record[a] EXCEPT !.state = "requested"]
    BY <1>2 DEF States
  <2>2. rec.state = "requested" /\ ~NeedsPeer(a, rec)
    BY <1>2, <2>1 DEF States, NeedsPeer, IsReady
  <2> QED
    BY <1>4, <2>1, <2>2, WriteStep DEF CreateRequest, Ops, HasPeer
<1>5. CASE CreateResponse(a, s, caller)
  <2>1. a = Inviter /\ record[a].state = "requested"
    BY <1>5 DEF CreateResponse, MayRespond
  <2>2. record[a].theirKey # NoKey /\ ThreadComes(a)
    BY <1>1, <2>1 DEF HasPeer, NeedsPeer
  <2> PICK rec \in Record : rec = [record[a] EXCEPT !.state = "responded"]
    BY <1>2 DEF States
  <2> PICK out \in Message \cup {NoMessage} : out = Outbound("response", a, caller, id)
    BY <1>7, OutboundType DEF MessageTypes
  <2>3. rec.state = "responded" /\ HasPeer(a, rec) /\ rec.theirKey = record[a].theirKey
    BY <1>2, <2>2 DEF States, HasPeer
  <2>4. out # NoMessage => NamesThread(out) /\ out.type # "request"
    BY <1>7, OutboundSafe DEF MessageTypes
  <2> QED
    BY <1>1, <1>5, <2>2, <2>3, <2>4, WriteStep DEF CreateResponse, Ops
<1>6. CASE CreateTrustPing(a, s, caller)
  <2>1. record[a].theirKey # NoKey /\ ThreadComes(a)
    BY <1>1, <1>6 DEF CreateTrustPing, MayPing, HasPeer, NeedsPeer
  <2> PICK rec \in Record : rec = [record[a] EXCEPT !.state = "complete"]
    BY <1>2 DEF States
  <2> PICK out \in Message \cup {NoMessage} : out = Outbound("ping", a, caller, NoThread)
    BY <1>3, OutboundType DEF MessageTypes
  <2>2. rec.state = "complete" /\ HasPeer(a, rec) /\ rec.theirKey = record[a].theirKey
    BY <1>2, <2>1 DEF States, HasPeer
  <2>3. out # NoMessage => NamesThread(out) /\ out.type # "request"
    BY <1>3, OutboundSafe DEF MessageTypes
  <2> QED
    BY <1>1, <1>6, <2>1, <2>2, <2>3, WriteStep DEF CreateTrustPing, Ops
<1> QED
  BY <1>4, <1>5, <1>6

-----------------------------------------------------------------------------
(* Every step keeps the invariant                                            *)

\* An accept call of the API keeps the invariant.
LEMMA CallInv ==
  ASSUME HandshakeInv, [Next]_vars, NEW a \in Agents, NEW s \in Slots,
         AcceptInvitation(a, s) \/ AcceptRequest(a, s) \/ AcceptResponse(a, s)
  PROVE  HandshakeInv'
<1>1. TypeOK'
  BY CallType DEF HandshakeInv
<1>2. UNCHANGED <<record, net>> /\ calls'[a] \in 1..MaxCalls
  BY BoundsAssumption
  DEF AcceptInvitation, AcceptRequest, AcceptResponse, Call, HandshakeInv, TypeOK
<1>3. RecordInv' /\ PeerAsked' /\ NetInv'
  BY <1>2, NetStep
<1>4. record[a] \in Record
  BY DEF HandshakeInv, TypeOK
<1>5. TaskInv'
  <2>1. CASE AcceptInvitation(a, s)
    <3>1. a \in Invitees /\ <<a, calls'[a]>> \in RequestIds
      BY <1>2, <2>1 DEF AcceptInvitation, CreateRequest, MayRequest, RequestIds
    <3> PICK m \in Message : m = Msg("request", a, Inviter, <<a, calls'[a]>>)
      BY <3>1, MsgType DEF MessageTypes, Agents, Threads
    <3>2. m.from = a /\ NamesThread(m) /\ CreateRequest(a, s, m)
      BY <2>1, <3>1, NoThreadAssumption DEF Msg, NamesThread, AcceptInvitation
    <3> QED
      BY <1>4, <3>2, CreateInv
  <2>2. CASE AcceptRequest(a, s) \/ AcceptResponse(a, s)
    <3> PICK m \in Message : m = Msg("ping", a, a, NoThread)
      BY MsgType DEF MessageTypes, Threads
    <3>1. CreateResponse(a, s, record[a]) \/ CreateTrustPing(a, s, record[a])
      BY <2>2 DEF AcceptRequest, AcceptResponse
    <3> QED
      BY <1>4, <3>1, CreateInv
  <2> QED
    BY <2>1, <2>2
<1> QED
  BY <1>1, <1>3, <1>5 DEF HandshakeInv

\* A handler keeps the invariant.
LEMMA HandleInv ==
  ASSUME HandshakeInv, [Next]_vars, NEW a \in Agents, NEW s \in Slots, Handle(a, s)
  PROVE  HandshakeInv'
<1> PICK m \in DOMAIN net :
         \/ ProcessRequest(a, s, m) \/ ProcessResponse(a, s, m)
         \/ ProcessPing(a, s, m) \/ ProcessAck(a, s, m) \/ Refuse(a, s, m)
    BY DEF Handle
<1>1. Receive(a, s, m)
  BY DEF ProcessRequest, ProcessResponse, ProcessPing, ProcessAck, Refuse
<1>2. TypeOK'
  BY HandleType DEF HandshakeInv
<1>3. RecordInv' /\ PeerAsked' /\ NetInv'
  <2>1. DOMAIN net' \subseteq DOMAIN net /\ UNCHANGED record
    BY <1>1, TakeDomain DEF Receive
  <2> QED
    BY <2>1, NetStep
<1>4. /\ m \in Message /\ m.from \in Agents /\ m.thread \in Threads
      /\ NamesThread(m)
      /\ m.type = "request" => m.from \in Invitees /\ Asked(m.from)
  BY DEF HandshakeInv, TypeOK, Message, NetInv
<1>5. /\ record[a] \in Record
      /\ HasPeer(a, record[a])
      /\ NeedsPeer(a, record[a]) => ThreadComes(a)
      /\ a = Inviter /\ record[a].theirKey \in Invitees => Asked(record[a].theirKey)
  BY ReadRecord
<1>6. m.from # NoKey
  BY <1>4, AgentsAssumption DEF Agents
<1>7. ASSUME NEW rec \in Record, rec = [record[a] EXCEPT !.state = "complete"],
             record[a].state = "responded"
      PROVE  /\ rec.state = "complete"
             /\ rec.theirKey = record[a].theirKey
             /\ HasPeer(a, rec)
             /\ ThreadComes(a)
  BY <1>5, <1>7 DEF Record, HasPeer, NeedsPeer, IsReady
<1>8. CASE ProcessRequest(a, s, m)
  <2> PICK rec \in Record :
           rec = [state |-> "requested", theirKey |-> m.from, thread |-> m.thread]
    BY <1>4 DEF Record, States
  <2>1. m.type = "request"
    BY <1>8 DEF ProcessRequest, CanProcessRequest
  <2>2. HasPeer(a, rec) /\ Asked(rec.theirKey) /\ rec.thread # NoThread
    BY <1>4, <1>6, <2>1 DEF HasPeer, NamesThread
  <2>3. TaskInv'
    BY <1>8, <2>2, WriteStep DEF ProcessRequest, OnAutoAccept, Ops
  <2> QED
    BY <1>2, <1>3, <2>3 DEF HandshakeInv
<1>9. CASE ProcessResponse(a, s, m)
  <2> PICK rec \in Record :
           rec = [state |-> "responded", theirKey |-> m.from, thread |-> m.thread]
    BY <1>4 DEF Record, States
  <2>1. m.type = "response" /\ a # Inviter
    BY <1>9, AgentsAssumption DEF ProcessResponse, CanProcessResponse
  <2>2. HasPeer(a, rec) /\ rec.thread # NoThread
    BY <1>4, <1>6, <2>1 DEF HasPeer, NamesThread
  <2>3. TaskInv'
    BY <1>9, <2>1, <2>2, WriteStep DEF ProcessResponse, OnAutoAccept, Ops
  <2> QED
    BY <1>2, <1>3, <2>3 DEF HandshakeInv
<1>10. CASE ProcessPing(a, s, m)
  <2> PICK out \in Message \cup {NoMessage} :
           out = Outbound("pingResponse", a, record[a], m.thread)
    BY <1>4, <1>5, OutboundType DEF MessageTypes
  <2>1. out # NoMessage => NamesThread(out) /\ out.type # "request"
    BY <1>4, <1>5, OutboundSafe DEF MessageTypes
  <2>2. CASE /\ record[a].state = "responded"
             /\ Write(a, s, [record[a] EXCEPT !.state = "complete"], "none", out)
    <3> PICK rec \in Record : rec = [record[a] EXCEPT !.state = "complete"]
      BY <1>5 DEF Record, States
    <3>1. TaskInv'
      BY <1>5, <1>7, <2>1, <2>2, WriteStep DEF Ops
    <3> QED
      BY <1>2, <1>3, <3>1 DEF HandshakeInv
  <2>3. CASE /\ out # NoMessage
             /\ task' = [task EXCEPT ![a][s] =
                   [pc |-> "send", op |-> "none", rec |-> record[a], out |-> out]]
    <3> PICK t \in Task :
             t = [pc |-> "send", op |-> "none", rec |-> record[a], out |-> out]
      BY <1>5 DEF Task, Ops
    <3>1. SafeTask(a, t)
      BY <1>5, <2>1, <2>3 DEF SafeTask
    <3>2. SafeTask(a, t)'
      BY <3>1, SafeStable
    <3>3. TaskInv'
      BY <2>3, <3>2, TaskStep
    <3> QED
      BY <1>2, <1>3, <3>3 DEF HandshakeInv
  <2>4. CASE UNCHANGED task
    BY <1>2, <1>3, <2>4, TaskSame DEF HandshakeInv
  <2> QED
    BY <1>10, <2>2, <2>3, <2>4 DEF ProcessPing
<1>11. CASE ProcessAck(a, s, m)
  <2> PICK rec \in Record : rec = [record[a] EXCEPT !.state = "complete"]
    BY <1>5 DEF Record, States
  <2>1. TaskInv'
    BY <1>5, <1>7, <1>11, WriteStep DEF ProcessAck, CanProcessAck, Ops
  <2> QED
    BY <1>2, <1>3, <2>1 DEF HandshakeInv
<1>12. CASE Refuse(a, s, m)
  BY <1>2, <1>3, <1>12, TaskSame DEF Refuse, HandshakeInv
<1> QED
  BY <1>8, <1>9, <1>10, <1>11, <1>12

\* The first write keeps it: what the task holds is as safe as what it read.
LEMMA StoreValueInv ==
  ASSUME HandshakeInv, [Next]_vars, NEW a \in Agents, NEW s \in Slots, StoreValue(a, s)
  PROVE  HandshakeInv'
<1> PICK t \in Task : t = task[a][s]
  BY DEF HandshakeInv, TypeOK
<1> PICK rec \in Record : rec = [t.rec EXCEPT !.thread = record[a].thread]
  BY DEF HandshakeInv, TypeOK, Task, Record
<1>1. /\ t.pc = "store"
      /\ record' = [record EXCEPT ![a] = rec]
      /\ net' = net
      /\ rec.state = t.rec.state /\ rec.theirKey = t.rec.theirKey
  BY DEF StoreValue, Task, Record
<1>2. SafeTask(a, t) /\ SafeTask(a, t)'
  BY SafeStable DEF HandshakeInv, TaskInv
<1>3. \A i \in Invitees : Asked(i) => Asked(i)'
  BY AskedStable
<1>4. TypeOK'
  BY StoreType DEF HandshakeInv
<1> PICK u \in Task : u = [t EXCEPT !.pc = "tags"]
  BY DEF Task
<1>5. /\ u.pc = "tags" /\ u.op = t.op /\ u.rec = t.rec /\ u.out = t.out
      /\ task' = [task EXCEPT ![a][s] = u]
      /\ task'[a][s] = u
  BY DEF StoreValue, Task, HandshakeInv, TypeOK
<1>6. NeedsPeer(a, t.rec) => ThreadComes(a)'
  <2>1. CASE t.rec.thread # NoThread
    <3>1. task'[a][s].pc = "tags" /\ task'[a][s].rec.thread # NoThread
      BY <1>5, <2>1
    <3> QED BY <3>1 DEF ThreadComes
  <2>2. ThreadComes(a) => ThreadComes(a)'
    BY ThreadComesStable DEF HandshakeInv
  <2>3. NeedsPeer(a, t.rec) => t.rec.thread # NoThread \/ ThreadComes(a)
    BY <1>2 DEF SafeTask
  <2> QED BY <2>1, <2>2, <2>3
<1>7. RecordInv'
  <2> SUFFICES ASSUME NEW b \in Agents
               PROVE  HasPeer(b, record'[b]) /\ (NeedsPeer(b, record'[b]) => ThreadComes(b)')
    BY DEF RecordInv
  <2>1. CASE b = a
    <3>1. record'[b] = rec
      BY <1>1, <2>1 DEF HandshakeInv, TypeOK
    <3>2. NeedsPeer(a, rec) <=> NeedsPeer(a, t.rec)
      BY <1>1 DEF NeedsPeer, IsReady
    <3> QED BY <1>1, <1>2, <1>6, <2>1, <3>1, <3>2 DEF SafeTask, HasPeer
  <2>2. CASE b # a
    <3>1. record'[b] = record[b]
      BY <1>1, <2>2 DEF HandshakeInv, TypeOK
    <3>2. HasPeer(b, record[b]) /\ (NeedsPeer(b, record[b]) => ThreadComes(b))
      BY ReadRecord
    <3>3. ThreadComes(b) => ThreadComes(b)'
      BY ThreadComesStable DEF HandshakeInv
    <3> QED BY <3>1, <3>2, <3>3
  <2> QED BY <2>1, <2>2
<1>8. PeerAsked'
  BY <1>1, <1>2, <1>3 DEF HandshakeInv, TypeOK, PeerAsked, SafeTask
<1>9. NetInv'
  BY <1>1, <1>3 DEF HandshakeInv, NetInv, NamesThread
<1>10. TaskInv'
  <2>1. Asked(a)'
    BY <1>1, <1>2 DEF HandshakeInv, TypeOK, SafeTask, Asked
  <2>2. t.op # "createRequest" /\ t.rec.state \notin {"none", "invited"}
    BY <1>1, <1>2 DEF SafeTask
  <2>3. SafeTask(a, u)'
    BY <1>2, <1>5, <2>1, <2>2 DEF SafeTask
  <2> QED BY <1>5, <2>3, TaskStep
<1> QED
  BY <1>4, <1>7, <1>8, <1>9, <1>10 DEF HandshakeInv

\* The second write keeps it: it adds a thread or leaves the one that is there.
LEMMA StoreTagsInv ==
  ASSUME HandshakeInv, [Next]_vars, NEW a \in Agents, NEW s \in Slots, StoreTags(a, s)
  PROVE  HandshakeInv'
<1> PICK t \in Task : t = task[a][s]
  BY DEF HandshakeInv, TypeOK
<1> PICK thread : thread = IF t.rec.thread = NoThread THEN record[a].thread ELSE t.rec.thread
  OBVIOUS
<1>1. /\ t.pc = "tags"
      /\ record' = [record EXCEPT ![a].thread = thread]
      /\ net' = net
  BY DEF StoreTags, HandshakeInv, TypeOK
<1>2. SafeTask(a, t) /\ SafeTask(a, t)'
  BY SafeStable DEF HandshakeInv, TaskInv
<1>3. \A i \in Invitees : Asked(i) => Asked(i)'
  BY AskedStable
<1>4. TypeOK'
  BY StoreType DEF HandshakeInv
<1>5. \A b \in Agents : record'[b].state = record[b].state
                        /\ record'[b].theirKey = record[b].theirKey
  BY <1>1 DEF HandshakeInv, TypeOK, Record
<1>6. RecordInv'
  <2> SUFFICES ASSUME NEW b \in Agents
               PROVE  HasPeer(b, record'[b]) /\ (NeedsPeer(b, record'[b]) => ThreadComes(b)')
    BY DEF RecordInv
  <2>1. NeedsPeer(b, record'[b]) <=> NeedsPeer(b, record[b])
    BY <1>5 DEF NeedsPeer, IsReady
  <2>2. HasPeer(b, record[b]) /\ (NeedsPeer(b, record[b]) => ThreadComes(b))
    BY ReadRecord
  <2>3. ThreadComes(b) => ThreadComes(b)'
    BY ThreadComesStable DEF HandshakeInv
  <2> QED BY <1>5, <2>1, <2>2, <2>3 DEF HasPeer
<1>7. PeerAsked'
  BY <1>3, <1>5 DEF HandshakeInv, PeerAsked, Agents
<1>8. NetInv'
  BY <1>1, <1>3 DEF HandshakeInv, NetInv, NamesThread
<1>9. TaskInv'
  <2>1. t.op # "createRequest"
    BY <1>1, <1>2 DEF SafeTask
  <2>2. CASE t.out # NoMessage /\ task' = [task EXCEPT ![a][s].pc = "send"]
    <3> PICK u \in Task : u = [t EXCEPT !.pc = "send"]
      BY DEF Task
    <3>1. /\ u.pc = "send" /\ u.op = t.op /\ u.rec = t.rec /\ u.out = t.out
          /\ task' = [task EXCEPT ![a][s] = u]
      BY <2>2 DEF Task, HandshakeInv, TypeOK
    <3>2. SafeTask(a, u)'
      BY <1>1, <1>2, <2>1, <2>2, <3>1 DEF SafeTask
    <3> QED
      BY <3>1, <3>2, TaskStep
  <2>3. CASE t.out = NoMessage /\ task' = [task EXCEPT ![a][s].pc = "load"]
    <3> PICK u \in Task : u = [t EXCEPT !.pc = "load"]
      BY DEF Task
    <3>1. /\ u.pc = "load" /\ u.op = t.op /\ u.rec = t.rec /\ u.out = NoMessage
          /\ task' = [task EXCEPT ![a][s] = u]
      BY <2>3 DEF Task, HandshakeInv, TypeOK
    <3>2. SafeTask(a, u)'
      BY <1>1, <1>2, <2>1, <3>1 DEF SafeTask
    <3> QED
      BY <3>1, <3>2, TaskStep
  <2>4. CASE End(a, s)
    BY <2>4, EndStep
  <2> QED
    BY <2>2, <2>3, <2>4 DEF StoreTags
<1> QED
  BY <1>4, <1>6, <1>7, <1>8, <1>9 DEF HandshakeInv

\* The auto accept half of a handler keeps the invariant.
LEMMA AcceptInv ==
  ASSUME HandshakeInv, [Next]_vars, NEW a \in Agents, NEW s \in Slots, Accept(a, s)
  PROVE  HandshakeInv'
<1> PICK t \in Task : t = task[a][s]
  BY DEF HandshakeInv, TypeOK
<1>1. SafeTask(a, t) /\ t.rec \in Record /\ t.out \in Message \cup {NoMessage}
  BY DEF HandshakeInv, TaskInv, Task
<1>2. t.op = "createRequest" => t.out \in Message /\ t.out.from = a /\ NamesThread(t.out)
  BY <1>1 DEF SafeTask
<1>3. TypeOK'
  BY <1>2, AcceptType DEF HandshakeInv
<1>4. RecordInv' /\ PeerAsked' /\ NetInv'
  BY NetStep DEF Accept
<1>5. TaskInv'
  <2>1. CASE End(a, s)
    BY <2>1, EndStep
  <2>2. CASE t.op = "createRequest" /\ CreateRequest(a, s, t.out)
    BY <1>1, <1>2, <2>2, CreateInv
  <2>3. CASE CreateResponse(a, s, t.rec) \/ CreateTrustPing(a, s, t.rec)
    <3> PICK m \in Message : m = Msg("ping", a, a, NoThread)
      BY MsgType DEF MessageTypes, Threads
    <3> QED
      BY <1>1, <2>3, CreateInv
  <2> QED
    BY <2>1, <2>2, <2>3 DEF Accept
<1> QED
  BY <1>3, <1>4, <1>5 DEF HandshakeInv

\* A task at "send" has a message: only StoreTags and ProcessPing put it there.
LEMMA SendInv ==
  ASSUME HandshakeInv, [Next]_vars, NEW a \in Agents, NEW s \in Slots, Send(a, s)
  PROVE  HandshakeInv'
<1> PICK t \in Task : t = task[a][s]
  BY DEF HandshakeInv, TypeOK
<1>1. SafeTask(a, t) /\ t.pc = "send" /\ t.out # NoMessage /\ t.out \in Message
  BY DEF HandshakeInv, TaskInv, Task, SafeTask, Send
<1>2. DOMAIN net' = DOMAIN net \cup {t.out}
  BY PutDomain DEF Send
<1>3. NamesThread(t.out) /\ (t.out.type = "request" => t.out.from \in Invitees /\ Asked(t.out.from))
  BY <1>1 DEF SafeTask
<1>4. TypeOK'
  BY <1>1, <1>2, EndType DEF HandshakeInv, TypeOK, Send
<1>5. RecordInv' /\ PeerAsked' /\ NetInv'
  BY <1>2, <1>3, NetStep DEF Send
<1>6. TaskInv'
  BY EndStep DEF Send
<1> QED
  BY <1>4, <1>5, <1>6 DEF HandshakeInv

\* A new record keeps what the invariant says of the records and the messages.
LEMMA NewRecord ==
  ASSUME HandshakeInv, [Next]_vars, NEW a \in Agents,
         record' = [record EXCEPT ![a].state = "invited"],
         a \in Invitees => record[a].state = "none",
         DOMAIN net' \subseteq DOMAIN net
  PROVE  /\ record' \in [Agents -> Record]
         /\ RecordInv' /\ PeerAsked' /\ NetInv'
<1>1. record' \in [Agents -> Record]
  BY RecordType DEF HandshakeInv, TypeOK, States
<1>2. \A b \in Agents : /\ record'[b].theirKey = record[b].theirKey
                        /\ b # a => record'[b] = record[b]
  BY DEF HandshakeInv, TypeOK, Record
<1>3. record'[a].state = "invited"
  BY DEF HandshakeInv, TypeOK, Record
<1>4. \A i \in Invitees : Asked(i) => Asked(i)'
  BY AskedStable
<1>5. RecordInv'
  <2> SUFFICES ASSUME NEW b \in Agents
               PROVE  HasPeer(b, record'[b]) /\ (NeedsPeer(b, record'[b]) => ThreadComes(b)')
    BY DEF RecordInv
  <2>1. CASE b = a
    BY <1>3, <2>1 DEF HasPeer, NeedsPeer, IsReady
  <2>2. CASE b # a
    <3>1. HasPeer(b, record[b]) /\ (NeedsPeer(b, record[b]) => ThreadComes(b))
      BY ReadRecord
    <3>2. ThreadComes(b) => ThreadComes(b)'
      BY ThreadComesStable DEF HandshakeInv
    <3> QED BY <1>2, <2>2, <3>1, <3>2
  <2> QED BY <2>1, <2>2
<1>6. PeerAsked'
  BY <1>2, <1>4 DEF HandshakeInv, PeerAsked, Agents
<1>7. NetInv'
  BY <1>4 DEF HandshakeInv, NetInv
<1> QED BY <1>1, <1>5, <1>6, <1>7

\* A process that stops, or a task that fails, leaves idle slots.
LEMMA StopInv ==
  ASSUME HandshakeInv, [Next]_vars, NEW a \in Agents,
         Crash(a) \/ \E s \in Slots : Fail(a, s)
  PROVE  HandshakeInv'
<1>1. TypeOK'
  <2>1. task' \in [Agents -> [Slots -> Task]]
    BY IdleType, EndType DEF Crash, Fail, HandshakeInv, TypeOK
  <2>2. mishaps' \in 0..MaxFaults
    BY StrikesType DEF Crash, Fail, HandshakeInv
  <2>3. torn' \subseteq Agents
    BY DEF Crash, Fail, TornBy, HandshakeInv, TypeOK
  <2> QED BY <2>1, <2>2, <2>3 DEF Crash, Fail, HandshakeInv, TypeOK
<1>2. RecordInv' /\ PeerAsked' /\ NetInv'
  BY NetStep DEF Crash, Fail
<1>3. TaskInv'
  <2>1. CASE Crash(a)
    <3>1. ASSUME NEW b \in Agents, NEW r \in Slots
          PROVE  SafeTask(b, task[b][r])'
      <4> PICK u \in Task : u = task[b][r]
        BY DEF HandshakeInv, TypeOK
      <4>1. SafeTask(b, u)' /\ SafeTask(b, Idle)'
        BY SafeStable, IdleSafe, IdleType DEF HandshakeInv, TaskInv
      <4>2. task'[b][r] = IF b = a THEN Idle ELSE u
        BY <2>1 DEF Crash, HandshakeInv, TypeOK
      <4> QED
        BY <4>1, <4>2
    <3> QED BY <3>1 DEF TaskInv
  <2>2. ASSUME NEW s \in Slots, Fail(a, s)
        PROVE  TaskInv'
    BY <2>2, EndStep DEF Fail
  <2> QED BY <2>1, <2>2
<1> QED BY <1>1, <1>2, <1>3 DEF HandshakeInv

\* The other steps: new records, copies of messages, listeners, another framework.
LEMMA OtherInv ==
  ASSUME HandshakeInv, [Next]_vars,
         \/ CreateConnection
         \/ \E i \in Invitees : PeerAck(i) \/ \E s \in Slots : ReceiveInvitation(i, s)
         \/ \E a \in Agents : ReturnWhenIsConnected(a)
         \/ \E m \in DOMAIN net : Lose(m) \/ Duplicate(m)
         \/ UNCHANGED vars
  PROVE  HandshakeInv'
<1>1. CASE CreateConnection
  <2>1. /\ Inviter \in Agents /\ Inviter \notin Invitees
        /\ record' = [record EXCEPT ![Inviter].state = "invited"]
        /\ UNCHANGED <<task, net, waiting, calls, mishaps, serial, torn>>
    BY <1>1, AgentsAssumption DEF CreateConnection, CreateInvitation, Agents
  <2>2. record' \in [Agents -> Record] /\ RecordInv' /\ PeerAsked' /\ NetInv'
    BY <2>1, NewRecord
  <2>3. TypeOK'
    BY <2>1, <2>2 DEF HandshakeInv, TypeOK
  <2>4. TaskInv'
    BY <2>1, TaskSame
  <2> QED
    BY <2>2, <2>3, <2>4 DEF HandshakeInv
<1>2. ASSUME NEW i \in Invitees, NEW s \in Slots, ReceiveInvitation(i, s)
      PROVE  HandshakeInv'
  <2>1. i \in Agents /\ i # Inviter /\ record[i] \in Record /\ TypeOK
    BY AgentsAssumption DEF HandshakeInv, TypeOK, Agents
  <2> PICK rec \in Record : rec = [record[i] EXCEPT !.state = "invited"]
    BY <2>1, RecordType DEF States
  <2>2. /\ rec.state = "invited"
        /\ record[i].state = "none"
        /\ record' = [record EXCEPT ![i].state = "invited"]
        /\ record'[i] = rec
        /\ UNCHANGED <<net, waiting, torn>>
        /\ Begin(i, s)
    BY <1>2, <2>1 DEF ReceiveInvitation, ProcessInvitation, Record, TypeOK
  <2>3. mishaps' \in 0..MaxFaults /\ serial' \in BOOLEAN
    BY <2>1, <2>2, BeginType
  <2>4. record' \in [Agents -> Record] /\ RecordInv' /\ PeerAsked' /\ NetInv'
    BY <2>1, <2>2, NewRecord
  <2>5. CASE i \notin AutoAccept
    <3>1. UNCHANGED <<task, calls>>
      BY <1>2, <2>5 DEF ReceiveInvitation
    <3>2. TypeOK'
      BY <2>1, <2>2, <2>3, <2>4, <3>1 DEF TypeOK
    <3>3. TaskInv'
      BY <3>1, TaskSame
    <3> QED
      BY <2>4, <3>2, <3>3 DEF HandshakeInv
  <2>6. CASE i \in AutoAccept
    <3>1. calls' \in [Agents -> 0..MaxCalls] /\ <<i, calls'[i]>> \in RequestIds
      BY <1>2, <2>1, <2>6, BoundsAssumption DEF ReceiveInvitation, TypeOK, RequestIds
    <3> PICK m \in Message : m = Msg("request", i, Inviter, <<i, calls'[i]>>)
      BY <2>1, <3>1, MsgType DEF MessageTypes, Agents, Threads
    <3>2. m.type = "request" /\ m.from = i /\ NamesThread(m) /\ m # NoMessage
      BY <3>1, NoThreadAssumption, NoMessageAssumption
      DEF Msg, NamesThread, Message, Agents
    <3> PICK t \in Task : t = [pc |-> "load", op |-> "createRequest", rec |-> rec, out |-> m]
      BY DEF Task, Ops
    <3>3. task' = [task EXCEPT ![i][s] = t]
      BY <1>2, <2>2, <2>6 DEF ReceiveInvitation
    <3>4. SafeTask(i, t)
      BY <2>1, <2>2, <3>2 DEF SafeTask, HasPeer, NeedsPeer, IsReady
    <3>5. SafeTask(i, t)'
      BY <2>1, <3>4, SafeStable
    <3>6. TaskInv'
      BY <2>1, <3>3, <3>5, TaskStep
    <3>7. TypeOK'
      BY <2>1, <2>2, <2>3, <2>4, <3>1, <3>3 DEF TypeOK
    <3> QED
      BY <2>4, <3>6, <3>7 DEF HandshakeInv
  <2> QED
    BY <2>5, <2>6
<1>3. ASSUME NEW i \in Invitees, PeerAck(i)
      PROVE  HandshakeInv'
  <2> PICK m \in Message : m = Msg("ack", i, Inviter, NoThread)
    BY MsgType DEF MessageTypes, Agents, Threads
  <2>1. /\ DOMAIN net' = DOMAIN net \cup {m}
        /\ UNCHANGED <<record, task, waiting, mishaps, serial, torn>>
    BY <1>3, PutDomain DEF PeerAck
  <2>2. m.type = "ack" /\ NamesThread(m)
    BY DEF Msg, NamesThread
  <2>3. calls' \in [Agents -> 0..MaxCalls]
    BY <1>3, BoundsAssumption DEF PeerAck, HandshakeInv, TypeOK, Agents
  <2>4. TypeOK'
    BY <2>1, <2>3 DEF HandshakeInv, TypeOK
  <2>5. RecordInv' /\ PeerAsked' /\ NetInv'
    BY <2>1, <2>2, NetStep
  <2> QED
    BY <2>1, <2>4, <2>5, TaskSame DEF HandshakeInv
<1>4. ASSUME NEW a \in Agents, ReturnWhenIsConnected(a)
      PROVE  HandshakeInv'
  <2>1. TypeOK'
    BY <1>4 DEF ReturnWhenIsConnected, HandshakeInv, TypeOK
  <2> QED
    BY <1>4, <2>1, NetStep, TaskSame DEF ReturnWhenIsConnected, HandshakeInv
<1>5. ASSUME NEW m \in DOMAIN net, Lose(m) \/ Duplicate(m)
      PROVE  HandshakeInv'
  <2>1. /\ DOMAIN net' \subseteq DOMAIN net
        /\ UNCHANGED <<record, task, waiting, calls, serial, torn>>
    BY <1>5, TakeDomain, PutDomain DEF Lose, Duplicate
  <2>2. mishaps' \in 0..MaxFaults
    BY <1>5, StrikesType DEF Lose, Duplicate, HandshakeInv
  <2>3. TypeOK'
    BY <2>1, <2>2 DEF HandshakeInv, TypeOK
  <2> QED
    BY <2>1, <2>3, NetStep, TaskSame DEF HandshakeInv
<1>6. CASE UNCHANGED vars
  <2>1. TypeOK'
    BY <1>6 DEF vars, HandshakeInv, TypeOK
  <2> QED
    BY <1>6, <2>1, NetStep, TaskSame DEF vars, HandshakeInv
<1> QED
  BY <1>1, <1>2, <1>3, <1>4, <1>5, <1>6

\* Every step keeps the invariant.
LEMMA NextInv == HandshakeInv /\ [Next]_vars => HandshakeInv'
<1> SUFFICES ASSUME HandshakeInv, [Next]_vars PROVE HandshakeInv'
    OBVIOUS
<1>1. ASSUME NEW a \in Agents, NEW s \in Slots,
             AcceptInvitation(a, s) \/ AcceptRequest(a, s) \/ AcceptResponse(a, s)
      PROVE  HandshakeInv'
  BY <1>1, CallInv
<1>2. ASSUME NEW a \in Agents, NEW s \in Slots,
             Handle(a, s) \/ StoreValue(a, s) \/ StoreTags(a, s) \/ Accept(a, s) \/ Send(a, s)
      PROVE  HandshakeInv'
  BY <1>2, HandleInv, StoreValueInv, StoreTagsInv, AcceptInv, SendInv
<1>3. ASSUME NEW a \in Agents, Crash(a) \/ \E s \in Slots : Fail(a, s)
      PROVE  HandshakeInv'
  BY <1>3, StopInv
<1> QED
  BY <1>1, <1>2, <1>3, OtherInv DEF Next

-----------------------------------------------------------------------------
(* Theorems                                                                  *)

\* The inductive invariant of the handshake: records, pending writes and messages
\* carry the peer and thread the protocol needs, or the thread is about to be written
\* or was lost when the agent was stopped, in every interleaving.
THEOREM HandshakeInvariant == Spec => []HandshakeInv
BY InitInv, NextInv, PTL DEF Spec

\* Every record, task and message has its type in every behaviour of the
\* connection protocol.
THEOREM TypeCorrect == Spec => []TypeOK
<1>1. HandshakeInv => TypeOK
  BY DEF HandshakeInv
<1> QED
  BY <1>1, HandshakeInvariant, PTL

\* assertReady is enough for createOutboundMessage: a record that isReady has the key of
\* the other agent, however calls, handlers, failures and redeliveries overlap.  It has
\* the thread too, unless the agent is between the two writes of an update or was
\* stopped there.
THEOREM ReadyRecordsHavePeer == Spec => []ReadyHasPeer
<1>1. HandshakeInv => ReadyHasPeer
  BY DEF HandshakeInv, RecordInv, HasPeer, ReadyHasPeer, ThreadComes, Whole
<1> QED
  BY <1>1, HandshakeInvariant, PTL

\* The inviter never holds the key of an invitee whose wallet does not know of
\* the request.
THEOREM PeersAsked == Spec => []PeerAsked
<1>1. HandshakeInv => PeerAsked
  BY DEF HandshakeInv
<1> QED
  BY <1>1, HandshakeInvariant, PTL

-----------------------------------------------------------------------------
(* While no agent has overlapped two tasks                                   *)

\* A history in which no two tasks have overlapped has always been one.
LEMMA SerialBefore == TypeOK /\ [Next]_vars /\ serial' => serial
<1> SUFFICES ASSUME TypeOK, [Next]_vars, serial' PROVE serial
  OBVIOUS
<1>1. ASSUME NEW a, NEW s, Begin(a, s) PROVE serial
  BY <1>1 DEF Begin
<1>2. ASSUME NEW a \in Agents, NEW s \in Slots,
             \/ AcceptInvitation(a, s) \/ AcceptRequest(a, s) \/ AcceptResponse(a, s)
             \/ Handle(a, s) \/ ReceiveInvitation(a, s)
      PROVE  Begin(a, s)
  BY <1>2 DEF AcceptInvitation, AcceptRequest, AcceptResponse, Call, ReceiveInvitation,
              Handle, ProcessRequest, ProcessResponse, ProcessPing, ProcessAck, Refuse, Receive
<1>3. ASSUME NEW a \in Agents, NEW s \in Slots,
             StoreValue(a, s) \/ StoreTags(a, s) \/ Accept(a, s) \/ Send(a, s) \/ Fail(a, s)
      PROVE  UNCHANGED serial
  BY <1>3 DEF StoreValue, StoreTags, Accept, Send, Fail
<1>4. ASSUME NEW a, PeerAck(a) \/ ReturnWhenIsConnected(a) \/ Crash(a)
      PROVE  UNCHANGED serial
  BY <1>4 DEF PeerAck, ReturnWhenIsConnected, Crash
<1>5. ASSUME NEW m, Lose(m) \/ Duplicate(m) PROVE UNCHANGED serial
  BY <1>5 DEF Lose, Duplicate
<1>6. CASE CreateConnection \/ UNCHANGED vars
  BY <1>6 DEF CreateConnection, vars
<1> QED
  BY <1>1, <1>2, <1>3, <1>4, <1>5, <1>6 DEF Next, Agents

\* A task that begins without an overlap is the only one of its agent.
LEMMA BeginAlone ==
  ASSUME NEW a, NEW s, Begin(a, s), serial'
  PROVE  Alone(a, s) /\ Free(a, s)
BY DEF Begin

\* The inviter is connected to i, under the thread if both have one.
Bonded(i, thread) ==
  /\ IsReady(record[Inviter])
  /\ record[Inviter].theirKey = i
  /\ NoThread \in {thread, record[Inviter].thread} \/ thread = record[Inviter].thread

\* The thread comes after the key, and is one its agent chose; both come only with the
\* message that brings the key.  An invitee that is connected knows that the inviter is
\* connected to it.
RecordFits(a, rec) ==
  /\ rec.state \in {"none", "invited"} => rec.theirKey = NoKey
  /\ rec.theirKey = NoKey => rec.thread = NoThread
  /\ a = Inviter /\ rec.theirKey # NoKey =>
       rec.thread = NoThread \/ rec.thread[1] = rec.theirKey
  /\ a # Inviter /\ ~IsReady(rec) => rec.theirKey = NoKey
  /\ a # Inviter /\ IsReady(rec) => rec.theirKey = Inviter /\ Bonded(a, rec.thread)

\* What a write may make of the value of a record, and of all of it.
Advances(old, new) ==
  /\ Rank[old.state] <= Rank[new.state]
  /\ old.theirKey # NoKey => new.theirKey = old.theirKey

Follows(a, old, new) ==
  /\ Advances(old, new)
  /\ old.theirKey # NoKey => new.thread = old.thread
  /\ a = Inviter /\ new.thread # old.thread => new.state = "requested"

\* A response is sent to the peer the inviter's record names, under its thread.
OutFits(a, rec, out) ==
  /\ out # NoMessage /\ out.type = "request" => out.thread[1] = out.from
  /\ out # NoMessage /\ out.type = "response" =>
       /\ a = Inviter
       /\ rec.state = "responded"
       /\ out.to = rec.theirKey
       /\ out.thread = ThreadId(rec.thread)

\* The record has the value the task holds, and lacks at most its thread.
ValueIsIn(a, rec) ==
  /\ record[a].state = rec.state
  /\ record[a].theirKey = rec.theirKey
  /\ \/ record[a].thread = rec.thread
     \/ /\ record[a].thread = NoThread
        /\ a = Inviter => rec.state = "requested"

\* No write comes between what a task read and what it stores.
TaskFits(a, t) ==
  /\ t.pc = "idle" => t = Idle
  /\ t.pc \in {"load", "send"} => t.rec = record[a]
  /\ t.pc = "store" => RecordFits(a, t.rec) /\ Follows(a, record[a], t.rec)
  /\ t.pc = "tags" => RecordFits(a, t.rec) /\ ValueIsIn(a, t.rec)
  /\ record[a].state = "none" => t.pc = "idle"
  /\ OutFits(a, t.rec, t.out)

MessageFits(m) ==
  /\ m.type = "request" => m.thread[1] = m.from
  /\ m.type = "response" => Bonded(m.to, m.thread)

\* An agent has at most one task.
OneTask == \A a \in Agents, s, r \in Slots : s # r => Free(a, s) \/ Free(a, r)

SerialInv ==
  /\ HandshakeInv
  /\ OneTask
  /\ \A a \in Agents : RecordFits(a, record[a])
  /\ \A a \in Agents, s \in Slots : TaskFits(a, task[a][s])
  /\ \A m \in DOMAIN net : MessageFits(m)

\* A task that is under way is the only one of its agent.
LEMMA BusyAlone ==
  ASSUME SerialInv, NEW a \in Agents, NEW s \in Slots, ~Free(a, s)
  PROVE  Alone(a, s)
BY DEF SerialInv, OneTask, Alone

\* The second write makes the record what the task holds.
LEMMA TagsMakeWhole ==
  ASSUME SerialInv, NEW a \in Agents, NEW s \in Slots, StoreTags(a, s)
  PROVE  record' = [record EXCEPT ![a] = task[a][s].rec]
<1> PICK t \in Task : t = task[a][s]
  BY DEF SerialInv, HandshakeInv, TypeOK
<1>1. ValueIsIn(a, t.rec) /\ t.rec \in Record
  BY DEF SerialInv, TaskFits, StoreTags, Task
<1> PICK old \in Record : old = record[a]
  BY DEF SerialInv, HandshakeInv, TypeOK
<1> PICK thread : thread = IF t.rec.thread = NoThread THEN old.thread ELSE t.rec.thread
  OBVIOUS
<1> PICK rec : rec = [old EXCEPT !.thread = thread]
  OBVIOUS
<1>2. rec = t.rec
  <2>1. thread = t.rec.thread
    BY <1>1 DEF ValueIsIn
  <2>2. rec.state = t.rec.state /\ rec.theirKey = t.rec.theirKey /\ rec.thread = t.rec.thread
    BY <1>1, <2>1 DEF ValueIsIn, Record
  <2>3. rec \in Record
    BY <1>1, <2>1 DEF Record
  <2> QED BY <1>1, <2>2, <2>3 DEF Record
<1>3. record' = [record EXCEPT ![a] = rec]
  BY DEF StoreTags, SerialInv, HandshakeInv, TypeOK
<1> QED BY <1>2, <1>3

\* The states are ordered.
LEMMA RankOf == \A st \in States : Rank[st] \in Nat
BY DEF Rank, States

\* What a write makes of the record of its agent.
LEMMA WrittenFits ==
  ASSUME SerialInv, [Next]_vars, NEW a \in Agents, NEW s \in Slots,
         StoreValue(a, s) \/ StoreTags(a, s)
  PROVE  /\ record' = [record EXCEPT ![a] = record'[a]]
         /\ record'[a].state = task[a][s].rec.state
         /\ record'[a].theirKey = task[a][s].rec.theirKey
         /\ StoreValue(a, s) => record'[a].thread = record[a].thread
         /\ StoreTags(a, s) => record'[a] = task[a][s].rec
         /\ Advances(record[a], record'[a])
<1>0. record \in [Agents -> Record]
  BY DEF SerialInv, HandshakeInv, TypeOK
<1> PICK t \in Task : t = task[a][s]
  BY DEF SerialInv, HandshakeInv, TypeOK
<1>1. TaskFits(a, t) /\ t.rec \in Record
  BY DEF SerialInv, Task
<1>2. CASE StoreValue(a, s)
  <2> PICK rec \in Record : rec = [t.rec EXCEPT !.thread = record[a].thread]
    BY <1>0, <1>1 DEF Record
  <2>1. /\ rec.state = t.rec.state /\ rec.theirKey = t.rec.theirKey
        /\ rec.thread = record[a].thread
    BY <1>1 DEF Record
  <2>2. record' = [record EXCEPT ![a] = rec] /\ t.pc = "store"
    BY <1>2 DEF StoreValue
  <2>3. record'[a] = rec
    BY <1>0, <2>2
  <2>4. ~StoreTags(a, s)
    BY <2>2 DEF StoreTags
  <2> QED BY <1>1, <2>1, <2>2, <2>3, <2>4 DEF TaskFits, Follows, Advances
<1>3. CASE StoreTags(a, s)
  <2>1. record' = [record EXCEPT ![a] = t.rec] /\ t.pc = "tags"
    BY <1>3, TagsMakeWhole DEF StoreTags
  <2>2. record'[a] = t.rec
    BY <1>0, <2>1
  <2>3. ~StoreValue(a, s)
    BY <2>1 DEF StoreValue
  <2>4. Advances(record[a], t.rec)
    BY <1>0, <1>1, <2>1, RankOf DEF TaskFits, ValueIsIn, Advances, Record
  <2> QED BY <2>1, <2>2, <2>3, <2>4
<1> QED BY <1>2, <1>3

\* A connection of the inviter is never replaced.
LEMMA BondedStable ==
  ASSUME SerialInv, [Next]_vars, NEW i \in Agents, NEW thread, Bonded(i, thread)
  PROVE  Bonded(i, thread)'
<1>0. /\ Inviter \in Agents /\ record \in [Agents -> Record] /\ i # NoKey
      /\ Inviter \notin Invitees
  BY AgentsAssumption DEF SerialInv, HandshakeInv, TypeOK, Agents
<1>1. CASE UNCHANGED record
  BY <1>1 DEF Bonded
<1>2. CASE CreateConnection
  BY <1>2 DEF CreateConnection, Bonded, IsReady
<1>3. ASSUME NEW j \in Invitees, NEW s \in Slots, ReceiveInvitation(j, s)
      PROVE  Bonded(i, thread)'
  <2>1. record'[Inviter] = record[Inviter]
    BY <1>0, <1>3 DEF ReceiveInvitation, ProcessInvitation
  <2> QED BY <2>1 DEF Bonded
<1>4. ASSUME NEW a \in Agents, NEW s \in Slots, StoreValue(a, s) \/ StoreTags(a, s)
      PROVE  Bonded(i, thread)'
  <2> PICK t \in Task : t = task[a][s]
    BY DEF SerialInv, HandshakeInv, TypeOK
  <2> PICK new : new = record'[a]
    OBVIOUS
  <2>1. record' = [record EXCEPT ![a] = new] /\ Advances(record[a], new)
    BY <1>4, WrittenFits
  <2>2. CASE a # Inviter
    <3>1. record'[Inviter] = record[Inviter]
      BY <1>0, <2>1, <2>2
    <3> QED BY <3>1 DEF Bonded
  <2>3. CASE a = Inviter
    <3> PICK old \in Record : old = record[Inviter]
      BY <1>0
    <3>1. new.state = t.rec.state /\ t.rec.state \in States
      BY <1>4, WrittenFits DEF Task, Record
    <3>2. IsReady(new) /\ new.theirKey = i
      BY <1>0, <2>1, <2>3, <3>1 DEF Bonded, Advances, IsReady, Rank, States
    <3>3. new.thread = old.thread
      <4>1. CASE StoreValue(a, s)
        BY <2>3, <4>1, WrittenFits
      <4>2. CASE StoreTags(a, s)
        <5>1. t.pc = "tags" /\ TaskFits(a, t)
          BY <4>2 DEF SerialInv, StoreTags
        <5>2. ValueIsIn(a, t.rec)
          BY <5>1 DEF TaskFits
        <5>3. new = t.rec
          BY <4>2, WrittenFits
        <5>4. t.rec.state # "requested"
          BY <3>2, <5>3 DEF IsReady
        <5> QED BY <2>3, <5>2, <5>3, <5>4 DEF ValueIsIn
      <4> QED BY <1>4, <4>1, <4>2
    <3> QED BY <2>3, <3>2, <3>3 DEF Bonded
  <2> QED BY <2>2, <2>3
<1> QED BY <1>1, <1>2, <1>3, <1>4, WhoWrites

\* What fits a record once fits it for good: a connection of the inviter stays.
LEMMA RecordFitsStable ==
  ASSUME SerialInv, [Next]_vars, NEW a \in Agents, NEW rec, RecordFits(a, rec)
  PROVE  RecordFits(a, rec)'
<1>1. Bonded(a, rec.thread) => Bonded(a, rec.thread)'
  BY BondedStable
<1> QED BY <1>1 DEF RecordFits

\* A message in transit stays as good as it was when it was sent.
LEMMA MessageFitsStable ==
  ASSUME SerialInv, [Next]_vars, NEW m \in Message, MessageFits(m)
  PROVE  MessageFits(m)'
<1>1. m.to \in Agents
  BY DEF Message
<1>2. Bonded(m.to, m.thread) => Bonded(m.to, m.thread)'
  BY <1>1, BondedStable
<1> QED BY <1>2 DEF MessageFits

\* A task that goes on fits as before when its agent's record is not written.
LEMMA TaskFitsStable ==
  ASSUME SerialInv, [Next]_vars, NEW a \in Agents, NEW t, TaskFits(a, t),
         record'[a] = record[a]
  PROVE  TaskFits(a, t)'
<1>1. RecordFits(a, t.rec) => RecordFits(a, t.rec)'
  BY RecordFitsStable
<1> QED BY <1>1 DEF TaskFits, ValueIsIn

\* An idle task fits any record.
LEMMA IdleFits == ASSUME NEW a PROVE TaskFits(a, Idle)
BY NoMessageAssumption DEF TaskFits, OutFits, Idle

LEMMA IdleFitsNext == ASSUME NEW a PROVE TaskFits(a, Idle)'
BY NoMessageAssumption DEF TaskFits, OutFits, Idle

\* One slot of an agent acts: what it does to its own record and task, and the messages
\* it sends, is all that has to be looked at.
LEMMA SerialStep ==
  ASSUME SerialInv, [Next]_vars, NEW a \in Agents, NEW s \in Slots, NEW t,
         Alone(a, s),
         task' = [task EXCEPT ![a][s] = t],
         \A b \in Agents : b # a => record'[b] = record[b],
         RecordFits(a, record[a])',
         TaskFits(a, t)',
         \A m \in DOMAIN net' \ DOMAIN net : MessageFits(m)'
  PROVE  SerialInv'
<1>0. task \in [Agents -> [Slots -> Task]]
  BY DEF SerialInv, HandshakeInv, TypeOK
<1>1. HandshakeInv'
  BY NextInv DEF SerialInv
<1>2. ASSUME NEW b \in Agents
      PROVE  RecordFits(b, record[b])'
  <2>1. CASE b = a
    BY <2>1
  <2>2. CASE b # a
    <3> PICK rec : rec = record[b]
      OBVIOUS
    <3>1. RecordFits(b, rec)'
      BY RecordFitsStable DEF SerialInv
    <3> QED BY <2>2, <3>1
  <2> QED BY <2>1, <2>2
<1>3. \A b \in Agents, r \in Slots :
        task'[b][r] = IF b = a /\ r = s THEN t ELSE task[b][r]
  BY <1>0
<1>4. ASSUME NEW b \in Agents, NEW r \in Slots
      PROVE  TaskFits(b, task[b][r])'
  <2> PICK u : u = task[b][r]
    OBVIOUS
  <2>1. CASE b = a /\ r = s
    BY <1>3, <2>1
  <2>2. CASE b = a /\ r # s
    <3>1. u = Idle
      BY <2>2 DEF Alone, Free, SerialInv, TaskFits
    <3> QED BY <1>3, <2>2, <3>1, IdleFitsNext
  <2>3. CASE b # a
    <3>1. TaskFits(b, u)'
      BY <2>3, TaskFitsStable DEF SerialInv
    <3> QED BY <1>3, <2>3, <3>1
  <2> QED BY <2>1, <2>2, <2>3
<1>5. ASSUME NEW m \in DOMAIN net'
      PROVE  MessageFits(m)'
  <2>1. CASE m \in DOMAIN net
    BY <2>1, MessageFitsStable DEF SerialInv, HandshakeInv, TypeOK
  <2> QED BY <2>1
<1>6. OneTask'
  BY <1>3 DEF OneTask, Alone, Free, SerialInv
<1> QED BY <1>1, <1>2, <1>4, <1>5, <1>6 DEF SerialInv

\* No agent acts, or one makes its record: messages are lost or doubled.
LEMMA SerialSame ==
  ASSUME SerialInv, [Next]_vars, UNCHANGED <<record, task>>,
         \A m \in DOMAIN net' \ DOMAIN net : MessageFits(m)'
  PROVE  SerialInv'
<1>1. HandshakeInv'
  BY NextInv DEF SerialInv
<1>2. ASSUME NEW b \in Agents
      PROVE  RecordFits(b, record[b])'
  <2> PICK rec : rec = record[b]
    OBVIOUS
  <2>1. RecordFits(b, rec)'
    BY RecordFitsStable DEF SerialInv
  <2> QED BY <2>1
<1>3. ASSUME NEW b \in Agents, NEW r \in Slots
      PROVE  TaskFits(b, task[b][r])'
  <2> PICK u : u = task[b][r]
    OBVIOUS
  <2>1. TaskFits(b, u)'
    BY TaskFitsStable DEF SerialInv
  <2> QED BY <2>1
<1>4. ASSUME NEW m \in DOMAIN net'
      PROVE  MessageFits(m)'
  <2>1. CASE m \in DOMAIN net
    BY <2>1, MessageFitsStable DEF SerialInv, HandshakeInv, TypeOK
  <2> QED BY <2>1
<1>5. OneTask'
  BY DEF OneTask, Free, SerialInv
<1> QED BY <1>1, <1>2, <1>3, <1>4, <1>5 DEF SerialInv

\* A step that ends a task, or one that gives it a new content, without a write.
LEMMA SerialTask ==
  ASSUME SerialInv, [Next]_vars, NEW a \in Agents, NEW s \in Slots, Alone(a, s), NEW t,
         task' = [task EXCEPT ![a][s] = t],
         UNCHANGED record,
         TaskFits(a, t),
         \A m \in DOMAIN net' \ DOMAIN net : MessageFits(m)'
  PROVE  SerialInv'
<1> PICK rec : rec = record[a]
  OBVIOUS
<1>1. RecordFits(a, rec)'
  BY RecordFitsStable DEF SerialInv
<1>2. TaskFits(a, t)'
  BY TaskFitsStable
<1> QED BY <1>1, <1>2, SerialStep

\* SerialTask for a task that ends.
LEMMA SerialEnd ==
  ASSUME SerialInv, [Next]_vars, NEW a \in Agents, NEW s \in Slots, Alone(a, s), End(a, s),
         UNCHANGED record,
         \A m \in DOMAIN net' \ DOMAIN net : MessageFits(m)'
  PROVE  SerialInv'
BY IdleFits, SerialTask DEF End

\* SerialTask for a task that is about to write what follows from the record.
LEMMA SerialWrite ==
  ASSUME SerialInv, [Next]_vars, NEW a \in Agents, NEW s \in Slots, Alone(a, s),
         NEW rec, NEW op, NEW out, Write(a, s, rec, op, out),
         UNCHANGED record,
         RecordFits(a, rec),
         Follows(a, record[a], rec),
         record[a].state # "none",
         OutFits(a, rec, out),
         DOMAIN net' \subseteq DOMAIN net
  PROVE  SerialInv'
<1> PICK t : t = [pc |-> "store", op |-> op, rec |-> rec, out |-> out]
  OBVIOUS
<1>1. TaskFits(a, t)
  BY DEF TaskFits
<1> QED BY <1>1, SerialTask DEF Write

\* Advancing the state of a record as the create operations and the last handlers do.
LEMMA Advance ==
  ASSUME SerialInv, NEW a \in Agents, NEW st \in States,
         \/ st = "requested" /\ record[a].state = "invited" /\ a # Inviter
         \/ st = "responded" /\ record[a].state = "requested" /\ a = Inviter
         \/ st = "complete" /\ IsReady(record[a])
  PROVE  LET rec == [record[a] EXCEPT !.state = st] IN
         /\ RecordFits(a, rec)
         /\ Follows(a, record[a], rec)
         /\ record[a].state # "none"
         /\ rec.state = st /\ rec.theirKey = record[a].theirKey /\ rec.thread = record[a].thread
<1> PICK old \in Record : old = record[a]
  BY DEF SerialInv, HandshakeInv, TypeOK
<1> PICK rec \in Record : rec = [old EXCEPT !.state = st]
  BY DEF Record
<1>1. rec.state = st /\ rec.theirKey = old.theirKey /\ rec.thread = old.thread
  BY DEF Record
<1>2. RecordFits(a, old)
  BY DEF SerialInv
<1>3. RecordFits(a, rec)
  <2>1. ~(rec.state \in {"none", "invited"}) /\ (a = Inviter \/ old.state = "invited" \/ IsReady(old))
    BY <1>1
  <2>2. a # Inviter => (IsReady(rec) <=> IsReady(old))
    BY <1>1 DEF IsReady
  <2> QED BY <1>1, <1>2, <2>1, <2>2 DEF RecordFits
<1>4. Follows(a, old, rec)
  BY <1>1 DEF Follows, Advances, Rank, States, IsReady
<1> QED BY <1>1, <1>3, <1>4 DEF IsReady

\* The service's create operations, called with the record just read.
LEMMA SerialCreate ==
  ASSUME SerialInv, [Next]_vars, NEW a \in Agents, NEW s \in Slots, Alone(a, s),
         NEW m \in Message,
         UNCHANGED record, DOMAIN net' \subseteq DOMAIN net,
         \/ /\ CreateRequest(a, s, m)
            /\ m.type = "request"
            /\ m.thread[1] = m.from
         \/ CreateResponse(a, s, record[a])
         \/ CreateTrustPing(a, s, record[a])
  PROVE  SerialInv'
<1>1. CASE CreateRequest(a, s, m) /\ m.type = "request" /\ m.thread[1] = m.from
  <2>1. record[a].state = "invited" /\ a # Inviter
    BY <1>1, AgentsAssumption DEF CreateRequest, MayRequest
  <2> PICK rec : rec = [record[a] EXCEPT !.state = "requested"]
    OBVIOUS
  <2>2. RecordFits(a, rec) /\ Follows(a, record[a], rec)
    BY <2>1, Advance DEF States
  <2>3. OutFits(a, rec, m)
    BY <1>1 DEF OutFits
  <2> QED BY <1>1, <2>1, <2>2, <2>3, SerialWrite DEF CreateRequest
<1>2. CASE CreateResponse(a, s, record[a])
  <2>1. record[a].state = "requested" /\ a = Inviter
    BY <1>2 DEF CreateResponse, MayRespond
  <2> PICK rec : rec = [record[a] EXCEPT !.state = "responded"]
    OBVIOUS
  <2>2. /\ RecordFits(a, rec) /\ Follows(a, record[a], rec)
        /\ rec.state = "responded"
        /\ rec.theirKey = record[a].theirKey
        /\ rec.thread = record[a].thread
    BY <2>1, Advance DEF States
  <2> PICK id : id = ThreadId(record[a].thread)
    OBVIOUS
  <2> PICK out : out = Outbound("response", a, record[a], id)
    OBVIOUS
  <2>3. OutFits(a, rec, out)
    BY <2>1, <2>2 DEF OutFits, Outbound, Msg
  <2> QED BY <1>2, <2>1, <2>2, <2>3, SerialWrite DEF CreateResponse
<1>3. CASE CreateTrustPing(a, s, record[a])
  <2>1. IsReady(record[a])
    BY <1>3 DEF CreateTrustPing, MayPing
  <2> PICK rec : rec = [record[a] EXCEPT !.state = "complete"]
    OBVIOUS
  <2>2. RecordFits(a, rec) /\ Follows(a, record[a], rec) /\ record[a].state # "none"
    BY <2>1, Advance DEF States
  <2> PICK out : out = Outbound("ping", a, record[a], NoThread)
    OBVIOUS
  <2>3. OutFits(a, rec, out)
    BY DEF OutFits, Outbound, Msg
  <2> QED BY <1>3, <2>2, <2>3, SerialWrite DEF CreateTrustPing
<1> QED BY <1>1, <1>2, <1>3

\* An accept call of the API keeps the invariant.
LEMMA SerialCall ==
  ASSUME SerialInv, [Next]_vars, serial', NEW a \in Agents, NEW s \in Slots,
         AcceptInvitation(a, s) \/ AcceptRequest(a, s) \/ AcceptResponse(a, s)
  PROVE  SerialInv'
<1>1. /\ UNCHANGED <<record, net>>
      /\ calls'[a] \in 1..MaxCalls
      /\ Alone(a, s)
  BY BoundsAssumption, BeginAlone
  DEF AcceptInvitation, AcceptRequest, AcceptResponse, Call, SerialInv, HandshakeInv, TypeOK
<1>2. CASE AcceptInvitation(a, s)
  <2>1. a \in Invitees /\ <<a, calls'[a]>> \in RequestIds
    BY <1>1, <1>2 DEF AcceptInvitation, CreateRequest, MayRequest, RequestIds
  <2> PICK m \in Message : m = Msg("request", a, Inviter, <<a, calls'[a]>>)
    BY <2>1, MsgType DEF MessageTypes, Agents, Threads
  <2>2. m.type = "request" /\ m.thread[1] = m.from /\ CreateRequest(a, s, m)
    BY <1>2 DEF Msg, AcceptInvitation
  <2> QED BY <1>1, <2>2, SerialCreate
<1>3. CASE AcceptRequest(a, s) \/ AcceptResponse(a, s)
  <2> PICK m \in Message : m = Msg("ping", a, a, NoThread)
    BY MsgType DEF MessageTypes, Threads
  <2>1. CreateResponse(a, s, record[a]) \/ CreateTrustPing(a, s, record[a])
    BY <1>3 DEF AcceptRequest, AcceptResponse
  <2> QED BY <1>1, <2>1, SerialCreate
<1> QED BY <1>2, <1>3

\* A handler keeps it: requests and responses bring the key of the agent they name.
LEMMA SerialHandle ==
  ASSUME SerialInv, [Next]_vars, serial', NEW a \in Agents, NEW s \in Slots, Handle(a, s)
  PROVE  SerialInv'
<1> PICK m \in DOMAIN net :
         \/ ProcessRequest(a, s, m) \/ ProcessResponse(a, s, m)
         \/ ProcessPing(a, s, m) \/ ProcessAck(a, s, m) \/ Refuse(a, s, m)
    BY DEF Handle
<1>1. Receive(a, s, m)
  BY DEF ProcessRequest, ProcessResponse, ProcessPing, ProcessAck, Refuse
<1>2. /\ UNCHANGED record /\ DOMAIN net' \subseteq DOMAIN net /\ m.to = a
      /\ Alone(a, s)
  BY <1>1, TakeDomain, BeginAlone DEF Receive
<1>3. RecordFits(a, record[a]) /\ MessageFits(m)
  BY DEF SerialInv
<1>4. m.from # NoKey
  BY AgentsAssumption DEF SerialInv, HandshakeInv, TypeOK, Message, Agents
<1>5. CASE ProcessRequest(a, s, m)
  <2> PICK rec : rec = [state |-> "requested", theirKey |-> m.from, thread |-> m.thread]
    OBVIOUS
  <2>1. m.type = "request" /\ record[a].state = "invited" /\ a = Inviter
    BY <1>5 DEF ProcessRequest, CanProcessRequest
  <2>2. RecordFits(a, rec)
    BY <1>3, <1>4, <2>1 DEF RecordFits, MessageFits
  <2>3. Follows(a, record[a], rec)
    BY <1>3, <2>1 DEF RecordFits, Follows, Advances, Rank
  <2>4. OutFits(a, rec, NoMessage)
    BY DEF OutFits
  <2> QED BY <1>2, <1>5, <2>1, <2>2, <2>3, <2>4, SerialWrite DEF ProcessRequest
<1>6. CASE ProcessResponse(a, s, m)
  <2> PICK rec : rec = [state |-> "responded", theirKey |-> m.from, thread |-> m.thread]
    OBVIOUS
  <2>1. /\ m.type = "response" /\ m.from = Inviter
        /\ record[a].state = "requested" /\ a # Inviter
    BY <1>6, AgentsAssumption DEF ProcessResponse, CanProcessResponse
  <2>2. RecordFits(a, rec)
    BY <1>2, <1>3, <1>4, <2>1 DEF RecordFits, MessageFits, IsReady
  <2>3. Follows(a, record[a], rec)
    BY <1>3, <2>1 DEF RecordFits, Follows, Advances, Rank, IsReady
  <2>4. OutFits(a, rec, NoMessage)
    BY DEF OutFits
  <2> QED BY <1>2, <1>6, <2>1, <2>2, <2>3, <2>4, SerialWrite DEF ProcessResponse
<1>7. CASE ProcessPing(a, s, m)
  <2> PICK out : out = Outbound("pingResponse", a, record[a], m.thread)
    OBVIOUS
  <2>1. \A rec : OutFits(a, rec, out)
    BY DEF OutFits, Outbound, Msg
  <2>2. record[a].state # "none"
    BY <1>7 DEF ProcessPing, CanProcessPing, Known
  <2>3. CASE /\ record[a].state = "responded"
             /\ Write(a, s, [record[a] EXCEPT !.state = "complete"], "none", out)
    <3> PICK rec : rec = [record[a] EXCEPT !.state = "complete"]
      OBVIOUS
    <3>1. RecordFits(a, rec) /\ Follows(a, record[a], rec)
      BY <2>3, Advance DEF States, IsReady
    <3> QED BY <1>2, <2>1, <2>2, <2>3, <3>1, SerialWrite
  <2>4. CASE task' = [task EXCEPT ![a][s] =
                        [pc |-> "send", op |-> "none", rec |-> record[a], out |-> out]]
    <3> PICK t : t = [pc |-> "send", op |-> "none", rec |-> record[a], out |-> out]
      OBVIOUS
    <3>1. TaskFits(a, t)
      BY <2>1, <2>2 DEF TaskFits
    <3> QED BY <1>2, <2>4, <3>1, SerialTask
  <2>5. CASE UNCHANGED task
    BY <1>2, <2>5, SerialSame
  <2> QED BY <1>7, <2>3, <2>4, <2>5 DEF ProcessPing
<1>8. CASE ProcessAck(a, s, m)
  <2>1. record[a].state = "responded"
    BY <1>8 DEF ProcessAck, CanProcessAck
  <2> PICK rec : rec = [record[a] EXCEPT !.state = "complete"]
    OBVIOUS
  <2>2. RecordFits(a, rec) /\ Follows(a, record[a], rec)
    BY <2>1, Advance DEF States, IsReady
  <2>3. OutFits(a, rec, NoMessage)
    BY DEF OutFits
  <2> QED BY <1>2, <1>8, <2>1, <2>2, <2>3, SerialWrite DEF ProcessAck
<1>9. CASE Refuse(a, s, m)
  BY <1>2, <1>9, SerialSame DEF Refuse
<1> QED BY <1>5, <1>6, <1>7, <1>8, <1>9

\* The first write keeps it: the record is still the one the task read, and gets the
\* value of the one the task holds.
LEMMA SerialStoreValue ==
  ASSUME SerialInv, [Next]_vars, NEW a \in Agents, NEW s \in Slots, StoreValue(a, s)
  PROVE  SerialInv'
<1>0. TypeOK
  BY DEF SerialInv, HandshakeInv
<1> PICK t \in Task : t = task[a][s]
  BY <1>0 DEF TypeOK
<1> PICK old \in Record : old = record[a]
  BY <1>0 DEF TypeOK
<1>1. t.pc = "store" /\ net' = net /\ task' = [task EXCEPT ![a][s].pc = "tags"]
  BY DEF StoreValue
<1>2. TaskFits(a, t) /\ SafeTask(a, t) /\ RecordFits(a, old) /\ t.rec \in Record
  BY DEF SerialInv, HandshakeInv, TaskInv, Task
<1>3. RecordFits(a, t.rec) /\ Follows(a, old, t.rec)
  BY <1>1, <1>2 DEF TaskFits
<1> PICK new : new = record'[a]
  OBVIOUS
<1>4. /\ record' = [record EXCEPT ![a] = new]
      /\ new.state = t.rec.state /\ new.theirKey = t.rec.theirKey /\ new.thread = old.thread
  BY WrittenFits
<1>5. \A b \in Agents : b # a => record'[b] = record[b]
  BY <1>0, <1>4 DEF TypeOK
<1>6. /\ old.theirKey = NoKey => old.thread = NoThread
      /\ old.theirKey # NoKey => t.rec.theirKey = old.theirKey /\ t.rec.thread = old.thread
      /\ a = Inviter /\ t.rec.thread # old.thread => t.rec.state = "requested"
  BY <1>2, <1>3 DEF RecordFits, Follows, Advances
<1>7. RecordFits(a, new)
  <2>1. CASE new.thread = t.rec.thread
    BY <1>3, <1>4, <2>1 DEF RecordFits, IsReady
  <2>2. CASE new.thread = NoThread
    BY <1>3, <1>4, <2>2 DEF RecordFits, IsReady, Bonded
  <2> QED BY <1>4, <1>6, <2>1, <2>2
<1>8. ValueIsIn(a, t.rec)'
  BY <1>4, <1>6 DEF ValueIsIn
<1>9. RecordFits(a, new)' /\ RecordFits(a, t.rec)'
  BY <1>3, <1>7, RecordFitsStable
<1>10. t.rec.state # "none"
  BY <1>1, <1>2 DEF SafeTask
<1> PICK u \in Task : u = [t EXCEPT !.pc = "tags"]
  BY DEF Task
<1>11. u.pc = "tags" /\ u.rec = t.rec /\ u.out = t.out /\ task' = [task EXCEPT ![a][s] = u]
  BY <1>0, <1>1 DEF Task, TypeOK
<1>12. TaskFits(a, u)'
  BY <1>2, <1>4, <1>8, <1>9, <1>10, <1>11 DEF TaskFits, OutFits
<1>13. Alone(a, s)
  BY <1>1, BusyAlone DEF Free
<1> QED BY <1>1, <1>5, <1>9, <1>11, <1>12, <1>13, SerialStep

\* The second write keeps it: now the record is what the task holds.
LEMMA SerialStoreTags ==
  ASSUME SerialInv, [Next]_vars, NEW a \in Agents, NEW s \in Slots, StoreTags(a, s)
  PROVE  SerialInv'
<1>0. TypeOK
  BY DEF SerialInv, HandshakeInv
<1> PICK t \in Task : t = task[a][s]
  BY <1>0 DEF TypeOK
<1>1. t.pc = "tags" /\ net' = net
  BY DEF StoreTags
<1>2. TaskFits(a, t)
  BY DEF SerialInv
<1>3. record' = [record EXCEPT ![a] = t.rec]
  BY TagsMakeWhole
<1>4. record'[a] = t.rec /\ \A b \in Agents : b # a => record'[b] = record[b]
  BY <1>0, <1>3 DEF TypeOK
<1>5. RecordFits(a, t.rec)'
  BY <1>1, <1>2, RecordFitsStable DEF TaskFits
<1>6. t.rec.state # "none"
  BY <1>1, <1>2 DEF TaskFits, ValueIsIn
<1>7. PICK u : task' = [task EXCEPT ![a][s] = u] /\ TaskFits(a, u)'
  <2>1. ASSUME NEW pc \in {"send", "load"}, task' = [task EXCEPT ![a][s].pc = pc]
        PROVE  \E u : task' = [task EXCEPT ![a][s] = u] /\ TaskFits(a, u)'
    <3> PICK u \in Task : u = [t EXCEPT !.pc = pc]
      BY DEF Task
    <3>1. u.pc = pc /\ u.rec = t.rec /\ u.out = t.out
      BY DEF Task
    <3>2. TaskFits(a, u)'
      BY <1>2, <1>4, <1>6, <2>1, <3>1 DEF TaskFits, OutFits
    <3>3. task' = [task EXCEPT ![a][s] = u]
      BY <1>0, <2>1 DEF TypeOK
    <3> QED BY <3>2, <3>3
  <2>2. CASE End(a, s)
    BY <2>2, IdleFitsNext DEF End
  <2> QED BY <2>1, <2>2 DEF StoreTags
<1>8. Alone(a, s)
  BY <1>1, BusyAlone DEF Free
<1>9. RecordFits(a, record[a])'
  BY <1>4, <1>5
<1> QED BY <1>1, <1>4, <1>7, <1>8, <1>9, SerialStep

\* The auto accept half of a handler keeps it: it goes on with the record it wrote.
LEMMA SerialAccept ==
  ASSUME SerialInv, [Next]_vars, NEW a \in Agents, NEW s \in Slots, Accept(a, s)
  PROVE  SerialInv'
<1> PICK t \in Task : t = task[a][s]
  BY DEF SerialInv, HandshakeInv, TypeOK
<1>1. t.pc = "load" /\ UNCHANGED <<record, net>>
  BY DEF Accept
<1>2. TaskFits(a, t) /\ SafeTask(a, t) /\ t.out \in Message \cup {NoMessage}
  BY DEF SerialInv, HandshakeInv, TaskInv, Task
<1>3. t.rec = record[a] /\ Alone(a, s)
  BY <1>1, <1>2, BusyAlone DEF TaskFits, Free
<1>4. CASE End(a, s)
  BY <1>1, <1>3, <1>4, SerialEnd
<1>5. CASE t.op = "createRequest" /\ CreateRequest(a, s, t.out)
  <2>1. t.out \in Message /\ t.out.type = "request" /\ t.out.thread[1] = t.out.from
    BY <1>2, <1>5 DEF SafeTask, TaskFits, OutFits
  <2> QED BY <1>1, <1>3, <1>5, <2>1, SerialCreate
<1>6. CASE CreateResponse(a, s, t.rec) \/ CreateTrustPing(a, s, t.rec)
  <2> PICK m \in Message : m = Msg("ping", a, a, NoThread)
    BY MsgType DEF MessageTypes, Threads
  <2> QED BY <1>1, <1>3, <1>6, SerialCreate
<1> QED BY <1>4, <1>5, <1>6 DEF Accept

\* A response leaves when the inviter's record says responded, to the peer it names.
LEMMA SerialSend ==
  ASSUME SerialInv, [Next]_vars, NEW a \in Agents, NEW s \in Slots, Send(a, s)
  PROVE  SerialInv'
<1> PICK t \in Task : t = task[a][s]
  BY DEF SerialInv, HandshakeInv, TypeOK
<1>1. t.pc = "send" /\ UNCHANGED record /\ DOMAIN net' = DOMAIN net \cup {t.out}
  BY PutDomain DEF Send
<1>2. TaskFits(a, t) /\ t.out # NoMessage /\ t.out \in Message
  BY <1>1 DEF SerialInv, HandshakeInv, TaskInv, SafeTask, Task
<1>3. t.rec = record[a] /\ OutFits(a, t.rec, t.out) /\ Alone(a, s)
  BY <1>1, <1>2, BusyAlone DEF TaskFits, Free
<1>4. MessageFits(t.out)
  BY <1>2, <1>3 DEF OutFits, MessageFits, Bonded, IsReady, ThreadId
<1>5. MessageFits(t.out)'
  BY <1>2, <1>4, MessageFitsStable
<1>6. End(a, s)
  BY DEF Send
<1> QED BY <1>1, <1>3, <1>5, <1>6, SerialEnd

\* A new record, at the inviter or at an invitee, that no task knows yet.
LEMMA FreshRecord ==
  ASSUME SerialInv, [Next]_vars, NEW a \in Agents, record[a].state = "none",
         record' = [record EXCEPT ![a].state = "invited"]
  PROVE  /\ RecordFits(a, record[a])'
         /\ record'[a].state = "invited"
         /\ \A b \in Agents : b # a => record'[b] = record[b]
         /\ \A s \in Slots : task[a][s] = Idle
<1>0. TypeOK
  BY DEF SerialInv, HandshakeInv
<1> PICK old \in Record : old = record[a]
  BY <1>0 DEF TypeOK
<1> PICK rec : rec = [old EXCEPT !.state = "invited"]
  OBVIOUS
<1>1. /\ rec.state = "invited" /\ rec.theirKey = old.theirKey /\ rec.thread = old.thread
      /\ record'[a] = rec
  BY <1>0 DEF Record, TypeOK
<1>2. RecordFits(a, old)
  BY DEF SerialInv
<1>3. rec.theirKey = NoKey /\ rec.thread = NoThread
  BY <1>1, <1>2 DEF RecordFits
<1>4. RecordFits(a, rec)'
  BY <1>1, <1>3 DEF RecordFits, IsReady
<1>5. \A s \in Slots : TaskFits(a, task[a][s])
  BY DEF SerialInv
<1>6. \A s \in Slots : task[a][s] = Idle
  BY <1>5 DEF TaskFits
<1> QED BY <1>0, <1>1, <1>4, <1>6 DEF TypeOK

\* A process that stops, or a task that fails, leaves no task behind.
LEMMA SerialStop ==
  ASSUME SerialInv, [Next]_vars, NEW a \in Agents,
         Crash(a) \/ \E s \in Slots : Fail(a, s)
  PROVE  SerialInv'
<1>0. TypeOK
  BY DEF SerialInv, HandshakeInv
<1>1. PICK s \in Slots : task' = [task EXCEPT ![a][s] = Idle] /\ Alone(a, s)
  <2>1. CASE Crash(a)
    <3>1. PICK s \in Slots : ~Free(a, s)
      BY <2>1 DEF Crash
    <3>2. Alone(a, s)
      BY <3>1, BusyAlone
    <3>3. \A r \in Slots : r # s => task[a][r] = Idle
      BY <3>2 DEF Alone, Free, SerialInv, TaskFits
    <3>4. [r \in Slots |-> Idle] = [task[a] EXCEPT ![s] = Idle]
      BY <1>0, <3>3 DEF TypeOK
    <3>5. task' = [task EXCEPT ![a] = [task[a] EXCEPT ![s] = Idle]]
      BY <2>1, <3>4 DEF Crash
    <3>6. task' = [task EXCEPT ![a][s] = Idle]
      BY <1>0, <3>5 DEF TypeOK
    <3> QED BY <3>2, <3>6
  <2>2. ASSUME NEW s \in Slots, Fail(a, s)
        PROVE  task' = [task EXCEPT ![a][s] = Idle] /\ Alone(a, s)
    BY <2>2, BusyAlone DEF Fail, End
  <2> QED BY <2>1, <2>2
<1>2. UNCHANGED <<record, net>>
  BY DEF Crash, Fail
<1> QED BY <1>1, <1>2, IdleFits, SerialTask

\* New records, faults, and the steps that touch neither records nor tasks keep it.
LEMMA SerialOther ==
  ASSUME SerialInv, [Next]_vars, serial',
         \/ CreateConnection
         \/ \E i \in Invitees : PeerAck(i) \/ \E s \in Slots : ReceiveInvitation(i, s)
         \/ \E a \in Agents : ReturnWhenIsConnected(a)
         \/ \E m \in DOMAIN net : Lose(m) \/ Duplicate(m)
         \/ UNCHANGED vars
  PROVE  SerialInv'
<1>0. TypeOK
  BY DEF SerialInv, HandshakeInv
<1>1. ASSUME NEW a \in Agents, record[a].state = "none",
             record' = [record EXCEPT ![a].state = "invited"],
             UNCHANGED <<task, net>>
      PROVE  SerialInv'
  <2>1. /\ RecordFits(a, record[a])'
        /\ \A b \in Agents : b # a => record'[b] = record[b]
        /\ \A s \in Slots : task[a][s] = Idle
    BY <1>1, FreshRecord
  <2>2. HandshakeInv' /\ OneTask'
    BY <1>1, NextInv DEF SerialInv, OneTask, Free
  <2>3. ASSUME NEW b \in Agents
        PROVE  RecordFits(b, record[b])'
    <3> PICK rec : rec = record[b]
      OBVIOUS
    <3>1. RecordFits(b, rec)'
      BY RecordFitsStable DEF SerialInv
    <3> QED BY <2>1, <3>1
  <2>4. ASSUME NEW b \in Agents, NEW r \in Slots
        PROVE  TaskFits(b, task[b][r])'
    <3>1. CASE b = a
      BY <1>1, <2>1, <3>1, IdleFitsNext
    <3>2. CASE b # a
      <4> PICK u : u = task[b][r]
        OBVIOUS
      <4>1. TaskFits(b, u)'
        BY <2>1, <3>2, TaskFitsStable DEF SerialInv
      <4> QED BY <1>1, <4>1
    <3> QED BY <3>1, <3>2
  <2>5. ASSUME NEW m \in DOMAIN net'
        PROVE  MessageFits(m)'
    BY <1>0, <1>1, MessageFitsStable DEF SerialInv, TypeOK
  <2> QED BY <2>2, <2>3, <2>4, <2>5 DEF SerialInv
<1>2. CASE CreateConnection
  BY <1>1, <1>2 DEF CreateConnection, CreateInvitation, Agents
<1>3. ASSUME NEW i \in Invitees, NEW s \in Slots, ReceiveInvitation(i, s)
      PROVE  SerialInv'
  <2>1. /\ i \in Agents
        /\ record[i].state = "none"
        /\ record' = [record EXCEPT ![i].state = "invited"]
        /\ UNCHANGED net
        /\ Alone(i, s)
    BY <1>3, BeginAlone DEF ReceiveInvitation, ProcessInvitation, Agents
  <2>2. CASE i \notin AutoAccept
    BY <1>1, <1>3, <2>1, <2>2 DEF ReceiveInvitation
  <2>3. CASE i \in AutoAccept
    <3> PICK m : m = Msg("request", i, Inviter, <<i, calls'[i]>>)
      OBVIOUS
    <3> PICK t : t = [pc |-> "load", op |-> "createRequest", rec |-> record'[i], out |-> m]
      OBVIOUS
    <3>1. task' = [task EXCEPT ![i][s] = t]
      BY <1>3, <2>3 DEF ReceiveInvitation
    <3>2. m.type = "request" /\ m.thread[1] = m.from
      BY DEF Msg
    <3>3. /\ RecordFits(i, record[i])'
          /\ record'[i].state = "invited"
          /\ \A b \in Agents : b # i => record'[b] = record[b]
      BY <2>1, FreshRecord
    <3>4. TaskFits(i, t)'
      BY <3>2, <3>3 DEF TaskFits, OutFits
    <3> QED BY <2>1, <3>1, <3>3, <3>4, SerialStep
  <2> QED BY <2>2, <2>3
<1>4. ASSUME NEW i \in Invitees, PeerAck(i)
      PROVE  SerialInv'
  <2> PICK m : m = Msg("ack", i, Inviter, NoThread)
    OBVIOUS
  <2>1. DOMAIN net' = DOMAIN net \cup {m} /\ UNCHANGED <<record, task>>
    BY <1>4, PutDomain DEF PeerAck
  <2>2. MessageFits(m)'
    BY DEF MessageFits, Msg
  <2> QED BY <2>1, <2>2, SerialSame
<1>5. ASSUME NEW a \in Agents, ReturnWhenIsConnected(a)
      PROVE  SerialInv'
  BY <1>5, SerialSame DEF ReturnWhenIsConnected
<1>6. ASSUME NEW m \in DOMAIN net, Lose(m) \/ Duplicate(m)
      PROVE  SerialInv'
  <2>1. net' \in {Take(net, m), Put(net, m)} /\ UNCHANGED <<record, task>>
    BY <1>6 DEF Lose, Duplicate
  <2>2. DOMAIN net' \subseteq DOMAIN net
    BY <1>6, <2>1, TakeDomain, PutDomain
  <2> QED BY <2>1, <2>2, SerialSame
<1>7. CASE UNCHANGED vars
  BY <1>7, SerialSame DEF vars
<1> QED BY <1>2, <1>3, <1>4, <1>5, <1>6, <1>7

\* Every step that overlaps no tasks keeps the invariant.
LEMMA SerialNext ==
  ASSUME SerialInv, [Next]_vars, serial'
  PROVE  SerialInv'
<1>1. ASSUME NEW a \in Agents, NEW s \in Slots,
             AcceptInvitation(a, s) \/ AcceptRequest(a, s) \/ AcceptResponse(a, s)
      PROVE  SerialInv'
  BY <1>1, SerialCall
<1>2. ASSUME NEW a \in Agents, NEW s \in Slots,
             Handle(a, s) \/ StoreValue(a, s) \/ StoreTags(a, s) \/ Accept(a, s) \/ Send(a, s)
      PROVE  SerialInv'
  BY <1>2, SerialHandle, SerialStoreValue, SerialStoreTags, SerialAccept, SerialSend
<1>3. ASSUME NEW a \in Agents, Crash(a) \/ \E s \in Slots : Fail(a, s)
      PROVE  SerialInv'
  BY <1>3, SerialStop
<1> QED
  BY <1>1, <1>2, <1>3, SerialOther DEF Next

\* It holds at the start.
LEMMA SerialInit == Init => SerialInv
<1> SUFFICES ASSUME Init PROVE SerialInv
  OBVIOUS
<1>1. HandshakeInv
  BY InitInv
<1>2. \A a \in Agents : RecordFits(a, record[a])
  BY DEF Init, RecordFits, Blank, IsReady
<1>3. \A a \in Agents, s \in Slots : TaskFits(a, task[a][s])
  BY IdleFits DEF Init
<1>4. \A m \in DOMAIN net : MessageFits(m)
  BY EmptyBagDomain DEF Init
<1>5. OneTask
  BY DEF Init, OneTask, Free, Idle
<1> QED BY <1>1, <1>2, <1>3, <1>4, <1>5 DEF SerialInv

\* While no agent has overlapped two tasks, whatever is lost, doubled, stopped or fails,
\* each task writes what follows from the record as it still is.
THEOREM SerialInvariant == Spec => [](serial => SerialInv)
<1>1. Init => HandshakeInv /\ (serial => SerialInv)
  BY InitInv, SerialInit
<1>2. HandshakeInv /\ (serial => SerialInv) /\ [Next]_vars
        => (HandshakeInv /\ (serial => SerialInv))'
  <2> SUFFICES ASSUME HandshakeInv, serial => SerialInv, [Next]_vars
               PROVE  HandshakeInv' /\ (serial' => SerialInv')
    OBVIOUS
  <2>1. HandshakeInv'
    BY NextInv
  <2>2. ASSUME serial' PROVE SerialInv'
    <3>1. serial
      BY <2>2, SerialBefore DEF HandshakeInv
    <3> QED BY <2>2, <3>1, SerialNext
  <2> QED BY <2>1, <2>2
<1> QED BY <1>1, <1>2, PTL DEF Spec

\* While no agent has overlapped two tasks, an invitee that considers the connection
\* ready is the one the inviter is connected to; they have it under the same thread,
\* unless one of them was stopped between the two writes of an update.
THEOREM AgentsAgree == Spec => []Agreement
<1>1. ASSUME HandshakeInv, serial => SerialInv PROVE Agreement
  <2> SUFFICES ASSUME SerialInv, NEW i \in Invitees, IsReady(record[i])
               PROVE  /\ IsReady(record[Inviter])
                      /\ record[Inviter].theirKey = i
                      /\ record[i].theirKey = Inviter
                      /\ Whole(i) /\ Whole(Inviter) =>
                           /\ record[i].thread = record[Inviter].thread
                           /\ record[i].thread[1] = i
    BY <1>1 DEF Agreement
  <2>1. i \in Agents /\ Inviter \in Agents /\ i # Inviter /\ i # NoKey
    BY AgentsAssumption DEF Agents
  <2>2. RecordFits(i, record[i]) /\ RecordFits(Inviter, record[Inviter])
    BY <2>1 DEF SerialInv
  <2>3. Bonded(i, record[i].thread) /\ record[i].theirKey = Inviter
    BY <2>1, <2>2 DEF RecordFits
  <2>4. ASSUME Whole(i), Whole(Inviter)
        PROVE  record[i].thread # NoThread /\ record[Inviter].thread # NoThread
    <3>1. ThreadComes(i) /\ ThreadComes(Inviter)
      BY <1>1, <2>1, <2>3 DEF HandshakeInv, RecordInv, NeedsPeer, Bonded
    <3> QED BY <2>4, <3>1 DEF ThreadComes, Whole
  <2> QED BY <2>1, <2>2, <2>3, <2>4 DEF Bonded, RecordFits
<1> QED BY <1>1, HandshakeInvariant, SerialInvariant, PTL

\* A write of the agent's only task goes forward from the record as it is.
LEMMA WritesFollow ==
  ASSUME SerialInv, [Next]_vars, NEW a \in Agents
  PROVE  Advances(record[a], record'[a])
<1>0. record \in [Agents -> Record]
  BY DEF SerialInv, HandshakeInv, TypeOK
<1>1. ASSUME record'[a] = record[a] PROVE Advances(record[a], record'[a])
  BY <1>0, <1>1, RankOf DEF Advances, Record
<1>2. ASSUME NEW b \in Agents, record[b].state = "none",
             record' = [record EXCEPT ![b].state = "invited"]
      PROVE  Advances(record[a], record'[a])
  <2> PICK old \in Record : old = record[b]
    BY <1>0
  <2> PICK rec : rec = [old EXCEPT !.state = "invited"]
    OBVIOUS
  <2>1. rec.state = "invited" /\ rec.theirKey = old.theirKey
    BY DEF Record
  <2>2. CASE a = b
    <3>1. record'[a] = rec
      BY <1>0, <1>2, <2>2
    <3> QED BY <1>2, <2>1, <2>2, <3>1 DEF Advances, Rank
  <2>3. CASE a # b
    BY <1>0, <1>1, <1>2, <2>3
  <2> QED BY <2>2, <2>3
<1>3. ASSUME NEW b \in Agents, NEW s \in Slots, StoreValue(b, s) \/ StoreTags(b, s)
      PROVE  Advances(record[a], record'[a])
  <2> PICK new : new = record'[b]
    OBVIOUS
  <2>1. record' = [record EXCEPT ![b] = new] /\ Advances(record[b], new)
    BY <1>3, WrittenFits
  <2> QED BY <1>0, <1>1, <2>1
<1>4. CASE CreateConnection
  BY <1>2, <1>4 DEF CreateConnection, CreateInvitation, Agents
<1>5. ASSUME NEW i \in Invitees, NEW s \in Slots, ReceiveInvitation(i, s)
      PROVE  Advances(record[a], record'[a])
  BY <1>2, <1>5 DEF ReceiveInvitation, ProcessInvitation, Agents
<1> QED BY <1>1, <1>3, <1>4, <1>5, WhoWrites

\* While no agent has overlapped two tasks no write takes a connection back to an earlier
\* state.
THEOREM StatesNeverRegress == Spec => NeverRegresses
<1>1. (serial => SerialInv) /\ [Next]_vars
        => [serial => \A a \in Agents : Rank[record[a].state] <= Rank[record'[a].state]]_record
  BY WritesFollow DEF Advances
<1> QED BY <1>1, SerialInvariant, PTL DEF Spec, NeverRegresses

\* While no agent has overlapped two tasks no message or call replaces the key of a peer.
THEOREM PeersAreFinal == Spec => PeerIsFinal
<1>1. (serial => SerialInv) /\ [Next]_vars
        => [serial => \A a \in Agents : record[a].theirKey # NoKey
                                          => record'[a].theirKey = record[a].theirKey]_record
  BY WritesFollow DEF Advances
<1> QED BY <1>1, SerialInvariant, PTL DEF Spec, PeerIsFinal
=============================================================================
