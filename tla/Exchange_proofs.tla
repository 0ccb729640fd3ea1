-------------------------- MODULE Exchange_proofs --------------------------
(***************************************************************************)
(* What the steps shared by the exchanges preserve: if every record object *)
(* an agent stores or holds is one of a set, and every message, they still *)
(* are after the step.                                                     *)
(***************************************************************************)
EXTENDS Exchange, SequenceTheorems, TLAPS

\* R[a] is the set of an agent's good record objects, M that of good messages.
Fit(PCs, R, M) ==
  /\ \A a \in Agents : records[a] \in Seq(R[a])
  /\ \A a \in Agents, s \in Slots :
       /\ task[a][s].pc \in {"save", "update"} \cup PCs => task[a][s].rec \in R[a]
       /\ task[a][s].out \in M \cup {Nothing}
       /\ task[a][s].pc = "send" => task[a][s].out # Nothing
  /\ DOMAIN net \subseteq M

Task(Record, Message, PCs) ==
  [pc: {"idle", "save", "update", "send"} \cup PCs, at: Nat,
   rec: Record \cup {Nothing}, out: Message \cup {Nothing}]

Counted ==
  /\ starts \in 0..MaxStarts
  /\ lastId \in 0..MaxIds
  /\ mishaps \in 0..MaxFaults
  /\ happened \subseteq FaultKinds

\* Records and messages have their types, and are good.
Held(Record, Message, PCs, R, M) ==
  /\ M \subseteq Message
  /\ \A a \in Agents : R[a] \subseteq Record
  /\ PCs \cap {"idle", "send"} = {}
  /\ ExchangeTypeOK(Record, Message, PCs)
  /\ Fit(PCs, R, M)

\* A task that has begun with what is good.
Good(t, Record, Message, PCs, R, M, a) ==
  /\ t \in Task(Record, Message, PCs)
  /\ t.pc \in {"save", "update"} \cup PCs => t.rec \in R[a]
  /\ t.out \in M \cup {Nothing}
  /\ t.pc = "send" => t.out # Nothing

-----------------------------------------------------------------------------
LEMMA PutIn ==
  ASSUME NEW bag, NEW m
  PROVE  DOMAIN Put(bag, m) = DOMAIN bag \cup {m}
BY DEF Put, (+), SetToBag

LEMMA TakeOut ==
  ASSUME NEW bag, NEW m
  PROVE  DOMAIN Take(bag, m) \subseteq DOMAIN bag
BY DEF Take, (-), SetToBag

LEMMA EmptyNet == DOMAIN EmptyBag = {}
BY DEF EmptyBag, SetToBag

LEMMA StrikesCount ==
  ASSUME Counted, UNCHANGED <<starts, lastId>>,
         Quiet \/ \E kind \in FaultKinds : Strikes(kind)
  PROVE  Counted'
BY BoundsAssumption DEF Counted, Quiet, Strikes

\* One task changes, and the records do not.
LEMMA TaskStep ==
  ASSUME NEW CONSTANT Record, NEW CONSTANT Message, NEW CONSTANT PCs,
         NEW CONSTANT R, NEW CONSTANT M, Held(Record, Message, PCs, R, M),
         NEW a \in Agents, NEW s \in Slots, NEW t,
         Good(t, Record, Message, PCs, R, M, a),
         task' = [task EXCEPT ![a][s] = t],
         UNCHANGED records, DOMAIN net' \subseteq M, Counted'
  PROVE  Held(Record, Message, PCs, R, M)'
<1>0. /\ M \subseteq Message /\ \A b \in Agents : R[b] \subseteq Record
      /\ PCs \cap {"idle", "send"} = {}
      /\ ExchangeTypeOK(Record, Message, PCs) /\ Fit(PCs, R, M)
  BY DEF Held
<1>1. task' \in [Agents -> [Slots -> Task(Record, Message, PCs)]]
  BY <1>0 DEF ExchangeTypeOK, Task, Good
<1>2. \A b \in Agents, q \in Slots :
        task'[b][q] = IF b = a /\ q = s THEN t ELSE task[b][q]
  BY <1>0 DEF ExchangeTypeOK
<1>3. ExchangeTypeOK(Record, Message, PCs)'
  BY <1>0, <1>1 DEF ExchangeTypeOK, Task, Counted
<1>4. Fit(PCs, R, M)'
  BY <1>0, <1>2 DEF Fit, Good
<1> QED BY <1>0, <1>3, <1>4 DEF Held

LEMMA SaveStep ==
  ASSUME NEW CONSTANT Record, NEW CONSTANT Message, NEW CONSTANT PCs,
         NEW CONSTANT R, NEW CONSTANT M, Held(Record, Message, PCs, R, M),
         NEW a \in Agents, NEW s \in Slots, SaveRecord(a, s)
  PROVE  Held(Record, Message, PCs, R, M)'
<1>0. /\ M \subseteq Message /\ \A b \in Agents : R[b] \subseteq Record
      /\ PCs \cap {"idle", "send"} = {}
      /\ ExchangeTypeOK(Record, Message, PCs) /\ Fit(PCs, R, M)
  BY DEF Held
<1>1. /\ records' = [records EXCEPT ![a] = Append(records[a], task[a][s].rec)]
      /\ task' = [task EXCEPT ![a][s] = Idle]
      /\ UNCHANGED <<net, starts, lastId, mishaps, happened>>
  BY <1>0 DEF SaveRecord, End
<1>2. task[a][s].rec \in R[a]
  BY <1>0 DEF SaveRecord, Fit
<1>3. records[a] \in Seq(R[a]) /\ records[a] \in Seq(Record) /\ task[a][s].rec \in Record
  BY <1>0, <1>2 DEF Fit, ExchangeTypeOK
<1>4. /\ Append(records[a], task[a][s].rec) \in Seq(R[a])
      /\ Append(records[a], task[a][s].rec) \in Seq(Record)
  BY <1>0, <1>2, <1>3, AppendProperties
<1>5. /\ records' \in [Agents -> Seq(Record)]
      /\ \A b \in Agents : records'[b] \in Seq(R[b])
  BY <1>0, <1>1, <1>4 DEF Fit, ExchangeTypeOK
<1>6. Idle \in Task(Record, Message, PCs)
  BY <1>0 DEF Idle, Task, None
<1>7. task' \in [Agents -> [Slots -> Task(Record, Message, PCs)]]
  BY <1>0, <1>1, <1>6 DEF ExchangeTypeOK, Task
<1>8. \A b \in Agents, q \in Slots :
        task'[b][q] = IF b = a /\ q = s THEN Idle ELSE task[b][q]
  BY <1>0, <1>1 DEF ExchangeTypeOK
<1>9. ExchangeTypeOK(Record, Message, PCs)'
  BY <1>0, <1>1, <1>5, <1>7 DEF ExchangeTypeOK, Task
<1>10. Fit(PCs, R, M)'
  <2>1. Idle.pc = "idle" /\ Idle.out = Nothing
    BY <1>0 DEF Idle
  <2> HIDE DEF Idle
  <2> QED BY <1>0, <1>1, <1>5, <1>8, <2>1 DEF Fit
<1> QED BY <1>0, <1>9, <1>10 DEF Held

\* A record is replaced by what a task holds, and the task goes on.
LEMMA RewriteStep ==
  ASSUME NEW CONSTANT Record, NEW CONSTANT Message, NEW CONSTANT PCs,
         NEW CONSTANT R, NEW CONSTANT M, Held(Record, Message, PCs, R, M),
         NEW a \in Agents, NEW s \in Slots, task[a][s].pc = "update",
         records' = [records EXCEPT ![a][task[a][s].at] = task[a][s].rec],
         NEW t, Good(t, Record, Message, PCs, R, M, a),
         task' = [task EXCEPT ![a][s] = t], DOMAIN net' \subseteq M, Counted'
  PROVE  Held(Record, Message, PCs, R, M)'
<1>0. /\ M \subseteq Message /\ \A b \in Agents : R[b] \subseteq Record
      /\ PCs \cap {"idle", "send"} = {}
      /\ ExchangeTypeOK(Record, Message, PCs) /\ Fit(PCs, R, M)
  BY DEF Held
<1>1. task[a][s].rec \in R[a] /\ task[a][s] \in Task(Record, Message, PCs)
  BY <1>0 DEF Fit, ExchangeTypeOK, Task
<1>2. /\ records[a] \in Seq(R[a]) /\ records[a] \in Seq(Record)
      /\ task[a][s].rec \in Record /\ task[a][s].at \in Nat
  BY <1>0, <1>1 DEF Fit, ExchangeTypeOK, Task
<1>3. /\ [records[a] EXCEPT ![task[a][s].at] = task[a][s].rec] \in Seq(R[a])
      /\ [records[a] EXCEPT ![task[a][s].at] = task[a][s].rec] \in Seq(Record)
  <2>1. CASE task[a][s].at \in 1..Len(records[a])
    BY <1>0, <1>1, <1>2, <2>1, ExceptSeq
  <2>2. CASE task[a][s].at \notin DOMAIN records[a]
    <3>1. [records[a] EXCEPT ![task[a][s].at] = task[a][s].rec] = records[a]
      BY <1>0, <1>2, <2>2
    <3> QED BY <1>0, <1>2, <3>1
  <2>3. DOMAIN records[a] = 1..Len(records[a])
    BY <1>0, <1>2
  <2> QED BY <1>0, <2>1, <2>2, <2>3
<1>4. /\ records' \in [Agents -> Seq(Record)]
      /\ \A b \in Agents : records'[b] \in Seq(R[b])
  BY <1>0, <1>3 DEF Fit, ExchangeTypeOK
<1>5. task' \in [Agents -> [Slots -> Task(Record, Message, PCs)]]
  BY <1>0 DEF ExchangeTypeOK, Task, Good
<1>6. \A b \in Agents, q \in Slots :
        task'[b][q] = IF b = a /\ q = s THEN t ELSE task[b][q]
  BY <1>0 DEF ExchangeTypeOK
<1>7. ExchangeTypeOK(Record, Message, PCs)'
  BY <1>0, <1>4, <1>5 DEF ExchangeTypeOK, Task, Counted
<1>8. Fit(PCs, R, M)'
  <2>1. ASSUME NEW b \in Agents, NEW q \in Slots
        PROVE  /\ task'[b][q].pc \in {"save", "update"} \cup PCs => task'[b][q].rec \in R[b]
               /\ task'[b][q].out \in M \cup {Nothing}
               /\ task'[b][q].pc = "send" => task'[b][q].out # Nothing
    <3>1. CASE b = a /\ q = s
      BY <1>6, <3>1 DEF Good
    <3>2. CASE ~(b = a /\ q = s)
      <4>1. task'[b][q] = task[b][q]
        BY <1>0, <1>6, <3>2
      <4> QED BY <1>0, <4>1 DEF Fit
    <3> QED BY <3>1, <3>2
  <2> QED BY <1>4, <2>1 DEF Fit
<1> QED BY <1>0, <1>7, <1>8 DEF Held

LEMMA UpdateStep ==
  ASSUME NEW CONSTANT Record, NEW CONSTANT Message, NEW CONSTANT PCs,
         NEW CONSTANT R, NEW CONSTANT M, Held(Record, Message, PCs, R, M),
         NEW a \in Agents, NEW s \in Slots, UpdateRecord(a, s)
  PROVE  Held(Record, Message, PCs, R, M)'
<1>0. /\ M \subseteq Message /\ \A b \in Agents : R[b] \subseteq Record
      /\ PCs \cap {"idle", "send"} = {}
      /\ ExchangeTypeOK(Record, Message, PCs) /\ Fit(PCs, R, M)
  BY DEF Held
<1> DEFINE t == IF task[a][s].out # Nothing THEN [task[a][s] EXCEPT !.pc = "send"] ELSE Idle
<1>1. /\ records' = [records EXCEPT ![a][task[a][s].at] = task[a][s].rec]
      /\ task[a][s].pc = "update"
      /\ UNCHANGED <<net, starts, lastId, mishaps, happened>>
  BY DEF UpdateRecord
<1>2. task' = [task EXCEPT ![a][s] = t]
  BY <1>0 DEF UpdateRecord, End, ExchangeTypeOK
<1>3. task[a][s] \in Task(Record, Message, PCs) /\ task[a][s].out \in M \cup {Nothing}
  BY <1>0 DEF Fit, ExchangeTypeOK, Task
<1>4. Good(t, Record, Message, PCs, R, M, a)
  BY <1>0, <1>3 DEF Good, Idle, Task, None
<1>5. DOMAIN net' \subseteq M /\ Counted'
  BY <1>0, <1>1 DEF Fit, ExchangeTypeOK, Counted
<1> HIDE DEF t
<1> QED BY <1>1, <1>2, <1>4, <1>5, RewriteStep

LEMMA SendStep ==
  ASSUME NEW CONSTANT Record, NEW CONSTANT Message, NEW CONSTANT PCs,
         NEW CONSTANT R, NEW CONSTANT M, Held(Record, Message, PCs, R, M),
         NEW a \in Agents, NEW s \in Slots, Send(a, s)
  PROVE  Held(Record, Message, PCs, R, M)'
<1>0. /\ M \subseteq Message /\ \A b \in Agents : R[b] \subseteq Record
      /\ PCs \cap {"idle", "send"} = {}
      /\ ExchangeTypeOK(Record, Message, PCs) /\ Fit(PCs, R, M)
  BY DEF Held
<1>1. /\ net' = Put(net, task[a][s].out)
      /\ task' = [task EXCEPT ![a][s] = Idle]
      /\ UNCHANGED <<records, starts, lastId, mishaps, happened>>
  BY <1>0 DEF Send, End
<1>2. DOMAIN net' \subseteq M
  <2>1. task[a][s].out \in M /\ DOMAIN net \subseteq M
    BY <1>0 DEF Send, Fit
  <2>2. DOMAIN Put(net, task[a][s].out) = DOMAIN net \cup {task[a][s].out}
    BY PutIn
  <2> QED BY <1>1, <2>1, <2>2
<1>3. Good(Idle, Record, Message, PCs, R, M, a)
  BY <1>0 DEF Good, Idle, Task, None
<1>4. Counted'
  BY <1>0, <1>1 DEF ExchangeTypeOK, Counted
<1>5. task' = [task EXCEPT ![a][s] = Idle] /\ UNCHANGED records
  BY <1>0, <1>1
<1> HIDE DEF Idle
<1> QED BY <1>2, <1>3, <1>4, <1>5, TaskStep

LEMMA FaultStep ==
  ASSUME NEW CONSTANT Record, NEW CONSTANT Message, NEW CONSTANT PCs,
         NEW CONSTANT R, NEW CONSTANT M, Held(Record, Message, PCs, R, M), Fault
  PROVE  Held(Record, Message, PCs, R, M)'
<1>0. /\ M \subseteq Message /\ \A b \in Agents : R[b] \subseteq Record
      /\ PCs \cap {"idle", "send"} = {}
      /\ ExchangeTypeOK(Record, Message, PCs) /\ Fit(PCs, R, M)
  BY DEF Held
<1>1. Counted'
  <2>1. Counted
    BY <1>0 DEF ExchangeTypeOK, Counted
  <2> QED BY <1>0, <2>1, StrikesCount DEF Fault, Lose, Duplicate, Crash, FaultKinds
<1>2. ASSUME NEW m \in DOMAIN net, Lose(m) \/ Duplicate(m)
      PROVE  Held(Record, Message, PCs, R, M)'
  <2>1. DOMAIN net' \subseteq M
    <3>1. net' = Take(net, m) \/ net' = Put(net, m)
      BY <1>0, <1>2 DEF Lose, Duplicate
    <3>2. DOMAIN net \subseteq M
      BY <1>0 DEF Fit
    <3>3. DOMAIN Take(net, m) \subseteq DOMAIN net
      BY TakeOut
    <3>4. DOMAIN Put(net, m) = DOMAIN net \cup {m}
      BY PutIn
    <3> QED BY <1>2, <3>1, <3>2, <3>3, <3>4
  <2>2. UNCHANGED <<records, task>>
    BY <1>0, <1>2 DEF Lose, Duplicate
  <2> QED BY <1>0, <1>1, <2>1, <2>2 DEF ExchangeTypeOK, Fit, Counted, Held
<1>3. ASSUME NEW a \in Agents, Crash(a)
      PROVE  Held(Record, Message, PCs, R, M)'
  <2>1. task' = [task EXCEPT ![a] = [s \in Slots |-> Idle]] /\ UNCHANGED <<records, net>>
    BY <1>0, <1>3 DEF Crash
  <2>2. Good(Idle, Record, Message, PCs, R, M, a) /\ Idle.pc = "idle" /\ Idle.out = Nothing
    BY <1>0 DEF Good, Idle, Task, None
  <2> HIDE DEF Idle
  <2>3. /\ task' \in [Agents -> [Slots -> Task(Record, Message, PCs)]]
        /\ \A b \in Agents, q \in Slots : task'[b][q] = IF b = a THEN Idle ELSE task[b][q]
    BY <1>0, <2>1, <2>2 DEF ExchangeTypeOK, Task, Good
  <2> QED BY <1>0, <1>1, <2>1, <2>2, <2>3 DEF ExchangeTypeOK, Task, Fit, Counted, Held
<1> QED BY <1>0, <1>2, <1>3 DEF Fault

-----------------------------------------------------------------------------
(* What goes into a task                                                     *)

\* More may be good.
LEMMA Weaken ==
  ASSUME NEW CONSTANT Record, NEW CONSTANT Message, NEW CONSTANT PCs,
         NEW CONSTANT Q, NEW CONSTANT N, NEW R, NEW M, Held(Record, Message, PCs, R, M),
         N \subseteq Message, \A a \in Agents : R[a] \subseteq Q[a] /\ Q[a] \subseteq Record,
         M \subseteq N
  PROVE  Held(Record, Message, PCs, Q, N)
<1>1. \A a \in Agents : records[a] \in Seq(Q[a])
  <2> SUFFICES ASSUME NEW a \in Agents PROVE records[a] \in Seq(Q[a])
    OBVIOUS
  <2>1. records[a] \in Seq(R[a]) /\ R[a] \subseteq Q[a]
    BY DEF Held, Fit
  <2> QED BY <2>1, SeqMonotonic
<1>2. Fit(PCs, Q, N)
  BY <1>1 DEF Held, Fit
<1> QED BY <1>2 DEF Held

\* A record an agent has is good.
LEMMA StoredGood ==
  ASSUME NEW Record, NEW Message, NEW PCs, NEW R, NEW M, Held(Record, Message, PCs, R, M),
         NEW a \in Agents, NEW r \in DOMAIN records[a]
  PROVE  records[a][r] \in R[a] /\ records[a][r] \in Record /\ r \in Nat
<1>1. records[a] \in Seq(R[a]) /\ R[a] \subseteq Record
  BY DEF Held, Fit
<1>2. r \in 1..Len(records[a])
  BY <1>1
<1> QED BY <1>1, <1>2, ElementOfSeq

\* A task that writes a good record and sends a good message, or none.
LEMMA WriteGood ==
  ASSUME NEW Record, NEW Message, NEW PCs, NEW R, NEW M, Held(Record, Message, PCs, R, M),
         NEW a \in Agents, NEW pc \in {"save", "update"} \cup PCs, NEW at \in Nat,
         NEW rec \in R[a], NEW out \in M \cup {Nothing}
  PROVE  Good([pc |-> pc, at |-> at, rec |-> rec, out |-> out], Record, Message, PCs, R, M, a)
BY DEF Held, Good, Task

LEMMA IdleGood ==
  ASSUME NEW Record, NEW Message, NEW PCs, NEW R, NEW M, Held(Record, Message, PCs, R, M),
         NEW a \in Agents
  PROVE  Good(Idle, Record, Message, PCs, R, M, a)
BY DEF Held, Good, Task, Idle, None

LEMMA FreshIds ==
  ASSUME Counted, FreshId
  PROVE  lastId' \in Ids /\ lastId' \in 0..MaxIds
BY BoundsAssumption DEF Counted, FreshId, Ids

-----------------------------------------------------------------------------
(* Beginning a task                                                          *)

LEMMA EnterCounts ==
  ASSUME Counted, NEW a, NEW s, Enter(a, s), starts' \in 0..MaxStarts, lastId' \in 0..MaxIds
  PROVE  Counted'
<1>1. Quiet \/ Strikes("overlap")
  BY DEF Enter
<1>2. mishaps' \in 0..MaxFaults /\ happened' \subseteq FaultKinds
  <2>1. CASE Quiet
    BY <2>1 DEF Counted, Quiet
  <2>2. CASE Strikes("overlap")
    <3>1. mishaps' \in 0..MaxFaults
      BY <2>2, BoundsAssumption DEF Counted, Strikes
    <3>2. happened' = happened \cup {"overlap"} /\ "overlap" \in FaultKinds
      BY <2>2 DEF Strikes, FaultKinds
    <3> QED BY <3>1, <3>2 DEF Counted
  <2> QED BY <1>1, <2>1, <2>2
<1> QED BY <1>2 DEF Counted

LEMMA CallsCount ==
  ASSUME Counted, NEW a, NEW s, CallOn(a, s), FreshId \/ UNCHANGED lastId
  PROVE  Counted' /\ UNCHANGED records
<1>1. starts' \in 0..MaxStarts /\ lastId' \in 0..MaxIds
  BY FreshIds DEF Counted, CallOn
<1> QED BY <1>1, EnterCounts DEF CallOn

LEMMA ReceivesCount ==
  ASSUME NEW CONSTANT M, Counted, DOMAIN net \subseteq M,
         NEW a, NEW s, NEW m, NEW type, Receive(a, s, m, type)
  PROVE  /\ Counted' /\ UNCHANGED records
         /\ DOMAIN net' \subseteq M
         /\ m \in M /\ m.type = type
<1>1. starts' \in 0..MaxStarts /\ lastId' \in 0..MaxIds
  BY DEF Counted, Receive
<1>2. DOMAIN Take(net, m) \subseteq M
  BY TakeOut
<1> QED BY <1>1, <1>2, EnterCounts DEF Receive

LEMMA StartCounts ==
  ASSUME Counted, NEW a, NEW s, NEW rec, NEW m, Start(a, s, rec, m)
  PROVE  Counted' /\ UNCHANGED records
<1>1. starts' \in 0..MaxStarts /\ lastId' \in 0..MaxIds
  BY FreshIds, BoundsAssumption DEF Start, Counted
<1> QED BY <1>1, EnterCounts DEF Start
-----------------------------------------------------------------------------
(* While nothing goes wrong but that messages get lost, each agent does one  *)
(* thing at a time.  Then a task that has made up its mind what to write or  *)
(* send may as well have done so: Settled is what the records will be when   *)
(* the tasks have written, Sent what is on its way then.                     *)

Disturbing == {"overlap", "crash", "duplicate", "refuse"}

One(tasks) == \A s, q \in Slots : tasks[s].pc # "idle" /\ tasks[q].pc # "idle" => s = q

Active(tasks) ==
  IF \E s \in Slots : tasks[s].pc # "idle"
  THEN tasks[CHOOSE s \in Slots : tasks[s].pc # "idle"] ELSE Idle

Alone == \A a \in Agents : One(task[a])
Doing == [a \in Agents |-> Active(task[a])]

Settle(recs, t) ==
  IF t.pc = "save" THEN Append(recs, t.rec)
  ELSE IF t.pc = "update" THEN [recs EXCEPT ![t.at] = t.rec] ELSE recs

Settled == [a \in Agents |-> Settle(records[a], Doing[a])]
Sent == DOMAIN net \cup ({Doing[a].out : a \in Agents} \ {Nothing})

Once(recs) == \A r, q \in DOMAIN recs : recs[r].thread = recs[q].thread => r = q
Of(recs, u) == {recs[r] : r \in {q \in DOMAIN recs : recs[q].thread = u}}

Recs(a, u) == Of(Settled[a], u)
Way(u) == {m \in Sent : m.thread = u}

\* A task that is to update a record has an object of the same thread.
AtFits(recs, t) ==
  t.pc \notin {"idle", "save", "send"} =>
    t.at \in DOMAIN recs /\ recs[t.at].thread = t.rec.thread

OutFits(a, t) ==
  /\ t.out # Nothing => t.out.to # a
  /\ t.pc \notin {"update", "send"} => t.out = Nothing

Singly(bag) == \A m \in DOMAIN bag : bag[m] = 1

Serial ==
  /\ Alone
  /\ Singly(net)
  /\ \A a \in Agents :
       /\ Once(Settled[a])
       /\ AtFits(records[a], Doing[a])
       /\ OutFits(a, Doing[a])
       /\ Doing[a].out \notin DOMAIN net

\* Records and tasks have their types, as far as that matters here.
Shaped(Record, Message, PCs) ==
  /\ \A rec \in Record : rec.thread \in Ids
  /\ \A m \in Message : m.to \in Agents /\ m.thread \in Ids
  /\ records \in [Agents -> Seq(Record)]
  /\ task \in [Agents -> [Slots -> Task(Record, Message, PCs)]]
  /\ Nothing \notin DOMAIN net
  /\ \A a \in Agents, s \in Slots :
       /\ task[a][s].pc \in {"save", "update"} => task[a][s].rec \in Record
       /\ task[a][s].pc = "send" => task[a][s].out # Nothing

LEMMA PutOnce ==
  ASSUME NEW bag, NEW m, Singly(bag), m \notin DOMAIN bag
  PROVE  Singly(Put(bag, m)) /\ DOMAIN Put(bag, m) = DOMAIN bag \cup {m}
BY DEF Singly, Put, (+), SetToBag

LEMMA TakeOnce ==
  ASSUME NEW bag, NEW m, Singly(bag), m \in DOMAIN bag
  PROVE  Singly(Take(bag, m)) /\ DOMAIN Take(bag, m) = DOMAIN bag \ {m}
BY DEF Singly, Take, (-), SetToBag

LEMMA ActiveIs ==
  ASSUME NEW tasks, One(tasks), NEW s \in Slots, tasks[s].pc # "idle"
  PROVE  Active(tasks) = tasks[s]
BY DEF One, Active

LEMMA ActiveNone ==
  ASSUME NEW tasks, \A s \in Slots : tasks[s].pc = "idle"
  PROVE  Active(tasks) = Idle
BY DEF Active

\* One busy slot changes what it does, or ends.
LEMMA Turns ==
  ASSUME NEW CONSTANT T, task \in [Agents -> [Slots -> T]], Alone,
         NEW a \in Agents, NEW s \in Slots, NEW t, t.pc = "idle" => t = Idle,
         \A q \in Slots : q = s \/ Free(a, q),
         task' = [task EXCEPT ![a][s] = t]
  PROVE  Alone' /\ Doing' = [Doing EXCEPT ![a] = t]
<1> DEFINE new == [task[a] EXCEPT ![s] = t]
<1>1. task' = [task EXCEPT ![a] = new] /\ task'[a] = new
  OBVIOUS
<1>2. \A q \in Slots : new[q] = IF q = s THEN t ELSE task[a][q]
  OBVIOUS
<1>3. \A q \in Slots : q # s => new[q].pc = "idle"
  BY <1>2 DEF Free
<1>4. One(new) /\ Active(new) = t
  <2> HIDE DEF new
  <2>1. One(new)
    BY <1>3 DEF One
  <2>2. CASE t.pc = "idle"
    <3>1. \A q \in Slots : new[q].pc = "idle"
      BY <1>2, <1>3, <2>2
    <3> QED BY <2>1, <2>2, <3>1, ActiveNone
  <2>3. CASE t.pc # "idle"
    BY <1>2, <2>1, <2>3, ActiveIs
  <2> QED BY <2>1, <2>2, <2>3
<1> HIDE DEF new
<1>5. \A b \in Agents : task'[b] = IF b = a THEN new ELSE task[b]
  BY <1>1
<1>6. Alone'
  BY <1>4, <1>5 DEF Alone
<1>7. Doing' = [b \in Agents |-> IF b = a THEN t ELSE Doing[b]]
  BY <1>4, <1>5 DEF Doing
<1> QED BY <1>6, <1>7 DEF Doing

\* What happened stays happened.
LEMMA EnterRemembers ==
  ASSUME NEW a, NEW s, Enter(a, s)
  PROVE  happened \subseteq happened'
BY DEF Enter, Quiet, Strikes

LEMMA Unstruck ==
  ASSUME Spared(Disturbing)', NEW kind \in Disturbing
  PROVE  ~Strikes(kind)
BY DEF Spared, Strikes

\* An agent that has never overlapped two tasks enters one when it has none.
LEMMA EntersFree ==
  ASSUME "overlap" \notin happened', NEW a \in Agents, NEW s \in Slots, Enter(a, s)
  PROVE  /\ Doing[a] = Idle
         /\ \A q \in Slots : Free(a, q)
<1>1. \A q \in Slots : Free(a, q)
  BY DEF Enter, Strikes
<1> QED BY <1>1, ActiveNone DEF Doing, Free

LEMMA Enters ==
  ASSUME NEW CONSTANT T, task \in [Agents -> [Slots -> T]], Alone, Spared(Disturbing)',
         NEW a \in Agents, NEW s \in Slots, Enter(a, s)
  PROVE  /\ Doing[a] = Idle
         /\ \A q \in Slots : Free(a, q)
<1>1. "overlap" \notin happened'
  BY DEF Spared, Disturbing
<1> QED BY <1>1, EntersFree

\* One sequence of records gets another record, or another object for one.
LEMMA OfAppend ==
  ASSUME NEW Record, NEW recs \in Seq(Record), NEW rec \in Record, Once(recs),
         Of(recs, rec.thread) = {}
  PROVE  /\ Once(Append(recs, rec))
         /\ \A u : Of(Append(recs, rec), u) =
                     IF u = rec.thread THEN {rec} ELSE Of(recs, u)
<1> DEFINE new == Append(recs, rec)
           n == Len(recs) + 1
<1>1. /\ DOMAIN new = DOMAIN recs \cup {n} /\ n \notin DOMAIN recs /\ new[n] = rec
      /\ \A r \in DOMAIN recs : new[r] = recs[r]
  OBVIOUS
<1>2. \A r \in DOMAIN recs : recs[r].thread # rec.thread
  BY DEF Of
<1> HIDE DEF new, n
<1> QED BY <1>1, <1>2 DEF Once, Of, new

LEMMA OfReplace ==
  ASSUME NEW recs, NEW r \in DOMAIN recs, NEW rec, Once(recs), recs[r].thread = rec.thread,
         NEW new, DOMAIN new = DOMAIN recs, new[r] = rec,
         \A q \in DOMAIN recs : q # r => new[q] = recs[q]
  PROVE  /\ Once(new)
         /\ Of(recs, rec.thread) = {recs[r]}
         /\ \A u : Of(new, u) = IF u = rec.thread THEN {rec} ELSE Of(recs, u)
<1>1. Once(new)
  BY DEF Once
<1>2. Of(recs, rec.thread) = {recs[r]}
  BY DEF Once, Of
<1>3. \A u : Of(new, u) = IF u = rec.thread THEN {rec} ELSE Of(recs, u)
  BY DEF Once, Of
<1> QED BY <1>1, <1>2, <1>3

-----------------------------------------------------------------------------
(* What a step does to Settled and Sent                                      *)

\* The busy slot of an agent holds what the agent is doing.
LEMMA Busy ==
  ASSUME Alone, NEW a \in Agents, NEW s \in Slots, ~Free(a, s)
  PROVE  Doing[a] = task[a][s] /\ \A q \in Slots : q = s \/ Free(a, q)
<1>1. Doing[a] = task[a][s]
  BY ActiveIs DEF Alone, Doing, Free
<1>2. \A q \in Slots : q = s \/ Free(a, q)
  BY DEF Alone, One, Free
<1> QED BY <1>1, <1>2

\* A write or a send that was decided on changes neither.
LEMMA SaveSettles ==
  ASSUME NEW CONSTANT Record, NEW CONSTANT Message, NEW CONSTANT PCs,
         Shaped(Record, Message, PCs), Serial,
         NEW a \in Agents, NEW s \in Slots, SaveRecord(a, s)
  PROVE  /\ Serial' /\ UNCHANGED <<Settled, Sent>>
         /\ Doing' = [Doing EXCEPT ![a] = Idle]
<1> DEFINE t == task[a][s]
<1>1. /\ t.pc = "save" /\ UNCHANGED net
      /\ records' = [records EXCEPT ![a] = Append(@, t.rec)]
      /\ task' = [task EXCEPT ![a][s] = Idle]
  BY DEF SaveRecord, End
<1>2. Doing[a] = t /\ \A q \in Slots : q = s \/ Free(a, q)
  BY <1>1, Busy DEF Serial, Free
<1>3. Alone' /\ Doing' = [Doing EXCEPT ![a] = Idle]
  BY <1>1, <1>2, Turns DEF Shaped, Serial
<1> HIDE DEF t
<1>4. /\ \A b \in Agents : Doing'[b] = IF b = a THEN Idle ELSE Doing[b]
      /\ \A b \in Agents : records'[b] = IF b = a THEN Append(records[a], t.rec) ELSE records[b]
  BY <1>1, <1>3 DEF Shaped, Doing
<1>5. t.out = Nothing /\ Idle.out = Nothing /\ Idle.pc = "idle"
  BY <1>1, <1>2 DEF Serial, OutFits, Idle
<1> HIDE DEF Idle
<1>6. UNCHANGED Settled
  BY <1>1, <1>2, <1>4, <1>5 DEF Settled, Settle
<1>7. UNCHANGED Sent
  <2>1. {Doing'[b].out : b \in Agents} \ {Nothing} = {Doing[b].out : b \in Agents} \ {Nothing}
    BY <1>2, <1>4, <1>5
  <2> QED BY <1>1, <2>1 DEF Sent
<1>8. \A b \in Agents : AtFits(records[b], Doing[b])' /\ OutFits(b, Doing[b])'
                        /\ (Doing[b].out \notin DOMAIN net)'
  BY <1>1, <1>4, <1>5 DEF Serial, AtFits, OutFits, Shaped
<1> QED BY <1>1, <1>3, <1>6, <1>7, <1>8 DEF Serial

LEMMA UpdateSettles ==
  ASSUME NEW CONSTANT Record, NEW CONSTANT Message, NEW CONSTANT PCs,
         Shaped(Record, Message, PCs), Serial,
         NEW a \in Agents, NEW s \in Slots, UpdateRecord(a, s)
  PROVE  /\ Serial' /\ UNCHANGED <<Settled, Sent>>
         /\ \E x : /\ Doing' = [Doing EXCEPT ![a] = x]
                   /\ x.pc \in {"idle", "send"}
<1> DEFINE t == task[a][s]
           x == IF t.out # Nothing THEN [t EXCEPT !.pc = "send"] ELSE Idle
<1>1. /\ t.pc = "update" /\ UNCHANGED net
      /\ records' = [records EXCEPT ![a][t.at] = t.rec]
  BY DEF UpdateRecord
<1>2. task' = [task EXCEPT ![a][s] = x]
  BY DEF UpdateRecord, End, Shaped
<1>3. Doing[a] = t /\ \A q \in Slots : q = s \/ Free(a, q)
  BY <1>1, Busy DEF Serial, Free
<1>4. x.pc \in {"idle", "send"} /\ x.out = t.out /\ (x.pc = "idle" => x = Idle)
  BY DEF Shaped, Task, Idle
<1> HIDE DEF t, x
<1>5. Alone' /\ Doing' = [Doing EXCEPT ![a] = x]
  BY <1>2, <1>3, <1>4, Turns DEF Shaped, Serial
<1>6. /\ \A b \in Agents : Doing'[b] = IF b = a THEN x ELSE Doing[b]
      /\ \A b \in Agents : records'[b] = IF b = a THEN [records[a] EXCEPT ![t.at] = t.rec]
                                         ELSE records[b]
  BY <1>1, <1>5 DEF Shaped, Doing
<1>7. UNCHANGED Settled
  BY <1>1, <1>3, <1>4, <1>6 DEF Settled, Settle
<1>8. UNCHANGED Sent
  <2>1. {Doing'[b].out : b \in Agents} \ {Nothing} = {Doing[b].out : b \in Agents} \ {Nothing}
    BY <1>3, <1>4, <1>6
  <2> QED BY <1>1, <2>1 DEF Sent
<1>9. \A b \in Agents : AtFits(records[b], Doing[b])' /\ OutFits(b, Doing[b])'
                        /\ (Doing[b].out \notin DOMAIN net)'
  <2>1. x.pc = "idle" => x.out = Nothing
    BY <1>4 DEF Idle
  <2> QED BY <1>1, <1>3, <1>4, <1>6, <2>1 DEF Serial, AtFits, OutFits, Shaped
<1>10. Serial'
  BY <1>1, <1>5, <1>7, <1>9 DEF Serial
<1> QED BY <1>4, <1>5, <1>7, <1>8, <1>10

LEMMA SendSettles ==
  ASSUME NEW CONSTANT Record, NEW CONSTANT Message, NEW CONSTANT PCs,
         Shaped(Record, Message, PCs), Serial,
         NEW a \in Agents, NEW s \in Slots, Send(a, s)
  PROVE  /\ Serial' /\ UNCHANGED <<Settled, Sent>>
         /\ Doing' = [Doing EXCEPT ![a] = Idle]
<1> DEFINE t == task[a][s]
<1>1. /\ t.pc = "send" /\ UNCHANGED records /\ net' = Put(net, t.out)
      /\ task' = [task EXCEPT ![a][s] = Idle]
  BY DEF Send, End
<1>2. Doing[a] = t /\ \A q \in Slots : q = s \/ Free(a, q)
  BY <1>1, Busy DEF Serial, Free
<1>3. Alone' /\ Doing' = [Doing EXCEPT ![a] = Idle]
  BY <1>1, <1>2, Turns DEF Shaped, Serial
<1>4. t.out # Nothing /\ t.out \notin DOMAIN net /\ t.out.to # a /\ t.out.to \in Agents
  BY <1>1, <1>2 DEF Shaped, Serial, OutFits, Task
<1> HIDE DEF t
<1>5. Singly(net') /\ DOMAIN net' = DOMAIN net \cup {t.out}
  BY <1>1, <1>4, PutOnce DEF Serial
<1>6. \A b \in Agents : Doing'[b] = IF b = a THEN Idle ELSE Doing[b]
  BY <1>3 DEF Doing
<1>7. Idle.out = Nothing /\ Idle.pc = "idle"
  BY DEF Idle
<1> HIDE DEF Idle
<1>8. UNCHANGED Settled
  BY <1>1, <1>2, <1>6, <1>7 DEF Settled, Settle
<1>9. UNCHANGED Sent
  <2>1. {Doing'[b].out : b \in Agents} \ {Nothing} \subseteq {Doing[b].out : b \in Agents} \ {Nothing}
    BY <1>6, <1>7
  <2>2. {Doing[b].out : b \in Agents} \ {Nothing}
          \subseteq ({Doing'[b].out : b \in Agents} \ {Nothing}) \cup {t.out}
    BY <1>2, <1>6
  <2>3. t.out \in {Doing[b].out : b \in Agents} \ {Nothing}
    BY <1>2, <1>4
  <2> QED BY <1>5, <2>1, <2>2, <2>3 DEF Sent
<1>10. \A b \in Agents : AtFits(records[b], Doing[b])' /\ OutFits(b, Doing[b])'
                         /\ (Doing[b].out \notin DOMAIN net)'
  <2>1. \A b \in Agents : b # a => Doing[b].out # t.out
    <3>1. ASSUME NEW b \in Agents, b # a PROVE t.out.to = b
      BY <1>4, <3>1, PairAssumption
    <3> QED BY <1>4, <3>1 DEF Serial, OutFits
  <2>2. Nothing \notin DOMAIN net'
    BY <1>4, <1>5 DEF Shaped
  <2> QED BY <1>1, <1>5, <1>6, <1>7, <2>1, <2>2 DEF Serial, AtFits, OutFits, Shaped
<1> QED BY <1>3, <1>5, <1>8, <1>9, <1>10 DEF Serial

-----------------------------------------------------------------------------
(* A task that begins                                                        *)

\* What a task t of agent a decides on, as seen in the records of each thread.
Decides(a, t) ==
  \A b \in Agents, u \in Ids :
    Recs(b, u)' = IF b = a /\ t.pc \in {"save", "update"} /\ u = t.rec.thread
                  THEN {t.rec} ELSE Recs(b, u)

WayGains(m) == \A u \in Ids : Way(u)' = IF u = m.thread THEN {m} ELSE Way(u)
WayLoses(m) == \A u \in Ids : Way(u)' = Way(u) \ {m}

\* Can an agent with these records begin the task.
Fitting(a, recs, t) ==
  /\ AtFits(recs, t)
  /\ OutFits(a, t)
  /\ t.pc = "save" => Of(recs, t.rec.thread) = {}

TurnsTo(a, s, t) == task' = [task EXCEPT ![a][s] = t]

\* What a fit task makes of the records.
LEMMA SettleOf ==
  ASSUME NEW Record, NEW recs \in Seq(Record), Once(recs), NEW t,
         t.pc = "save" => t.rec \in Record /\ Of(recs, t.rec.thread) = {},
         AtFits(recs, t)
  PROVE  /\ Once(Settle(recs, t))
         /\ \A u \in Ids : Of(Settle(recs, t), u) =
              IF t.pc \in {"save", "update"} /\ u = t.rec.thread THEN {t.rec} ELSE Of(recs, u)
<1>1. CASE t.pc = "save"
  <2>1. /\ Once(Append(recs, t.rec))
        /\ \A u : Of(Append(recs, t.rec), u) = IF u = t.rec.thread THEN {t.rec} ELSE Of(recs, u)
    BY <1>1, OfAppend
  <2>2. Settle(recs, t) = Append(recs, t.rec)
    BY <1>1 DEF Settle
  <2> QED BY <1>1, <2>1, <2>2
<1>2. CASE t.pc = "update"
  <2>0. PICK new : new = [recs EXCEPT ![t.at] = t.rec]
    OBVIOUS
  <2>1. /\ t.at \in DOMAIN recs /\ recs[t.at].thread = t.rec.thread
        /\ DOMAIN new = DOMAIN recs /\ new[t.at] = t.rec
        /\ \A q \in DOMAIN recs : q # t.at => new[q] = recs[q]
    BY <1>2, <2>0 DEF AtFits
  <2>2. /\ Once(new)
        /\ \A u : Of(new, u) = IF u = t.rec.thread THEN {t.rec} ELSE Of(recs, u)
    BY <2>1, OfReplace
  <2>3. Settle(recs, t) = new
    BY <1>2, <2>0 DEF Settle
  <2> QED BY <1>2, <2>2, <2>3
<1>3. CASE t.pc \notin {"save", "update"}
  BY <1>3 DEF Settle
<1> QED BY <1>1, <1>2, <1>3

\* The agent had nothing to do, and what it has now is fit.
LEMMA Undertakes ==
  ASSUME NEW CONSTANT Record, NEW CONSTANT Message, NEW CONSTANT PCs,
         Shaped(Record, Message, PCs), Serial, Spared(Disturbing)',
         NEW a \in Agents, NEW s \in Slots, Enter(a, s), UNCHANGED records,
         NEW t, t.pc # "idle", TurnsTo(a, s, t),
         t.pc \in {"save", "update"} => t.rec \in Record,
         Fitting(a, records[a], t)
  PROVE  /\ Doing[a] = Idle /\ Doing' = [Doing EXCEPT ![a] = t] /\ Alone'
         /\ Settled[a] = records[a]
         /\ Decides(a, t)
         /\ \A b \in Agents : /\ Once(Settled[b])'
                              /\ AtFits(records[b], Doing[b])'
                              /\ OutFits(b, Doing[b])'
<1>1. Doing[a] = Idle /\ \A q \in Slots : Free(a, q)
  BY Enters DEF Shaped, Serial
<1>2. Alone' /\ Doing' = [Doing EXCEPT ![a] = t]
  BY <1>1, Turns DEF Shaped, Serial, TurnsTo
<1>3. \A b \in Agents : Doing'[b] = IF b = a THEN t ELSE Doing[b]
  BY <1>2 DEF Doing
<1>4. Settled[a] = records[a]
  BY <1>1 DEF Settled, Settle, Idle
<1>5. Once(records[a]) /\ records[a] \in Seq(Record)
  BY <1>4 DEF Serial, Shaped
<1>6. \A b \in Agents : Settled'[b] = IF b = a THEN Settle(records[a], t) ELSE Settled[b]
  BY <1>3 DEF Settled
<1>7. /\ Once(Settle(records[a], t))
      /\ \A u \in Ids : Of(Settle(records[a], t), u) =
           IF t.pc \in {"save", "update"} /\ u = t.rec.thread THEN {t.rec} ELSE Of(records[a], u)
  BY <1>5, SettleOf DEF Fitting
<1>8. Decides(a, t)
  BY <1>4, <1>6, <1>7 DEF Decides, Recs
<1>9. \A b \in Agents : Once(Settled[b])' /\ AtFits(records[b], Doing[b])' /\ OutFits(b, Doing[b])'
  BY <1>3, <1>6, <1>7 DEF Serial, Fitting
<1> QED BY <1>1, <1>2, <1>4, <1>8, <1>9

\* The way gains the message, if there is one.
WayMayGain(out) == IF out # Nothing THEN WayGains(out) ELSE \A u \in Ids : Way(u)' = Way(u)

\* What is on its way when a task is to send something, or nothing.
LEMMA Sends ==
  ASSUME Serial, NEW a \in Agents, NEW t, Doing[a].out = Nothing, Doing' = [Doing EXCEPT ![a] = t],
         NEW out, t.out = out, out # Nothing => out.thread \in Ids /\ Way(out.thread) = {},
         UNCHANGED net
  PROVE  /\ WayMayGain(out) /\ Singly(net')
         /\ \A b \in Agents : (Doing[b].out \notin DOMAIN net)'
<1>1. \A b \in Agents : Doing'[b] = IF b = a THEN t ELSE Doing[b]
  BY DEF Doing
<1>2. CASE out # Nothing
  <2>1. Sent' = Sent \cup {out}
    <3>1. {Doing'[b].out : b \in Agents} \ {Nothing}
            = ({Doing[b].out : b \in Agents} \ {Nothing}) \cup {out}
      BY <1>1, <1>2
    <3> QED BY <3>1 DEF Sent
  <2>2. out \notin Sent
    BY <1>2 DEF Way
  <2>3. WayGains(out)
    BY <1>2, <2>1 DEF WayGains, Way
  <2>4. \A b \in Agents : (Doing[b].out \notin DOMAIN net)'
    BY <1>1, <2>2 DEF Serial, Sent
  <2> QED BY <1>2, <2>3, <2>4 DEF Serial, WayMayGain
<1>3. CASE out = Nothing
  <2>1. \A b \in Agents : Doing'[b].out = Doing[b].out
    BY <1>1, <1>3
  <2>2. {Doing'[b].out : b \in Agents} = {Doing[b].out : b \in Agents}
    BY <2>1
  <2>3. Sent' = Sent
    BY <2>2 DEF Sent
  <2>4. \A u \in Ids : Way(u)' = Way(u)
    BY <2>3 DEF Way
  <2> QED BY <1>3, <2>1, <2>4 DEF Serial, WayMayGain
<1> QED BY <1>2, <1>3

LEMMA Puts ==
  ASSUME Serial, NEW a \in Agents, NEW t, Doing[a] = Idle, Doing' = [Doing EXCEPT ![a] = t],
         t.out = Nothing,
         NEW m, m # Nothing, m.thread \in Ids, Way(m.thread) = {}, net' = Put(net, m)
  PROVE  /\ WayGains(m) /\ Singly(net')
         /\ \A b \in Agents : (Doing[b].out \notin DOMAIN net)'
<1>1. \A b \in Agents : Doing'[b].out = Doing[b].out
  <2>1. \A b \in Agents : Doing'[b] = IF b = a THEN t ELSE Doing[b]
    BY DEF Doing
  <2>2. Doing[a].out = Nothing
    BY DEF Idle
  <2> QED BY <2>1, <2>2
<1>2. {Doing'[b].out : b \in Agents} = {Doing[b].out : b \in Agents}
  BY <1>1
<1>3. m \notin Sent
  BY DEF Way
<1>4. Singly(net') /\ DOMAIN net' = DOMAIN net \cup {m}
  BY <1>3, PutOnce DEF Serial, Sent
<1>5. Sent' = Sent \cup {m}
  BY <1>2, <1>4 DEF Sent
<1>6. WayGains(m)
  BY <1>5 DEF WayGains, Way
<1>7. \A b \in Agents : (Doing[b].out \notin DOMAIN net)'
  BY <1>1, <1>3, <1>4 DEF Serial, Sent
<1> QED BY <1>4, <1>6, <1>7

LEMMA Takes ==
  ASSUME Serial, \A b \in Agents : Doing'[b].out = Doing[b].out,
         NEW m \in DOMAIN net, net' = Take(net, m)
  PROVE  /\ WayLoses(m) /\ Singly(net')
         /\ \A b \in Agents : (Doing[b].out \notin DOMAIN net)'
<1>1. {Doing'[b].out : b \in Agents} = {Doing[b].out : b \in Agents}
  OBVIOUS
<1>2. Singly(net') /\ DOMAIN net' = DOMAIN net \ {m}
  BY TakeOnce DEF Serial
<1>3. Sent' = Sent \ {m}
  <2>1. m \notin {Doing[b].out : b \in Agents}
    BY DEF Serial
  <2> QED BY <1>1, <1>2, <2>1 DEF Sent
<1>4. WayLoses(m)
  BY <1>3 DEF WayLoses, Way
<1> QED BY <1>2, <1>4 DEF Serial

\* A task begins, and what it will send is all that is new on the way.
LEMMA Accepts ==
  ASSUME NEW CONSTANT Record, NEW CONSTANT Message, NEW CONSTANT PCs,
         Shaped(Record, Message, PCs), Serial, Spared(Disturbing)',
         NEW a \in Agents, NEW s \in Slots, Enter(a, s), UNCHANGED <<records, net>>,
         NEW t, t.pc # "idle", TurnsTo(a, s, t),
         t.pc \in {"save", "update"} => t.rec \in Record,
         Fitting(a, records[a], t),
         NEW out, t.out = out, out # Nothing => out.thread \in Ids /\ Way(out.thread) = {}
  PROVE  /\ Serial' /\ Decides(a, t)
         /\ Doing[a] = Idle /\ Doing' = [Doing EXCEPT ![a] = t] /\ Settled[a] = records[a]
         /\ WayMayGain(out)
<1>1. /\ Doing[a] = Idle /\ Doing' = [Doing EXCEPT ![a] = t] /\ Alone'
      /\ Settled[a] = records[a]
      /\ Decides(a, t)
      /\ \A b \in Agents : /\ Once(Settled[b])'
                           /\ AtFits(records[b], Doing[b])'
                           /\ OutFits(b, Doing[b])'
  BY Undertakes
<1>2. Doing[a].out = Nothing
  BY <1>1 DEF Idle
<1>3. /\ WayMayGain(out) /\ Singly(net')
      /\ \A b \in Agents : (Doing[b].out \notin DOMAIN net)'
  BY <1>1, <1>2, Sends
<1> QED BY <1>1, <1>3 DEF Serial

\* A task begins that sends at once.
LEMMA Posts ==
  ASSUME NEW CONSTANT Record, NEW CONSTANT Message, NEW CONSTANT PCs,
         Shaped(Record, Message, PCs), Serial, Spared(Disturbing)',
         NEW a \in Agents, NEW s \in Slots, Enter(a, s), UNCHANGED records,
         NEW t, t.pc # "idle", TurnsTo(a, s, t),
         t.pc \in {"save", "update"} => t.rec \in Record,
         Fitting(a, records[a], t), t.out = Nothing,
         NEW m, m # Nothing, m.thread \in Ids, Way(m.thread) = {}, net' = Put(net, m)
  PROVE  /\ Serial' /\ Decides(a, t) /\ WayGains(m)
         /\ Doing[a] = Idle /\ Doing' = [Doing EXCEPT ![a] = t] /\ Settled[a] = records[a]
<1>1. /\ Doing[a] = Idle /\ Doing' = [Doing EXCEPT ![a] = t] /\ Alone'
      /\ Settled[a] = records[a]
      /\ Decides(a, t)
      /\ \A b \in Agents : /\ Once(Settled[b])'
                           /\ AtFits(records[b], Doing[b])'
                           /\ OutFits(b, Doing[b])'
  BY Undertakes
<1>2. WayGains(m) /\ Singly(net') /\ \A b \in Agents : (Doing[b].out \notin DOMAIN net)'
  BY <1>1, Puts
<1> QED BY <1>1, <1>2 DEF Serial

\* A handler begins with a message.
LEMMA Handles ==
  ASSUME NEW CONSTANT Record, NEW CONSTANT Message, NEW CONSTANT PCs,
         Shaped(Record, Message, PCs), Serial, Spared(Disturbing)',
         NEW a \in Agents, NEW s \in Slots, NEW m, NEW type, Receive(a, s, m, type),
         NEW t, t.pc # "idle", TurnsTo(a, s, t),
         t.pc \in {"save", "update"} => t.rec \in Record,
         Fitting(a, records[a], t), t.out = Nothing
  PROVE  /\ Serial' /\ Decides(a, t) /\ WayLoses(m)
         /\ Doing[a] = Idle /\ Doing' = [Doing EXCEPT ![a] = t] /\ Settled[a] = records[a]
<1>0. Enter(a, s) /\ UNCHANGED records /\ m \in DOMAIN net /\ net' = Take(net, m)
  BY DEF Receive
<1>1. /\ Doing[a] = Idle /\ Doing' = [Doing EXCEPT ![a] = t] /\ Alone'
      /\ Settled[a] = records[a]
      /\ Decides(a, t)
      /\ \A b \in Agents : /\ Once(Settled[b])'
                           /\ AtFits(records[b], Doing[b])'
                           /\ OutFits(b, Doing[b])'
  BY <1>0, Undertakes
<1>2. \A b \in Agents : Doing'[b].out = Doing[b].out
  <2>1. \A b \in Agents : Doing'[b] = IF b = a THEN t ELSE Doing[b]
    BY <1>1 DEF Doing
  <2>2. Doing[a].out = Nothing
    BY <1>1 DEF Idle
  <2> QED BY <2>1, <2>2
<1>3. WayLoses(m) /\ Singly(net') /\ \A b \in Agents : (Doing[b].out \notin DOMAIN net)'
  BY <1>0, <1>2, Takes
<1> QED BY <1>1, <1>3 DEF Serial

\* A message is gone, refused or lost.
LEMMA Drops ==
  ASSUME Serial, UNCHANGED <<records, task>>, NEW m \in DOMAIN net, net' = Take(net, m)
  PROVE  /\ Serial' /\ UNCHANGED <<Settled, Doing>> /\ WayLoses(m)
<1>1. UNCHANGED Doing
  BY DEF Doing
<1>2. UNCHANGED Settled
  BY <1>1 DEF Settled
<1>3. WayLoses(m) /\ Singly(net') /\ \A b \in Agents : (Doing[b].out \notin DOMAIN net)'
  BY <1>1, Takes
<1> QED BY <1>1, <1>2, <1>3 DEF Serial, Alone

\* A task of the protocol's own goes on: it decides what to write and send, or gives up.
LEMMA Continues ==
  ASSUME NEW CONSTANT Record, NEW CONSTANT Message, NEW CONSTANT PCs,
         Shaped(Record, Message, PCs), Serial,
         NEW a \in Agents, NEW s \in Slots, UNCHANGED <<records, net>>,
         task[a][s].pc \notin {"idle", "save", "update", "send"},
         NEW t, t.pc \in {"idle", "update"}, t.pc = "idle" => t = Idle,
         TurnsTo(a, s, t),
         t.pc = "update" => t.rec \in Record,
         Fitting(a, records[a], t),
         NEW out, t.out = out, out # Nothing => out.thread \in Ids /\ Way(out.thread) = {}
  PROVE  /\ Serial' /\ Decides(a, t)
         /\ Doing[a] = task[a][s] /\ Doing' = [Doing EXCEPT ![a] = t] /\ Settled[a] = records[a]
         /\ WayMayGain(out)
<1>1. Doing[a] = task[a][s] /\ \A q \in Slots : q = s \/ Free(a, q)
  BY Busy DEF Serial, Free
<1>2. Alone' /\ Doing' = [Doing EXCEPT ![a] = t]
  BY <1>1, Turns DEF Shaped, Serial, TurnsTo
<1>3. \A b \in Agents : Doing'[b] = IF b = a THEN t ELSE Doing[b]
  BY <1>2 DEF Doing
<1>4. Settled[a] = records[a]
  BY <1>1 DEF Settled, Settle
<1>5. \A b \in Agents : Settled'[b] = IF b = a THEN Settle(records[a], t) ELSE Settled[b]
  BY <1>3 DEF Settled
<1>6. /\ Once(Settle(records[a], t))
      /\ \A u \in Ids : Of(Settle(records[a], t), u) =
           IF t.pc \in {"save", "update"} /\ u = t.rec.thread THEN {t.rec} ELSE Of(records[a], u)
  <2>1. Once(records[a]) /\ records[a] \in Seq(Record)
    BY <1>4 DEF Serial, Shaped
  <2> QED BY <2>1, SettleOf DEF Fitting
<1>7. Decides(a, t)
  BY <1>4, <1>5, <1>6 DEF Decides, Recs
<1>8. \A b \in Agents : Once(Settled[b])' /\ AtFits(records[b], Doing[b])' /\ OutFits(b, Doing[b])'
  BY <1>3, <1>5, <1>6 DEF Serial, Fitting
<1>9. Doing[a].out = Nothing
  BY <1>1 DEF Serial, OutFits
<1>10. /\ WayMayGain(out) /\ Singly(net')
       /\ \A b \in Agents : (Doing[b].out \notin DOMAIN net)'
  BY <1>2, <1>9, Sends
<1> QED BY <1>1, <1>2, <1>4, <1>7, <1>8, <1>10 DEF Serial

-----------------------------------------------------------------------------
(* Threads                                                                   *)

Opt(x) == {x} \ {Nothing}

\* In thread u the record of a is x, that of b is y, and m is on its way; each of
\* them may be Nothing.
Seen(a, b, u, x, y, m) == Recs(a, u) = Opt(x) /\ Recs(b, u) = Opt(y) /\ Way(u) = Opt(m)

\* The record that an agent with nothing else to do has read is the one of its thread.
LEMMA ReadSeen ==
  ASSUME Serial, NEW a \in Agents, Settled[a] = records[a], NEW r \in DOMAIN records[a]
  PROVE  Recs(a, records[a][r].thread) = {records[a][r]}
<1>1. PICK recs : recs = records[a]
  OBVIOUS
<1>2. Once(recs) /\ r \in DOMAIN recs
  BY <1>1 DEF Serial
<1>3. Of(recs, recs[r].thread) = {recs[r]}
  BY <1>2 DEF Once, Of
<1> QED BY <1>1, <1>3 DEF Recs

LEMMA FoundSeen ==
  ASSUME Serial, NEW a \in Agents, Settled[a] = records[a], NEW u, NEW r \in ByThread(a, u)
  PROVE  r \in DOMAIN records[a] /\ Recs(a, u) = {records[a][r]} /\ records[a][r].thread = u
BY ReadSeen DEF ByThread

LEMMA SeenFound ==
  ASSUME Serial, NEW a \in Agents, Settled[a] = records[a], NEW u,
         NEW x, x # Nothing, Recs(a, u) = Opt(x)
  PROVE  \E r \in ByThread(a, u) : GetByThreadId(a, u, r) /\ records[a][r] = x
<1>1. Of(records[a], u) = {x}
  BY DEF Recs, Opt
<1>2. Once(records[a])
  BY DEF Serial
<1>3. PICK r \in DOMAIN records[a] : records[a][r].thread = u /\ records[a][r] = x
  BY <1>1 DEF Of
<1>4. ByThread(a, u) = {r}
  BY <1>2, <1>3 DEF Once, ByThread
<1> QED BY <1>3, <1>4 DEF GetByThreadId

\* A look-up that fails to find a record in the only state it can have finds none.
LEMMA FindsNone ==
  ASSUME Serial, NEW a \in Agents, Settled[a] = records[a], NEW u, NEW state, NEW x,
         Recs(a, u) = Opt(x), x # Nothing => x.state = state,
         \A r \in ByThread(a, u) : ~Finds(a, u, state, r)
  PROVE  x = Nothing
<1> SUFFICES ASSUME x # Nothing PROVE FALSE
  OBVIOUS
<1>1. PICK r \in ByThread(a, u) : GetByThreadId(a, u, r) /\ records[a][r] = x
  BY SeenFound
<1> QED BY <1>1 DEF Finds

LEMMA InNetSeen ==
  ASSUME NEW m \in DOMAIN net
  PROVE  m \in Way(m.thread)
BY DEF Way, Sent

LEMMA EnteredSettled ==
  ASSUME NEW CONSTANT Record, NEW CONSTANT Message, NEW CONSTANT PCs,
         Shaped(Record, Message, PCs), Serial, Spared(Disturbing)',
         NEW a \in Agents, NEW s \in Slots, Enter(a, s)
  PROVE  Doing[a] = Idle /\ Settled[a] = records[a]
<1>1. Doing[a] = Idle
  BY Enters DEF Shaped, Serial
<1> QED BY <1>1 DEF Settled, Settle, Idle

\* Nobody has anything, or has begun anything.
LEMMA StartsSerial ==
  ASSUME records = [a \in Agents |-> <<>>], net = EmptyBag,
         task = [a \in Agents |-> [s \in Slots |-> Idle]]
  PROVE  /\ Serial
         /\ \A a \in Agents, u \in Ids : Recs(a, u) = {} /\ Way(u) = {}
         /\ \A a \in Agents : Doing[a] = Idle
<1>1. DOMAIN net = {} /\ Singly(net)
  BY DEF EmptyBag, SetToBag, Singly
<1>2. Idle.pc = "idle" /\ Idle.out = Nothing
  BY DEF Idle
<1> HIDE DEF Idle
<1>3. \A a \in Agents, s \in Slots : task[a][s] = Idle
  OBVIOUS
<1>4. \A a \in Agents : One(task[a]) /\ Active(task[a]) = Idle
  BY <1>2, <1>3, ActiveNone DEF One
<1>5. Alone /\ \A a \in Agents : Doing[a] = Idle
  BY <1>4 DEF Alone, Doing
<1>6. \A a \in Agents : Settled[a] = <<>>
  BY <1>2, <1>5 DEF Settled, Settle
<1>7. Sent = {}
  BY <1>1, <1>2, <1>5 DEF Sent
<1>8. \A a \in Agents, u \in Ids : Recs(a, u) = {} /\ Way(u) = {}
  BY <1>6, <1>7 DEF Recs, Of, Way
<1>9. Serial
  BY <1>1, <1>2, <1>5, <1>6 DEF Serial, Once, AtFits, OutFits
<1> QED BY <1>5, <1>8, <1>9
\* A record in the wallet is there once all is settled, or its successor is.
LEMMA SettledKeeps ==
  ASSUME NEW CONSTANT Record, NEW CONSTANT Message, NEW CONSTANT PCs,
         Shaped(Record, Message, PCs), Serial, NEW a \in Agents, NEW r \in DOMAIN records[a]
  PROVE  /\ r \in DOMAIN Settled[a]
         /\ Settled[a][r].thread = records[a][r].thread
         /\ \/ Settled[a][r] = records[a][r]
            \/ /\ Doing[a].pc = "update" /\ Doing[a].at = r
               /\ Settled[a][r] = Doing[a].rec
<1>1. PICK recs, t : recs = records[a] /\ t = Doing[a]
  OBVIOUS
<1>2. Settled[a] = Settle(recs, t) /\ AtFits(recs, t) /\ recs \in Seq(Record) /\ r \in DOMAIN recs
  BY <1>1 DEF Settled, Serial, Shaped
<1>3. CASE t.pc = "save"
  <2>1. Settle(recs, t) = Append(recs, t.rec)
    BY <1>3 DEF Settle
  <2>2. PICK y : y = t.rec
    OBVIOUS
  <2>3. r \in DOMAIN Append(recs, y) /\ Append(recs, y)[r] = recs[r]
    BY <1>2
  <2> QED BY <1>1, <1>2, <2>1, <2>2, <2>3
<1>4. CASE t.pc = "update"
  <2>1. PICK new : new = [recs EXCEPT ![t.at] = t.rec]
    OBVIOUS
  <2>2. DOMAIN new = DOMAIN recs /\ \A q \in DOMAIN recs : new[q] = IF q = t.at THEN t.rec ELSE recs[q]
    BY <2>1
  <2>3. Settled[a] = new /\ recs[t.at].thread = t.rec.thread
    BY <1>2, <1>4, <2>1 DEF Settle, AtFits
  <2> QED BY <1>1, <1>2, <1>4, <2>2, <2>3
<1>5. CASE t.pc \notin {"save", "update"}
  BY <1>1, <1>2, <1>5 DEF Settle
<1> QED BY <1>3, <1>4, <1>5

\* Once all is settled, the thread has the record x.
Shows(a, u, x) == Recs(a, u) = {x}

\* A record in the wallet is the one its thread shows, or is about to be.
LEMMA BehindSettled ==
  ASSUME NEW CONSTANT Record, NEW CONSTANT Message, NEW CONSTANT PCs,
         Shaped(Record, Message, PCs), Serial, NEW a \in Agents, NEW r \in DOMAIN records[a],
         NEW u, u = records[a][r].thread
  PROVE  \E x : /\ Shows(a, u, x)
                /\ \/ x = records[a][r]
                   \/ /\ Doing[a].pc = "update" /\ Doing[a].at = r
                      /\ x = Doing[a].rec /\ x.thread = u
<1>1. PICK recs : recs = Settled[a]
  OBVIOUS
<1>2. /\ r \in DOMAIN recs /\ recs[r].thread = u
      /\ recs[r] = records[a][r] \/ /\ Doing[a].pc = "update" /\ Doing[a].at = r
                                    /\ recs[r] = Doing[a].rec
  BY <1>1, SettledKeeps
<1>3. Once(recs)
  BY <1>1 DEF Serial
<1>4. Of(recs, u) = {recs[r]}
  BY <1>2, <1>3 DEF Once, Of
<1>5. Shows(a, u, recs[r])
  BY <1>1, <1>4 DEF Recs, Shows
<1> QED BY <1>2, <1>5

\* Nothing is there twice.
LEMMA SerialUnique ==
  ASSUME NEW CONSTANT Record, NEW CONSTANT Message, NEW CONSTANT PCs,
         Shaped(Record, Message, PCs), Serial
  PROVE  Unique
<1> SUFFICES ASSUME NEW a \in Agents, NEW u \in Ids, NEW r \in ByThread(a, u), NEW q \in ByThread(a, u)
             PROVE  r = q
  BY DEF Unique
<1>1. /\ r \in DOMAIN records[a] /\ q \in DOMAIN records[a]
      /\ records[a][r].thread = records[a][q].thread
  BY DEF ByThread
<1>2. /\ r \in DOMAIN Settled[a] /\ q \in DOMAIN Settled[a]
      /\ Settled[a][r].thread = Settled[a][q].thread
  BY <1>1, SettledKeeps
<1> QED BY <1>2 DEF Serial, Once
=============================================================================
