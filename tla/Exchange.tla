------------------------------ MODULE Exchange ------------------------------
(***************************************************************************)
(* What the exchanges of modules/credentials and modules/proofs share.     *)
(*                                                                         *)
(* Two agents share one ready connection.  Each keeps a record per         *)
(* exchange in its wallet; messages name the exchange by a thread id and a *)
(* handler looks the record up by it.  A call or handler reads a record,   *)
(* checks its state, and writes the whole object back some awaits later,   *)
(* without a lock; Slots bounds the activities of one agent that overlap.  *)
(*                                                                         *)
(* Ids stand for uuids: of messages and, through the first message of an   *)
(* exchange, of threads.  A protocol EXTENDS this module, says what its    *)
(* records and messages are, and adds its operations.                      *)
(***************************************************************************)
EXTENDS Naturals, Sequences, Bags

CONSTANTS
  Agents,       \* the two ends of the connection
  Nothing,      \* a task with nothing to write, or nothing to send
  Slots,        \* tasks of one agent that may overlap
  MaxStarts,    \* bound: exchanges begun
  MaxIds,       \* bound: messages made that have an id of their own
  MaxFaults,    \* bound: how often something goes wrong
  Faults        \* what may go wrong, of FaultKinds

\* overlap: an agent begins a task before another one has ended.  refuse: a call of
\* the wallet, of indy or of the transport fails.
FaultKinds == {"lose", "duplicate", "crash", "overlap", "refuse"}

ASSUME PairAssumption == \E a, b \in Agents : a # b /\ Agents = {a, b}
ASSUME BoundsAssumption ==
  /\ MaxStarts \in Nat
  /\ MaxIds \in Nat
  /\ MaxFaults \in Nat
  /\ Faults \subseteq FaultKinds

Peer(a) == CHOOSE b \in Agents : b # a

Ids == 1..MaxIds
None == 0

VARIABLES
  records,   \* the records in each agent's wallet, oldest first
  task,      \* what each slot of each agent is doing
  net,       \* the messages in transit, a bag
  starts,    \* exchanges begun
  lastId,    \* the last id given out
  mishaps,   \* how often something has gone wrong
  happened   \* the kinds of fault that have occurred so far

exchangeVars == <<records, task, net, starts, lastId, mishaps, happened>>

\* at is the index of the record a task writes, rec the object it holds, out the
\* message it sends afterwards.
Idle == [pc |-> "idle", at |-> None, rec |-> Nothing, out |-> Nothing]

ExchangeInit ==
  /\ records = [a \in Agents |-> <<>>]
  /\ task = [a \in Agents |-> [s \in Slots |-> Idle]]
  /\ net = EmptyBag
  /\ starts = 0
  /\ lastId = 0
  /\ mishaps = 0
  /\ happened = {}

-----------------------------------------------------------------------------
(* Tasks, messages and look-ups                                             *)

Put(bag, m) == bag (+) SetToBag({m})
Take(bag, m) == bag (-) SetToBag({m})

\* body is what an attachment of the message says.
Msg(type, to, id, thread, body) ==
  [type |-> type, to |-> to, id |-> id, thread |-> thread, body |-> body]

Free(a, s) == task[a][s].pc = "idle"

Strikes(kind) ==
  /\ kind \in Faults
  /\ mishaps < MaxFaults
  /\ mishaps' = mishaps + 1
  /\ happened' = happened \cup {kind}

Quiet == UNCHANGED <<mishaps, happened>>

\* A call or a message takes a free slot, no matter which.
Enter(a, s) ==
  /\ Free(a, s)
  /\ s = CHOOSE q \in Slots : Free(a, q)
  /\ \/ (\A q \in Slots : Free(a, q)) /\ Quiet
     \/ (\E q \in Slots : ~Free(a, q)) /\ Strikes("overlap")

Begin(a, s, pc, at, rec, out) ==
  task' = [task EXCEPT ![a][s] = [pc |-> pc, at |-> at, rec |-> rec, out |-> out]]

\* updateState, up to its await: the caller sends out once the record is stored.
Update(a, s, r, rec, out) == Begin(a, s, "update", r, rec, out)

\* save of a new record: Repository does not await the wallet, so the caller may
\* send a message while the write is still pending.
Save(a, s, rec) == Begin(a, s, "save", None, rec, Nothing)

End(a, s) == task' = [task EXCEPT ![a][s] = Idle]

\* getByThreadId: the one record of the thread; none, or several, is an error.
ByThread(a, thread) == {r \in DOMAIN records[a] : records[a][r].thread = thread}
GetByThreadId(a, thread, r) == ByThread(a, thread) = {r}

\* A handler's look-up of the record followed by assertState.
Finds(a, thread, state, r) ==
  GetByThreadId(a, thread, r) /\ records[a][r].state = state

FreshId == lastId < MaxIds /\ lastId' = lastId + 1

\* An exchange begins: its thread is the id of its first message.
Start(a, s, rec, m) ==
  /\ Enter(a, s)
  /\ starts < MaxStarts
  /\ starts' = starts + 1
  /\ FreshId
  /\ Save(a, s, rec)
  /\ net' = Put(net, m)
  /\ UNCHANGED records

\* A call of the module that reads a record and hands it to the service.
CallOn(a, s) == Enter(a, s) /\ UNCHANGED <<records, starts>>

Receive(a, s, m, type) ==
  /\ Enter(a, s)
  /\ m \in DOMAIN net
  /\ m.to = a
  /\ m.type = type
  /\ net' = Take(net, m)
  /\ UNCHANGED <<records, starts, lastId>>

\* The handler throws: no record, several, or one in another state.
Refuses(a, s, m, type, state) ==
  /\ Receive(a, s, m, type)
  /\ \A r \in ByThread(a, m.thread) : ~Finds(a, m.thread, state, r)
  /\ UNCHANGED task

-----------------------------------------------------------------------------
(* The rest of a task                                                        *)

SaveRecord(a, s) ==
  /\ task[a][s].pc = "save"
  /\ records' = [records EXCEPT ![a] = Append(@, task[a][s].rec)]
  /\ End(a, s)
  /\ UNCHANGED <<net, starts, lastId, mishaps, happened>>

UpdateRecord(a, s) ==
  /\ task[a][s].pc = "update"
  /\ records' = [records EXCEPT ![a][task[a][s].at] = task[a][s].rec]
  /\ \/ /\ task[a][s].out # Nothing
        /\ task' = [task EXCEPT ![a][s].pc = "send"]
     \/ /\ task[a][s].out = Nothing
        /\ End(a, s)
  /\ UNCHANGED <<net, starts, lastId, mishaps, happened>>

Send(a, s) ==
  /\ task[a][s].pc = "send"
  /\ net' = Put(net, task[a][s].out)
  /\ End(a, s)
  /\ UNCHANGED <<records, starts, lastId, mishaps, happened>>

-----------------------------------------------------------------------------
(* Faults                                                                    *)

\* The transport fails after the state was saved, or the message is lost later.
Lose(m) ==
  /\ Strikes("lose")
  /\ net' = Take(net, m)
  /\ UNCHANGED <<records, task, starts, lastId>>

Duplicate(m) ==
  /\ Strikes("duplicate")
  /\ net' = Put(net, m)
  /\ UNCHANGED <<records, task, starts, lastId>>

\* The process restarts: what is in the wallet survives, the tasks do not.
Crash(a) ==
  /\ Strikes("crash")
  /\ \E s \in Slots : ~Free(a, s)
  /\ task' = [task EXCEPT ![a] = [s \in Slots |-> Idle]]
  /\ UNCHANGED <<records, net, starts, lastId>>

\* What a task awaits fails: the task throws where it is.  Of a save nobody hears.
Throws(a, s) ==
  /\ Strikes("refuse")
  /\ ~Free(a, s)
  /\ End(a, s)
  /\ UNCHANGED <<records, net, starts, lastId>>

\* An update inside a try clause fails: the clause takes it for a missing record and
\* saves a new one.  The value may have been written: the tags are a second call.
Catches(a, s, rec) ==
  /\ Strikes("refuse")
  /\ Save(a, s, rec)
  /\ \/ UNCHANGED records
     \/ records' = [records EXCEPT ![a][task[a][s].at] = task[a][s].rec]
  /\ UNCHANGED <<net, starts, lastId>>

Fault ==
  \/ \E m \in DOMAIN net : Lose(m) \/ Duplicate(m)
  \/ \E a \in Agents : Crash(a)

-----------------------------------------------------------------------------
(* What the properties of both protocols say                                 *)

\* TypeOK of what is declared here, given the records and messages of a protocol.
ExchangeTypeOK(Record, Message, PCs) ==
  /\ records \in [Agents -> Seq(Record)]
  /\ task \in [Agents -> [Slots -> [pc: {"idle", "save", "update", "send"} \cup PCs, at: Nat,
                                    rec: Record \cup {Nothing},
                                    out: Message \cup {Nothing}]]]
  /\ DOMAIN net \subseteq Message
  /\ starts \in 0..MaxStarts
  /\ lastId \in 0..MaxIds
  /\ mishaps \in 0..MaxFaults
  /\ happened \subseteq FaultKinds

\* Nothing of the kinds has happened so far.
Spared(kinds) == happened \cap kinds = {}

Unique == \A a \in Agents, t \in Ids : \A r, q \in ByThread(a, t) : r = q

Completed(a, t) ==
  \E r \in DOMAIN records[a] :
    records[a][r].thread = t /\ records[a][r].state = "done"
=============================================================================
