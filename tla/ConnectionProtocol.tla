------------------------- MODULE ConnectionProtocol -------------------------
(***************************************************************************)
(* The connection handshake of modules/connections: one invitation, the    *)
(* agent that made it (Inviter) and the agents it reached (Invitees), each *)
(* with the one ConnectionRecord it keeps for the invitation.              *)
(*                                                                         *)
(* The code is asynchronous.  A call of the API or a message handler reads *)
(* a record from the wallet into a JavaScript object, checks its state,    *)
(* changes the object, and writes the WHOLE object back some awaits later, *)
(* first its value (state and did documents), then its tags (the thread);  *)
(* nothing stops another call or handler of the same agent from running in *)
(* between.  A task is one such activity: it is at "load" before it reads, *)
(* at "store" while it holds a changed copy it has still to write, at      *)
(* "tags" between the two writes, and at "send" while it holds a message   *)
(* it has still to hand to the transport.  Slots bounds the activities of  *)
(* one agent that run at the same time; an application that awaits each    *)
(* call before the next, and takes no message meanwhile, never overlaps    *)
(* two.                                                                    *)
(*                                                                         *)
(* Left out: DIDs and did documents (an agent stands for its verification  *)
(* key), envelopes, labels and routing.  Messages are a bag: delivered in  *)
(* any order, and lost or doubled when Faults says so.  The tags other than *)
(* the thread are keys that never change after the record is made, or are  *)
(* not read by this code (theirKey, which is read from the did document).  *)
(***************************************************************************)
EXTENDS Naturals, Bags

CONSTANTS
  Inviter,      \* the agent that creates the invitation, and its key
  Invitees,     \* the agents that receive it
  NoKey,        \* theirKey of a record that has no theirDidDoc yet
  NoThread,     \* threadId of a record that has none
  OwnId,        \* the id of a response, its thread id when it is given none
  NoMessage,    \* a task with nothing to send
  AutoAccept,   \* the agents with autoAcceptConnection
  Slots,        \* tasks of one agent that may run at the same time
  MaxCalls,     \* bound: accept... calls per agent
  MaxFaults,    \* bound: how often something goes wrong
  Faults        \* what may go wrong, of FaultKinds

\* fail: a call of the wallet or of the transport fails.  overlap: a task begins while
\* another of its agent is running.
FaultKinds == {"lose", "duplicate", "crash", "fail", "overlap"}

ASSUME AgentsAssumption ==
  /\ Inviter \notin Invitees
  /\ NoKey \notin Invitees \cup {Inviter}

ASSUME BoundsAssumption ==
  /\ MaxCalls \in Nat
  /\ MaxFaults \in Nat
  /\ Faults \subseteq FaultKinds

Agents == Invitees \cup {Inviter}
RequestIds == Invitees \X (1..MaxCalls)
Threads == RequestIds \cup {NoThread, OwnId}

States == {"none", "invited", "requested", "responded", "complete"}

Record == [state: States, theirKey: Agents \cup {NoKey}, thread: Threads]

MessageTypes == {"request", "response", "ping", "pingResponse", "ack"}

Message == [type: MessageTypes, from: Agents, to: Agents, thread: Threads]

ASSUME NoMessageAssumption ==
  NoMessage \notin [type: MessageTypes, from: Invitees \cup {Inviter},
                    to: Invitees \cup {Inviter}, thread: Threads]
ASSUME NoThreadAssumption == NoThread \notin RequestIds \cup {OwnId}

VARIABLES
  record,    \* the ConnectionRecord each agent has in its wallet
  task,      \* what each slot of each agent is doing
  net,       \* the messages in transit, a bag
  waiting,   \* agents with a pending returnWhenIsConnected
  calls,     \* accept... calls each agent has made
  mishaps,   \* how often something has gone wrong
  serial,    \* history: no two tasks of an agent have overlapped so far
  torn       \* history: agents that were stopped between the two writes of an update

vars == <<record, task, net, waiting, calls, mishaps, serial, torn>>

Blank == [state |-> "none", theirKey |-> NoKey, thread |-> NoThread]

Ops == {"none", "createRequest", "createResponse", "createTrustPing"}

\* op is the service call still to come, rec the object the task holds.
Task == [pc: {"idle", "load", "store", "tags", "send"}, op: Ops, rec: Record,
         out: Message \cup {NoMessage}]

Idle == [pc |-> "idle", op |-> "none", rec |-> Blank, out |-> NoMessage]

Init ==
  /\ record = [a \in Agents |-> Blank]
  /\ task = [a \in Agents |-> [s \in Slots |-> Idle]]
  /\ net = EmptyBag
  /\ waiting = {}
  /\ calls = [a \in Agents |-> 0]
  /\ mishaps = 0
  /\ serial = TRUE
  /\ torn = {}

Strikes(kind) ==
  /\ kind \in Faults
  /\ mishaps < MaxFaults
  /\ mishaps' = mishaps + 1

-----------------------------------------------------------------------------
(* Tasks and messages                                                       *)

Msg(type, from, to, thread) ==
  [type |-> type, from |-> from, to |-> to, thread |-> thread]

\* One more copy of m in a bag of messages, or one copy less.
Put(bag, m) == bag (+) SetToBag({m})
Take(bag, m) == bag (-) SetToBag({m})

\* The record's isReady getter.
IsReady(rec) == rec.state \in {"responded", "complete"}

\* createOutboundMessage: a record without theirDidDoc has no service to send to.
Outbound(type, a, rec, thread) ==
  IF rec.theirKey = NoKey THEN NoMessage ELSE Msg(type, a, rec.theirKey, thread)

\* The threadId getter: a message that is given no thread id is its own thread.
ThreadId(thread) == IF thread = NoThread THEN OwnId ELSE thread

\* Mutant: a message is sent without waiting for the write, and the write is lost.
Write_SendsFirst(a, s, rec, op, out) ==
  task' = [task EXCEPT ![a][s] =
             [pc |-> IF out = NoMessage THEN "store" ELSE "send",
              op |-> op, rec |-> rec, out |-> out]]

\* updateState, up to its await: the object is changed, the write is pending.
Write(a, s, rec, op, out) ==
  task' = [task EXCEPT ![a][s] =
             [pc |-> "store", op |-> op, rec |-> rec, out |-> out]]

End(a, s) == task' = [task EXCEPT ![a][s] = Idle]

Free(a, s) == task[a][s].pc = "idle"
Alone(a, s) == \A r \in Slots \ {s} : Free(a, r)

\* A task begins in a free slot; which one makes no difference.
Begin(a, s) ==
  /\ Free(a, s)
  /\ s = CHOOSE r \in Slots : Free(a, r)
  /\ \/ Alone(a, s) /\ UNCHANGED <<mishaps, serial>>
     \/ ~Alone(a, s) /\ Strikes("overlap") /\ serial' = FALSE

-----------------------------------------------------------------------------
(* Invitation                                                               *)

\* The service's half of each: the new record has a did and keys of its own, and
\* nothing of the peer yet.
CreateInvitation == record' = [record EXCEPT ![Inviter].state = "invited"]
ProcessInvitation(i) == record' = [record EXCEPT ![i].state = "invited"]

\* ConnectionsModule.createConnection: nobody knows the new record before the
\* call returns, so its save and its update are one step.
CreateConnection ==
  /\ record[Inviter].state = "none"
  /\ CreateInvitation
  /\ UNCHANGED <<task, net, waiting, calls, mishaps, serial, torn>>

\* ConnectionsModule.receiveInvitation: a new record and, with auto accept,
\* acceptInvitation on it.
ReceiveInvitation(i, s) ==
  /\ record[Inviter].state # "none"
  /\ record[i].state = "none"
  /\ Begin(i, s)
  /\ ProcessInvitation(i)
  /\ \/ /\ i \in AutoAccept
        /\ calls[i] < MaxCalls
        /\ calls' = [calls EXCEPT ![i] = @ + 1]
        /\ task' = [task EXCEPT ![i][s] =
                      [pc |-> "load", op |-> "createRequest",
                       rec |-> record'[i],
                       out |-> Msg("request", i, Inviter, <<i, calls'[i]>>)]]
     \/ /\ i \notin AutoAccept
        /\ UNCHANGED <<calls, task>>
  /\ UNCHANGED <<net, waiting, torn>>

-----------------------------------------------------------------------------
(* The service's create... operations: find, assertState, assertRole, then  *)
(* updateState.  The caller sends the message once the record is stored.    *)

MayRequest(a) == record[a].state = "invited" /\ a \in Invitees
MayRespond(a) == record[a].state = "requested" /\ a = Inviter

MayPing(a) == IsReady(record[a])

CreateRequest(a, s, request) ==
  /\ MayRequest(a)
  /\ Write(a, s, [record[a] EXCEPT !.state = "requested"], "none", request)

\* Mutant: the response is stored in a record without the key of the peer.
CreateResponse_FreshRecord(a, s, caller) ==
  /\ MayRespond(a)
  /\ Write(a, s, [Blank EXCEPT !.state = "responded", !.thread = record[a].thread],
           "none", Outbound("response", a, caller, ThreadId(record[a].thread)))

\* The thread is the one of the record just read; the destination is the
\* object the caller holds.
CreateResponse(a, s, caller) ==
  /\ MayRespond(a)
  /\ Write(a, s, [record[a] EXCEPT !.state = "responded"], "none",
           Outbound("response", a, caller, ThreadId(record[a].thread)))

\* Mutant: a state that is not one of ConnectionState.
CreateTrustPing_OtherState(a, s, caller) ==
  /\ MayPing(a)
  /\ Write(a, s, [record[a] EXCEPT !.state = "active"], "none",
           Outbound("ping", a, caller, NoThread))

\* The ping carries no id: TrustPingMessage sets one only when it is given options.
CreateTrustPing(a, s, caller) ==
  /\ MayPing(a)
  /\ Write(a, s, [record[a] EXCEPT !.state = "complete"], "none",
           Outbound("ping", a, caller, NoThread))

Call(a, s) ==
  /\ Begin(a, s)
  /\ calls[a] < MaxCalls
  /\ calls' = [calls EXCEPT ![a] = @ + 1]
  /\ UNCHANGED <<record, net, waiting, torn>>

AcceptInvitation(a, s) ==
  /\ Call(a, s)
  /\ CreateRequest(a, s, Msg("request", a, Inviter, <<a, calls'[a]>>))

AcceptRequest(a, s) ==
  /\ Call(a, s)
  /\ CreateResponse(a, s, record[a])

AcceptResponse(a, s) ==
  /\ Call(a, s)
  /\ CreateTrustPing(a, s, record[a])

\* returnWhenIsConnected: find, then subscribe.  Both happen before the next
\* callback of the wallet is handled, so no event falls between them.
ReturnWhenIsConnected(a) ==
  /\ record[a].state \notin {"none", "complete"}
  /\ waiting' = waiting \cup {a}
  /\ UNCHANGED <<record, task, net, calls, mishaps, serial, torn>>

-----------------------------------------------------------------------------
(* Handlers.  MessageReceiver finds the record by the recipient key and      *)
(* refuses a sender that is not theirKey; the handler works on that object.  *)

Receive(a, s, m) ==
  /\ Begin(a, s)
  /\ m \in DOMAIN net
  /\ m.to = a
  /\ net' = Take(net, m)
  /\ UNCHANGED <<record, waiting, calls, torn>>

Known(a, m) == record[a].state # "none" /\ record[a].theirKey \in {NoKey, m.from}

\* Mutant: processRequest without assertState.
CanProcessRequest_AnyState(a, m) == m.type = "request" /\ Known(a, m) /\ a = Inviter

CanProcessRequest(a, m) ==
  /\ m.type = "request"
  /\ Known(a, m)
  /\ record[a].state = "invited"
  /\ a = Inviter

\* Mutant: processResponse without assertState.
CanProcessResponse_AnyState(a, m) ==
  /\ m.type = "response"
  /\ Known(a, m)
  /\ a \in Invitees
  /\ m.from = Inviter

CanProcessResponse(a, m) ==
  /\ m.type = "response"
  /\ Known(a, m)
  /\ record[a].state = "requested"
  /\ a \in Invitees
  /\ m.from = Inviter    \* the signer is the key of the invitation

CanProcessPing(a, m) == m.type = "ping" /\ Known(a, m)

CanProcessAck(a, m) ==
  /\ m.type = "ack"
  /\ Known(a, m)
  /\ record[a].state = "responded"
  /\ a = Inviter

\* Mutant: only one of the two handlers looks at autoAcceptConnection.
OnAutoAccept_Invitee(a, op) == IF a \in AutoAccept /\ a # Inviter THEN op ELSE "none"

OnAutoAccept(a, op) == IF a \in AutoAccept THEN op ELSE "none"

\* ConnectionRequestHandler
ProcessRequest(a, s, m) ==
  /\ Receive(a, s, m)
  /\ CanProcessRequest(a, m)
  /\ Write(a, s, [state |-> "requested", theirKey |-> m.from, thread |-> m.thread],
           OnAutoAccept(a, "createResponse"), NoMessage)

\* ConnectionResponseHandler
ProcessResponse(a, s, m) ==
  /\ Receive(a, s, m)
  /\ CanProcessResponse(a, m)
  /\ Write(a, s, [state |-> "responded", theirKey |-> m.from, thread |-> m.thread],
           OnAutoAccept(a, "createTrustPing"), NoMessage)

\* TrustPingMessageHandler: any role completes from responded, and answers.
ProcessPing(a, s, m) ==
  /\ Receive(a, s, m)
  /\ CanProcessPing(a, m)
  /\ LET rec == record[a]
         reply == Outbound("pingResponse", a, rec, m.thread)
     IN \/ /\ rec.state = "responded"
           /\ Write(a, s, [rec EXCEPT !.state = "complete"], "none", reply)
        \/ /\ rec.state # "responded"
           /\ reply # NoMessage
           /\ task' = [task EXCEPT ![a][s] =
                         [pc |-> "send", op |-> "none", rec |-> rec, out |-> reply]]
        \/ /\ rec.state # "responded"
           /\ reply = NoMessage
           /\ UNCHANGED task

\* AckMessageHandler
ProcessAck(a, s, m) ==
  /\ Receive(a, s, m)
  /\ CanProcessAck(a, m)
  /\ Write(a, s, [record[a] EXCEPT !.state = "complete"], "none", NoMessage)

\* A message no handler acts on: an unknown sender, an assertion that fails,
\* an ack that comes too early or too late, a ping response.
Refuse(a, s, m) ==
  /\ Receive(a, s, m)
  /\ ~ ( \/ CanProcessRequest(a, m)
         \/ CanProcessResponse(a, m)
         \/ CanProcessPing(a, m)
         \/ CanProcessAck(a, m) )
  /\ UNCHANGED task

-----------------------------------------------------------------------------
(* The rest of a task                                                        *)

\* Mutant: the listener looks for the wrong state.
StillWaiting_Responded(a, rec) ==
  IF rec.state = "responded" THEN waiting \ {a} ELSE waiting

\* The event of updateState, and the listener of returnWhenIsConnected.
StillWaiting(a, rec) == IF rec.state = "complete" THEN waiting \ {a} ELSE waiting

\* The first write of the update in updateState: the value, which has the state and
\* the did documents.  The tags, and so the thread, stay as they are.
StoreValue(a, s) ==
  LET t == task[a][s] IN
  /\ t.pc = "store"
  /\ record' = [record EXCEPT ![a] = [t.rec EXCEPT !.thread = record[a].thread]]
  /\ task' = [task EXCEPT ![a][s].pc = "tags"]
  /\ UNCHANGED <<net, waiting, calls, mishaps, serial, torn>>

\* Mutant: the tags are replaced instead of added.
StoreTags_Replaced(a, s) ==
  LET t == task[a][s] IN
  /\ t.pc = "tags"
  /\ record' = [record EXCEPT ![a].thread = t.rec.thread]
  /\ waiting' = StillWaiting(a, t.rec)
  /\ \/ t.out # NoMessage /\ task' = [task EXCEPT ![a][s].pc = "send"]
     \/ t.out = NoMessage /\ t.op # "none" /\ task' = [task EXCEPT ![a][s].pc = "load"]
     \/ t.out = NoMessage /\ t.op = "none" /\ End(a, s)
  /\ UNCHANGED <<net, calls, mishaps, serial, torn>>

\* The second write, and then the event.  A thread that the object does not have
\* leaves the one in the wallet.
StoreTags(a, s) ==
  LET t == task[a][s] IN
  /\ t.pc = "tags"
  /\ record' = [record EXCEPT ![a].thread = IF t.rec.thread = NoThread THEN @ ELSE t.rec.thread]
  /\ waiting' = StillWaiting(a, t.rec)
  /\ \/ /\ t.out # NoMessage
        /\ task' = [task EXCEPT ![a][s].pc = "send"]
     \/ /\ t.out = NoMessage
        /\ t.op # "none"
        /\ task' = [task EXCEPT ![a][s].pc = "load"]
     \/ /\ t.out = NoMessage
        /\ t.op = "none"
        /\ End(a, s)
  /\ UNCHANGED <<net, calls, mishaps, serial, torn>>

\* The second half of a handler, or of receiveInvitation, with auto accept.
Accept(a, s) ==
  LET t == task[a][s] IN
  /\ t.pc = "load"
  /\ \/ /\ t.op = "createRequest"
        /\ \/ CreateRequest(a, s, t.out)
           \/ ~MayRequest(a) /\ End(a, s)
     \/ /\ t.op = "createResponse"
        /\ \/ CreateResponse(a, s, t.rec)
           \/ ~MayRespond(a) /\ End(a, s)
     \/ /\ t.op = "createTrustPing"
        /\ \/ CreateTrustPing(a, s, t.rec)
           \/ ~MayPing(a) /\ End(a, s)
  /\ UNCHANGED <<record, net, waiting, calls, mishaps, serial, torn>>

\* MessageSender.sendMessage
Send(a, s) ==
  /\ task[a][s].pc = "send"
  /\ net' = Put(net, task[a][s].out)
  /\ End(a, s)
  /\ UNCHANGED <<record, waiting, calls, mishaps, serial, torn>>

\* External: an invitee of another framework may end the protocol with an ack
\* where this one sends a ping.
PeerAck(i) ==
  /\ record[i].state = "complete"
  /\ calls[i] < MaxCalls
  /\ calls' = [calls EXCEPT ![i] = @ + 1]
  /\ net' = Put(net, Msg("ack", i, Inviter, NoThread))
  /\ UNCHANGED <<record, task, waiting, mishaps, serial, torn>>

-----------------------------------------------------------------------------
(* Faults                                                                    *)

\* The transport fails after the state was saved, or the message is lost later.
Lose(m) ==
  /\ Strikes("lose")
  /\ net' = Take(net, m)
  /\ UNCHANGED <<record, task, waiting, calls, serial, torn>>

Duplicate(m) ==
  /\ Strikes("duplicate")
  /\ net' = Put(net, m)
  /\ UNCHANGED <<record, task, waiting, calls, serial, torn>>

\* Agents torn after the tasks of a in some slots end before their time.
TornBy(a, slots) ==
  torn \cup (IF \E s \in slots : task[a][s].pc = "tags" THEN {a} ELSE {})

\* The process restarts: the wallet survives, tasks and listeners do not.
Crash(a) ==
  /\ Strikes("crash")
  /\ \E s \in Slots : ~Free(a, s)
  /\ task' = [task EXCEPT ![a] = [s \in Slots |-> Idle]]
  /\ waiting' = waiting \ {a}
  /\ torn' = TornBy(a, Slots)
  /\ UNCHANGED <<record, net, calls, serial>>

\* The read, one of the two writes or the sending of a task fails: the call rejects, and
\* nobody takes a handler up again.
Fail(a, s) ==
  /\ Strikes("fail")
  /\ ~Free(a, s)
  /\ End(a, s)
  /\ torn' = TornBy(a, {s})
  /\ UNCHANGED <<record, net, waiting, calls, serial>>

-----------------------------------------------------------------------------
Handle(a, s) ==
  \E m \in DOMAIN net :
    \/ ProcessRequest(a, s, m)
    \/ ProcessResponse(a, s, m)
    \/ ProcessPing(a, s, m)
    \/ ProcessAck(a, s, m)
    \/ Refuse(a, s, m)

Next ==
  \/ CreateConnection
  \/ \E i \in Invitees : PeerAck(i) \/ \E s \in Slots : ReceiveInvitation(i, s)
  \/ \E a \in Agents, s \in Slots :
       \/ AcceptInvitation(a, s)
       \/ AcceptRequest(a, s)
       \/ AcceptResponse(a, s)
       \/ Handle(a, s)
       \/ StoreValue(a, s)
       \/ StoreTags(a, s)
       \/ Accept(a, s)
       \/ Send(a, s)
       \/ Fail(a, s)
  \/ \E a \in Agents : ReturnWhenIsConnected(a) \/ Crash(a)
  \/ \E m \in DOMAIN net : Lose(m) \/ Duplicate(m)

Spec == Init /\ [][Next]_vars

\* Promises settle and the transport delivers; the application owes nothing.
Fairness ==
  \A a \in Agents :
    /\ WF_vars(\E s \in Slots : Handle(a, s))
    /\ \A s \in Slots :
         /\ WF_vars(StoreValue(a, s))
         /\ WF_vars(StoreTags(a, s))
         /\ WF_vars(Accept(a, s))
         /\ WF_vars(Send(a, s))

FairSpec == Spec /\ Fairness

-----------------------------------------------------------------------------
(* Properties                                                                *)

TypeOK ==
  /\ record \in [Agents -> Record]
  /\ task \in [Agents -> [Slots -> Task]]
  /\ DOMAIN net \subseteq Message
  /\ waiting \subseteq Agents
  /\ calls \in [Agents -> 0..MaxCalls]
  /\ mishaps \in 0..MaxFaults
  /\ serial \in BOOLEAN
  /\ torn \subseteq Agents

\* No update of a's record is between its two writes, or was stopped there.
Whole(a) == a \notin torn /\ \A s \in Slots : task[a][s].pc # "tags"

\* A record that isReady, and an inviter's record from requested on.
NeedsPeer(a, rec) == IsReady(rec) \/ (a = Inviter /\ rec.state = "requested")

\* Such a record has the key of the other agent: assertReady promises the credential and
\* proof services that createOutboundMessage will find a did document.  It also has the
\* thread, unless an update was stopped after the value and before the tags.  However
\* calls and handlers overlap, none of them may write back a whole record that it read
\* before the key or the thread was there and that says otherwise.
ReadyHasPeer ==
  \A a \in Agents :
    NeedsPeer(a, record[a]) =>
      /\ record[a].theirKey # NoKey
      /\ Whole(a) => record[a].thread # NoThread

\* The inviter only ever holds the key of an invitee whose wallet knows that it
\* made a request: createRequest stores the state before the message leaves, so
\* no crash, loss or overlap leaves the inviter ahead of the invitee.
Asked(i) == record[i].state \notin {"none", "invited"}

PeerAsked == \A i \in Invitees : record[Inviter].theirKey = i => Asked(i)

\* Why the two hold: what they say of the records is true of every object a task
\* has still to write, and of every message that can still cause a write.
NamesThread(m) == m.type \in {"request", "response"} => m.thread # NoThread

NetInv ==
  \A m \in DOMAIN net :
    /\ NamesThread(m)
    /\ m.type = "request" => m.from \in Invitees /\ Asked(m.from)

\* The wallet has the thread of a's record or a task is about to write it, or a was
\* stopped before that.
ThreadComes(a) ==
  \/ record[a].thread # NoThread
  \/ a \in torn
  \/ \E s \in Slots : task[a][s].pc = "tags" /\ task[a][s].rec.thread # NoThread

HasPeer(a, rec) == NeedsPeer(a, rec) => rec.theirKey # NoKey

SafeTask(a, t) ==
  /\ HasPeer(a, t.rec)
  /\ NeedsPeer(a, t.rec) => t.rec.thread # NoThread \/ ThreadComes(a)
  /\ t.pc \in {"store", "tags"} => t.rec.state \notin {"none", "invited"}
  /\ t.pc = "send" => t.out # NoMessage
  /\ t.op = "createRequest" =>
       t.pc = "load" /\ t.out # NoMessage /\ t.out.type = "request"
  /\ t.out # NoMessage => NamesThread(t.out)
  /\ t.out # NoMessage /\ t.out.type = "request" =>
       /\ t.out.from = a
       /\ a \in Invitees
       /\ t.pc \in {"tags", "send"} => Asked(a)
  /\ a = Inviter /\ t.rec.theirKey \in Invitees => Asked(t.rec.theirKey)

TaskInv == \A a \in Agents, s \in Slots : SafeTask(a, task[a][s])

RecordInv ==
  \A a \in Agents :
    /\ HasPeer(a, record[a])
    /\ NeedsPeer(a, record[a]) => ThreadComes(a)

HandshakeInv == TypeOK /\ RecordInv /\ PeerAsked /\ NetInv /\ TaskInv

\* When an invitee considers the connection ready, the inviter does too, with that
\* invitee.  So at most one of the agents that received the invitation gets a connection.
\* The two have it under the same thread, which is one the invitee chose, unless one of
\* them was stopped between the two writes of an update: then the response may have gone
\* out under a thread id of its own.  Holds while no agent overlaps two tasks.
Agreement ==
  serial =>
    \A i \in Invitees :
      IsReady(record[i]) =>
        /\ IsReady(record[Inviter])
        /\ record[Inviter].theirKey = i
        /\ record[i].theirKey = Inviter
        /\ Whole(i) /\ Whole(Inviter) =>
             /\ record[i].thread = record[Inviter].thread
             /\ record[i].thread[1] = i

Rank == [none |-> 0, invited |-> 1, requested |-> 2, responded |-> 3, complete |-> 4]

\* No write takes a connection back to an earlier state of the protocol.
\* Holds while no agent overlaps two tasks.
NeverRegresses ==
  [][serial => \A a \in Agents : Rank[record[a].state] <= Rank[record'[a].state]]_record

\* Once an agent has stored the key of its peer, no later message or call
\* replaces it.  Holds while no agent overlaps two tasks.
PeerIsFinal ==
  [][serial => \A a \in Agents : record[a].theirKey # NoKey
                                  => record'[a].theirKey = record[a].theirKey]_record

\* With auto accept everywhere and no faults, an invitation that reached the
\* inviter as a request ends with both records complete.
Connects ==
  record[Inviter].state = "requested"
    ~> (\E i \in Invitees : record[i].state = "complete"
                           /\ record[Inviter].state = "complete")

\* ... and then returnWhenIsConnected resolves at the inviter.
WaiterResolves ==
  (Inviter \in waiting /\ record[Inviter].state # "invited")
    ~> (Inviter \notin waiting)

\* BaseMessage declares that every message has an id (@Matches on id); the thread of
\* a message that answers nothing is its id.
PingHasId == \A m \in DOMAIN net : m.type = "ping" => m.thread # NoThread
=============================================================================
