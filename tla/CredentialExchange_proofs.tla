---------------------- MODULE CredentialExchange_proofs ----------------------
(***************************************************************************)
(* Proofs about CredentialExchange, for any number of slots, exchanges,    *)
(* ids and faults.  W stands for what is in the holder's wallet.           *)
(***************************************************************************)
EXTENDS CredentialExchange, Exchange_proofs

Has(W, thread) == \E c \in W : c.thread = thread

\* An offer received has an id, the holder's request names its thread, and what was
\* received is in the wallet.
HolderGood(W) ==
  {rec \in Record :
     /\ rec.state # "credential-issued"
     /\ rec.state = "offer-received" => rec.offer \in Ids
     /\ rec.state \in {"request-sent", "credential-received", "done"}
          => rec.request.thread = rec.thread
     /\ rec.state \in {"credential-received", "done"}
          => rec.credential \in W /\ rec.credential.thread = rec.thread}

IssuerGood(W) ==
  {rec \in Record :
     /\ rec.state # "offer-received"
     /\ rec.state = "done" => Has(W, rec.thread)}

GoodRecords(W) == [a \in Agents |-> IF a = Holder THEN HolderGood(W) ELSE IssuerGood(W)]

\* An offer has an id, and an ack is sent when the credential is there.
GoodMessages(W) ==
  {m \in Message : /\ m.type = "offer" => m.id \in Ids
                   /\ m.type = "ack" => Has(W, m.thread)}

PCs == {"storeCredential"}
HeldWith(W) == Held(Record, Message, PCs, GoodRecords(W), GoodMessages(W))

\* Only a holder that waits for a credential stores one.
StoreFits ==
  \A a \in Agents, s \in Slots :
    task[a][s].pc = "storeCredential" => a = Holder /\ task[a][s].rec.state = "request-sent"

CredInv ==
  /\ HeldWith(DOMAIN wallet)
  /\ StoreFits
  /\ DOMAIN wallet \subseteq Request

-----------------------------------------------------------------------------
LEMMA Ends == Holder \in Agents /\ Issuer \in Agents /\ Holder # Issuer
BY AgentsAssumption

LEMMA Parts ==
  ASSUME NEW W
  PROVE  /\ GoodRecords(W)[Holder] = HolderGood(W)
         /\ GoodRecords(W)[Issuer] = IssuerGood(W)
         /\ \A a \in Agents : GoodRecords(W)[a] \subseteq Record
         /\ GoodMessages(W) \subseteq Message
BY Ends DEF GoodRecords, HolderGood, IssuerGood, GoodMessages

LEMMA InitEstablishes == Init => CredInv
<1> SUFFICES ASSUME Init PROVE CredInv
  OBVIOUS
<1>1. DOMAIN net = {} /\ DOMAIN wallet = {}
  BY EmptyNet DEF Init, ExchangeInit
<1>2. \A a \in Agents : records[a] = <<>>
  BY DEF Init, ExchangeInit
<1>3. \A a \in Agents, s \in Slots : task[a][s] = Idle
  BY DEF Init, ExchangeInit
<1>4. Idle \in Task(Record, Message, PCs) /\ Idle.pc = "idle" /\ Idle.out = Nothing
  BY DEF Idle, Task, None
<1>5. Fit(PCs, GoodRecords(DOMAIN wallet), GoodMessages(DOMAIN wallet))
  BY <1>1, <1>2, <1>3, <1>4, EmptySeq DEF Fit, PCs
<1>6. records \in [Agents -> Seq(Record)]
  BY EmptySeq DEF Init, ExchangeInit
<1>7. task \in [Agents -> [Slots -> Task(Record, Message, PCs)]]
  BY <1>4 DEF Init, ExchangeInit
<1>8. ExchangeTypeOK(Record, Message, PCs)
  BY <1>1, <1>6, <1>7, BoundsAssumption DEF Init, ExchangeInit, ExchangeTypeOK, Task
<1>9. HeldWith(DOMAIN wallet)
  BY <1>5, <1>8, Parts DEF HeldWith, Held, PCs
<1>10. StoreFits
  BY <1>3, <1>4 DEF StoreFits
<1> QED BY <1>1, <1>9, <1>10 DEF CredInv

-----------------------------------------------------------------------------
(* Steps                                                                     *)

\* One task is replaced, and the records are not.
LEMMA Begun ==
  ASSUME NEW CONSTANT W, HeldWith(W), StoreFits,
         NEW a \in Agents, NEW s \in Slots, NEW t,
         Good(t, Record, Message, PCs, GoodRecords(W), GoodMessages(W), a),
         task' = [task EXCEPT ![a][s] = t],
         t.pc = "storeCredential" => a = Holder /\ t.rec.state = "request-sent",
         UNCHANGED records, DOMAIN net' \subseteq GoodMessages(W), Counted'
  PROVE  HeldWith(W)' /\ StoreFits'
<1>1. Held(Record, Message, PCs, GoodRecords(W), GoodMessages(W))'
  BY TaskStep DEF HeldWith
<1>2. \A b \in Agents, q \in Slots :
        task'[b][q] = IF b = a /\ q = s THEN t ELSE task[b][q]
  BY DEF HeldWith, Held, ExchangeTypeOK
<1>3. StoreFits'
  BY <1>2 DEF StoreFits
<1> QED BY <1>1, <1>3 DEF HeldWith

LEMMA NetGood ==
  ASSUME NEW CONSTANT W, HeldWith(W)
  PROVE  /\ DOMAIN net \subseteq GoodMessages(W)
         /\ Counted
         /\ \A m : DOMAIN Take(net, m) \subseteq GoodMessages(W)
         /\ \A m \in GoodMessages(W) : DOMAIN Put(net, m) \subseteq GoodMessages(W)
<1>1. DOMAIN net \subseteq GoodMessages(W) /\ Counted
  <2>1. DOMAIN net \subseteq GoodMessages(W)
    BY DEF HeldWith, Held, Fit
  <2>2. Counted
    BY DEF HeldWith, Held, ExchangeTypeOK, Counted
  <2> QED BY <2>1, <2>2
<1>2. ASSUME NEW m PROVE DOMAIN Take(net, m) \subseteq GoodMessages(W)
  BY <1>1, TakeOut
<1>3. ASSUME NEW m \in GoodMessages(W) PROVE DOMAIN Put(net, m) \subseteq GoodMessages(W)
  <2>1. DOMAIN Put(net, m) = DOMAIN net \cup {m}
    BY PutIn
  <2> QED BY <1>1, <1>3, <2>1
<1> QED BY <1>1, <1>2, <1>3

LEMMA Writes ==
  ASSUME NEW CONSTANT W, HeldWith(W), StoreFits,
         NEW a \in Agents, NEW s \in Slots, NEW pc \in {"save", "update"}, NEW at \in Nat,
         NEW rec \in GoodRecords(W)[a], NEW out \in GoodMessages(W) \cup {Nothing},
         Begin(a, s, pc, at, rec, out),
         UNCHANGED records, DOMAIN net' \subseteq GoodMessages(W), Counted'
  PROVE  HeldWith(W)' /\ StoreFits'
<1> DEFINE t == [pc |-> pc, at |-> at, rec |-> rec, out |-> out]
<1>1. Good(t, Record, Message, PCs, GoodRecords(W), GoodMessages(W), a)
  BY WriteGood DEF HeldWith
<1>2. task' = [task EXCEPT ![a][s] = t] /\ t.pc # "storeCredential"
  BY DEF Begin
<1> HIDE DEF t
<1> QED BY <1>1, <1>2, Begun

\* A record is replaced by what the task holds, and a new one is saved.
LEMMA Rewrites ==
  ASSUME NEW CONSTANT W, HeldWith(W), StoreFits, NEW a \in Agents, NEW s \in Slots,
         task[a][s].pc = "update",
         records' = [records EXCEPT ![a][task[a][s].at] = task[a][s].rec],
         NEW rec \in GoodRecords(W)[a], Begin(a, s, "save", 0, rec, Nothing),
         DOMAIN net' \subseteq GoodMessages(W), Counted'
  PROVE  HeldWith(W)' /\ StoreFits'
<1> DEFINE t == [pc |-> "save", at |-> 0, rec |-> rec, out |-> Nothing]
<1>1. Good(t, Record, Message, PCs, GoodRecords(W), GoodMessages(W), a)
  BY WriteGood DEF HeldWith
<1>2. task' = [task EXCEPT ![a][s] = t] /\ t.pc # "storeCredential"
  BY DEF Begin
<1> HIDE DEF t
<1>3. HeldWith(W)'
  BY <1>1, <1>2, RewriteStep DEF HeldWith
<1>4. \A b \in Agents, q \in Slots :
        task'[b][q] = IF b = a /\ q = s THEN t ELSE task[b][q]
  BY <1>2 DEF HeldWith, Held, ExchangeTypeOK
<1>5. StoreFits'
  BY <1>2, <1>4 DEF StoreFits
<1> QED BY <1>3, <1>5

\* The record a call or handler has read.
LEMMA ReadGood ==
  ASSUME NEW CONSTANT W, HeldWith(W), NEW a \in Agents, NEW r \in DOMAIN records[a]
  PROVE  /\ records[a][r] \in GoodRecords(W)[a]
         /\ records[a][r] \in Record
         /\ r \in Nat
BY StoredGood DEF HeldWith

\* Messages that are no ack are good when their parts have their types.
LEMMA MessageGood ==
  ASSUME NEW W, NEW type \in MessageTypes, NEW to \in Agents, NEW id \in Ids \cup {None},
         NEW thread \in Ids, NEW body \in Request,
         type = "offer" => id \in Ids, type = "ack" => Has(W, thread)
  PROVE  Msg(type, to, id, thread, body) \in GoodMessages(W)
BY DEF GoodMessages, Message, Msg

LEMMA NoRequestType == NoRequest \in Request
BY DEF NoRequest, Request

LEMMA NewGood ==
  ASSUME NEW W, NEW state \in {"proposal-sent", "proposal-received", "offer-sent"},
         NEW thread \in Ids, NEW offer \in Ids \cup {None}
  PROVE  NewRecord(state, thread, offer) \in HolderGood(W) \cap IssuerGood(W)
BY NoRequestType DEF NewRecord, HolderGood, IssuerGood, Record, HolderStates, IssuerStates

LEMMA OfferedGood ==
  ASSUME NEW W, NEW thread \in Ids, NEW offer \in Ids
  PROVE  NewRecord("offer-received", thread, offer) \in HolderGood(W)
BY NoRequestType DEF NewRecord, HolderGood, Record, HolderStates

LEMMA StartKeeps ==
  ASSUME NEW CONSTANT W, HeldWith(W), StoreFits, NEW a \in Agents, NEW s \in Slots,
         NEW rec \in GoodRecords(W)[a], NEW m \in GoodMessages(W), Start(a, s, rec, m)
  PROVE  HeldWith(W)' /\ StoreFits'
<1>2. Counted' /\ UNCHANGED records
  BY NetGood, StartCounts
<1>3. DOMAIN net' \subseteq GoodMessages(W)
  BY NetGood DEF Start
<1>4. Begin(a, s, "save", 0, rec, Nothing)
  BY DEF Start, Save, None
<1> QED BY <1>2, <1>3, <1>4, Writes

LEMMA StartsKeep ==
  ASSUME NEW CONSTANT W, HeldWith(W), StoreFits, NEW s \in Slots, CreateProposal(s) \/ CreateOffer(s)
  PROVE  HeldWith(W)' /\ StoreFits'
<1>1. lastId' \in Ids
  BY NetGood, FreshIds DEF CreateProposal, CreateOffer, Start
<1>2. CASE CreateProposal(s)
  <2>1. NewRecord("proposal-sent", lastId', None) \in GoodRecords(W)[Holder]
    BY <1>1, NewGood, Parts
  <2>2. Propose(lastId') \in GoodMessages(W)
    BY <1>1, MessageGood, NoRequestType, Ends DEF Propose, MessageTypes
  <2>3. Start(Holder, s, NewRecord("proposal-sent", lastId', None), Propose(lastId'))
    BY <1>2 DEF CreateProposal
  <2> QED BY <2>1, <2>2, <2>3, StartKeeps, Ends
<1>3. CASE CreateOffer(s)
  <2>1. NewRecord("offer-sent", lastId', lastId') \in GoodRecords(W)[Issuer]
    BY <1>1, NewGood, Parts
  <2>2. Offer(lastId') \in GoodMessages(W)
    BY <1>1, MessageGood, NoRequestType, Ends DEF Offer, MessageTypes
  <2>3. Start(Issuer, s, NewRecord("offer-sent", lastId', lastId'), Offer(lastId'))
    BY <1>3 DEF CreateOffer
  <2> QED BY <2>1, <2>2, <2>3, StartKeeps, Ends
<1> QED BY <1>2, <1>3

\* One task is begun with a record and nothing else but the network changes.
LEMMA AcceptKeeps ==
  ASSUME NEW CONSTANT W, HeldWith(W), StoreFits, NEW a \in Agents, NEW s \in Slots,
         NEW r \in DOMAIN records[a],
         \/ a = Issuer /\ (AcceptProposal(s, r) \/ AcceptRequest(s, r))
         \/ a = Holder /\ (AcceptOffer(s, r) \/ AcceptCredential(s, r))
  PROVE  HeldWith(W)' /\ StoreFits'
<1> DEFINE rec == records[a][r]
<1>1. rec \in GoodRecords(W)[a] /\ rec \in Record /\ r \in Nat
  BY ReadGood
<1>2. Counted' /\ UNCHANGED <<records, net>> /\ DOMAIN net' \subseteq GoodMessages(W)
  <2>1. CallOn(a, s) /\ (FreshId \/ UNCHANGED lastId) /\ UNCHANGED net
    BY DEF AcceptProposal, AcceptRequest, AcceptOffer, AcceptCredential,
           CreateOfferAsResponse, CreateRequest, CreateCredential, CreateAck
  <2> QED BY <2>1, CallsCount, NetGood
<1>3. CASE a = Issuer /\ AcceptProposal(s, r)
  <2> DEFINE new == [rec EXCEPT !.state = "offer-sent", !.offer = lastId']
  <2>1. Begin(a, s, "update", r, new, Offer(rec.thread)) /\ lastId' \in Ids
    BY <1>3, NetGood, FreshIds DEF AcceptProposal, CreateOfferAsResponse, Update
  <2>2. new \in GoodRecords(W)[a]
    <3> HIDE DEF rec
    <3>1. new \in Record /\ new.state = "offer-sent"
      BY <1>1, <2>1 DEF Record, IssuerStates
    <3> HIDE DEF new
    <3> QED BY <1>3, <3>1, Parts DEF IssuerGood
  <2>3. Offer(rec.thread) \in GoodMessages(W)
    BY <1>1, <2>1, MessageGood, NoRequestType, Ends DEF Offer, MessageTypes, Record
  <2> HIDE DEF new, rec
  <2> QED BY <1>1, <1>2, <2>1, <2>2, <2>3, Writes
<1>4. CASE a = Issuer /\ AcceptRequest(s, r)
  <2> DEFINE new == [rec EXCEPT !.state = "credential-issued", !.credential = rec.request]
             out == Msg("issue", Holder, None, rec.thread, rec.request)
  <2>1. Begin(a, s, "update", r, new, out)
    BY <1>4 DEF AcceptRequest, CreateCredential, Update
  <2>2. new \in GoodRecords(W)[a]
    <3> HIDE DEF rec
    <3>1. new \in Record
      BY <1>1 DEF Record, IssuerStates
    <3> QED BY <1>1, <1>4, <3>1, Parts DEF IssuerGood, Record
  <2>3. out \in GoodMessages(W)
    BY <1>1, MessageGood, Ends DEF MessageTypes, Record
  <2> HIDE DEF new, out, rec
  <2> QED BY <1>1, <1>2, <2>1, <2>2, <2>3, Writes
<1>5. CASE a = Holder /\ AcceptOffer(s, r)
  <2> DEFINE request == [id |-> lastId', offer |-> rec.offer, thread |-> rec.thread]
             new == [rec EXCEPT !.state = "request-sent", !.request = request]
             out == Msg("request", Issuer, lastId', rec.thread, request)
  <2>1. Begin(a, s, "update", r, new, out) /\ lastId' \in Ids
    BY <1>5, NetGood, FreshIds DEF AcceptOffer, CreateRequest, Update
  <2>2. request \in Request /\ request.thread = rec.thread
    BY <1>1, <2>1 DEF Request, Record
  <2>3. new \in GoodRecords(W)[a]
    <3> HIDE DEF request, rec
    <3>1. new \in Record
      BY <1>1, <2>2 DEF Record, HolderStates
    <3>2. new.state = "request-sent" /\ new.request = request /\ new.thread = rec.thread
      BY <1>1 DEF Record
    <3> QED BY <1>5, <2>2, <3>1, <3>2, Parts DEF HolderGood
  <2>4. out \in GoodMessages(W)
    <3> HIDE DEF request
    <3> QED BY <1>1, <2>1, <2>2, MessageGood, Ends DEF MessageTypes, Record
  <2> HIDE DEF new, out, rec
  <2> QED BY <1>1, <1>2, <2>1, <2>3, <2>4, Writes
<1>6. CASE a = Holder /\ AcceptCredential(s, r)
  <2> DEFINE new == [rec EXCEPT !.state = "done"]
             out == Msg("ack", Issuer, None, rec.thread, NoRequest)
  <2>1. Begin(a, s, "update", r, new, out) /\ rec.state = "credential-received"
    BY <1>6 DEF AcceptCredential, CreateAck, Update
  <2>2. new \in GoodRecords(W)[a]
    BY <1>1, <1>6, <2>1, Parts DEF HolderGood, Record, HolderStates
  <2>3. Has(W, rec.thread)
    BY <1>1, <1>6, <2>1, Parts DEF HolderGood, Has
  <2>4. out \in GoodMessages(W)
    BY <1>1, <2>3, MessageGood, NoRequestType, Ends DEF MessageTypes, Record
  <2> HIDE DEF new, out, rec
  <2> QED BY <1>1, <1>2, <2>1, <2>2, <2>4, Writes
<1> QED BY <1>3, <1>4, <1>5, <1>6

LEMMA RespondKeeps ==
  ASSUME NEW CONSTANT W, HeldWith(W), StoreFits, NEW s \in Slots,
         NEW r \in DOMAIN records[Holder], CreateProposalAsResponse(s, r)
  PROVE  HeldWith(W)' /\ StoreFits'
<1> DEFINE rec == records[Holder][r]
           new == [rec EXCEPT !.state = "proposal-sent"]
<1>1. rec \in GoodRecords(W)[Holder] /\ rec \in Record /\ r \in Nat
  BY ReadGood, Ends
<1>2. /\ CallOn(Holder, s) /\ FreshId /\ net' = Put(net, Propose(rec.thread))
      /\ Begin(Holder, s, "update", r, new, Nothing)
  BY DEF CreateProposalAsResponse, Update
<1>3. lastId' \in Ids /\ Counted' /\ UNCHANGED records
  BY <1>2, NetGood, FreshIds, CallsCount
<1>4. new \in GoodRecords(W)[Holder]
  BY <1>1, Parts DEF HolderGood, Record, HolderStates
<1>5. Propose(rec.thread) \in GoodMessages(W)
  BY <1>1, <1>3, MessageGood, NoRequestType, Ends DEF Propose, MessageTypes, Record
<1>6. DOMAIN net' \subseteq GoodMessages(W)
  BY <1>2, <1>5, NetGood
<1> HIDE DEF new, rec
<1> QED BY <1>1, <1>2, <1>3, <1>4, <1>6, Writes, Ends

LEMMA RefuseKeeps ==
  ASSUME NEW CONSTANT W, HeldWith(W), StoreFits, NEW a, NEW s, NEW m, Refuse(a, s, m)
  PROVE  HeldWith(W)' /\ StoreFits'
<1>1. UNCHANGED <<records, task>> /\ DOMAIN net' \subseteq GoodMessages(W) /\ Counted'
  <2>1. PICK type : Receive(a, s, m, type) /\ UNCHANGED task
    BY DEF Refuse, Refuses
  <2> QED BY <2>1, NetGood, ReceivesCount
<1>2. HeldWith(W)'
  BY <1>1 DEF HeldWith, Held, ExchangeTypeOK, Fit, Counted
<1> QED BY <1>1, <1>2 DEF StoreFits

\* The issuer's handlers.
LEMMA IssuerHandles ==
  ASSUME NEW CONSTANT W, HeldWith(W), StoreFits, NEW s \in Slots, NEW m \in DOMAIN net,
         ProcessProposal(s, m) \/ ProcessRequest(s, m) \/ ProcessAck(s, m)
  PROVE  HeldWith(W)' /\ StoreFits'
<1>1. /\ Counted' /\ UNCHANGED records /\ DOMAIN net' \subseteq GoodMessages(W)
      /\ m \in GoodMessages(W) /\ m \in Message
      /\ ProcessAck(s, m) => m.type = "ack"
  BY NetGood, ReceivesCount, Parts DEF ProcessProposal, ProcessRequest, ProcessAck
<1>2. ASSUME NEW r \in DOMAIN records[Issuer], NEW new \in GoodRecords(W)[Issuer],
             Begin(Issuer, s, "update", r, new, Nothing)
      PROVE  HeldWith(W)' /\ StoreFits'
  BY <1>1, <1>2, ReadGood, Writes, Ends
<1>3. \A r : r \in ByThread(Issuer, m.thread) =>
        r \in DOMAIN records[Issuer] /\ records[Issuer][r].thread = m.thread
  BY DEF ByThread
<1>4. CASE ProcessProposal(s, m)
  <2>1. CASE Save(Issuer, s, NewRecord("proposal-received", m.thread, None))
    <3>1. NewRecord("proposal-received", m.thread, None) \in GoodRecords(W)[Issuer]
      BY <1>1, NewGood, Parts DEF Message
    <3>2. Begin(Issuer, s, "save", 0, NewRecord("proposal-received", m.thread, None), Nothing)
      BY <2>1 DEF Save, None
    <3> QED BY <1>1, <3>1, <3>2, Writes, Ends
  <2>2. ASSUME NEW r \in ByThread(Issuer, m.thread),
               Update(Issuer, s, r, [records[Issuer][r] EXCEPT !.state = "proposal-received"],
                      Nothing)
        PROVE  HeldWith(W)' /\ StoreFits'
    <3> DEFINE rec == records[Issuer][r]
               new == [rec EXCEPT !.state = "proposal-received"]
    <3>1. rec \in Record /\ r \in DOMAIN records[Issuer]
      BY <1>3, ReadGood, Ends
    <3>2. new \in GoodRecords(W)[Issuer]
      <4> HIDE DEF rec
      <4>1. new \in Record
        BY <3>1 DEF Record, IssuerStates
      <4> QED BY <3>1, <4>1, Parts DEF IssuerGood, Record
    <3> QED BY <1>2, <2>2, <3>1, <3>2 DEF Update
  <2> QED BY <1>4, <2>1, <2>2 DEF ProcessProposal
<1>5. CASE ProcessRequest(s, m)
  <2>1. PICK r \in ByThread(Issuer, m.thread) :
          Update(Issuer, s, r, [records[Issuer][r] EXCEPT !.state = "request-received",
                                                          !.request = m.body], Nothing)
    BY <1>5 DEF ProcessRequest
  <2> DEFINE rec == records[Issuer][r]
             new == [rec EXCEPT !.state = "request-received", !.request = m.body]
  <2>2. rec \in Record /\ r \in DOMAIN records[Issuer]
    BY <1>3, ReadGood, Ends
  <2>3. new \in GoodRecords(W)[Issuer]
    <3> HIDE DEF rec
    <3>1. m.body \in Request
      BY <1>1 DEF Message
    <3>2. new \in Record
      BY <2>2, <3>1 DEF Record, IssuerStates
    <3> QED BY <2>2, <3>2, Parts DEF IssuerGood, Record
  <2> QED BY <1>2, <2>1, <2>2, <2>3 DEF Update
<1>6. CASE ProcessAck(s, m)
  <2>1. PICK r \in ByThread(Issuer, m.thread) :
          Update(Issuer, s, r, [records[Issuer][r] EXCEPT !.state = "done"], Nothing)
    BY <1>6 DEF ProcessAck
  <2> DEFINE rec == records[Issuer][r]
             new == [rec EXCEPT !.state = "done"]
  <2>2. rec \in Record /\ r \in DOMAIN records[Issuer] /\ rec.thread = m.thread
    BY <1>3, ReadGood, Ends
  <2>3. new \in GoodRecords(W)[Issuer]
    <3> HIDE DEF rec
    <3>1. Has(W, m.thread)
      BY <1>1, <1>6 DEF GoodMessages
    <3>2. new \in Record /\ new.thread = m.thread /\ new.state = "done"
      BY <2>2 DEF Record, IssuerStates
    <3> HIDE DEF new
    <3> QED BY <3>1, <3>2, Parts DEF IssuerGood
  <2> QED BY <1>2, <2>1, <2>2, <2>3 DEF Update
<1> QED BY <1>4, <1>5, <1>6

\* The holder's handlers.
LEMMA HolderHandles ==
  ASSUME NEW CONSTANT W, HeldWith(W), StoreFits, NEW s \in Slots, NEW m \in DOMAIN net,
         ProcessOffer(s, m) \/ ProcessCredential(s, m)
  PROVE  HeldWith(W)' /\ StoreFits'
<1>1. /\ Counted' /\ UNCHANGED records /\ DOMAIN net' \subseteq GoodMessages(W)
      /\ m \in GoodMessages(W) /\ m \in Message
      /\ ProcessOffer(s, m) => m.type = "offer"
  BY NetGood, ReceivesCount, Parts DEF ProcessOffer, ProcessCredential
<1>2. \A r : r \in ByThread(Holder, m.thread) =>
        r \in DOMAIN records[Holder] /\ records[Holder][r].thread = m.thread
  BY DEF ByThread
<1>3. CASE ProcessOffer(s, m)
  <2>0. m.id \in Ids
    BY <1>1, <1>3 DEF GoodMessages
  <2>1. CASE Save(Holder, s, NewRecord("offer-received", m.id, m.id))
    <3>1. NewRecord("offer-received", m.id, m.id) \in GoodRecords(W)[Holder]
      BY <2>0, OfferedGood, Parts
    <3>2. Begin(Holder, s, "save", 0, NewRecord("offer-received", m.id, m.id), Nothing)
      BY <2>1 DEF Save, None
    <3> QED BY <1>1, <3>1, <3>2, Writes, Ends
  <2>2. ASSUME NEW r \in ByThread(Holder, m.thread),
               Update(Holder, s, r, [records[Holder][r] EXCEPT !.state = "offer-received",
                                                               !.offer = m.id], Nothing)
        PROVE  HeldWith(W)' /\ StoreFits'
    <3> DEFINE rec == records[Holder][r]
               new == [rec EXCEPT !.state = "offer-received", !.offer = m.id]
    <3>1. rec \in Record /\ r \in DOMAIN records[Holder] /\ r \in Nat
      BY <1>2, ReadGood, Ends
    <3>2. new \in GoodRecords(W)[Holder]
      <4> HIDE DEF rec
      <4>1. new \in Record /\ new.state = "offer-received" /\ new.offer = m.id
        BY <2>0, <3>1 DEF Record, HolderStates
      <4> HIDE DEF new
      <4> QED BY <2>0, <4>1, Parts DEF HolderGood
    <3> HIDE DEF new, rec
    <3> QED BY <1>1, <2>2, <3>1, <3>2, Writes, Ends DEF Update, rec, new
  <2> QED BY <1>3, <2>1, <2>2 DEF ProcessOffer
<1>4. CASE ProcessCredential(s, m)
  <2>1. PICK r \in ByThread(Holder, m.thread) :
          /\ Finds(Holder, m.thread, "request-sent", r)
          /\ Begin(Holder, s, "storeCredential", r,
                   [records[Holder][r] EXCEPT !.credential = m.body], Nothing)
    BY <1>4 DEF ProcessCredential
  <2> DEFINE rec == records[Holder][r]
             new == [rec EXCEPT !.credential = m.body]
             t == [pc |-> "storeCredential", at |-> r, rec |-> new, out |-> Nothing]
  <2>2. /\ rec \in Record /\ rec \in HolderGood(W) /\ r \in Nat
        /\ rec.state = "request-sent"
    BY <1>2, <2>1, ReadGood, Ends, Parts DEF Finds
  <2>3. new \in GoodRecords(W)[Holder] /\ new.state = "request-sent"
    <3> HIDE DEF rec
    <3>1. m.body \in Request
      BY <1>1 DEF Message
    <3>2. new \in Record /\ new.state = "request-sent"
      BY <2>2, <3>1 DEF Record, HolderStates
    <3>3. new.request = rec.request /\ new.thread = rec.thread
      BY <2>2 DEF Record
    <3>4. rec.request.thread = rec.thread
      BY <2>2 DEF HolderGood
    <3> QED BY <3>2, <3>3, <3>4, Parts DEF HolderGood
  <2>4. task' = [task EXCEPT ![Holder][s] = t]
    BY <2>1 DEF Begin
  <2> HIDE DEF new, rec
  <2>5. Good(t, Record, Message, PCs, GoodRecords(W), GoodMessages(W), Holder)
    BY <2>2, <2>3, WriteGood, Ends DEF HeldWith, PCs
  <2>6. t.pc = "storeCredential" => Holder = Holder /\ t.rec.state = "request-sent"
    BY <2>3
  <2> HIDE DEF t
  <2> QED BY <1>1, <2>4, <2>5, <2>6, Begun, Ends
<1> QED BY <1>3, <1>4

LEMMA ProceedKeeps ==
  ASSUME NEW CONSTANT W, HeldWith(W), StoreFits, NEW a \in Agents, NEW s \in Slots,
         SaveRecord(a, s) \/ UpdateRecord(a, s) \/ Send(a, s)
  PROVE  HeldWith(W)' /\ StoreFits'
<1>1. HeldWith(W)'
  BY SaveStep, UpdateStep, SendStep DEF HeldWith
<1>2. \A b \in Agents, q \in Slots :
        task'[b][q].pc = "storeCredential" => task'[b][q] = task[b][q]
  <2>1. PICK t : task' = [task EXCEPT ![a][s] = t] /\ t.pc # "storeCredential"
    <3>1. CASE task' = [task EXCEPT ![a][s] = Idle]
      <4>1. Idle.pc # "storeCredential"
        BY DEF Idle
      <4> HIDE DEF Idle
      <4> QED BY <3>1, <4>1
    <3>2. CASE task' = [task EXCEPT ![a][s].pc = "send"]
      <4>1. [task[a][s] EXCEPT !.pc = "send"].pc # "storeCredential"
        BY DEF HeldWith, Held, ExchangeTypeOK
      <4>2. task' = [task EXCEPT ![a][s] = [task[a][s] EXCEPT !.pc = "send"]]
        BY <3>2 DEF HeldWith, Held, ExchangeTypeOK
      <4> QED BY <4>1, <4>2
    <3> QED BY <3>1, <3>2 DEF SaveRecord, UpdateRecord, Send, End
  <2>2. \A b \in Agents, q \in Slots :
          task'[b][q] = IF b = a /\ q = s THEN t ELSE task[b][q]
    BY <2>1 DEF HeldWith, Held, ExchangeTypeOK
  <2> QED BY <2>1, <2>2
<1> QED BY <1>1, <1>2 DEF StoreFits

LEMMA FaultKeeps ==
  ASSUME NEW CONSTANT W, HeldWith(W), StoreFits, Fault
  PROVE  HeldWith(W)' /\ StoreFits'
<1>1. HeldWith(W)'
  BY FaultStep DEF HeldWith
<1>2. CASE UNCHANGED task
  BY <1>1, <1>2 DEF StoreFits
<1>3. ASSUME NEW a \in Agents, Crash(a) PROVE StoreFits'
  <2>1. \A b \in Agents, q \in Slots :
          task'[b][q] = IF b = a THEN Idle ELSE task[b][q]
    BY <1>3 DEF Crash, HeldWith, Held, ExchangeTypeOK
  <2>2. Idle.pc # "storeCredential"
    BY DEF Idle
  <2> HIDE DEF Idle
  <2> QED BY <2>1, <2>2 DEF StoreFits
<1> QED BY <1>1, <1>2, <1>3 DEF Fault, Lose, Duplicate

\* A call fails: the task ends, or saves the record it takes to be missing.
LEMMA FailureKeeps ==
  ASSUME NEW CONSTANT W, HeldWith(W), StoreFits, NEW a \in Agents, NEW s \in Slots, CallFails(a, s)
  PROVE  HeldWith(W)' /\ StoreFits'
<1> DEFINE t == task[a][s]
           proposed == NewRecord("proposal-received", t.rec.thread, None)
           offered == NewRecord("offer-received", t.rec.offer, t.rec.offer)
<1>1. /\ UNCHANGED <<net, starts, lastId>> /\ Strikes("refuse")
      /\ \/ task' = [task EXCEPT ![a][s] = Idle] /\ UNCHANGED records
         \/ /\ \/ t.rec.state = "proposal-received" /\ Save(a, s, proposed)
               \/ t.rec.state = "offer-received" /\ Save(a, s, offered)
            /\ t.pc = "update"
            /\ UNCHANGED records \/ records' = [records EXCEPT ![a][t.at] = t.rec]
  BY DEF CallFails, InTry, Throws, Catches, End
<1>2. Counted' /\ DOMAIN net' \subseteq GoodMessages(W)
  BY <1>1, NetGood, StrikesCount DEF FaultKinds
<1>3. CASE task' = [task EXCEPT ![a][s] = Idle] /\ UNCHANGED records
  <2>1. Good(Idle, Record, Message, PCs, GoodRecords(W), GoodMessages(W), a)
    BY IdleGood DEF HeldWith
  <2>2. Idle.pc # "storeCredential"
    BY DEF Idle
  <2> HIDE DEF Idle, t
  <2> QED BY <1>1, <1>2, <1>3, <2>1, <2>2, Begun
<1>4. ASSUME t.pc = "update"
      PROVE  t.rec \in GoodRecords(W)[a] /\ t.rec.thread \in Ids
  <2>1. t.rec \in GoodRecords(W)[a]
    BY <1>4 DEF HeldWith, Held, Fit
  <2> HIDE DEF t
  <2> QED BY <2>1, Parts DEF Record
<1>5. ASSUME t.pc = "update", t.rec.state = "proposal-received"
      PROVE  proposed \in GoodRecords(W)[a]
  BY <1>4, <1>5, NewGood DEF GoodRecords
<1>6. ASSUME t.pc = "update", t.rec.state = "offer-received"
      PROVE  offered \in GoodRecords(W)[a]
  <2>1. a = Holder /\ t.rec.offer \in Ids
    <3> HIDE DEF t
    <3> QED BY <1>4, <1>6 DEF GoodRecords, HolderGood, IssuerGood
  <2> QED BY <2>1, OfferedGood, Parts
<1>7. ASSUME NEW rec \in GoodRecords(W)[a], Save(a, s, rec), t.pc = "update",
             UNCHANGED records \/ records' = [records EXCEPT ![a][t.at] = t.rec]
      PROVE  HeldWith(W)' /\ StoreFits'
  <2>1. Begin(a, s, "save", 0, rec, Nothing)
    BY <1>7 DEF Save, None
  <2> HIDE DEF t
  <2>2. CASE UNCHANGED records
    BY <1>1, <1>2, <2>1, <2>2, Writes
  <2>3. CASE records' = [records EXCEPT ![a][t.at] = t.rec]
    BY <1>2, <1>7, <2>1, <2>3, Rewrites DEF t
  <2> QED BY <1>7, <2>2, <2>3
<1> HIDE DEF proposed, offered, t
<1> QED BY <1>1, <1>3, <1>5, <1>6, <1>7

\* The credential that the record will name is the one that was stored.
LEMMA StoreKeeps ==
  ASSUME NEW CONSTANT W, DOMAIN wallet \subseteq W, W = DOMAIN wallet', HeldWith(W), StoreFits,
         NEW s \in Slots, StoreCredential(s)
  PROVE  HeldWith(W)' /\ StoreFits' /\ (DOMAIN wallet \subseteq Request => W \subseteq Request)
<1> DEFINE t == task[Holder][s]
           done == [t.rec EXCEPT !.state = "credential-received"]
<1>1. /\ t \in Task(Record, Message, PCs) /\ t.rec \in HolderGood(W) /\ t.rec \in Record
      /\ t.at \in Nat /\ t.rec.state = "request-sent"
  <2>1. t.pc = "storeCredential" /\ Holder \in Agents /\ t.rec.state = "request-sent"
    BY Ends DEF StoreCredential, StoreFits
  <2>2. t \in Task(Record, Message, PCs) /\ t.rec \in GoodRecords(W)[Holder]
    BY <2>1 DEF HeldWith, Held, Fit, PCs, Task, ExchangeTypeOK
  <2>3. t.at \in Nat
    BY <2>2 DEF Task
  <2> HIDE DEF t
  <2> QED BY <2>1, <2>2, <2>3, Parts DEF HolderGood
<1>2. Counted' /\ UNCHANGED records /\ DOMAIN net' \subseteq GoodMessages(W)
  <2>1. UNCHANGED <<records, net, starts, lastId, mishaps, happened>>
    BY DEF StoreCredential
  <2> QED BY <2>1, NetGood DEF Counted
<1>3. CASE End(Holder, s) /\ UNCHANGED wallet
  <2>1. Good(Idle, Record, Message, PCs, GoodRecords(W), GoodMessages(W), Holder)
    BY IdleGood, Ends DEF HeldWith
  <2>2. task' = [task EXCEPT ![Holder][s] = Idle] /\ Idle.pc # "storeCredential"
    BY <1>3 DEF End, Idle
  <2> HIDE DEF Idle, t, done
  <2> QED BY <1>2, <1>3, <2>1, <2>2, Begun, Ends
<1>4. CASE /\ IndyCanStore(t.rec.request, t.rec.credential)
           /\ wallet' = Put(wallet, t.rec.credential)
           /\ Update(Holder, s, t.at, done, Nothing)
  <2>1. t.rec.credential \in Request /\ t.rec.credential.thread = t.rec.thread
    <3> HIDE DEF t
    <3> QED BY <1>1, <1>4 DEF IndyCanStore, HolderGood, Record
  <2>2. W = DOMAIN wallet \cup {t.rec.credential}
    BY <1>4, PutIn
  <2>3. done \in GoodRecords(W)[Holder]
    <3> HIDE DEF t
    <3>1. /\ done \in Record /\ done.credential = t.rec.credential
          /\ done.thread = t.rec.thread /\ done.request = t.rec.request
          /\ done.state = "credential-received"
      BY <1>1 DEF Record, HolderStates
    <3>2. t.rec.request.thread = t.rec.thread
      BY <1>1 DEF HolderGood
    <3> HIDE DEF done
    <3> QED BY <2>1, <2>2, <3>1, <3>2, Parts DEF HolderGood
  <2>4. Begin(Holder, s, "update", t.at, done, Nothing)
    BY <1>4 DEF Update
  <2>5. HeldWith(W)' /\ StoreFits'
    <3> HIDE DEF t, done
    <3> QED BY <1>1, <1>2, <2>3, <2>4, Writes, Ends
  <2> QED BY <2>1, <2>2, <2>5
<1> QED BY <1>3, <1>4 DEF StoreCredential

-----------------------------------------------------------------------------
(* The invariant                                                             *)

LEMMA WalletGrows ==
  ASSUME CredInv, NEW CONSTANT W, DOMAIN wallet \subseteq W
  PROVE  HeldWith(W)
<1> DEFINE D == DOMAIN wallet
<1>1. Held(Record, Message, PCs, GoodRecords(D), GoodMessages(D))
  BY DEF CredInv, HeldWith
<1>2. GoodMessages(D) \subseteq GoodMessages(W) /\ GoodMessages(W) \subseteq Message
  BY DEF GoodMessages, Has
<1>3. \A a \in Agents : /\ GoodRecords(D)[a] \subseteq GoodRecords(W)[a]
                        /\ GoodRecords(W)[a] \subseteq Record
  BY DEF GoodRecords, HolderGood, IssuerGood, Has
<1> HIDE DEF D
<1> QED BY <1>1, <1>2, <1>3, Weaken DEF HeldWith

LEMMA InvStep == CredInv /\ [Next]_vars => CredInv'
<1> SUFFICES ASSUME CredInv, [Next]_vars PROVE CredInv'
  OBVIOUS
<1>1. PICK W : W = DOMAIN wallet'
  OBVIOUS
<1>2. DOMAIN wallet \subseteq W /\ (UNCHANGED wallet \/ \E s \in Slots : StoreCredential(s))
  <2>1. CASE UNCHANGED wallet
    BY <1>1, <2>1
  <2>2. ASSUME NEW s \in Slots, StoreCredential(s) PROVE DOMAIN wallet \subseteq W
    <3>1. DOMAIN Put(wallet, task[Holder][s].rec.credential)
            = DOMAIN wallet \cup {task[Holder][s].rec.credential}
      BY PutIn
    <3> QED BY <1>1, <2>1, <2>2, <3>1 DEF StoreCredential
  <2> QED BY <2>1, <2>2 DEF Next, Begins, Accept, Handle, Proceed, vars
<1>3. HeldWith(W) /\ StoreFits /\ DOMAIN wallet \subseteq Request
  BY <1>2, WalletGrows DEF CredInv
<1>4. HeldWith(W)' /\ StoreFits' /\ W \subseteq Request
  <2>1. ASSUME UNCHANGED wallet, HeldWith(W)' /\ StoreFits'
        PROVE  HeldWith(W)' /\ StoreFits' /\ W \subseteq Request
    BY <1>1, <1>3, <2>1
  <2>2. CASE UNCHANGED vars
    <3>1. UNCHANGED <<records, task, net, starts, lastId, mishaps, happened>>
      BY <2>2 DEF vars
    <3> QED BY <1>3, <2>1, <2>2, <3>1 DEF vars, HeldWith, Held, ExchangeTypeOK, Fit, StoreFits
  <2>3. CASE Begins
    BY <1>3, <2>1, <2>3, StartsKeep, RespondKeeps DEF Begins, ProposeCredential, OfferCredential
  <2>4. ASSUME NEW a \in Agents, NEW s \in Slots, Accept(a, s)
        PROVE  HeldWith(W)' /\ StoreFits' /\ W \subseteq Request
    BY <1>3, <2>1, <2>4, AcceptKeeps DEF Accept
  <2>5. ASSUME NEW a \in Agents, NEW s \in Slots, Handle(a, s)
        PROVE  HeldWith(W)' /\ StoreFits' /\ W \subseteq Request
    BY <1>3, <2>1, <2>5, IssuerHandles, HolderHandles, RefuseKeeps DEF Handle
  <2>6. ASSUME NEW a \in Agents, NEW s \in Slots, Proceed(a, s)
        PROVE  HeldWith(W)' /\ StoreFits' /\ W \subseteq Request
    BY <1>1, <1>2, <1>3, <2>1, <2>6, ProceedKeeps, StoreKeeps DEF Proceed
  <2>7. CASE (Fault \/ \E a \in Agents, s \in Slots : CallFails(a, s)) /\ UNCHANGED wallet
    BY <1>3, <2>1, <2>7, FaultKeeps, FailureKeeps
  <2> QED BY <2>2, <2>3, <2>4, <2>5, <2>6, <2>7 DEF Next
<1>5. HeldWith(DOMAIN wallet)'
  BY <1>1, <1>4 DEF HeldWith, Held, ExchangeTypeOK, Fit
<1> QED BY <1>1, <1>4, <1>5 DEF CredInv

\* What agents hold and what is on its way has its type, holders store a credential
\* before their record says so, and every ack on its way is of a stored credential.
THEOREM CredInvariant == Spec => []CredInv
<1> QED BY InitEstablishes, InvStep, PTL DEF Spec

\* Records, tasks, messages and credentials have their types.
THEOREM CredTypeOK == Spec => []TypeOK
<1>1. CredInv => TypeOK
  BY DEF CredInv, HeldWith, Held, PCs, TypeOK
<1> QED BY <1>1, CredInvariant, PTL

\* The holder's record names a credential only when it is in the wallet, however
\* many tasks overlap, messages double and processes crash: processCredential stores
\* first and updates the record after.
THEOREM CredReceivedIsStored == Spec => []ReceivedIsStored
<1>1. ASSUME CredInv PROVE ReceivedIsStored
  <2> SUFFICES ASSUME NEW r \in DOMAIN records[Holder],
                      records[Holder][r].state \in {"credential-received", "done"}
               PROVE  records[Holder][r].credential \in DOMAIN wallet
    BY DEF ReceivedIsStored
  <2>1. records[Holder][r] \in HolderGood(DOMAIN wallet)
    <3> DEFINE D == DOMAIN wallet
    <3>1. Held(Record, Message, PCs, GoodRecords(D), GoodMessages(D))
      BY <1>1 DEF CredInv, HeldWith
    <3> HIDE DEF D
    <3> QED BY <3>1, StoredGood, Ends, Parts DEF D
  <2> QED BY <2>1 DEF HolderGood
<1> QED BY <1>1, CredInvariant, PTL

\* An exchange the issuer has recorded as acknowledged has a credential in the
\* holder's wallet, on the same terms.
THEOREM CredDoneHasCredential == Spec => []DoneHasCredential
<1>1. ASSUME CredInv PROVE DoneHasCredential
  <2> SUFFICES ASSUME NEW r \in DOMAIN records[Issuer], records[Issuer][r].state = "done"
               PROVE  \E c \in DOMAIN wallet : c.thread = records[Issuer][r].thread
    BY DEF DoneHasCredential
  <2>1. records[Issuer][r] \in IssuerGood(DOMAIN wallet)
    <3> DEFINE D == DOMAIN wallet
    <3>1. Held(Record, Message, PCs, GoodRecords(D), GoodMessages(D))
      BY <1>1 DEF CredInv, HeldWith
    <3> HIDE DEF D
    <3> QED BY <3>1, StoredGood, Ends, Parts DEF D
  <2> QED BY <2>1 DEF IssuerGood, Has
<1> QED BY <1>1, CredInvariant, PTL

-----------------------------------------------------------------------------
(* Undisturbed, each exchange is at one of a few stages                      *)

StateOf(x) == IF x = Nothing THEN "none" ELSE x.state
TypeOf(m) == IF m = Nothing THEN "none" ELSE m.type

\* The holder's record h, the issuer's record i and the message m of thread u, when all
\* that tasks have decided on is done.  A message that is lost leaves the rest as it is.
Stages(h, i, m) ==
  \/ h = "none" /\ i = "none" /\ m = "none"
  \/ h = "none" /\ i = "offer-sent" /\ m \in {"none", "offer"}
  \/ h = "proposal-sent" /\ i = "none" /\ m \in {"none", "propose"}
  \/ h = "proposal-sent" /\ i = "proposal-received" /\ m = "none"
  \/ h = "proposal-sent" /\ i = "offer-sent" /\ m \in {"none", "propose", "offer"}
  \/ h = "offer-received" /\ i = "offer-sent" /\ m = "none"
  \/ h = "request-sent" /\ i = "offer-sent" /\ m \in {"none", "request"}
  \/ h = "request-sent" /\ i = "request-received" /\ m = "none"
  \/ h = "request-sent" /\ i = "credential-issued" /\ m \in {"none", "issue"}
  \/ h = "credential-received" /\ i = "credential-issued" /\ m = "none"
  \/ h = "done" /\ i = "credential-issued" /\ m \in {"none", "ack"}
  \/ h = "done" /\ i = "done" /\ m = "none"

Stage(u, h, i, m) ==
  /\ h \in Record \cup {Nothing} /\ i \in Record \cup {Nothing} /\ m \in Message \cup {Nothing}
  /\ Stages(StateOf(h), StateOf(i), TypeOf(m))
  /\ StateOf(i) \in {"request-received", "credential-issued", "done"} => h.request = i.request
  /\ TypeOf(m) = "offer" /\ h = Nothing => m.id = u
  /\ TypeOf(m) = "request" => m.body = h.request

\* The holder stores a credential for thread u.
Storing(u) == Doing[Holder].pc = "storeCredential" /\ Doing[Holder].rec.thread = u

ThreadFits(u, h, i, m) ==
  /\ Seen(Holder, Issuer, u, h, i, m)
  /\ Stage(u, h, i, m)
  /\ u > lastId => h = Nothing /\ i = Nothing /\ m = Nothing
  /\ Storing(u) => /\ StateOf(h) = "request-sent" /\ StateOf(i) = "credential-issued"
                   /\ m = Nothing /\ Doing[Holder].rec.request = h.request

ThreadsFit == \A u \in Ids : \E h, i, m : ThreadFits(u, h, i, m)

\* What an update that is under way makes of a record: from which state to which, and
\* with which message.
Moves(x, y, m) ==
  \/ x = "offer-received" /\ y = "request-sent" /\ m = "request"
  \/ x = "request-sent" /\ y = "credential-received" /\ m = "none"
  \/ x = "credential-received" /\ y = "done" /\ m = "ack"
  \/ x = "proposal-sent" /\ y = "offer-received" /\ m = "none"
  \/ x = "offer-received" /\ y = "proposal-sent" /\ m = "none"
  \/ x = "proposal-received" /\ y = "offer-sent" /\ m = "offer"
  \/ x = "offer-sent" /\ y = "proposal-received" /\ m = "none"
  \/ x = "offer-sent" /\ y = "request-received" /\ m = "none"
  \/ x = "request-received" /\ y = "credential-issued" /\ m = "issue"
  \/ x = "credential-issued" /\ y = "done" /\ m = "none"

Succeeds(x, y, out) ==
  /\ Moves(x.state, y.state, TypeOf(out))
  /\ y.state \notin {"request-sent", "request-received"} => y.request = x.request
  /\ out # Nothing => out.thread = y.thread

Changes(x, y, m) == Moves(x, y, m) \/ Moves(x, y, "none")

\* x is y, or the record an update with message m makes y of.
Before(x, y, m) == x = y \/ \E out : Succeeds(x, y, out) /\ (out # Nothing => out = m)

UpdateFits(recs, t) == t.pc = "update" => Succeeds(recs[t.at], t.rec, t.out)

Orderly ==
  /\ Serial
  /\ ThreadsFit
  /\ \A a \in Agents : UpdateFits(records[a], Doing[a])

SerialInv == Spared(Disturbing) => Orderly

-----------------------------------------------------------------------------
LEMMA CredShaped == CredInv => Shaped(Record, Message, PCs)
<1> SUFFICES ASSUME CredInv PROVE Shaped(Record, Message, PCs)
  OBVIOUS
<1> DEFINE R == GoodRecords(DOMAIN wallet)
           M == GoodMessages(DOMAIN wallet)
<1>1. Held(Record, Message, PCs, R, M)
  BY DEF CredInv, HeldWith
<1> HIDE DEF R, M
<1>2. M \subseteq Message /\ (\A a \in Agents : R[a] \subseteq Record)
      /\ ExchangeTypeOK(Record, Message, PCs) /\ Fit(PCs, R, M)
  BY <1>1 DEF Held
<1>3. Nothing \notin DOMAIN net
  BY <1>2, NothingAssumption DEF Fit
<1>4. \A a \in Agents, s \in Slots :
        /\ task[a][s].pc \in {"save", "update"} => task[a][s].rec \in Record
        /\ task[a][s].pc = "send" => task[a][s].out # Nothing
  BY <1>2 DEF Fit
<1>5. records \in [Agents -> Seq(Record)]
      /\ task \in [Agents -> [Slots -> Task(Record, Message, PCs)]]
  BY <1>2 DEF ExchangeTypeOK, Task
<1>6. (\A rec \in Record : rec.thread \in Ids) /\ \A m \in Message : m.to \in Agents /\ m.thread \in Ids
  BY DEF Record, Message
<1> QED BY <1>3, <1>4, <1>5, <1>6 DEF Shaped

\* Nothing changes in the other threads.
LEMMA OneThread ==
  ASSUME CredInv, ThreadsFit, NEW a \in Agents, NEW t, Doing' = [Doing EXCEPT ![a] = t],
         Decides(a, t), lastId' \in Nat, lastId' >= lastId,
         NEW u \in Ids, t.pc \in {"save", "update", "storeCredential"} => t.rec.thread = u,
         \A v \in Ids : v # u => Way(v)' = Way(v),
         \E h, i, m : ThreadFits(u, h, i, m)'
  PROVE  ThreadsFit'
<1> SUFFICES ASSUME NEW v \in Ids, v # u PROVE \E h, i, m : ThreadFits(v, h, i, m)'
  BY DEF ThreadsFit
<1>1. PICK h, i, m : ThreadFits(v, h, i, m)
  BY DEF ThreadsFit
<1>2. Recs(Holder, v)' = Recs(Holder, v) /\ Recs(Issuer, v)' = Recs(Issuer, v) /\ Way(v)' = Way(v)
  BY Ends DEF Decides
<1>3. Seen(Holder, Issuer, v, h, i, m)'
  BY <1>1, <1>2 DEF ThreadFits, Seen
<1>4. v > lastId' => v > lastId
  <2>1. lastId \in Nat
    BY DEF CredInv, HeldWith, Held, ExchangeTypeOK
  <2> QED BY <2>1 DEF Ids
<1>5. Storing(v)' => Storing(v) /\ Doing'[Holder] = Doing[Holder]
  <2>1. Doing'[Holder] = IF a = Holder THEN t ELSE Doing[Holder]
    BY Ends DEF Doing
  <2> QED BY <2>1 DEF Storing
<1> QED BY <1>1, <1>3, <1>4, <1>5 DEF ThreadFits, Stage

\* When the application has to decide something, no message is on its way.
LEMMA Unsent ==
  ASSUME NEW u, NEW h, NEW i, NEW m, Stage(u, h, i, m),
         \/ StateOf(h) \in {"offer-received", "credential-received"}
         \/ StateOf(i) \in {"proposal-received", "request-received"}
  PROVE  m = Nothing
BY DEF Stage, Stages, TypeOf, Message, MessageTypes

\* An update is under way only where one has begun.
LEMMA UpdatesFit ==
  ASSUME Orderly, NEW a \in Agents, NEW t, Doing' = [Doing EXCEPT ![a] = t],
         UNCHANGED records, UpdateFits(records[a], t)
  PROVE  \A b \in Agents : UpdateFits(records[b], Doing[b])'
<1>1. \A b \in Agents : Doing'[b] = IF b = a THEN t ELSE Doing[b]
  BY DEF Doing
<1> QED BY <1>1 DEF Orderly, UpdateFits

\* A call of the application: one record is updated, then a message sent.
LEMMA AcceptFits ==
  ASSUME CredInv, Orderly, Spared(Disturbing)',
         NEW a \in Agents, NEW s \in Slots, Enter(a, s), UNCHANGED <<records, net>>,
         lastId' \in Nat, lastId' >= lastId,
         NEW r \in DOMAIN records[a], NEW rec \in Record, rec = records[a][r],
         NEW new \in Record, new.thread = rec.thread,
         NEW out \in Message, out.thread = rec.thread, out.to # a,
         Begin(a, s, "update", r, new, out), Succeeds(rec, new, out),
         IF a = Holder THEN rec.state \in {"offer-received", "credential-received"}
                       ELSE rec.state \in {"proposal-received", "request-received"},
         \A h, i : /\ a = Holder /\ Stage(rec.thread, rec, i, Nothing)
                        => Stage(rec.thread, new, i, out)
                   /\ a = Issuer /\ Stage(rec.thread, h, rec, Nothing)
                        => Stage(rec.thread, h, new, out)
  PROVE  Orderly'
<1>1. PICK t : t = [pc |-> "update", at |-> r, rec |-> new, out |-> out]
  OBVIOUS
<1>2. /\ t.pc = "update" /\ t.at = r /\ t.rec = new /\ t.out = out
      /\ TurnsTo(a, s, t)
  BY <1>1 DEF Begin, TurnsTo
<1>3. PICK u : u = rec.thread
  OBVIOUS
<1>4. u \in Ids /\ rec # Nothing /\ new # Nothing /\ out # Nothing
  BY <1>3, NothingAssumption DEF Record
<1>5. Shaped(Record, Message, PCs) /\ Serial
  BY CredShaped DEF Orderly
<1>6. Settled[a] = records[a] /\ Recs(a, u) = {rec}
  BY <1>3, <1>5, EnteredSettled, ReadSeen
<1>7. PICK h, i, m : ThreadFits(u, h, i, m)
  BY <1>4 DEF Orderly, ThreadsFit
<1>8. (a = Holder => h = rec) /\ (a = Issuer => i = rec) /\ (a = Holder \/ a = Issuer)
  <2>1. Recs(Holder, u) = Opt(h) /\ Recs(Issuer, u) = Opt(i)
    BY <1>7 DEF ThreadFits, Seen
  <2> QED BY <1>6, <2>1, AgentsAssumption DEF Opt
<1>9. m = Nothing
  BY <1>4, <1>7, <1>8, Unsent, Ends DEF ThreadFits, StateOf
<1>10. Way(u) = {}
  BY <1>7, <1>9 DEF ThreadFits, Seen, Opt
<1>11. Fitting(a, records[a], t)
  BY <1>2 DEF Fitting, AtFits, OutFits
<1>12. /\ Serial' /\ Decides(a, t) /\ Doing[a] = Idle /\ Doing' = [Doing EXCEPT ![a] = t]
       /\ WayMayGain(out)
  <2>1. /\ t.pc # "idle" /\ (t.pc \in {"save", "update"} => t.rec \in Record)
        /\ (out # Nothing => out.thread \in Ids /\ Way(out.thread) = {})
    BY <1>2, <1>3, <1>4, <1>10
  <2> QED BY <1>2, <1>5, <1>11, <2>1, Accepts
<1>13. PICK h2, i2 : h2 = (IF a = Holder THEN new ELSE h) /\ i2 = (IF a = Holder THEN i ELSE new)
  OBVIOUS
<1>14. Seen(Holder, Issuer, u, h2, i2, out)'
  <2>1. Seen(Holder, Issuer, u, h, i, m)
    BY <1>7 DEF ThreadFits
  <2>2. Recs(Holder, u)' = Opt(h2) /\ Recs(Issuer, u)' = Opt(i2)
    BY <1>2, <1>3, <1>4, <1>8, <1>12, <1>13, <2>1, Ends DEF Decides, Seen, Opt
  <2>3. Way(u)' = Opt(out)
    BY <1>3, <1>4, <1>12 DEF WayMayGain, WayGains, Opt
  <2> QED BY <2>2, <2>3 DEF Seen
<1>15. Stage(u, h2, i2, out)
  BY <1>3, <1>7, <1>8, <1>9, <1>13, Ends DEF ThreadFits
<1>16. ~(u > lastId')
  <2>1. lastId \in Nat
    BY DEF CredInv, HeldWith, Held, ExchangeTypeOK
  <2> QED BY <1>4, <1>7, <1>8, <2>1 DEF ThreadFits, Ids
<1>17. ~Storing(u)'
  <2>1. Doing'[Holder] = IF a = Holder THEN t ELSE Doing[Holder]
    BY <1>12, Ends DEF Doing
  <2>2. a = Issuer => ~Storing(u)
    BY <1>4, <1>7, <1>8, Ends DEF ThreadFits, StateOf
  <2> QED BY <1>2, <1>8, <2>1, <2>2 DEF Storing
<1>18. ThreadFits(u, h2, i2, out)'
  BY <1>14, <1>15, <1>16, <1>17 DEF ThreadFits, Stage
<1>19. \A v \in Ids : v # u => Way(v)' = Way(v)
  BY <1>3, <1>4, <1>12 DEF WayMayGain, WayGains
<1>20. ThreadsFit'
  BY <1>2, <1>3, <1>4, <1>12, <1>18, <1>19, OneThread DEF Orderly
<1>21. UpdateFits(records[a], t)
  BY <1>2 DEF UpdateFits
<1> QED BY <1>12, <1>20, <1>21, UpdatesFit DEF Orderly

\* An exchange begins with one record and one message.
LEMMA StartFits ==
  ASSUME CredInv, Orderly, Spared(Disturbing)',
         NEW a \in Agents, NEW s \in Slots, NEW rec \in Record, NEW m \in Message,
         Start(a, s, rec, m), rec.thread = lastId', m.thread = lastId',
         Stage(lastId', IF a = Holder THEN rec ELSE Nothing, IF a = Holder THEN Nothing ELSE rec, m)
  PROVE  Orderly'
<1>1. PICK t : t = [pc |-> "save", at |-> None, rec |-> rec, out |-> Nothing]
  OBVIOUS
<1>2. /\ t.pc = "save" /\ t.rec = rec /\ t.out = Nothing
      /\ TurnsTo(a, s, t)
  BY <1>1 DEF Start, Save, Begin, TurnsTo
<1>3. PICK u : u = lastId'
  OBVIOUS
<1>4. /\ u \in Ids /\ lastId' \in Nat /\ lastId \in Nat /\ u > lastId /\ lastId' >= lastId
      /\ rec # Nothing /\ m # Nothing
  <2>1. lastId \in Nat /\ lastId' = lastId + 1
    BY DEF CredInv, HeldWith, Held, ExchangeTypeOK, Start, FreshId
  <2>2. rec.thread \in Ids
    BY DEF Record
  <2> QED BY <1>3, <2>1, <2>2, NothingAssumption
<1>5. Shaped(Record, Message, PCs) /\ Serial
  BY CredShaped DEF Orderly
<1>6. Enter(a, s) /\ UNCHANGED records /\ net' = Put(net, m)
  BY DEF Start
<1>7. Settled[a] = records[a]
  BY <1>5, <1>6, EnteredSettled
<1>8. PICK h, i, n : ThreadFits(u, h, i, n)
  BY <1>4 DEF Orderly, ThreadsFit
<1>9. h = Nothing /\ i = Nothing /\ n = Nothing
  BY <1>4, <1>8 DEF ThreadFits
<1>10. Recs(Holder, u) = {} /\ Recs(Issuer, u) = {} /\ Way(u) = {} /\ ~Storing(u)
  BY <1>8, <1>9 DEF ThreadFits, Seen, Opt, StateOf
<1>11. a = Holder \/ a = Issuer
  BY AgentsAssumption
<1>12. Fitting(a, records[a], t)
  BY <1>2, <1>3, <1>7, <1>10, <1>11 DEF Fitting, AtFits, OutFits, Recs
<1>13. /\ Serial' /\ Decides(a, t) /\ WayGains(m)
       /\ Doing[a] = Idle /\ Doing' = [Doing EXCEPT ![a] = t]
  <2>1. /\ t.pc # "idle" /\ (t.pc \in {"save", "update"} => t.rec \in Record)
        /\ m.thread \in Ids /\ Way(m.thread) = {}
    BY <1>2, <1>3, <1>4, <1>10
  <2> QED BY <1>2, <1>4, <1>5, <1>6, <1>12, <2>1, Posts
<1>14. PICK h2, i2 : /\ h2 = (IF a = Holder THEN rec ELSE Nothing)
                     /\ i2 = (IF a = Holder THEN Nothing ELSE rec)
  OBVIOUS
<1>15. Seen(Holder, Issuer, u, h2, i2, m)'
  <2>1. Recs(Holder, u)' = Opt(h2) /\ Recs(Issuer, u)' = Opt(i2)
    BY <1>2, <1>3, <1>4, <1>10, <1>11, <1>13, <1>14, Ends DEF Decides, Opt
  <2>2. Way(u)' = Opt(m)
    BY <1>3, <1>4, <1>13 DEF WayGains, Opt
  <2> QED BY <2>1, <2>2 DEF Seen
<1>16. ~Storing(u)'
  <2>1. Doing'[Holder] = IF a = Holder THEN t ELSE Doing[Holder]
    BY <1>13, Ends DEF Doing
  <2> QED BY <1>2, <1>10, <2>1 DEF Storing
<1>17. Stage(u, h2, i2, m) /\ ~(u > lastId')
  BY <1>3, <1>4, <1>14
<1>18. ThreadFits(u, h2, i2, m)'
  BY <1>15, <1>16, <1>17 DEF ThreadFits, Stage
<1>19. \A v \in Ids : v # u => Way(v)' = Way(v)
  BY <1>3, <1>4, <1>13 DEF WayGains
<1>20. ThreadsFit'
  BY <1>2, <1>3, <1>4, <1>13, <1>18, <1>19, OneThread DEF Orderly
<1>21. UpdateFits(records[a], t)
  BY <1>2 DEF UpdateFits
<1> QED BY <1>6, <1>13, <1>20, <1>21, UpdatesFit DEF Orderly

\* What a handler finds.
LEMMA Received ==
  ASSUME CredInv, Orderly, Spared(Disturbing)',
         NEW a \in Agents, NEW s \in Slots, NEW m, NEW type, Receive(a, s, m, type)
  PROVE  /\ m \in Message /\ m.type = type /\ m.to = a /\ m # Nothing /\ m.thread \in Ids
         /\ Settled[a] = records[a] /\ Serial
         /\ \E h, i : ThreadFits(m.thread, h, i, m)
<1>1. m \in DOMAIN net /\ Enter(a, s) /\ m.type = type /\ m.to = a
  BY DEF Receive
<1>2. Shaped(Record, Message, PCs) /\ Serial
  BY CredShaped DEF Orderly
<1>3. m \in Message /\ m # Nothing /\ m.thread \in Ids
  <2>1. DOMAIN net \subseteq GoodMessages(DOMAIN wallet)
    BY NetGood DEF CredInv
  <2>2. m \in Message
    BY <1>1, <2>1 DEF GoodMessages
  <2> QED BY <2>2, NothingAssumption DEF Message
<1>4. Settled[a] = records[a]
  BY <1>1, <1>2, EnteredSettled
<1>5. PICK h, i, n : ThreadFits(m.thread, h, i, n)
  BY <1>3 DEF Orderly, ThreadsFit
<1>6. n = m
  BY <1>1, <1>3, <1>5, InNetSeen DEF ThreadFits, Seen, Opt
<1> QED BY <1>1, <1>2, <1>3, <1>4, <1>5, <1>6

\* A handler begins: x is the record it finds, or Nothing, y what it makes of it.
LEMMA HandleFits ==
  ASSUME CredInv, Orderly, Spared(Disturbing)',
         NEW a \in Agents, NEW s \in Slots, NEW m, NEW type, Receive(a, s, m, type),
         NEW t, t.pc \in {"save", "update", "storeCredential"}, t.out = Nothing,
         TurnsTo(a, s, t), t.rec \in Record, t.rec.thread = m.thread,
         NEW x, Recs(a, m.thread) = Opt(x), t.pc = "save" => x = Nothing,
         AtFits(records[a], t), UpdateFits(records[a], t),
         NEW y, y = (IF t.pc = "storeCredential" THEN x ELSE t.rec),
         t.pc = "storeCredential" => a = Holder /\ type = "issue" /\ t.rec.request = x.request,
         \A h, i : /\ a = Holder /\ Stage(m.thread, x, i, m) => Stage(m.thread, y, i, Nothing)
                   /\ a = Issuer /\ Stage(m.thread, h, x, m) => Stage(m.thread, h, y, Nothing)
  PROVE  Orderly'
<1>1. PICK u : u = m.thread
  OBVIOUS
<1>2. /\ m \in Message /\ m.type = type /\ m.to = a /\ m # Nothing /\ u \in Ids
      /\ Settled[a] = records[a] /\ Serial
  BY <1>1, Received
<1>3. PICK h, i : ThreadFits(u, h, i, m)
  BY <1>1, Received
<1>4. Shaped(Record, Message, PCs) /\ t.rec # Nothing /\ a \in {Holder, Issuer}
  BY CredShaped, NothingAssumption, AgentsAssumption
<1>5. UNCHANGED <<records, starts, lastId>>
  BY DEF Receive
<1>6. lastId' \in Nat /\ lastId' >= lastId
  BY <1>5 DEF CredInv, HeldWith, Held, ExchangeTypeOK
<1>7. (a = Holder => Opt(h) = Opt(x)) /\ (a = Issuer => Opt(i) = Opt(x))
  BY <1>1, <1>3 DEF ThreadFits, Seen
<1>8. (a = Holder => h = x) /\ (a = Issuer => i = x)
  BY <1>7 DEF Opt
<1>9. Fitting(a, records[a], t)
  <2>1. t.pc = "save" => Recs(a, u) = {}
    BY <1>1 DEF Opt
  <2> QED BY <1>1, <1>2, <2>1 DEF Fitting, OutFits, Recs
<1>10. /\ Serial' /\ Decides(a, t) /\ WayLoses(m)
       /\ Doing[a] = Idle /\ Doing' = [Doing EXCEPT ![a] = t]
  <2>1. t.pc # "idle" /\ (t.pc \in {"save", "update"} => t.rec \in Record)
    OBVIOUS
  <2> QED BY <1>2, <1>4, <1>9, <2>1, Handles
<1>11. PICK h2, i2 : h2 = (IF a = Holder THEN y ELSE h) /\ i2 = (IF a = Holder THEN i ELSE y)
  OBVIOUS
<1>12. Seen(Holder, Issuer, u, h2, i2, Nothing)'
  <2>1. Seen(Holder, Issuer, u, h, i, m)
    BY <1>3 DEF ThreadFits
  <2>2. Recs(Holder, u)' = Opt(h2)
    BY <1>1, <1>2, <1>4, <1>8, <1>10, <1>11, <2>1, Ends DEF Decides, Seen, Opt
  <2>3. Recs(Issuer, u)' = Opt(i2)
    BY <1>1, <1>2, <1>4, <1>8, <1>10, <1>11, <2>1, Ends DEF Decides, Seen, Opt
  <2>4. Way(u)' = Opt(Nothing)
    BY <1>2, <1>10, <2>1 DEF WayLoses, Seen, Opt
  <2> QED BY <2>2, <2>3, <2>4 DEF Seen
<1>13. Stage(u, h2, i2, Nothing)
  BY <1>1, <1>3, <1>4, <1>8, <1>11, Ends DEF ThreadFits
<1>14. ~(u > lastId')
  <2>1. lastId \in Nat
    BY DEF CredInv, HeldWith, Held, ExchangeTypeOK
  <2> QED BY <1>2, <1>3, <1>5, <2>1 DEF ThreadFits, Ids
<1>15. ASSUME Storing(u)'
       PROVE  /\ StateOf(h2) = "request-sent" /\ StateOf(i2) = "credential-issued"
              /\ Doing'[Holder].rec.request = h2.request
  <2>1. Doing'[Holder] = IF a = Holder THEN t ELSE Doing[Holder]
    BY <1>10, Ends DEF Doing
  <2>2. ~Storing(u)
    BY <1>2, <1>3 DEF ThreadFits
  <2>3. a = Holder /\ t.pc = "storeCredential"
    BY <1>15, <2>1, <2>2 DEF Storing
  <2>4. h2 = h /\ i2 = i /\ Doing'[Holder].rec.request = h2.request /\ TypeOf(m) = "issue"
    BY <1>2, <1>8, <1>11, <2>1, <2>3 DEF TypeOf
  <2>5. Stages(StateOf(h), StateOf(i), "issue")
    BY <1>3, <2>4 DEF ThreadFits, Stage
  <2> QED BY <2>4, <2>5 DEF Stages
<1>16. ThreadFits(u, h2, i2, Nothing)'
  BY <1>12, <1>13, <1>14, <1>15 DEF ThreadFits, Stage
<1>17. \A v \in Ids : v # u => Way(v)' = Way(v)
  <2>1. \A v \in Ids : v # u => m \notin Way(v)
    BY <1>1 DEF Way
  <2> QED BY <1>10, <2>1 DEF WayLoses
<1>18. ThreadsFit'
  BY <1>1, <1>2, <1>6, <1>10, <1>16, <1>17, OneThread DEF Orderly
<1> QED BY <1>5, <1>10, <1>18, UpdatesFit DEF Orderly

\* A message is gone, and nothing else.
LEMMA DropFits ==
  ASSUME CredInv, Orderly, UNCHANGED <<records, task>>, UNCHANGED lastId,
         NEW m \in DOMAIN net, net' = Take(net, m)
  PROVE  Orderly'
<1>1. Serial' /\ UNCHANGED <<Settled, Doing>> /\ WayLoses(m)
  BY Drops DEF Orderly
<1>2. ASSUME NEW u \in Ids PROVE \E h, i, n : ThreadFits(u, h, i, n)'
  <2>1. PICK h, i, n : ThreadFits(u, h, i, n)
    BY DEF Orderly, ThreadsFit
  <2>2. PICK k : k = IF n = m THEN Nothing ELSE n
    OBVIOUS
  <2>3. Seen(Holder, Issuer, u, h, i, k)'
    <3>1. Recs(Holder, u)' = Recs(Holder, u) /\ Recs(Issuer, u)' = Recs(Issuer, u)
      BY <1>1 DEF Recs
    <3>2. Way(u)' = Way(u) \ {m}
      BY <1>1 DEF WayLoses
    <3> QED BY <2>1, <2>2, <3>1, <3>2 DEF ThreadFits, Seen, Opt
  <2>4. Stage(u, h, i, k)
    BY <2>1, <2>2 DEF ThreadFits, Stage, Stages, TypeOf
  <2>5. Storing(u)' = Storing(u)
    BY <1>1 DEF Storing
  <2>6. ThreadFits(u, h, i, k)'
    BY <1>1, <2>1, <2>2, <2>3, <2>4, <2>5 DEF ThreadFits, Stage
  <2> QED BY <2>6
<1>3. ThreadsFit'
  BY <1>2 DEF ThreadsFit
<1> QED BY <1>1, <1>3 DEF Orderly

\* What was decided on is done.
LEMMA ProceedFits ==
  ASSUME CredInv, Orderly, NEW a \in Agents, NEW s \in Slots,
         SaveRecord(a, s) \/ UpdateRecord(a, s) \/ Send(a, s)
  PROVE  Orderly'
<1>1. Shaped(Record, Message, PCs) /\ Serial
  BY CredShaped DEF Orderly
<1>2. PICK x : /\ Serial' /\ UNCHANGED <<Settled, Sent>>
               /\ Doing' = [Doing EXCEPT ![a] = x] /\ x.pc \in {"idle", "send"}
  <2>1. Idle.pc \in {"idle", "send"}
    BY DEF Idle
  <2>2. CASE SaveRecord(a, s)
    BY <1>1, <2>1, <2>2, SaveSettles
  <2>3. CASE UpdateRecord(a, s)
    BY <1>1, <2>3, UpdateSettles
  <2>4. CASE Send(a, s)
    BY <1>1, <2>1, <2>4, SendSettles
  <2> QED BY <2>2, <2>3, <2>4
<1>3. \A b \in Agents : Doing'[b] = IF b = a THEN x ELSE Doing[b]
  BY <1>2 DEF Doing
<1>4. UNCHANGED lastId /\ \A b \in Agents : b # a => records'[b] = records[b]
  BY <1>1 DEF SaveRecord, UpdateRecord, Send, Shaped
<1>5. ThreadsFit'
  <2> SUFFICES ASSUME NEW u \in Ids PROVE \E h, i, m : ThreadFits(u, h, i, m)'
    BY DEF ThreadsFit
  <2>1. PICK h, i, m : ThreadFits(u, h, i, m)
    BY DEF Orderly, ThreadsFit
  <2>2. Seen(Holder, Issuer, u, h, i, m)'
    BY <1>2, <2>1 DEF ThreadFits, Seen, Recs, Way
  <2>3. Storing(u)' => Storing(u) /\ Doing'[Holder] = Doing[Holder]
    BY <1>2, <1>3, Ends DEF Storing
  <2> QED BY <1>4, <2>1, <2>2, <2>3 DEF ThreadFits, Stage
<1>6. \A b \in Agents : UpdateFits(records[b], Doing[b])'
  BY <1>2, <1>3, <1>4 DEF Orderly, UpdateFits
<1> QED BY <1>2, <1>5, <1>6 DEF Orderly

LEMMA StoreCredentialFits ==
  ASSUME CredInv, Orderly, NEW s \in Slots, StoreCredential(s)
  PROVE  Orderly'
<1>1. PICK t0 : t0 = task[Holder][s]
  OBVIOUS
<1>2. /\ t0.pc = "storeCredential" /\ UNCHANGED <<records, net, lastId>>
      /\ \/ Update(Holder, s, t0.at, [t0.rec EXCEPT !.state = "credential-received"], Nothing)
         \/ End(Holder, s)
  BY <1>1 DEF StoreCredential
<1>3. Shaped(Record, Message, PCs) /\ Serial
  BY CredShaped DEF Orderly
<1>4. Doing[Holder] = t0
  BY <1>1, <1>2, <1>3, Busy, Ends DEF Free, Serial
<1>5. t0.rec \in Record /\ t0.rec.state = "request-sent"
  <2>1. task[Holder][s].rec \in GoodRecords(DOMAIN wallet)[Holder]
    BY <1>1, <1>2, Ends DEF CredInv, HeldWith, Held, Fit, PCs
  <2>2. task[Holder][s].rec.state = "request-sent"
    BY <1>1, <1>2, Ends DEF CredInv, StoreFits
  <2> QED BY <1>1, <2>1, <2>2, Parts DEF HolderGood
<1>6. PICK u : u = t0.rec.thread
  OBVIOUS
<1>7. u \in Ids /\ Storing(u)
  BY <1>2, <1>4, <1>5, <1>6 DEF Storing, Record
<1>8. PICK h, i, m : ThreadFits(u, h, i, m)
  BY <1>7 DEF Orderly, ThreadsFit
<1>9. /\ StateOf(h) = "request-sent" /\ StateOf(i) = "credential-issued" /\ m = Nothing
      /\ t0.rec.request = h.request
  BY <1>4, <1>7, <1>8 DEF ThreadFits
<1>10. h # Nothing /\ i # Nothing /\ h.state = "request-sent" /\ h \in Record
  BY <1>8, <1>9 DEF StateOf, ThreadFits, Stage
<1>11. t0.at \in DOMAIN records[Holder] /\ records[Holder][t0.at] = h /\ h.thread = u
  <2>1. AtFits(records[Holder], t0)
    BY <1>3, <1>4, Ends DEF Serial
  <2>2. t0.at \in DOMAIN records[Holder] /\ records[Holder][t0.at].thread = u
    BY <1>2, <1>6, <2>1 DEF AtFits
  <2>3. Settled[Holder] = records[Holder]
    BY <1>2, <1>4, Ends DEF Settled, Settle
  <2>4. Recs(Holder, u) = {records[Holder][t0.at]}
    BY <1>3, <2>2, <2>3, ReadSeen, Ends
  <2>5. Recs(Holder, u) = {h}
    BY <1>8, <1>10 DEF ThreadFits, Seen, Opt
  <2> QED BY <2>2, <2>4, <2>5
<1>12. task[Holder][s].pc \notin {"idle", "save", "update", "send"}
  BY <1>1, <1>2
<1>13. ASSUME NEW t, t.pc \in {"idle", "update"}, t.pc = "idle" => t = Idle, TurnsTo(Holder, s, t),
              t.out = Nothing, AtFits(records[Holder], t), UpdateFits(records[Holder], t),
              t.pc = "update" => t.rec \in Record /\ t.rec.thread = u,
              Stage(u, IF t.pc = "update" THEN t.rec ELSE h, i, Nothing)
       PROVE  Orderly'
  <2>1. Fitting(Holder, records[Holder], t)
    BY <1>13 DEF Fitting, OutFits
  <2>2. /\ Serial' /\ Decides(Holder, t) /\ Doing' = [Doing EXCEPT ![Holder] = t]
        /\ WayMayGain(Nothing)
    <3>1. UNCHANGED <<records, net>>
      BY <1>2
    <3>2. t.pc = "update" => t.rec \in Record
      BY <1>13
    <3> QED BY <1>3, <1>12, <1>13, <2>1, <3>1, <3>2, Continues, Ends
  <2>3. \A v \in Ids : Way(v)' = Way(v)
    BY <2>2 DEF WayMayGain
  <2>4. PICK h2 : h2 = IF t.pc = "update" THEN t.rec ELSE h
    OBVIOUS
  <2>5. Seen(Holder, Issuer, u, h2, i, Nothing)'
    <3>1. Seen(Holder, Issuer, u, h, i, Nothing)
      BY <1>8, <1>9 DEF ThreadFits
    <3>2. Recs(Holder, u)' = Opt(h2)
      <4>1. t.rec # Nothing \/ t.pc = "idle"
        BY <1>13, NothingAssumption
      <4> QED BY <1>7, <1>13, <2>2, <2>4, <3>1, <4>1, Ends DEF Decides, Seen, Opt
    <3>3. Recs(Issuer, u)' = Opt(i)
      BY <1>7, <2>2, <3>1, Ends DEF Decides, Seen
    <3>4. Way(u)' = Opt(Nothing)
      BY <1>7, <2>3, <3>1 DEF Seen
    <3> QED BY <3>2, <3>3, <3>4 DEF Seen
  <2>6. ~Storing(u)'
    <3>1. Doing'[Holder] = t
      BY <2>2, Ends DEF Doing
    <3> QED BY <1>13, <3>1 DEF Storing
  <2>7. lastId' \in Nat /\ lastId' >= lastId /\ ~(u > lastId')
    <3>1. lastId \in Nat
      BY DEF CredInv, HeldWith, Held, ExchangeTypeOK
    <3> QED BY <1>2, <1>7, <1>8, <1>10, <3>1 DEF ThreadFits, Ids
  <2>8. ThreadFits(u, h2, i, Nothing)'
    BY <1>13, <2>4, <2>5, <2>6, <2>7 DEF ThreadFits, Stage
  <2>9. ThreadsFit'
    BY <1>7, <1>13, <2>2, <2>3, <2>7, <2>8, OneThread, Ends DEF Orderly
  <2> QED BY <1>2, <1>13, <2>2, <2>9, UpdatesFit, Ends DEF Orderly
<1>14. CASE End(Holder, s)
  <2>1. TurnsTo(Holder, s, Idle)
    BY <1>14 DEF End, TurnsTo
  <2>2. Idle.pc = "idle" /\ Idle.out = Nothing
    BY DEF Idle
  <2> HIDE DEF Idle
  <2>3. AtFits(records[Holder], Idle) /\ UpdateFits(records[Holder], Idle)
    BY <2>2 DEF AtFits, UpdateFits
  <2>4. Stage(u, h, i, Nothing)
    BY <1>8, <1>9 DEF ThreadFits
  <2> QED BY <1>13, <2>1, <2>2, <2>3, <2>4
<1>15. CASE Update(Holder, s, t0.at, [t0.rec EXCEPT !.state = "credential-received"], Nothing)
  <2>1. PICK rec : rec = [t0.rec EXCEPT !.state = "credential-received"]
    OBVIOUS
  <2>2. /\ rec \in Record /\ rec.state = "credential-received" /\ rec.thread = u
        /\ rec.request = h.request
    BY <1>5, <1>6, <1>9, <2>1 DEF Record, HolderStates
  <2>3. PICK t : t = [pc |-> "update", at |-> t0.at, rec |-> rec, out |-> Nothing]
    OBVIOUS
  <2>4. t.pc = "update" /\ t.at = t0.at /\ t.rec = rec /\ t.out = Nothing
    BY <2>3
  <2>5. TurnsTo(Holder, s, t)
    BY <1>15, <2>1, <2>3 DEF Update, Begin, TurnsTo
  <2>6. AtFits(records[Holder], t)
    BY <1>11, <2>2, <2>4 DEF AtFits
  <2>7. UpdateFits(records[Holder], t)
    BY <1>10, <1>11, <2>2, <2>4 DEF UpdateFits, Succeeds, Moves, TypeOf
  <2>8. Stage(u, rec, i, Nothing)
    BY <1>8, <1>9, <1>10, <2>2, NothingAssumption DEF ThreadFits, Stage, Stages, StateOf, TypeOf
  <2> QED BY <1>13, <2>2, <2>4, <2>5, <2>6, <2>7, <2>8
<1> QED BY <1>2, <1>14, <1>15

-----------------------------------------------------------------------------
(* Each operation leads from stage to stage                                  *)

\* The record an agent has read, and the ids it may give out.
LEMMA ReadRecord ==
  ASSUME CredInv, NEW a \in Agents, NEW r \in DOMAIN records[a]
  PROVE  /\ records[a][r] \in Record
         /\ lastId \in Nat
         /\ UNCHANGED lastId => lastId' \in Nat /\ lastId' >= lastId
         /\ FreshId => lastId' \in Ids /\ lastId' \in Nat /\ lastId' >= lastId
<1>1. records[a][r] \in Record
  BY ReadGood DEF CredInv
<1>2. lastId \in Nat /\ lastId \in 0..MaxIds
  BY DEF CredInv, HeldWith, Held, ExchangeTypeOK
<1> QED BY <1>1, <1>2, BoundsAssumption DEF FreshId, Ids

LEMMA StartsFit ==
  ASSUME CredInv, Orderly, Spared(Disturbing)', NEW s \in Slots, CreateProposal(s) \/ CreateOffer(s)
  PROVE  Orderly'
<1>1. lastId' \in Ids
  BY NetGood, FreshIds DEF CreateProposal, CreateOffer, Start, CredInv
<1>2. CASE CreateProposal(s)
  <2>1. PICK rec, m : rec = NewRecord("proposal-sent", lastId', None) /\ m = Propose(lastId')
    OBVIOUS
  <2>2. /\ rec \in Record /\ rec.state = "proposal-sent" /\ rec.thread = lastId'
    BY <1>1, <2>1, NoRequestType DEF NewRecord, Record, HolderStates
  <2>3. m \in Message /\ m.type = "propose" /\ m.thread = lastId'
    BY <1>1, <2>1, NoRequestType, Ends DEF Propose, Msg, Message, MessageTypes
  <2>4. Stage(lastId', rec, Nothing, m)
    BY <2>2, <2>3, NothingAssumption DEF Stage, Stages, StateOf, TypeOf
  <2>5. Start(Holder, s, rec, m)
    BY <1>2, <2>1 DEF CreateProposal
  <2> QED BY <2>2, <2>3, <2>4, <2>5, StartFits, Ends
<1>3. CASE CreateOffer(s)
  <2>1. PICK rec, m : rec = NewRecord("offer-sent", lastId', lastId') /\ m = Offer(lastId')
    OBVIOUS
  <2>2. /\ rec \in Record /\ rec.state = "offer-sent" /\ rec.thread = lastId'
    BY <1>1, <2>1, NoRequestType DEF NewRecord, Record, IssuerStates
  <2>3. m \in Message /\ m.type = "offer" /\ m.thread = lastId' /\ m.id = lastId'
    BY <1>1, <2>1, NoRequestType, Ends DEF Offer, Msg, Message, MessageTypes
  <2>4. Stage(lastId', Nothing, rec, m)
    BY <2>2, <2>3, NothingAssumption DEF Stage, Stages, StateOf, TypeOf
  <2>5. Start(Issuer, s, rec, m)
    BY <1>3, <2>1 DEF CreateOffer
  <2> QED BY <2>2, <2>3, <2>4, <2>5, StartFits, Ends
<1> QED BY <1>2, <1>3

LEMMA AcceptsFit ==
  ASSUME CredInv, Orderly, Spared(Disturbing)', NEW a \in Agents, NEW s \in Slots,
         NEW r \in DOMAIN records[a],
         \/ a = Issuer /\ (AcceptProposal(s, r) \/ AcceptRequest(s, r))
         \/ a = Holder /\ (AcceptOffer(s, r) \/ AcceptCredential(s, r))
  PROVE  Orderly'
<1>1. PICK rec : rec = records[a][r]
  OBVIOUS
<1>2. /\ rec \in Record /\ rec # Nothing /\ rec.thread \in Ids /\ rec.request \in Request
      /\ rec.offer \in Ids \cup {None}
  BY <1>1, ReadRecord, NothingAssumption DEF Record
<1>3. CallOn(a, s) /\ UNCHANGED net /\ (FreshId \/ UNCHANGED lastId)
  BY DEF AcceptProposal, AcceptRequest, AcceptOffer, AcceptCredential,
         CreateOfferAsResponse, CreateRequest, CreateCredential, CreateAck
<1>4. /\ Enter(a, s) /\ UNCHANGED <<records, net>> /\ lastId' \in Nat /\ lastId' >= lastId
  BY <1>3, ReadRecord DEF CallOn
<1>5. CASE a = Issuer /\ AcceptProposal(s, r)
  <2>1. PICK new, out : /\ new = [rec EXCEPT !.state = "offer-sent", !.offer = lastId']
                        /\ out = Offer(rec.thread)
    OBVIOUS
  <2>2. Begin(a, s, "update", r, new, out) /\ rec.state = "proposal-received" /\ lastId' \in Ids
    BY <1>1, <1>5, <2>1, ReadRecord DEF AcceptProposal, CreateOfferAsResponse, Update
  <2>3. /\ new \in Record /\ new.thread = rec.thread /\ new.state = "offer-sent"
        /\ new.request = rec.request
    BY <1>2, <2>1, <2>2 DEF Record, IssuerStates
  <2>4. /\ out \in Message /\ out.thread = rec.thread /\ out.to = Holder /\ out.type = "offer"
    BY <1>2, <2>1, <2>2, NoRequestType, Ends DEF Offer, Msg, Message, MessageTypes
  <2>5. Succeeds(rec, new, out)
    BY <2>2, <2>3, <2>4, NothingAssumption DEF Succeeds, Moves, TypeOf
  <2>6. \A h : Stage(rec.thread, h, rec, Nothing) => Stage(rec.thread, h, new, out)
    BY <1>2, <2>2, <2>3, <2>4, NothingAssumption DEF Stage, Stages, StateOf, TypeOf
  <2> QED BY <1>1, <1>2, <1>4, <1>5, <2>2, <2>3, <2>4, <2>5, <2>6, AcceptFits, Ends
<1>6. CASE a = Issuer /\ AcceptRequest(s, r)
  <2>1. PICK new, out : /\ new = [rec EXCEPT !.state = "credential-issued", !.credential = rec.request]
                        /\ out = Msg("issue", Holder, None, rec.thread, rec.request)
    OBVIOUS
  <2>2. Begin(a, s, "update", r, new, out) /\ rec.state = "request-received"
    BY <1>1, <1>6, <2>1 DEF AcceptRequest, CreateCredential, Update
  <2>3. /\ new \in Record /\ new.thread = rec.thread /\ new.state = "credential-issued"
        /\ new.request = rec.request
    BY <1>2, <2>1 DEF Record, IssuerStates
  <2>4. /\ out \in Message /\ out.thread = rec.thread /\ out.to = Holder /\ out.type = "issue"
    BY <1>2, <2>1, Ends DEF Msg, Message, MessageTypes
  <2>5. Succeeds(rec, new, out)
    BY <2>2, <2>3, <2>4, NothingAssumption DEF Succeeds, Moves, TypeOf
  <2>6. \A h : Stage(rec.thread, h, rec, Nothing) => Stage(rec.thread, h, new, out)
    BY <1>2, <2>2, <2>3, <2>4, NothingAssumption DEF Stage, Stages, StateOf, TypeOf
  <2> QED BY <1>1, <1>2, <1>4, <1>6, <2>2, <2>3, <2>4, <2>5, <2>6, AcceptFits, Ends
<1>7. CASE a = Holder /\ AcceptOffer(s, r)
  <2>1. PICK q : q = [id |-> lastId', offer |-> rec.offer, thread |-> rec.thread]
    OBVIOUS
  <2>2. PICK new, out : /\ new = [rec EXCEPT !.state = "request-sent", !.request = q]
                        /\ out = Msg("request", Issuer, lastId', rec.thread, q)
    OBVIOUS
  <2>3. Begin(a, s, "update", r, new, out) /\ rec.state = "offer-received" /\ lastId' \in Ids
    BY <1>1, <1>7, <2>1, <2>2, ReadRecord DEF AcceptOffer, CreateRequest, Update
  <2>4. q \in Request
    BY <1>2, <2>1, <2>3 DEF Request
  <2>5. /\ new \in Record /\ new.thread = rec.thread /\ new.state = "request-sent"
        /\ new.request = q
    BY <1>2, <2>2, <2>4 DEF Record, HolderStates
  <2>6. /\ out \in Message /\ out.thread = rec.thread /\ out.to = Issuer /\ out.type = "request"
        /\ out.body = q
    BY <1>2, <2>2, <2>3, <2>4, Ends DEF Msg, Message, MessageTypes
  <2>7. Succeeds(rec, new, out)
    BY <2>3, <2>5, <2>6, NothingAssumption DEF Succeeds, Moves, TypeOf
  <2>8. \A i : Stage(rec.thread, rec, i, Nothing) => Stage(rec.thread, new, i, out)
    BY <1>2, <2>3, <2>5, <2>6, NothingAssumption DEF Stage, Stages, StateOf, TypeOf
  <2> QED BY <1>1, <1>2, <1>4, <1>7, <2>3, <2>5, <2>6, <2>7, <2>8, AcceptFits, Ends
<1>8. CASE a = Holder /\ AcceptCredential(s, r)
  <2>1. PICK new, out : /\ new = [rec EXCEPT !.state = "done"]
                        /\ out = Msg("ack", Issuer, None, rec.thread, NoRequest)
    OBVIOUS
  <2>2. Begin(a, s, "update", r, new, out) /\ rec.state = "credential-received"
    BY <1>1, <1>8, <2>1 DEF AcceptCredential, CreateAck, Update
  <2>3. /\ new \in Record /\ new.thread = rec.thread /\ new.state = "done"
        /\ new.request = rec.request
    BY <1>2, <2>1 DEF Record, HolderStates
  <2>4. /\ out \in Message /\ out.thread = rec.thread /\ out.to = Issuer /\ out.type = "ack"
    BY <1>2, <2>1, NoRequestType, Ends DEF Msg, Message, MessageTypes
  <2>5. Succeeds(rec, new, out)
    BY <2>2, <2>3, <2>4, NothingAssumption DEF Succeeds, Moves, TypeOf
  <2>6. \A i : Stage(rec.thread, rec, i, Nothing) => Stage(rec.thread, new, i, out)
    BY <1>2, <2>2, <2>3, <2>4, NothingAssumption DEF Stage, Stages, StateOf, TypeOf
  <2> QED BY <1>1, <1>2, <1>4, <1>8, <2>2, <2>3, <2>4, <2>5, <2>6, AcceptFits, Ends
<1> QED BY <1>5, <1>6, <1>7, <1>8

LEMMA RespondFits ==
  ASSUME CredInv, Orderly, Spared(Disturbing)', NEW s \in Slots,
         NEW r \in DOMAIN records[Holder], CreateProposalAsResponse(s, r)
  PROVE  Orderly'
<1>1. PICK rec : rec = records[Holder][r]
  OBVIOUS
<1>2. PICK u, new, m : /\ u = rec.thread /\ new = [rec EXCEPT !.state = "proposal-sent"]
                       /\ m = Propose(rec.thread)
  OBVIOUS
<1>3. PICK t : t = [pc |-> "update", at |-> r, rec |-> new, out |-> Nothing]
  OBVIOUS
<1>4. /\ CallOn(Holder, s) /\ FreshId /\ net' = Put(net, m) /\ TurnsTo(Holder, s, t)
      /\ rec.state = "offer-received"
  BY <1>1, <1>2, <1>3 DEF CreateProposalAsResponse, Update, Begin, TurnsTo
<1>5. /\ rec \in Record /\ rec # Nothing /\ u \in Ids
      /\ lastId' \in Ids /\ lastId' \in Nat /\ lastId' >= lastId /\ lastId \in Nat
  BY <1>1, <1>2, <1>4, ReadRecord, NothingAssumption, Ends DEF Record
<1>6. /\ new \in Record /\ new # Nothing /\ new.thread = u /\ new.state = "proposal-sent"
      /\ new.request = rec.request
  BY <1>2, <1>5, NothingAssumption DEF Record, HolderStates
<1>7. /\ m \in Message /\ m # Nothing /\ m.thread = u /\ m.type = "propose"
  BY <1>2, <1>5, NoRequestType, NothingAssumption, Ends DEF Propose, Msg, Message, MessageTypes
<1>8. t.pc = "update" /\ t.at = r /\ t.rec = new /\ t.out = Nothing
  BY <1>3
<1>9. Shaped(Record, Message, PCs) /\ Serial /\ Enter(Holder, s) /\ UNCHANGED records
  BY <1>4, CredShaped DEF Orderly, CallOn
<1>10. Settled[Holder] = records[Holder] /\ Recs(Holder, u) = {rec}
  BY <1>1, <1>2, <1>9, EnteredSettled, ReadSeen, Ends
<1>11. PICK h, i, k : ThreadFits(u, h, i, k)
  BY <1>5 DEF Orderly, ThreadsFit
<1>12. h = rec
  BY <1>10, <1>11 DEF ThreadFits, Seen, Opt
<1>13. k = Nothing
  BY <1>4, <1>5, <1>11, <1>12, Unsent DEF ThreadFits, StateOf
<1>14. Way(u) = {}
  BY <1>11, <1>13 DEF ThreadFits, Seen, Opt
<1>15. Fitting(Holder, records[Holder], t) /\ UpdateFits(records[Holder], t)
  BY <1>1, <1>2, <1>4, <1>6, <1>8
     DEF Fitting, AtFits, OutFits, UpdateFits, Succeeds, Moves, TypeOf
<1>16. /\ Serial' /\ Decides(Holder, t) /\ WayGains(m)
       /\ Doing[Holder] = Idle /\ Doing' = [Doing EXCEPT ![Holder] = t]
  <2>1. /\ t.pc # "idle" /\ (t.pc \in {"save", "update"} => t.rec \in Record)
        /\ m.thread \in Ids /\ Way(m.thread) = {}
    BY <1>5, <1>6, <1>7, <1>8, <1>14
  <2> QED BY <1>4, <1>7, <1>8, <1>9, <1>15, <2>1, Posts, Ends
<1>17. Seen(Holder, Issuer, u, new, i, m)'
  <2>1. Seen(Holder, Issuer, u, h, i, k)
    BY <1>11 DEF ThreadFits
  <2>2. Recs(Holder, u)' = Opt(new) /\ Recs(Issuer, u)' = Opt(i)
    BY <1>5, <1>6, <1>8, <1>16, <2>1, Ends DEF Decides, Seen, Opt
  <2>3. Way(u)' = Opt(m)
    BY <1>5, <1>7, <1>16 DEF WayGains, Opt
  <2> QED BY <2>2, <2>3 DEF Seen
<1>18. Stage(u, new, i, m)
  BY <1>4, <1>5, <1>6, <1>7, <1>11, <1>12, <1>13 DEF ThreadFits, Stage, Stages, StateOf, TypeOf
<1>19. ~(u > lastId') /\ ~Storing(u)'
  <2>1. Doing'[Holder] = t
    BY <1>16, Ends DEF Doing
  <2> QED BY <1>5, <1>8, <1>11, <1>12, <2>1 DEF ThreadFits, Storing, Ids
<1>20. ThreadFits(u, new, i, m)'
  BY <1>17, <1>18, <1>19 DEF ThreadFits, Stage
<1>21. \A v \in Ids : v # u => Way(v)' = Way(v)
  BY <1>7, <1>16 DEF WayGains
<1>22. ThreadsFit'
  BY <1>5, <1>6, <1>8, <1>16, <1>20, <1>21, OneThread, Ends DEF Orderly
<1> QED BY <1>9, <1>15, <1>16, <1>22, UpdatesFit, Ends DEF Orderly

\* A handler that updates the record it finds.
LEMMA HandleUpdateFits ==
  ASSUME CredInv, Orderly, Spared(Disturbing)',
         NEW a \in Agents, NEW s \in Slots, NEW m, NEW type, Receive(a, s, m, type),
         NEW r \in ByThread(a, m.thread), NEW rec, rec = records[a][r],
         NEW new \in Record, new.thread = rec.thread, Update(a, s, r, new, Nothing),
         Moves(rec.state, new.state, "none"),
         new.state # "request-received" => new.request = rec.request,
         \A h, i : /\ a = Holder /\ Stage(m.thread, rec, i, m) => Stage(m.thread, new, i, Nothing)
                   /\ a = Issuer /\ Stage(m.thread, h, rec, m) => Stage(m.thread, h, new, Nothing)
  PROVE  Orderly'
<1>1. PICK t : t = [pc |-> "update", at |-> r, rec |-> new, out |-> Nothing]
  OBVIOUS
<1>2. /\ t.pc = "update" /\ t.at = r /\ t.rec = new /\ t.out = Nothing
      /\ TurnsTo(a, s, t)
  BY <1>1 DEF Update, Begin, TurnsTo
<1>3. /\ r \in DOMAIN records[a] /\ Recs(a, m.thread) = {rec} /\ rec.thread = m.thread
  BY Received, FoundSeen
<1>4. rec \in Record /\ rec # Nothing
  BY <1>3, ReadRecord, NothingAssumption
<1>5. Recs(a, m.thread) = Opt(rec)
  BY <1>3, <1>4 DEF Opt
<1>6. AtFits(records[a], t) /\ UpdateFits(records[a], t)
  BY <1>2, <1>3 DEF AtFits, UpdateFits, Succeeds, TypeOf, Moves
<1>7. /\ t.pc \in {"save", "update", "storeCredential"} /\ t.pc # "save"
      /\ t.pc # "storeCredential" /\ t.rec \in Record /\ t.rec.thread = m.thread
      /\ new = (IF t.pc = "storeCredential" THEN rec ELSE t.rec)
  BY <1>2, <1>3
<1> QED BY <1>2, <1>5, <1>6, <1>7, HandleFits

\* A handler that saves a new record.
LEMMA HandleSaveFits ==
  ASSUME CredInv, Orderly, Spared(Disturbing)',
         NEW a \in Agents, NEW s \in Slots, NEW m, NEW type, Receive(a, s, m, type),
         NEW new \in Record, new.thread = m.thread, Save(a, s, new), Recs(a, m.thread) = {},
         \A h, i : /\ a = Holder /\ Stage(m.thread, Nothing, i, m) => Stage(m.thread, new, i, Nothing)
                   /\ a = Issuer /\ Stage(m.thread, h, Nothing, m) => Stage(m.thread, h, new, Nothing)
  PROVE  Orderly'
<1>1. PICK t : t = [pc |-> "save", at |-> None, rec |-> new, out |-> Nothing]
  OBVIOUS
<1>2. /\ t.pc = "save" /\ t.rec = new /\ t.out = Nothing
      /\ TurnsTo(a, s, t)
  BY <1>1 DEF Save, Begin, TurnsTo
<1>3. PICK x : x = Nothing /\ Recs(a, m.thread) = Opt(x)
  BY DEF Opt
<1>4. AtFits(records[a], t) /\ UpdateFits(records[a], t)
  BY <1>2 DEF AtFits, UpdateFits
<1>5. /\ t.pc \in {"save", "update", "storeCredential"}
      /\ t.pc # "storeCredential" /\ t.rec \in Record /\ t.rec.thread = m.thread
      /\ new = (IF t.pc = "storeCredential" THEN x ELSE t.rec)
      /\ \A h, i : /\ a = Holder /\ Stage(m.thread, x, i, m) => Stage(m.thread, new, i, Nothing)
                   /\ a = Issuer /\ Stage(m.thread, h, x, m) => Stage(m.thread, h, new, Nothing)
  BY <1>2, <1>3
<1> QED BY <1>2, <1>3, <1>4, <1>5, HandleFits

LEMMA ProcessProposalFits ==
  ASSUME CredInv, Orderly, Spared(Disturbing)', NEW s \in Slots, NEW m, ProcessProposal(s, m)
  PROVE  Orderly'
<1>1. Receive(Issuer, s, m, "propose")
  BY DEF ProcessProposal
<1>2. /\ m \in Message /\ m.type = "propose" /\ m # Nothing /\ m.thread \in Ids
      /\ Settled[Issuer] = records[Issuer] /\ Serial
  BY <1>1, Received, Ends
<1>3. CASE Save(Issuer, s, NewRecord("proposal-received", m.thread, None))
           /\ \A r \in ByThread(Issuer, m.thread) : ~Finds(Issuer, m.thread, "offer-sent", r)
  <2>1. PICK h, i : ThreadFits(m.thread, h, i, m)
    BY <1>1, Received, Ends
  <2>2. Recs(Issuer, m.thread) = Opt(i)
    BY <2>1 DEF ThreadFits, Seen
  <2>3. i # Nothing => i.state = "offer-sent"
    BY <1>2, <2>1, NothingAssumption
       DEF ThreadFits, Stage, Stages, StateOf, TypeOf, Record, HolderStates, IssuerStates
  <2>4. Recs(Issuer, m.thread) = {}
    BY <1>2, <1>3, <2>2, <2>3, FindsNone, Ends DEF Opt
  <2>5. PICK new : new = NewRecord("proposal-received", m.thread, None)
    OBVIOUS
  <2>6. new \in Record /\ new # Nothing /\ new.thread = m.thread /\ new.state = "proposal-received"
    BY <1>2, <2>5, NoRequestType, NothingAssumption DEF NewRecord, Record, IssuerStates
  <2>7. \A k : Stage(m.thread, k, Nothing, m) => Stage(m.thread, k, new, Nothing)
    BY <1>2, <2>6 DEF Stage, Stages, StateOf, TypeOf
  <2> QED BY <1>1, <1>3, <2>4, <2>5, <2>6, <2>7, HandleSaveFits, Ends
<1>4. ASSUME NEW r \in ByThread(Issuer, m.thread), Finds(Issuer, m.thread, "offer-sent", r),
             Update(Issuer, s, r, [records[Issuer][r] EXCEPT !.state = "proposal-received"], Nothing)
      PROVE  Orderly'
  <2>1. PICK rec, new : rec = records[Issuer][r] /\ new = [rec EXCEPT !.state = "proposal-received"]
    OBVIOUS
  <2>2. rec \in Record /\ rec # Nothing /\ rec.state = "offer-sent"
    BY <1>4, <2>1, ReadRecord, NothingAssumption, Ends DEF ByThread, Finds
  <2>3. /\ new \in Record /\ new # Nothing /\ new.thread = rec.thread
        /\ new.state = "proposal-received" /\ new.request = rec.request
    BY <2>1, <2>2, NothingAssumption DEF Record, IssuerStates
  <2>4. \A k : Stage(m.thread, k, rec, m) => Stage(m.thread, k, new, Nothing)
    BY <1>2, <2>2, <2>3 DEF Stage, Stages, StateOf, TypeOf
  <2>5. Moves(rec.state, new.state, "none") /\ Update(Issuer, s, r, new, Nothing)
    BY <1>4, <2>1, <2>2, <2>3 DEF Moves
  <2> QED BY <1>1, <1>4, <2>1, <2>3, <2>4, <2>5, HandleUpdateFits, Ends
<1> QED BY <1>3, <1>4 DEF ProcessProposal

LEMMA ProcessRequestFits ==
  ASSUME CredInv, Orderly, Spared(Disturbing)', NEW s \in Slots, NEW m, ProcessRequest(s, m)
  PROVE  Orderly'
<1>1. Receive(Issuer, s, m, "request")
  BY DEF ProcessRequest
<1>2. m \in Message /\ m.type = "request" /\ m # Nothing /\ m.body \in Request
  BY <1>1, Received, Ends DEF Message
<1>3. PICK r \in ByThread(Issuer, m.thread) :
        /\ Finds(Issuer, m.thread, "offer-sent", r)
        /\ Update(Issuer, s, r,
                  [records[Issuer][r] EXCEPT !.state = "request-received", !.request = m.body], Nothing)
  BY Zenon DEF ProcessRequest
<1>4. PICK rec, new : /\ rec = records[Issuer][r]
                      /\ new = [rec EXCEPT !.state = "request-received", !.request = m.body]
  BY Zenon
<1>5. rec \in Record /\ rec # Nothing /\ rec.state = "offer-sent"
  BY <1>3, <1>4, ReadRecord, NothingAssumption, Ends DEF ByThread, Finds
<1>6. /\ new \in Record /\ new # Nothing /\ new.thread = rec.thread
      /\ new.state = "request-received" /\ new.request = m.body
  BY <1>2, <1>4, <1>5, NothingAssumption DEF Record, IssuerStates
<1>7. \A k : Stage(m.thread, k, rec, m) => Stage(m.thread, k, new, Nothing)
  BY <1>2, <1>5, <1>6 DEF Stage, Stages, StateOf, TypeOf
<1>8. Moves(rec.state, new.state, "none") /\ Update(Issuer, s, r, new, Nothing)
  BY <1>3, <1>4, <1>5, <1>6 DEF Moves
<1> QED BY <1>1, <1>3, <1>4, <1>6, <1>7, <1>8, HandleUpdateFits, Ends

LEMMA ProcessAckFits ==
  ASSUME CredInv, Orderly, Spared(Disturbing)', NEW s \in Slots, NEW m, ProcessAck(s, m)
  PROVE  Orderly'
<1>1. Receive(Issuer, s, m, "ack")
  BY DEF ProcessAck
<1>2. m \in Message /\ m.type = "ack" /\ m # Nothing
  BY <1>1, Received, Ends
<1>3. PICK r \in ByThread(Issuer, m.thread) :
        /\ Finds(Issuer, m.thread, "credential-issued", r)
        /\ Update(Issuer, s, r, [records[Issuer][r] EXCEPT !.state = "done"], Nothing)
  BY DEF ProcessAck
<1>4. PICK rec, new : rec = records[Issuer][r] /\ new = [rec EXCEPT !.state = "done"]
  OBVIOUS
<1>5. rec \in Record /\ rec # Nothing /\ rec.state = "credential-issued"
  BY <1>3, <1>4, ReadRecord, NothingAssumption, Ends DEF ByThread, Finds
<1>6. /\ new \in Record /\ new # Nothing /\ new.thread = rec.thread
      /\ new.state = "done" /\ new.request = rec.request
  BY <1>4, <1>5, NothingAssumption DEF Record, IssuerStates
<1>7. \A k : Stage(m.thread, k, rec, m) => Stage(m.thread, k, new, Nothing)
  BY <1>2, <1>5, <1>6 DEF Stage, Stages, StateOf, TypeOf
<1>8. Moves(rec.state, new.state, "none") /\ Update(Issuer, s, r, new, Nothing)
  BY <1>3, <1>4, <1>5, <1>6 DEF Moves
<1> QED BY <1>1, <1>3, <1>4, <1>6, <1>7, <1>8, HandleUpdateFits, Ends

LEMMA ProcessOfferFits ==
  ASSUME CredInv, Orderly, Spared(Disturbing)', NEW s \in Slots, NEW m, ProcessOffer(s, m)
  PROVE  Orderly'
<1>1. Receive(Holder, s, m, "offer")
  BY Zenon DEF ProcessOffer
<1>2. /\ m \in Message /\ m.type = "offer" /\ m # Nothing /\ m.thread \in Ids
      /\ m.id \in Ids \cup {None}
      /\ Settled[Holder] = records[Holder] /\ Serial
  BY <1>1, Received, Ends DEF Message
<1>3. CASE Save(Holder, s, NewRecord("offer-received", m.id, m.id))
           /\ \A r \in ByThread(Holder, m.thread) : ~Finds(Holder, m.thread, "proposal-sent", r)
  <2>1. PICK h, i : ThreadFits(m.thread, h, i, m)
    BY <1>1, Received, Ends
  <2>2. Recs(Holder, m.thread) = Opt(h)
    BY <2>1 DEF ThreadFits, Seen
  <2>3. h # Nothing => h.state = "proposal-sent"
    BY <1>2, <2>1, NothingAssumption
       DEF ThreadFits, Stage, Stages, StateOf, TypeOf, Record, HolderStates, IssuerStates
  <2>4. h = Nothing
    BY <1>2, <1>3, <2>2, <2>3, FindsNone, Ends
  <2>5. Recs(Holder, m.thread) = {} /\ m.id = m.thread
    BY <1>2, <2>1, <2>2, <2>4 DEF Opt, ThreadFits, Stage, TypeOf
  <2>6. PICK new : new = NewRecord("offer-received", m.id, m.id)
    OBVIOUS
  <2>7. new \in Record /\ new # Nothing /\ new.thread = m.thread /\ new.state = "offer-received"
    BY <1>2, <2>5, <2>6, NoRequestType, NothingAssumption DEF NewRecord, Record, HolderStates
  <2>8. \A k : Stage(m.thread, Nothing, k, m) => Stage(m.thread, new, k, Nothing)
    BY <1>2, <2>7 DEF Stage, Stages, StateOf, TypeOf
  <2> QED BY <1>1, <1>3, <2>5, <2>6, <2>7, <2>8, HandleSaveFits, Ends
<1>4. ASSUME NEW r \in ByThread(Holder, m.thread), Finds(Holder, m.thread, "proposal-sent", r),
             Update(Holder, s, r, [records[Holder][r] EXCEPT !.state = "offer-received",
                                                             !.offer = m.id], Nothing)
      PROVE  Orderly'
  <2>1. PICK rec, new : /\ rec = records[Holder][r]
                        /\ new = [rec EXCEPT !.state = "offer-received", !.offer = m.id]
    BY Zenon
  <2>2. rec \in Record /\ rec # Nothing /\ rec.state = "proposal-sent"
    BY <1>4, <2>1, ReadRecord, NothingAssumption, Ends DEF ByThread, Finds
  <2>3. /\ new \in Record /\ new # Nothing /\ new.thread = rec.thread
        /\ new.state = "offer-received" /\ new.request = rec.request
    BY <1>2, <2>1, <2>2, NothingAssumption DEF Record, HolderStates
  <2>4. \A k : Stage(m.thread, rec, k, m) => Stage(m.thread, new, k, Nothing)
    BY <1>2, <2>2, <2>3 DEF Stage, Stages, StateOf, TypeOf
  <2>5. Moves(rec.state, new.state, "none") /\ Update(Holder, s, r, new, Nothing)
    BY <1>4, <2>1, <2>2, <2>3 DEF Moves
  <2> QED BY <1>1, <1>4, <2>1, <2>3, <2>4, <2>5, HandleUpdateFits, Ends
<1> QED BY <1>3, <1>4, Zenon DEF ProcessOffer

LEMMA ProcessCredentialFits ==
  ASSUME CredInv, Orderly, Spared(Disturbing)', NEW s \in Slots, NEW m, ProcessCredential(s, m)
  PROVE  Orderly'
<1>1. Receive(Holder, s, m, "issue")
  BY DEF ProcessCredential
<1>2. /\ m \in Message /\ m.type = "issue" /\ m # Nothing /\ m.body \in Request
      /\ Settled[Holder] = records[Holder] /\ Serial
  BY <1>1, Received, Ends DEF Message
<1>3. PICK r \in ByThread(Holder, m.thread) :
        /\ Finds(Holder, m.thread, "request-sent", r)
        /\ Begin(Holder, s, "storeCredential", r,
                 [records[Holder][r] EXCEPT !.credential = m.body], Nothing)
  BY DEF ProcessCredential
<1>4. PICK x, rec : x = records[Holder][r] /\ rec = [x EXCEPT !.credential = m.body]
  OBVIOUS
<1>5. PICK t : t = [pc |-> "storeCredential", at |-> r, rec |-> rec, out |-> Nothing]
  OBVIOUS
<1>6. /\ t.pc = "storeCredential" /\ t.at = r /\ t.rec = rec /\ t.out = Nothing
      /\ TurnsTo(Holder, s, t)
  BY <1>3, <1>4, <1>5 DEF Begin, TurnsTo
<1>7. r \in DOMAIN records[Holder] /\ Recs(Holder, m.thread) = {x} /\ x.thread = m.thread
  BY <1>2, <1>3, <1>4, FoundSeen, Ends
<1>8. x \in Record /\ x # Nothing
  BY <1>4, <1>7, ReadRecord, NothingAssumption, Ends
<1>9. rec \in Record /\ rec.thread = m.thread /\ rec.request = x.request
  BY <1>2, <1>4, <1>7, <1>8 DEF Record
<1>10. Recs(Holder, m.thread) = Opt(x)
  BY <1>7, <1>8 DEF Opt
<1>11. AtFits(records[Holder], t) /\ UpdateFits(records[Holder], t)
  BY <1>4, <1>6, <1>7, <1>9 DEF AtFits, UpdateFits
<1>12. \A k : Stage(m.thread, x, k, m) => Stage(m.thread, x, k, Nothing)
  BY <1>2 DEF Stage, Stages, StateOf, TypeOf
<1>13. /\ t.pc \in {"save", "update", "storeCredential"} /\ t.pc # "save"
       /\ t.rec \in Record /\ t.rec.thread = m.thread /\ t.rec.request = x.request
       /\ x = (IF t.pc = "storeCredential" THEN x ELSE t.rec)
  BY <1>6, <1>9
<1> QED BY <1>1, <1>6, <1>10, <1>11, <1>12, <1>13, HandleFits, Ends

-----------------------------------------------------------------------------
(* The stages are kept until something disturbs the exchange                 *)

\* Nothing that has happened is forgotten.
LEMMA Remembers == [Next]_vars => happened \subseteq happened'
<1> SUFFICES ASSUME [Next]_vars PROVE happened \subseteq happened'
  OBVIOUS
<1>1. ASSUME NEW a \in Agents, NEW s \in Slots, Enter(a, s) PROVE happened \subseteq happened'
  BY <1>1, EnterRemembers
<1>2. ASSUME NEW a \in Agents, NEW s \in Slots, Throws(a, s) \/ \E rec : Catches(a, s, rec)
      PROVE  happened \subseteq happened'
  BY <1>2 DEF Throws, Catches, Strikes
<1>3. CASE UNCHANGED vars
  BY <1>3 DEF vars
<1>4. CASE Begins
  BY <1>1, <1>4, Ends
     DEF Begins, ProposeCredential, OfferCredential, CreateProposal, CreateOffer, Start,
         CreateProposalAsResponse, CallOn
<1>5. ASSUME NEW a \in Agents, NEW s \in Slots, Accept(a, s) PROVE happened \subseteq happened'
  BY <1>1, <1>5 DEF Accept, AcceptProposal, AcceptRequest, AcceptOffer, AcceptCredential, CallOn
<1>6. ASSUME NEW a \in Agents, NEW s \in Slots, Handle(a, s) PROVE happened \subseteq happened'
  <2>1. ASSUME NEW m, NEW type, Receive(a, s, m, type) PROVE happened \subseteq happened'
    BY <1>1, <2>1 DEF Receive
  <2>2. ASSUME NEW m, ProcessRequest(s, m) \/ ProcessOffer(s, m)
        PROVE  Receive(Issuer, s, m, "request") \/ Receive(Holder, s, m, "offer")
    BY <2>2, Zenon DEF ProcessRequest, ProcessOffer
  <2> QED
    BY <1>1, <1>6, <2>1, <2>2, Ends
       DEF Handle, ProcessProposal, ProcessAck, ProcessCredential, Refuse, Refuses, Receive
<1>7. ASSUME NEW a \in Agents, NEW s \in Slots, Proceed(a, s) PROVE happened \subseteq happened'
  BY <1>7 DEF Proceed, SaveRecord, UpdateRecord, Send, StoreCredential
<1>8. CASE Fault
  BY <1>8 DEF Fault, Lose, Duplicate, Crash, Strikes
<1>9. ASSUME NEW a \in Agents, NEW s \in Slots, CallFails(a, s) PROVE happened \subseteq happened'
  BY <1>2, <1>9 DEF CallFails
<1> QED BY <1>3, <1>4, <1>5, <1>6, <1>7, <1>8, <1>9 DEF Next

LEMMA OrderlyStep ==
  ASSUME CredInv, Orderly, Spared(Disturbing)', [Next]_vars
  PROVE  Orderly'
<1>1. CASE UNCHANGED vars
  <2>1. UNCHANGED <<records, task, net, lastId>>
    BY <1>1 DEF vars
  <2> QED BY <2>1
     DEF Orderly, Serial, Alone, Settled, Doing, ThreadsFit, ThreadFits, Seen, Recs, Way, Sent,
         Storing, Stage, UpdateFits
<1>2. CASE Begins
  BY <1>2, StartsFit, RespondFits DEF Begins, ProposeCredential, OfferCredential
<1>3. ASSUME NEW a \in Agents, NEW s \in Slots, Accept(a, s) PROVE Orderly'
  BY <1>3, AcceptsFit DEF Accept
<1>4. ASSUME NEW a \in Agents, NEW s \in Slots, NEW m, Refuse(a, s, m) PROVE Orderly'
  <2>1. /\ UNCHANGED <<records, task>> /\ UNCHANGED lastId /\ m \in DOMAIN net
        /\ net' = Take(net, m)
    BY <1>4 DEF Refuse, Refuses, Receive
  <2> QED BY <2>1, DropFits
<1>5. ASSUME NEW a \in Agents, NEW s \in Slots, Handle(a, s) PROVE Orderly'
  BY <1>4, <1>5, ProcessProposalFits, ProcessRequestFits, ProcessAckFits, ProcessOfferFits,
     ProcessCredentialFits DEF Handle
<1>6. ASSUME NEW a \in Agents, NEW s \in Slots, Proceed(a, s) PROVE Orderly'
  BY <1>6, ProceedFits, StoreCredentialFits DEF Proceed
<1>7. CASE Fault
  <2>1. ASSUME NEW m \in DOMAIN net, Lose(m) PROVE Orderly'
    <3>1. UNCHANGED <<records, task>> /\ UNCHANGED lastId /\ net' = Take(net, m)
      BY <2>1 DEF Lose
    <3> QED BY <3>1, DropFits
  <2>2. ~\E m \in DOMAIN net : Duplicate(m)
    BY Unstruck DEF Duplicate, Disturbing
  <2>3. ~\E a \in Agents : Crash(a)
    BY Unstruck DEF Crash, Disturbing
  <2> QED BY <1>7, <2>1, <2>2, <2>3 DEF Fault
<1>8. ~\E a \in Agents, s \in Slots : CallFails(a, s)
  BY Unstruck DEF CallFails, Throws, Catches, Disturbing
<1> QED BY <1>1, <1>2, <1>3, <1>5, <1>6, <1>7, <1>8 DEF Next

LEMMA SerialStep == CredInv /\ SerialInv /\ [Next]_vars => SerialInv'
<1> SUFFICES ASSUME CredInv, SerialInv, [Next]_vars, Spared(Disturbing)' PROVE Orderly'
  BY DEF SerialInv
<1>1. Spared(Disturbing)
  BY Remembers DEF Spared
<1> QED BY <1>1, OrderlyStep DEF SerialInv

LEMMA SerialInit == Init => SerialInv
<1> SUFFICES ASSUME Init PROVE Orderly
  BY DEF SerialInv
<1>1. /\ records = [a \in Agents |-> <<>>] /\ net = EmptyBag /\ lastId = 0
      /\ task = [a \in Agents |-> [s \in Slots |-> Idle]]
  BY DEF Init, ExchangeInit
<1>2. Serial /\ (\A a \in Agents, u \in Ids : Recs(a, u) = {} /\ Way(u) = {})
      /\ \A a \in Agents : Doing[a] = Idle
  BY <1>1, StartsSerial
<1>3. Idle.pc = "idle"
  BY DEF Idle
<1>4. ThreadsFit
  <2> SUFFICES ASSUME NEW u \in Ids PROVE ThreadFits(u, Nothing, Nothing, Nothing)
    BY DEF ThreadsFit
  <2>1. Seen(Holder, Issuer, u, Nothing, Nothing, Nothing)
    BY <1>2, Ends DEF Seen, Opt
  <2>2. Stage(u, Nothing, Nothing, Nothing)
    BY DEF Stage, Stages, StateOf, TypeOf
  <2>3. ~Storing(u)
    BY <1>2, <1>3, Ends DEF Storing
  <2> QED BY <2>1, <2>2, <2>3 DEF ThreadFits
<1>5. \A a \in Agents : UpdateFits(records[a], Doing[a])
  BY <1>2, <1>3 DEF UpdateFits
<1> QED BY <1>2, <1>4, <1>5 DEF Orderly

\* Until something disturbs them, each thread is at one of the stages.
THEOREM CredSerial == Spec => []SerialInv
<1>1. Init => CredInv /\ SerialInv
  BY InitEstablishes, SerialInit
<1>2. CredInv /\ SerialInv /\ [Next]_vars => (CredInv /\ SerialInv)'
  BY InvStep, SerialStep
<1> QED BY <1>1, <1>2, PTL DEF Spec

\* The record in an agent's wallet is the one of its stage, or the one before it.
LEMMA Behind ==
  ASSUME CredInv, Orderly, NEW a \in Agents, NEW r \in DOMAIN records[a],
         NEW u, u = records[a][r].thread, NEW h, NEW i, NEW m, ThreadFits(u, h, i, m),
         NEW x, x = (IF a = Holder THEN h ELSE i)
  PROVE  x # Nothing /\ Before(records[a][r], x, m)
<1>1. PICK rec, t : rec = records[a][r] /\ t = Doing[a]
  OBVIOUS
<1>2. Shaped(Record, Message, PCs) /\ Serial
  BY CredShaped DEF Orderly
<1>3. PICK y : Shows(a, u, y) /\ (y = rec \/ (t.pc = "update" /\ t.at = r /\ y = t.rec /\ y.thread = u))
  BY <1>1, <1>2, BehindSettled
<1>4. Recs(a, u) = Opt(x) /\ Way(u) = Opt(m)
  BY AgentsAssumption DEF ThreadFits, Seen
<1>5. x # Nothing /\ x = y
  BY <1>3, <1>4 DEF Opt, Shows
<1>6. CASE x # rec
  <2>1. x = t.rec /\ t.pc = "update" /\ t.at = r /\ x.thread = u
    BY <1>3, <1>5, <1>6
  <2>2. Succeeds(rec, x, t.out)
    BY <1>1, <2>1 DEF Orderly, UpdateFits
  <2>3. ASSUME t.out # Nothing PROVE t.out = m
    <3>1. t.out \in Way(u)
      BY <1>1, <2>1, <2>2, <2>3 DEF Succeeds, Way, Sent
    <3> QED BY <1>4, <3>1 DEF Opt
  <2> QED BY <1>1, <1>5, <2>2, <2>3 DEF Before
<1> QED BY <1>1, <1>5, <1>6 DEF Before

\* What the records say of each other, when one or both are a step behind.
LEMMA StagesInStep ==
  ASSUME NEW u, NEW x, NEW y, NEW m, x # Nothing, y # Nothing, Stage(u, x, y, m),
         NEW h, h.state # "credential-issued", Before(h, x, m), NEW i, Before(i, y, m)
  PROVE  /\ i.state \in {"credential-issued", "done"} =>
              /\ h.state \in {"request-sent", "credential-received", "done"}
              /\ h.request = i.request
         /\ h.state \in {"credential-received", "done"} =>
              i.state \in {"credential-issued", "done"}
         /\ i.state = "done" => h.state = "done"
<1>1. /\ Stages(x.state, y.state, TypeOf(m))
      /\ y.state \in {"request-received", "credential-issued", "done"} => x.request = y.request
  BY DEF Stage, StateOf
<1>2. /\ h = x \/ Changes(h.state, x.state, TypeOf(m))
      /\ x.state # "request-sent" /\ x.state # "request-received" => h.request = x.request
  BY DEF Before, Succeeds, Changes, TypeOf
<1>3. /\ i = y \/ Changes(i.state, y.state, TypeOf(m))
      /\ y.state # "request-sent" /\ y.state # "request-received" => i.request = y.request
  BY DEF Before, Succeeds, Changes, TypeOf
<1>4. y.state \in {"credential-issued", "done"} => h.request = x.request
  BY <1>1, <1>2 DEF Stages, Changes, Moves
<1>5. i.state \in {"credential-issued", "done"} => y.state \in {"credential-issued", "done"}
  BY <1>3 DEF Changes, Moves
<1>6. h.state \in {"credential-received", "done"} => x.state \in {"credential-received", "done"}
  BY <1>2 DEF Changes, Moves
<1>7. i.state \in {"credential-issued", "done"} =>
        /\ h.state \in {"request-sent", "credential-received", "done"}
        /\ h.request = i.request
  BY <1>1, <1>2, <1>3, <1>4, <1>5 DEF Stages, Changes, Moves
<1>8. h.state \in {"credential-received", "done"} => i.state \in {"credential-issued", "done"}
  BY <1>1, <1>3, <1>6 DEF Stages, Changes, Moves
<1>9. i.state = "done" => h.state = "done"
  BY <1>1, <1>2, <1>3 DEF Stages, Changes, Moves
<1> QED BY <1>7, <1>8, <1>9

\* However often the two sides negotiate and whatever is lost, the two records of an
\* exchange keep in step, and an agent has one record of it.
THEOREM CredInStep == Spec => []InStep
<1>1. ASSUME CredInv, SerialInv PROVE InStep
  <2> SUFFICES ASSUME Spared(Disturbing)
               PROVE  Unique /\ \A r \in DOMAIN records[Holder], q \in DOMAIN records[Issuer] :
                        LET h == records[Holder][r]
                            i == records[Issuer][q]
                        IN h.thread = i.thread =>
                             /\ i.state \in {"credential-issued", "done"} =>
                                  /\ h.state \in {"request-sent", "credential-received", "done"}
                                  /\ h.request = i.request
                             /\ h.state \in {"credential-received", "done"} =>
                                  i.state \in {"credential-issued", "done"}
                             /\ i.state = "done" => h.state = "done"
    BY DEF InStep, Disturbing
  <2>1. Orderly
    BY <1>1 DEF SerialInv
  <2>2. Shaped(Record, Message, PCs) /\ Serial
    BY <1>1, <2>1, CredShaped DEF Orderly
  <2>3. Unique
    BY <2>2, SerialUnique
  <2>4. ASSUME NEW r \in DOMAIN records[Holder], NEW q \in DOMAIN records[Issuer],
               NEW h, h = records[Holder][r], NEW i, i = records[Issuer][q], h.thread = i.thread
        PROVE  /\ i.state \in {"credential-issued", "done"} =>
                    /\ h.state \in {"request-sent", "credential-received", "done"}
                    /\ h.request = i.request
               /\ h.state \in {"credential-received", "done"} =>
                    i.state \in {"credential-issued", "done"}
               /\ i.state = "done" => h.state = "done"
    <3>1. PICK u : u = h.thread
      OBVIOUS
    <3>2. u \in Ids
      BY <1>1, <2>4, <3>1, ReadRecord, Ends DEF Record
    <3>3. PICK x, y, m : ThreadFits(u, x, y, m)
      BY <2>1, <3>2 DEF Orderly, ThreadsFit
    <3>4. x # Nothing /\ Before(h, x, m) /\ y # Nothing /\ Before(i, y, m)
      BY <1>1, <2>1, <2>4, <3>1, <3>3, Behind, Ends
    <3>5. Stage(u, x, y, m)
      BY <3>3 DEF ThreadFits
    <3>6. h.state # "credential-issued"
      <4>1. records[Holder][r] \in HolderGood(DOMAIN wallet)
        BY <1>1, ReadGood, Parts, Ends DEF CredInv
      <4> QED BY <2>4, <4>1 DEF HolderGood
    <3> QED BY <3>4, <3>5, <3>6, StagesInStep
  <2> QED BY <2>3, <2>4
<1> QED BY <1>1, CredInvariant, CredSerial, PTL

-----------------------------------------------------------------------------
(* A credential for an offer is issued once and stored once                  *)

\* Losing a message or handling it twice does not shake that.
Wrecking == {"overlap", "crash", "refuse"}

GivenOut == {"credential-issued", "done"}

\* An issuer's record when n is the last id given out.
IssuerSound(x, n) ==
  /\ x.offer \in 0..n
  /\ x.state \in {"offer-sent", "request-received"} \cup GivenOut => x.offer # None
  /\ x.state = "request-received" => x.request.thread = x.thread
  /\ IF x.state \in GivenOut
     THEN x.credential.thread = x.thread /\ x.credential.offer = x.offer
     ELSE x.credential = NoRequest

IssuerFits(recs, n) ==
  /\ \A r \in DOMAIN recs : IssuerSound(recs[r], n)
  /\ \A r, q \in DOMAIN recs : recs[r].offer = recs[q].offer /\ recs[r].offer # None => r = q

\* What an update makes of an issuer's record: it leaves the credential alone, issues
\* one, or concludes when that one is in the wallet.
Follows(x, y, W) ==
  /\ x.state # "done"
  /\ \/ y.credential = x.credential /\ y.state # "done"
     \/ x.credential = NoRequest /\ y.state = "credential-issued"
     \/ y.credential = x.credential /\ y.state = "done" /\ y.credential \in W

IssuerTask(recs, t, W) ==
  /\ t.pc = "save" => t.rec.credential = NoRequest /\ t.rec.state # "done"
  /\ t.pc = "update" => t.at \in DOMAIN recs /\ Follows(recs[t.at], t.rec, W)

\* A holder that waits for a credential does not have it yet.
HolderSound(x, W, n) ==
  /\ x.request.id \in 0..n
  /\ x.state = "request-sent" => x.request.id # None /\ x.request \notin W

HolderFits(recs, W, n) ==
  /\ \A r \in DOMAIN recs : HolderSound(recs[r], W, n)
  /\ \A r, q \in DOMAIN recs :
       recs[r].request.id = recs[q].request.id /\ recs[r].request.id # None => r = q

\* What is to be stored was issued, and its record still waits for it.
HolderTask(recs, t, I) ==
  t.pc = "storeCredential" =>
    /\ t.at \in DOMAIN recs
    /\ recs[t.at].state = "request-sent"
    /\ recs[t.at].request = t.rec.request
    /\ t.rec.credential \in I

MessageSound(m, I) ==
  /\ m.type = "request" => m.body.thread = m.thread
  /\ m.type = "issue" => m.body \in I

\* The message that a task sends afterwards may be of the credential that it issues.
OutSound(a, t, I) ==
  \/ t.out = Nothing
  \/ MessageSound(t.out, I)
  \/ /\ a = Issuer /\ t.pc = "update" /\ t.rec.state = "credential-issued"
     /\ t.out.type = "issue" /\ t.out.body = t.rec.credential

WalletFits(W, I, n) == W \subseteq I /\ \A c \in W : c.id \in 0..n

IssueFits ==
  /\ Alone
  /\ IssuerFits(Settled[Issuer], lastId)
  /\ IssuerTask(records[Issuer], Doing[Issuer], DOMAIN wallet)
  /\ HolderFits(Settled[Holder], DOMAIN wallet, lastId)
  /\ HolderTask(records[Holder], Doing[Holder], Issued)
  /\ WalletFits(DOMAIN wallet, Issued, lastId)
  /\ \A m \in DOMAIN net : MessageSound(m, Issued)
  /\ \A a \in Agents : OutSound(a, Doing[a], Issued)

IssueInv == Spared(Wrecking) => IssueFits

LEMMA IssuerLater ==
  ASSUME NEW recs, NEW n \in Nat, NEW k \in Nat, n <= k, IssuerFits(recs, n)
  PROVE  IssuerFits(recs, k)
<1>1. \A r \in DOMAIN recs : recs[r].offer \in 0..k
  BY DEF IssuerFits, IssuerSound
<1> QED BY <1>1 DEF IssuerFits, IssuerSound

LEMMA HolderLater ==
  ASSUME NEW recs, NEW W, NEW n \in Nat, NEW k \in Nat, n <= k, HolderFits(recs, W, n)
  PROVE  HolderFits(recs, W, k)
<1>1. \A r \in DOMAIN recs : recs[r].request.id \in 0..k
  BY DEF HolderFits, HolderSound
<1> QED BY <1>1 DEF HolderFits, HolderSound

\* A credential issued remains so.
LEMMA MessageLater ==
  ASSUME NEW m, NEW I, NEW J, I \subseteq J, MessageSound(m, I)
  PROVE  MessageSound(m, J)
BY DEF MessageSound

LEMMA OutLater ==
  ASSUME NEW a, NEW t, NEW I, NEW J, I \subseteq J, OutSound(a, t, I)
  PROVE  OutSound(a, t, J)
BY MessageLater DEF OutSound

LEMMA WalletLater ==
  ASSUME NEW W, NEW I, NEW J, NEW n \in Nat, NEW k \in Nat, n <= k, I \subseteq J,
         WalletFits(W, I, n)
  PROVE  WalletFits(W, J, k)
BY DEF WalletFits

\* One agent begins or goes on with a task, and nothing is written.
LEMMA TaskFits ==
  ASSUME IssueFits, NEW a \in Agents, NEW t, Alone', Doing' = [Doing EXCEPT ![a] = t],
         UNCHANGED <<records, wallet>>, lastId \in Nat, lastId' \in Nat, lastId <= lastId',
         a = Issuer => /\ IssuerFits(Settle(records[Issuer], t), lastId')
                       /\ IssuerTask(records[Issuer], t, DOMAIN wallet),
         a = Holder => /\ HolderFits(Settle(records[Holder], t), DOMAIN wallet, lastId')
                       /\ HolderTask(records[Holder], t, Issued),
         \A m \in DOMAIN net' : m \in DOMAIN net \/ MessageSound(m, Issued),
         OutSound(a, t, Issued)
  PROVE  IssueFits'
<1>1. \A b \in Agents : Doing'[b] = IF b = a THEN t ELSE Doing[b]
  BY DEF Doing
<1>2. Settled'[a] = Settle(records[a], t) /\ \A b \in Agents : b # a => Settled'[b] = Settled[b]
  BY <1>1 DEF Settled
<1>3. UNCHANGED Issued
  BY DEF Issued
<1>4. /\ IssuerFits(Settled[Issuer], lastId)'
      /\ IssuerTask(records[Issuer], Doing[Issuer], DOMAIN wallet)'
  <2>1. CASE a = Issuer
    BY <1>1, <1>2, <2>1
  <2>2. CASE a # Issuer
    <3>1. IssuerFits(Settled[Issuer], lastId')
      BY IssuerLater DEF IssueFits
    <3> QED BY <1>1, <1>2, <2>2, <3>1, Ends DEF IssueFits
  <2> QED BY <2>1, <2>2
<1>5. /\ HolderFits(Settled[Holder], DOMAIN wallet, lastId)'
      /\ HolderTask(records[Holder], Doing[Holder], Issued)'
  <2>1. CASE a = Holder
    BY <1>1, <1>2, <1>3, <2>1
  <2>2. CASE a # Holder
    <3>1. HolderFits(Settled[Holder], DOMAIN wallet, lastId')
      BY HolderLater DEF IssueFits
    <3> QED BY <1>1, <1>2, <1>3, <2>2, <3>1, Ends DEF IssueFits
  <2> QED BY <2>1, <2>2
<1>6. WalletFits(DOMAIN wallet, Issued, lastId)'
  BY <1>3, WalletLater DEF IssueFits
<1>7. (\A m \in DOMAIN net : MessageSound(m, Issued))'
  BY <1>3 DEF IssueFits
<1>8. (\A b \in Agents : OutSound(b, Doing[b], Issued))'
  BY <1>1, <1>3 DEF IssueFits
<1> QED BY <1>4, <1>5, <1>6, <1>7, <1>8 DEF IssueFits

\* A task begins.
LEMMA BeginFits ==
  ASSUME CredInv, IssueFits, "overlap" \notin happened', NEW a \in Agents, NEW s \in Slots,
         Enter(a, s), UNCHANGED records, NEW t, t.pc # "idle", TurnsTo(a, s, t)
  PROVE  /\ Alone' /\ Doing' = [Doing EXCEPT ![a] = t]
         /\ lastId \in Nat
         /\ a = Issuer => IssuerFits(records[Issuer], lastId)
         /\ a = Holder => HolderFits(records[Holder], DOMAIN wallet, lastId)
<1>1. Doing[a] = Idle /\ \A q \in Slots : Free(a, q)
  BY EntersFree
<1>2. task \in [Agents -> [Slots -> Task(Record, Message, PCs)]]
  BY CredShaped DEF Shaped
<1>3. Alone' /\ Doing' = [Doing EXCEPT ![a] = t]
  BY <1>1, <1>2, Turns DEF IssueFits, TurnsTo
<1>4. Settled[a] = records[a]
  BY <1>1 DEF Settled, Settle, Idle
<1>5. lastId \in Nat
  BY DEF CredInv, HeldWith, Held, ExchangeTypeOK
<1> QED BY <1>3, <1>4, <1>5 DEF IssueFits

\* What an agent decides on fits its other records.
LEMMA IssuerAdds ==
  ASSUME NEW recs \in Seq(Record), NEW n \in Nat, NEW k \in Nat, n <= k, IssuerFits(recs, n),
         NEW t, t.pc = "save", IssuerSound(t.rec, k), t.rec.offer = None \/ t.rec.offer > n
  PROVE  IssuerFits(Settle(recs, t), k)
<1>1. PICK y, new : y = t.rec /\ new = Append(recs, y)
  OBVIOUS
<1>2. /\ DOMAIN new = 1..Len(recs) + 1 /\ DOMAIN recs = 1..Len(recs) /\ Len(recs) \in Nat
      /\ new[Len(recs) + 1] = y /\ \A r \in 1..Len(recs) : new[r] = recs[r]
  BY <1>1
<1>3. \A r \in DOMAIN new : r \in DOMAIN recs \/ new[r] = y
  BY <1>2
<1>4. IssuerFits(recs, k)
  BY IssuerLater
<1>5. \A r \in DOMAIN recs : recs[r].offer \in 0..n
  BY DEF IssuerFits, IssuerSound
<1>6. \A r \in DOMAIN new : IssuerSound(new[r], k)
  BY <1>1, <1>2, <1>3, <1>4 DEF IssuerFits
<1>7. \A r, q \in DOMAIN new : new[r].offer = new[q].offer /\ new[r].offer # None => r = q
  BY <1>1, <1>2, <1>5, SMT DEF IssuerFits
<1>8. Settle(recs, t) = new
  BY <1>1 DEF Settle
<1> QED BY <1>6, <1>7, <1>8 DEF IssuerFits

LEMMA IssuerReplaces ==
  ASSUME NEW recs \in Seq(Record), NEW n \in Nat, NEW k \in Nat, n <= k, IssuerFits(recs, n),
         NEW t, t.pc = "update", t.at \in DOMAIN recs, IssuerSound(t.rec, k),
         t.rec.offer = recs[t.at].offer \/ t.rec.offer > n
  PROVE  IssuerFits(Settle(recs, t), k)
<1>1. PICK y, at, new : y = t.rec /\ at = t.at /\ new = [recs EXCEPT ![at] = y]
  OBVIOUS
<1>2. DOMAIN new = DOMAIN recs /\ \A r \in DOMAIN recs : new[r] = IF r = at THEN y ELSE recs[r]
  BY <1>1
<1>4. IssuerFits(recs, k)
  BY IssuerLater
<1>5. \A r \in DOMAIN recs : recs[r].offer \in 0..n
  BY DEF IssuerFits, IssuerSound
<1>6. \A r \in DOMAIN new : IssuerSound(new[r], k)
  BY <1>1, <1>2, <1>4 DEF IssuerFits
<1>7. \A r, q \in DOMAIN new : new[r].offer = new[q].offer /\ new[r].offer # None => r = q
  <2>1. \A r, q \in DOMAIN recs : recs[r].offer = recs[q].offer /\ recs[r].offer # None => r = q
    BY DEF IssuerFits
  <2>2. y.offer = recs[at].offer \/ y.offer > n
    BY <1>1
  <2> QED BY <1>1, <1>2, <1>5, <2>1, <2>2
<1>8. Settle(recs, t) = new
  BY <1>1 DEF Settle
<1> QED BY <1>6, <1>7, <1>8 DEF IssuerFits

LEMMA HolderAdds ==
  ASSUME NEW recs \in Seq(Record), NEW n \in Nat, NEW k \in Nat, n <= k,
         NEW W, HolderFits(recs, W, n),
         NEW t, t.pc = "save", HolderSound(t.rec, W, k), t.rec.request.id = None
  PROVE  HolderFits(Settle(recs, t), W, k)
<1>1. PICK y, new : y = t.rec /\ new = Append(recs, y)
  OBVIOUS
<1>2. /\ DOMAIN new = 1..Len(recs) + 1 /\ DOMAIN recs = 1..Len(recs) /\ Len(recs) \in Nat
      /\ new[Len(recs) + 1] = y /\ \A r \in 1..Len(recs) : new[r] = recs[r]
  BY <1>1
<1>3. \A r \in DOMAIN new : r \in DOMAIN recs \/ new[r] = y
  BY <1>2
<1>4. HolderFits(recs, W, k)
  BY HolderLater
<1>6. \A r \in DOMAIN new : HolderSound(new[r], W, k)
  BY <1>1, <1>2, <1>3, <1>4 DEF HolderFits
<1>7. \A r, q \in DOMAIN new :
        new[r].request.id = new[q].request.id /\ new[r].request.id # None => r = q
  BY <1>1, <1>2, SMT DEF HolderFits
<1>8. Settle(recs, t) = new
  BY <1>1 DEF Settle
<1> QED BY <1>6, <1>7, <1>8 DEF HolderFits

LEMMA HolderReplaces ==
  ASSUME NEW recs \in Seq(Record), NEW n \in Nat, NEW k \in Nat, n <= k,
         NEW W, HolderFits(recs, W, n),
         NEW t, t.pc = "update", t.at \in DOMAIN recs, HolderSound(t.rec, W, k),
         t.rec.request.id = recs[t.at].request.id \/ t.rec.request.id > n
  PROVE  HolderFits(Settle(recs, t), W, k)
<1>1. PICK y, at, new : y = t.rec /\ at = t.at /\ new = [recs EXCEPT ![at] = y]
  OBVIOUS
<1>2. DOMAIN new = DOMAIN recs /\ \A r \in DOMAIN recs : new[r] = IF r = at THEN y ELSE recs[r]
  BY <1>1
<1>4. HolderFits(recs, W, k)
  BY HolderLater
<1>5. \A r \in DOMAIN recs : recs[r].request.id \in 0..n
  BY DEF HolderFits, HolderSound
<1>6. \A r \in DOMAIN new : HolderSound(new[r], W, k)
  BY <1>1, <1>2, <1>4 DEF HolderFits
<1>7. \A r, q \in DOMAIN new :
        new[r].request.id = new[q].request.id /\ new[r].request.id # None => r = q
  <2>1. \A r, q \in DOMAIN recs :
          recs[r].request.id = recs[q].request.id /\ recs[r].request.id # None => r = q
    BY DEF HolderFits
  <2>2. y.request.id = recs[at].request.id \/ y.request.id > n
    BY <1>1
  <2> QED BY <1>1, <1>2, <1>5, <2>1, <2>2
<1>8. Settle(recs, t) = new
  BY <1>1 DEF Settle
<1> QED BY <1>6, <1>7, <1>8 DEF HolderFits

LEMMA IdsGrow ==
  ASSUME CredInv, FreshId \/ UNCHANGED lastId
  PROVE  lastId \in Nat /\ lastId' \in Nat /\ lastId <= lastId' /\ (FreshId => lastId' > lastId)
<1>1. lastId \in Nat
  BY DEF CredInv, HeldWith, Held, ExchangeTypeOK
<1> QED BY <1>1 DEF FreshId

\* The network has nothing new, or a message that says nothing it should not.
NetFits == \A m \in DOMAIN net' : m \in DOMAIN net \/ MessageSound(m, Issued)

\* The issuer begins to save a record, or to update one.
LEMMA IssuerSaves ==
  ASSUME CredInv, IssueFits, "overlap" \notin happened', NEW s \in Slots, Enter(Issuer, s),
         UNCHANGED <<records, wallet>>, FreshId \/ UNCHANGED lastId, NetFits,
         NEW y, Save(Issuer, s, y), IssuerSound(y, lastId'), y.state \notin GivenOut,
         y.offer = None \/ y.offer > lastId
  PROVE  IssueFits'
<1>1. PICK t : t = [pc |-> "save", at |-> None, rec |-> y, out |-> Nothing]
  OBVIOUS
<1>2. /\ t.pc = "save" /\ t.rec = y /\ t.out = Nothing /\ TurnsTo(Issuer, s, t)
      /\ lastId \in Nat /\ lastId' \in Nat /\ lastId <= lastId'
  BY <1>1, IdsGrow DEF Save, Begin, TurnsTo
<1>3. Alone' /\ Doing' = [Doing EXCEPT ![Issuer] = t] /\ IssuerFits(records[Issuer], lastId)
  BY <1>2, BeginFits, Ends
<1>4. records[Issuer] \in Seq(Record)
  BY CredShaped, Ends DEF Shaped
<1>5. IssuerFits(Settle(records[Issuer], t), lastId')
  BY <1>2, <1>3, <1>4, IssuerAdds
<1>6. IssuerTask(records[Issuer], t, DOMAIN wallet)
  BY <1>2 DEF IssuerTask, IssuerSound, GivenOut
<1>7. OutSound(Issuer, t, Issued)
  BY <1>2 DEF OutSound
<1> QED BY <1>2, <1>3, <1>5, <1>6, <1>7, TaskFits, Ends DEF NetFits

LEMMA IssuerUpdates ==
  ASSUME CredInv, IssueFits, "overlap" \notin happened', NEW s \in Slots, Enter(Issuer, s),
         UNCHANGED <<records, wallet>>, FreshId \/ UNCHANGED lastId, NetFits,
         NEW r \in DOMAIN records[Issuer], NEW y, NEW out, Update(Issuer, s, r, y, out),
         IssuerSound(y, lastId'), y.offer = records[Issuer][r].offer \/ y.offer > lastId,
         Follows(records[Issuer][r], y, DOMAIN wallet),
         \/ out = Nothing \/ MessageSound(out, Issued)
         \/ y.state = "credential-issued" /\ out.type = "issue" /\ out.body = y.credential
  PROVE  IssueFits'
<1>1. PICK t : t = [pc |-> "update", at |-> r, rec |-> y, out |-> out]
  OBVIOUS
<1>2. /\ t.pc = "update" /\ t.at = r /\ t.rec = y /\ t.out = out /\ TurnsTo(Issuer, s, t)
      /\ lastId \in Nat /\ lastId' \in Nat /\ lastId <= lastId'
  BY <1>1, IdsGrow DEF Update, Begin, TurnsTo
<1>3. Alone' /\ Doing' = [Doing EXCEPT ![Issuer] = t] /\ IssuerFits(records[Issuer], lastId)
  BY <1>2, BeginFits, Ends
<1>4. records[Issuer] \in Seq(Record)
  BY CredShaped, Ends DEF Shaped
<1>5. IssuerFits(Settle(records[Issuer], t), lastId')
  BY <1>2, <1>3, <1>4, IssuerReplaces
<1>6. IssuerTask(records[Issuer], t, DOMAIN wallet)
  BY <1>2 DEF IssuerTask
<1>7. OutSound(Issuer, t, Issued)
  BY <1>2 DEF OutSound
<1> QED BY <1>2, <1>3, <1>5, <1>6, <1>7, TaskFits, Ends DEF NetFits

LEMMA HolderSaves ==
  ASSUME CredInv, IssueFits, "overlap" \notin happened', NEW s \in Slots, Enter(Holder, s),
         UNCHANGED <<records, wallet>>, FreshId \/ UNCHANGED lastId, NetFits,
         NEW y, Save(Holder, s, y), y.request.id = None, y.state # "request-sent"
  PROVE  IssueFits'
<1>1. PICK t : t = [pc |-> "save", at |-> None, rec |-> y, out |-> Nothing]
  OBVIOUS
<1>2. /\ t.pc = "save" /\ t.rec = y /\ t.out = Nothing /\ TurnsTo(Holder, s, t)
      /\ lastId \in Nat /\ lastId' \in Nat /\ lastId <= lastId'
  BY <1>1, IdsGrow DEF Save, Begin, TurnsTo
<1>3. /\ Alone' /\ Doing' = [Doing EXCEPT ![Holder] = t]
      /\ HolderFits(records[Holder], DOMAIN wallet, lastId)
  BY <1>2, BeginFits, Ends
<1>4. records[Holder] \in Seq(Record)
  BY CredShaped, Ends DEF Shaped
<1>5. HolderFits(Settle(records[Holder], t), DOMAIN wallet, lastId')
  <2>1. HolderSound(t.rec, DOMAIN wallet, lastId')
    BY <1>2 DEF HolderSound, None
  <2> QED BY <1>2, <1>3, <1>4, <2>1, HolderAdds
<1>6. HolderTask(records[Holder], t, Issued)
  BY <1>2 DEF HolderTask
<1>7. OutSound(Holder, t, Issued)
  BY <1>2 DEF OutSound
<1> QED BY <1>2, <1>3, <1>5, <1>6, <1>7, TaskFits, Ends DEF NetFits

LEMMA HolderUpdates ==
  ASSUME CredInv, IssueFits, "overlap" \notin happened', NEW s \in Slots, Enter(Holder, s),
         UNCHANGED <<records, wallet>>, FreshId \/ UNCHANGED lastId, NetFits,
         NEW r \in DOMAIN records[Holder], NEW y, NEW out, Update(Holder, s, r, y, out),
         HolderSound(y, DOMAIN wallet, lastId'),
         y.request.id = records[Holder][r].request.id \/ y.request.id > lastId,
         out = Nothing \/ MessageSound(out, Issued)
  PROVE  IssueFits'
<1>1. PICK t : t = [pc |-> "update", at |-> r, rec |-> y, out |-> out]
  OBVIOUS
<1>2. /\ t.pc = "update" /\ t.at = r /\ t.rec = y /\ t.out = out /\ TurnsTo(Holder, s, t)
      /\ lastId \in Nat /\ lastId' \in Nat /\ lastId <= lastId'
  BY <1>1, IdsGrow DEF Update, Begin, TurnsTo
<1>3. /\ Alone' /\ Doing' = [Doing EXCEPT ![Holder] = t]
      /\ HolderFits(records[Holder], DOMAIN wallet, lastId)
  BY <1>2, BeginFits, Ends
<1>4. records[Holder] \in Seq(Record)
  BY CredShaped, Ends DEF Shaped
<1>5. HolderFits(Settle(records[Holder], t), DOMAIN wallet, lastId')
  BY <1>2, <1>3, <1>4, HolderReplaces
<1>6. HolderTask(records[Holder], t, Issued)
  BY <1>2 DEF HolderTask
<1>7. OutSound(Holder, t, Issued)
  BY <1>2 DEF OutSound
<1> QED BY <1>2, <1>3, <1>5, <1>6, <1>7, TaskFits, Ends DEF NetFits

\* What an agent that has nothing else to do reads.
LEMMA IssuerReads ==
  ASSUME CredInv, IssueFits, "overlap" \notin happened', NEW s \in Slots, Enter(Issuer, s)
  PROVE  /\ IssuerFits(records[Issuer], lastId)
         /\ \A r \in DOMAIN records[Issuer] : /\ records[Issuer][r] \in Record
                                              /\ IssuerSound(records[Issuer][r], lastId)
<1>1. Doing[Issuer] = Idle
  BY EntersFree, Ends
<1>2. Settled[Issuer] = records[Issuer]
  BY <1>1, Ends DEF Settled, Settle, Idle
<1>3. \A r \in DOMAIN records[Issuer] : records[Issuer][r] \in Record
  BY ReadGood, Ends DEF CredInv
<1> QED BY <1>2, <1>3 DEF IssueFits, IssuerFits

LEMMA HolderReads ==
  ASSUME CredInv, IssueFits, "overlap" \notin happened', NEW s \in Slots, Enter(Holder, s)
  PROVE  /\ HolderFits(records[Holder], DOMAIN wallet, lastId)
         /\ \A r \in DOMAIN records[Holder] :
              /\ records[Holder][r] \in Record
              /\ HolderSound(records[Holder][r], DOMAIN wallet, lastId)
<1>1. Doing[Holder] = Idle
  BY EntersFree, Ends
<1>2. Settled[Holder] = records[Holder]
  BY <1>1, Ends DEF Settled, Settle, Idle
<1>3. \A r \in DOMAIN records[Holder] : records[Holder][r] \in Record
  BY ReadGood, Ends DEF CredInv
<1> QED BY <1>2, <1>3 DEF IssueFits, HolderFits

LEMMA PutFits ==
  ASSUME NEW m, net' = Put(net, m), m.type \notin {"request", "issue"}
  PROVE  NetFits
<1>1. DOMAIN net' = DOMAIN net \cup {m}
  BY PutIn
<1> QED BY <1>1 DEF NetFits, MessageSound

LEMMA TakeFits ==
  ASSUME NEW m, net' = Take(net, m)
  PROVE  NetFits
<1>1. DOMAIN net' \subseteq DOMAIN net
  BY TakeOut
<1> QED BY <1>1 DEF NetFits

LEMMA StartsIssue ==
  ASSUME CredInv, IssueFits, "overlap" \notin happened', UNCHANGED wallet,
         NEW s \in Slots, CreateProposal(s) \/ CreateOffer(s)
  PROVE  IssueFits'
<1>1. CASE CreateProposal(s)
  <2>1. PICK y, m : /\ Start(Holder, s, y, m)
                    /\ y = NewRecord("proposal-sent", lastId', None) /\ m = Propose(lastId')
    BY <1>1 DEF CreateProposal
  <2>2. /\ Enter(Holder, s) /\ FreshId /\ Save(Holder, s, y) /\ net' = Put(net, m)
        /\ UNCHANGED records
    BY <2>1 DEF Start
  <2>3. y.request.id = None /\ y.state # "request-sent"
    BY <2>1 DEF NewRecord, NoRequest
  <2>4. m.type = "propose"
    BY <2>1 DEF Propose, Msg
  <2>5. NetFits
    BY <2>2, <2>4, PutFits
  <2> QED BY <2>2, <2>3, <2>5, HolderSaves
<1>2. CASE CreateOffer(s)
  <2>1. PICK y, m : /\ Start(Issuer, s, y, m)
                    /\ y = NewRecord("offer-sent", lastId', lastId') /\ m = Offer(lastId')
    BY <1>2 DEF CreateOffer
  <2>2. /\ Enter(Issuer, s) /\ FreshId /\ Save(Issuer, s, y) /\ net' = Put(net, m)
        /\ UNCHANGED records
    BY <2>1 DEF Start
  <2>3. lastId \in Nat /\ lastId' \in Nat /\ lastId' > lastId
    BY <2>2, IdsGrow
  <2>4. /\ y.offer = lastId' /\ y.state = "offer-sent" /\ y.credential = NoRequest
    BY <2>1 DEF NewRecord
  <2>5. IssuerSound(y, lastId') /\ y.state \notin GivenOut
    BY <2>3, <2>4 DEF IssuerSound, GivenOut, None
  <2>6. m.type = "offer"
    BY <2>1 DEF Offer, Msg
  <2>7. NetFits
    BY <2>2, <2>6, PutFits
  <2> QED BY <2>2, <2>3, <2>4, <2>5, <2>7, IssuerSaves
<1> QED BY <1>1, <1>2

LEMMA RespondIssues ==
  ASSUME CredInv, IssueFits, "overlap" \notin happened', UNCHANGED wallet,
         NEW s \in Slots, NEW r \in DOMAIN records[Holder], CreateProposalAsResponse(s, r)
  PROVE  IssueFits'
<1>1. PICK x, y : x = records[Holder][r] /\ y = [x EXCEPT !.state = "proposal-sent"]
  OBVIOUS
<1>2. /\ Enter(Holder, s) /\ UNCHANGED records /\ FreshId
      /\ Update(Holder, s, r, y, Nothing) /\ net' = Put(net, Propose(x.thread))
  BY <1>1 DEF CreateProposalAsResponse, CallOn
<1>3. x \in Record /\ HolderSound(x, DOMAIN wallet, lastId)
  BY <1>1, <1>2, HolderReads
<1>4. y.state = "proposal-sent" /\ y.request = x.request
  BY <1>1, <1>3 DEF Record
<1>5. lastId \in Nat /\ lastId' \in Nat /\ lastId <= lastId'
  BY <1>2, IdsGrow
<1>6. HolderSound(y, DOMAIN wallet, lastId')
  BY <1>3, <1>4, <1>5 DEF HolderSound
<1>7. Propose(x.thread).type = "propose"
  BY DEF Propose, Msg
<1>8. NetFits
  BY <1>2, <1>7, PutFits
<1> QED BY <1>1, <1>2, <1>4, <1>6, <1>8, HolderUpdates

LEMMA AcceptProposalIssues ==
  ASSUME CredInv, IssueFits, "overlap" \notin happened', UNCHANGED wallet,
         NEW s \in Slots, NEW r \in DOMAIN records[Issuer], AcceptProposal(s, r)
  PROVE  IssueFits'
<1>1. PICK x, y, m : /\ x = records[Issuer][r]
                     /\ y = [x EXCEPT !.state = "offer-sent", !.offer = lastId']
                     /\ m = Offer(x.thread)
  BY Zenon
<1>2. /\ Enter(Issuer, s) /\ UNCHANGED <<records, net>> /\ FreshId
      /\ x.state = "proposal-received" /\ Update(Issuer, s, r, y, m)
  BY <1>1 DEF AcceptProposal, CallOn, CreateOfferAsResponse
<1>3. x \in Record /\ IssuerSound(x, lastId)
  BY <1>1, <1>2, IssuerReads
<1>4. y.state = "offer-sent" /\ y.offer = lastId' /\ y.credential = x.credential
  BY <1>1, <1>3 DEF Record
<1>5. lastId \in Nat /\ lastId' \in Nat /\ lastId' > lastId
  BY <1>2, IdsGrow
<1>6. x.credential = NoRequest
  BY <1>2, <1>3 DEF IssuerSound, GivenOut
<1>7. IssuerSound(y, lastId')
  BY <1>4, <1>5, <1>6 DEF IssuerSound, GivenOut, None
<1>8. Follows(x, y, DOMAIN wallet)
  BY <1>2, <1>4 DEF Follows
<1>9. MessageSound(m, Issued)
  BY <1>1 DEF MessageSound, Offer, Msg
<1>10. NetFits
  BY <1>2 DEF NetFits
<1> QED BY <1>1, <1>2, <1>4, <1>5, <1>7, <1>8, <1>9, <1>10, IssuerUpdates

LEMMA AcceptRequestIssues ==
  ASSUME CredInv, IssueFits, "overlap" \notin happened', UNCHANGED wallet,
         NEW s \in Slots, NEW r \in DOMAIN records[Issuer], AcceptRequest(s, r)
  PROVE  IssueFits'
<1>1. PICK x, y, m : /\ x = records[Issuer][r]
                     /\ y = [x EXCEPT !.state = "credential-issued", !.credential = x.request]
                     /\ m = Msg("issue", Holder, None, x.thread, x.request)
  BY Zenon
<1>2. /\ Enter(Issuer, s) /\ UNCHANGED <<records, net>> /\ UNCHANGED lastId
      /\ x.state = "request-received" /\ x.request.offer = x.offer /\ Update(Issuer, s, r, y, m)
  BY <1>1 DEF AcceptRequest, CallOn, CreateCredential, IndyCanIssue
<1>3. x \in Record /\ IssuerSound(x, lastId)
  BY <1>1, <1>2, IssuerReads
<1>4. /\ y.state = "credential-issued" /\ y.offer = x.offer /\ y.credential = x.request
      /\ y.thread = x.thread
  BY <1>1, <1>3 DEF Record
<1>5. m.type = "issue" /\ m.body = x.request
  BY <1>1 DEF Msg
<1>6. x.credential = NoRequest /\ x.request.thread = x.thread /\ x.offer # None
  BY <1>2, <1>3 DEF IssuerSound, GivenOut
<1>7. IssuerSound(y, lastId')
  BY <1>2, <1>3, <1>4, <1>6 DEF IssuerSound, GivenOut
<1>8. Follows(x, y, DOMAIN wallet)
  BY <1>2, <1>4, <1>6 DEF Follows
<1>9. NetFits
  BY <1>2 DEF NetFits
<1> QED BY <1>1, <1>2, <1>4, <1>5, <1>7, <1>8, <1>9, IssuerUpdates

LEMMA AcceptOfferIssues ==
  ASSUME CredInv, IssueFits, "overlap" \notin happened', UNCHANGED wallet,
         NEW s \in Slots, NEW r \in DOMAIN records[Holder], AcceptOffer(s, r)
  PROVE  IssueFits'
<1>1. PICK x, request, y, m :
        /\ x = records[Holder][r]
        /\ request = [id |-> lastId', offer |-> x.offer, thread |-> x.thread]
        /\ y = [x EXCEPT !.state = "request-sent", !.request = request]
        /\ m = Msg("request", Issuer, lastId', x.thread, request)
  BY Zenon
<1>2. /\ Enter(Holder, s) /\ UNCHANGED <<records, net>> /\ FreshId /\ Update(Holder, s, r, y, m)
  BY <1>1 DEF AcceptOffer, CallOn, CreateRequest
<1>3. x \in Record /\ request.id = lastId' /\ request.thread = x.thread
  BY <1>1, <1>2, HolderReads
<1>4. y.state = "request-sent" /\ y.request = request
  BY <1>1, <1>3 DEF Record
<1>5. lastId \in Nat /\ lastId' \in Nat /\ lastId' > lastId
  BY <1>2, IdsGrow
<1>6. request \notin DOMAIN wallet
  BY <1>3, <1>5 DEF IssueFits, WalletFits
<1>7. HolderSound(y, DOMAIN wallet, lastId')
  BY <1>3, <1>4, <1>5, <1>6 DEF HolderSound, None
<1>8. MessageSound(m, Issued)
  BY <1>1, <1>3 DEF MessageSound, Msg
<1>9. NetFits
  BY <1>2 DEF NetFits
<1> QED BY <1>1, <1>2, <1>3, <1>4, <1>5, <1>7, <1>8, <1>9, HolderUpdates

LEMMA AcceptCredentialIssues ==
  ASSUME CredInv, IssueFits, "overlap" \notin happened', UNCHANGED wallet,
         NEW s \in Slots, NEW r \in DOMAIN records[Holder], AcceptCredential(s, r)
  PROVE  IssueFits'
<1>1. PICK x, y, m : /\ x = records[Holder][r] /\ y = [x EXCEPT !.state = "done"]
                     /\ m = Msg("ack", Issuer, None, x.thread, NoRequest)
  OBVIOUS
<1>2. /\ Enter(Holder, s) /\ UNCHANGED <<records, net>> /\ UNCHANGED lastId
      /\ Update(Holder, s, r, y, m)
  BY <1>1 DEF AcceptCredential, CallOn, CreateAck
<1>3. x \in Record /\ HolderSound(x, DOMAIN wallet, lastId)
  BY <1>1, <1>2, HolderReads
<1>4. y.state = "done" /\ y.request = x.request
  BY <1>1, <1>3 DEF Record
<1>5. HolderSound(y, DOMAIN wallet, lastId')
  BY <1>2, <1>3, <1>4 DEF HolderSound
<1>6. MessageSound(m, Issued)
  BY <1>1 DEF MessageSound, Msg
<1>7. NetFits
  BY <1>2 DEF NetFits
<1> QED BY <1>1, <1>2, <1>4, <1>5, <1>6, <1>7, HolderUpdates

\* What a handler knows of its message.
LEMMA HandlerReads ==
  ASSUME CredInv, IssueFits, NEW a, NEW s, NEW m, NEW type, Receive(a, s, m, type)
  PROVE  /\ Enter(a, s) /\ UNCHANGED <<records, lastId>>
         /\ m \in Message /\ m \in GoodMessages(DOMAIN wallet) /\ m.type = type
         /\ MessageSound(m, Issued) /\ NetFits
<1>1. m \in DOMAIN net /\ net' = Take(net, m)
  BY DEF Receive
<1>2. m \in GoodMessages(DOMAIN wallet)
  BY <1>1, NetGood DEF CredInv
<1>3. m \in Message
  BY <1>2 DEF GoodMessages
<1>4. NetFits
  BY <1>1, TakeFits
<1>5. MessageSound(m, Issued)
  BY <1>1 DEF IssueFits
<1> QED BY <1>2, <1>3, <1>4, <1>5 DEF Receive

LEMMA ProcessProposalIssues ==
  ASSUME CredInv, IssueFits, "overlap" \notin happened', UNCHANGED wallet,
         NEW s \in Slots, NEW m, ProcessProposal(s, m)
  PROVE  IssueFits'
<1>1. Receive(Issuer, s, m, "propose")
  BY DEF ProcessProposal
<1>2. /\ Enter(Issuer, s) /\ UNCHANGED <<records, lastId>> /\ NetFits
  BY <1>1, HandlerReads
<1>3. CASE Save(Issuer, s, NewRecord("proposal-received", m.thread, None))
  <2>1. PICK y : y = NewRecord("proposal-received", m.thread, None)
    OBVIOUS
  <2>2. y.offer = None /\ y.state = "proposal-received" /\ y.credential = NoRequest
    BY <2>1 DEF NewRecord
  <2>3. lastId' \in Nat
    BY <1>2, IdsGrow
  <2>4. IssuerSound(y, lastId') /\ y.state \notin GivenOut
    BY <2>2, <2>3 DEF IssuerSound, GivenOut, None
  <2> QED BY <1>2, <1>3, <2>1, <2>2, <2>4, IssuerSaves
<1>4. ASSUME NEW r \in ByThread(Issuer, m.thread), Finds(Issuer, m.thread, "offer-sent", r),
             Update(Issuer, s, r, [records[Issuer][r] EXCEPT !.state = "proposal-received"], Nothing)
      PROVE  IssueFits'
  <2>1. PICK x, y : x = records[Issuer][r] /\ y = [x EXCEPT !.state = "proposal-received"]
    OBVIOUS
  <2>2. r \in DOMAIN records[Issuer] /\ x.state = "offer-sent"
    BY <1>4, <2>1 DEF ByThread, Finds
  <2>3. x \in Record /\ IssuerSound(x, lastId)
    BY <1>2, <2>1, <2>2, IssuerReads
  <2>4. y.state = "proposal-received" /\ y.offer = x.offer /\ y.credential = x.credential
    BY <2>1, <2>3 DEF Record
  <2>5. IssuerSound(y, lastId')
    BY <1>2, <2>2, <2>3, <2>4 DEF IssuerSound, GivenOut
  <2>6. Follows(x, y, DOMAIN wallet)
    BY <2>2, <2>4 DEF Follows
  <2> QED BY <1>2, <1>4, <2>1, <2>2, <2>4, <2>5, <2>6, IssuerUpdates
<1> QED BY <1>3, <1>4 DEF ProcessProposal

LEMMA ProcessRequestIssues ==
  ASSUME CredInv, IssueFits, "overlap" \notin happened', UNCHANGED wallet,
         NEW s \in Slots, NEW m, ProcessRequest(s, m)
  PROVE  IssueFits'
<1>1. Receive(Issuer, s, m, "request")
  BY DEF ProcessRequest
<1>2. /\ Enter(Issuer, s) /\ UNCHANGED <<records, lastId>> /\ NetFits
      /\ m.body.thread = m.thread
  BY <1>1, HandlerReads DEF MessageSound
<1>3. PICK r \in ByThread(Issuer, m.thread) :
        /\ Finds(Issuer, m.thread, "offer-sent", r)
        /\ Update(Issuer, s, r, [records[Issuer][r] EXCEPT !.state = "request-received",
                                                           !.request = m.body], Nothing)
  BY Zenon DEF ProcessRequest
<1>4. PICK x, y : /\ x = records[Issuer][r]
                  /\ y = [x EXCEPT !.state = "request-received", !.request = m.body]
  BY Zenon
<1>5. r \in DOMAIN records[Issuer] /\ x.state = "offer-sent" /\ x.thread = m.thread
  BY <1>3, <1>4 DEF ByThread, Finds
<1>6. x \in Record /\ IssuerSound(x, lastId)
  BY <1>2, <1>4, <1>5, IssuerReads
<1>7. /\ y.state = "request-received" /\ y.offer = x.offer /\ y.credential = x.credential
      /\ y.request = m.body /\ y.thread = x.thread
  BY <1>4, <1>6 DEF Record
<1>8. IssuerSound(y, lastId')
  BY <1>2, <1>5, <1>6, <1>7 DEF IssuerSound, GivenOut
<1>9. Follows(x, y, DOMAIN wallet)
  BY <1>5, <1>7 DEF Follows
<1>10. Update(Issuer, s, r, y, Nothing)
  BY <1>3, <1>4, Zenon
<1> QED BY <1>2, <1>4, <1>5, <1>7, <1>8, <1>9, <1>10, IssuerUpdates

\* The credential that an ack is of is the one in the record it is found by.
LEMMA AckNames ==
  ASSUME IssueFits, NEW u, Has(DOMAIN wallet, u), IssuerFits(records[Issuer], lastId),
         NEW r, GetByThreadId(Issuer, u, r)
  PROVE  records[Issuer][r].credential \in DOMAIN wallet
<1>1. PICK c \in DOMAIN wallet : c.thread = u
  BY DEF Has
<1>2. PICK q \in DOMAIN records[Issuer] : c = records[Issuer][q].credential /\ c # NoRequest
  BY <1>1 DEF IssueFits, WalletFits, Issued, Credentials
<1>3. records[Issuer][q].thread = u
  BY <1>1, <1>2 DEF IssuerFits, IssuerSound
<1>4. q = r
  BY <1>2, <1>3 DEF GetByThreadId, ByThread
<1> QED BY <1>1, <1>2, <1>4

LEMMA ProcessAckIssues ==
  ASSUME CredInv, IssueFits, "overlap" \notin happened', UNCHANGED wallet,
         NEW s \in Slots, NEW m, ProcessAck(s, m)
  PROVE  IssueFits'
<1>1. Receive(Issuer, s, m, "ack")
  BY DEF ProcessAck
<1>2. /\ Enter(Issuer, s) /\ UNCHANGED <<records, lastId>> /\ NetFits
      /\ Has(DOMAIN wallet, m.thread)
  BY <1>1, HandlerReads DEF GoodMessages
<1>3. PICK r \in ByThread(Issuer, m.thread) :
        /\ Finds(Issuer, m.thread, "credential-issued", r)
        /\ Update(Issuer, s, r, [records[Issuer][r] EXCEPT !.state = "done"], Nothing)
  BY DEF ProcessAck
<1>4. PICK x, y : x = records[Issuer][r] /\ y = [x EXCEPT !.state = "done"]
  OBVIOUS
<1>5. /\ r \in DOMAIN records[Issuer] /\ x.state = "credential-issued"
      /\ GetByThreadId(Issuer, m.thread, r)
  BY <1>3, <1>4 DEF ByThread, Finds
<1>6. x \in Record /\ IssuerSound(x, lastId) /\ IssuerFits(records[Issuer], lastId)
  BY <1>2, <1>4, <1>5, IssuerReads
<1>7. x.credential \in DOMAIN wallet
  BY <1>2, <1>4, <1>5, <1>6, AckNames
<1>8. /\ y.state = "done" /\ y.offer = x.offer /\ y.credential = x.credential /\ y.thread = x.thread
  BY <1>4, <1>6 DEF Record
<1>9. IssuerSound(y, lastId')
  BY <1>2, <1>5, <1>6, <1>8 DEF IssuerSound, GivenOut
<1>10. Follows(x, y, DOMAIN wallet)
  BY <1>5, <1>7, <1>8 DEF Follows
<1> QED BY <1>2, <1>3, <1>4, <1>5, <1>8, <1>9, <1>10, IssuerUpdates

LEMMA ProcessOfferIssues ==
  ASSUME CredInv, IssueFits, "overlap" \notin happened', UNCHANGED wallet,
         NEW s \in Slots, NEW m, ProcessOffer(s, m)
  PROVE  IssueFits'
<1>1. Receive(Holder, s, m, "offer")
  BY Zenon DEF ProcessOffer
<1>2. Enter(Holder, s) /\ UNCHANGED <<records, lastId>> /\ NetFits
  BY <1>1, HandlerReads
<1>3. CASE Save(Holder, s, NewRecord("offer-received", m.id, m.id))
  <2>1. PICK y : y = NewRecord("offer-received", m.id, m.id)
    OBVIOUS
  <2>2. y.request.id = None /\ y.state # "request-sent"
    BY <2>1 DEF NewRecord, NoRequest
  <2> QED BY <1>2, <1>3, <2>1, <2>2, HolderSaves
<1>4. ASSUME NEW r \in ByThread(Holder, m.thread),
             Update(Holder, s, r, [records[Holder][r] EXCEPT !.state = "offer-received",
                                                             !.offer = m.id], Nothing)
      PROVE  IssueFits'
  <2>1. PICK x, y : /\ x = records[Holder][r]
                    /\ y = [x EXCEPT !.state = "offer-received", !.offer = m.id]
    BY Zenon
  <2>2. r \in DOMAIN records[Holder]
    BY <1>4 DEF ByThread
  <2>3. x \in Record /\ HolderSound(x, DOMAIN wallet, lastId)
    BY <1>2, <2>1, <2>2, HolderReads
  <2>4. y.state = "offer-received" /\ y.request = x.request
    BY <2>1, <2>3 DEF Record
  <2>5. HolderSound(y, DOMAIN wallet, lastId')
    BY <1>2, <2>3, <2>4 DEF HolderSound
  <2>6. Update(Holder, s, r, y, Nothing)
    BY <1>4, <2>1, Zenon
  <2> QED BY <1>2, <2>1, <2>2, <2>4, <2>5, <2>6, HolderUpdates
<1> QED BY <1>3, <1>4, Zenon DEF ProcessOffer

LEMMA ProcessCredentialIssues ==
  ASSUME CredInv, IssueFits, "overlap" \notin happened', UNCHANGED wallet,
         NEW s \in Slots, NEW m, ProcessCredential(s, m)
  PROVE  IssueFits'
<1>1. Receive(Holder, s, m, "issue")
  BY DEF ProcessCredential
<1>2. Enter(Holder, s) /\ UNCHANGED <<records, lastId>> /\ NetFits /\ m.body \in Issued
  BY <1>1, HandlerReads DEF MessageSound
<1>3. PICK r \in ByThread(Holder, m.thread) :
        /\ Finds(Holder, m.thread, "request-sent", r)
        /\ Begin(Holder, s, "storeCredential", r,
                 [records[Holder][r] EXCEPT !.credential = m.body], Nothing)
  BY DEF ProcessCredential
<1>4. PICK x, y, t : /\ x = records[Holder][r] /\ y = [x EXCEPT !.credential = m.body]
                     /\ t = [pc |-> "storeCredential", at |-> r, rec |-> y, out |-> Nothing]
  OBVIOUS
<1>5. r \in DOMAIN records[Holder] /\ x.state = "request-sent"
  BY <1>3, <1>4 DEF ByThread, Finds
<1>6. x \in Record
  BY <1>2, <1>4, <1>5, HolderReads
<1>7. y.request = x.request /\ y.credential = m.body
  BY <1>4, <1>6 DEF Record
<1>8. /\ t.pc = "storeCredential" /\ t.at = r /\ t.rec = y /\ t.out = Nothing
      /\ TurnsTo(Holder, s, t)
  BY <1>3, <1>4 DEF Begin, TurnsTo
<1>9. /\ Alone' /\ Doing' = [Doing EXCEPT ![Holder] = t] /\ lastId \in Nat
      /\ HolderFits(records[Holder], DOMAIN wallet, lastId)
  BY <1>2, <1>8, BeginFits, Ends
<1>10. /\ HolderFits(Settle(records[Holder], t), DOMAIN wallet, lastId')
       /\ lastId' \in Nat /\ lastId <= lastId'
  <2>1. Settle(records[Holder], t) = records[Holder] /\ lastId' = lastId
    BY <1>2, <1>8 DEF Settle
  <2> QED BY <1>9, <2>1
<1>11. HolderTask(records[Holder], t, Issued)
  BY <1>2, <1>4, <1>5, <1>7, <1>8 DEF HolderTask
<1>12. OutSound(Holder, t, Issued)
  BY <1>8 DEF OutSound
<1> QED BY <1>2, <1>9, <1>10, <1>11, <1>12, TaskFits, Ends DEF NetFits

-----------------------------------------------------------------------------
(* Steps of the abstract specification                                       *)

\* What the issuer's records say, seen from outside, when one more is written or one is
\* replaced.
LEMMA SeesNothing ==
  ASSUME NEW recs \in Seq(Record), NEW y \in Record, y.credential = NoRequest, y.state # "done",
         NEW new, new = Append(recs, y)
  PROVE  /\ Credentials(new, DOMAIN new) = Credentials(recs, DOMAIN recs)
         /\ Credentials(new, Done(new)) = Credentials(recs, Done(recs))
<1>1. /\ DOMAIN new = 1..Len(recs) + 1 /\ DOMAIN recs = 1..Len(recs) /\ Len(recs) \in Nat
      /\ new[Len(recs) + 1] = y /\ \A r \in 1..Len(recs) : new[r] = recs[r]
  OBVIOUS
<1>2. /\ DOMAIN recs \subseteq DOMAIN new
      /\ \A r \in DOMAIN new : r \in DOMAIN recs \/ new[r] = y
      /\ \A r \in DOMAIN recs : new[r] = recs[r]
  BY <1>1
<1>3. Credentials(new, DOMAIN new) = Credentials(recs, DOMAIN recs)
  BY <1>2 DEF Credentials
<1>4. Done(new) = Done(recs)
  BY <1>2 DEF Done
<1>5. Credentials(new, Done(new)) = Credentials(recs, Done(recs))
  BY <1>2, <1>4 DEF Credentials, Done
<1> QED BY <1>3, <1>5

LEMMA SeesStep ==
  ASSUME NEW recs, NEW at \in DOMAIN recs, NEW y, NEW W, Follows(recs[at], y, W),
         NEW new, DOMAIN new = DOMAIN recs,
         \A r \in DOMAIN recs : new[r] = IF r = at THEN y ELSE recs[r],
         NEW n, IssuerFits(new, n)
  PROVE  \/ /\ Credentials(new, DOMAIN new) = Credentials(recs, DOMAIN recs)
            /\ Credentials(new, Done(new)) = Credentials(recs, Done(recs))
         \/ /\ \A p \in Credentials(recs, DOMAIN recs) : p.offer # y.credential.offer
            /\ y.state = "credential-issued" /\ y.credential # NoRequest
            /\ Credentials(new, DOMAIN new) = Credentials(recs, DOMAIN recs) \cup {y.credential}
            /\ Credentials(new, Done(new)) = Credentials(recs, Done(recs))
         \/ /\ y.credential \in W /\ y.credential \notin Credentials(recs, Done(recs))
            /\ Credentials(new, DOMAIN new) = Credentials(recs, DOMAIN recs)
            /\ Credentials(new, Done(new)) = Credentials(recs, Done(recs)) \cup {y.credential}
<1>1. PICK x : x = recs[at]
  OBVIOUS
<1>2. IssuerSound(y, n) /\ new[at] = y
  BY DEF IssuerFits
<1>3. \A r \in DOMAIN recs : r # at => new[r] = recs[r]
  OBVIOUS
\* Another record's credential is of another offer.
<1>4. ASSUME y.state \in GivenOut, NEW r \in DOMAIN recs, r # at, recs[r].credential # NoRequest
      PROVE  recs[r].credential.offer # y.credential.offer
  <2>1. IssuerSound(recs[r], n)
    BY <1>3, <1>4 DEF IssuerFits
  <2>2. recs[r].credential.offer = recs[r].offer
    BY <1>4, <2>1 DEF IssuerSound
  <2>3. y.credential.offer = y.offer /\ y.offer # None
    BY <1>2, <1>4 DEF IssuerSound
  <2>4. y.offer # recs[r].offer
    BY <1>2, <1>3, <1>4, <2>3 DEF IssuerFits
  <2> QED BY <2>2, <2>3, <2>4
<1>5. y.state \in GivenOut => y.credential # NoRequest
  BY <1>2 DEF IssuerSound, NoRequest, GivenOut
<1>6. CASE y.credential = x.credential /\ y.state # "done"
  <2>1. \A r \in DOMAIN recs : new[r].credential = recs[r].credential
    BY <1>1, <1>6
  <2>2. Done(new) = Done(recs)
    BY <1>1, <1>3, <1>2, <1>6 DEF Done, Follows
  <2>3. /\ Credentials(new, DOMAIN new) = Credentials(recs, DOMAIN recs)
        /\ Credentials(new, Done(new)) = Credentials(recs, Done(recs))
    BY <2>1, <2>2 DEF Credentials, Done
  <2> QED BY <2>3
<1>7. CASE x.credential = NoRequest /\ y.state = "credential-issued"
  <2>1. Done(new) = Done(recs)
    BY <1>1, <1>2, <1>3, <1>7 DEF Done, Follows
  <2>2. at \notin Done(recs)
    BY DEF Done, Follows
  <2>3. Credentials(new, Done(new)) = Credentials(recs, Done(recs))
    BY <1>3, <2>1, <2>2 DEF Credentials, Done
  <2>4. Credentials(new, DOMAIN new) = Credentials(recs, DOMAIN recs) \cup {y.credential}
    BY <1>1, <1>2, <1>3, <1>5, <1>7 DEF Credentials, GivenOut
  <2>5. \A p \in Credentials(recs, DOMAIN recs) : p.offer # y.credential.offer
    BY <1>1, <1>4, <1>7 DEF Credentials, GivenOut
  <2> QED BY <1>5, <1>7, <2>3, <2>4, <2>5 DEF GivenOut
<1>8. CASE y.credential = x.credential /\ y.state = "done" /\ y.credential \in W
  <2>1. \A r \in DOMAIN recs : new[r].credential = recs[r].credential
    BY <1>1, <1>8
  <2>2. Credentials(new, DOMAIN new) = Credentials(recs, DOMAIN recs)
    BY <2>1 DEF Credentials
  <2>3. Done(new) = Done(recs) \cup {at} /\ at \notin Done(recs)
    BY <1>1, <1>2, <1>3, <1>8 DEF Done, Follows
  <2>4. Credentials(new, Done(new)) = Credentials(recs, Done(recs)) \cup {y.credential}
    BY <1>2, <1>3, <1>5, <1>8, <2>3 DEF Credentials, Done, GivenOut
  <2>5. y.credential \notin Credentials(recs, Done(recs))
    BY <1>4, <1>8, <2>3 DEF Credentials, Done, GivenOut
  <2> QED BY <1>8, <2>2, <2>4, <2>5
<1> QED BY <1>1, <1>6, <1>7, <1>8 DEF Follows

-----------------------------------------------------------------------------
(* What was decided on is written, sent and stored                           *)

Aside == UNCHANGED <<Issued, wallet, Acknowledged>>

\* What an agent is to write is what it does.
LEMMA BusyDoing ==
  ASSUME CredInv, IssueFits, NEW a \in Agents, NEW s \in Slots, task[a][s].pc # "idle",
         NEW t, t.pc = "idle" => t = Idle, TurnsTo(a, s, t)
  PROVE  /\ Doing[a] = task[a][s] /\ Alone' /\ Doing' = [Doing EXCEPT ![a] = t]
         /\ \A b \in Agents : Doing'[b] = IF b = a THEN t ELSE Doing[b]
<1>1. Doing[a] = task[a][s] /\ \A q \in Slots : q = s \/ Free(a, q)
  BY Busy DEF IssueFits, Free
<1>2. task \in [Agents -> [Slots -> Task(Record, Message, PCs)]]
  BY CredShaped DEF Shaped
<1>3. Alone' /\ Doing' = [Doing EXCEPT ![a] = t]
  BY <1>1, <1>2, Turns DEF IssueFits, TurnsTo
<1> QED BY <1>1, <1>3 DEF Doing

LEMMA WrittenFits ==
  ASSUME IssueFits, NEW a \in Agents, NEW t, t.pc \in {"idle", "send"}, Alone',
         \A b \in Agents : Doing'[b] = IF b = a THEN t ELSE Doing[b],
         Settled'[a] = Settled[a], \A b \in Agents : b # a => records'[b] = records[b],
         UNCHANGED <<wallet, lastId, net>>, lastId \in Nat, Issued \subseteq Issued',
         OutSound(a, t, Issued')
  PROVE  IssueFits'
<1>1. \A b \in Agents : Settled'[b] = Settled[b]
  BY DEF Settled
<1>2. IssuerFits(Settled[Issuer], lastId)' /\ HolderFits(Settled[Holder], DOMAIN wallet, lastId)'
  BY <1>1, Ends DEF IssueFits
<1>3. IssuerTask(records[Issuer], Doing[Issuer], DOMAIN wallet)'
  <2>1. CASE a = Issuer
    BY <2>1 DEF IssuerTask
  <2>2. CASE a # Issuer
    BY <2>2, Ends DEF IssueFits
  <2> QED BY <2>1, <2>2
<1>4. HolderTask(records[Holder], Doing[Holder], Issued)'
  <2>1. CASE a = Holder
    BY <2>1 DEF HolderTask
  <2>2. CASE a # Holder
    BY <2>2, Ends DEF IssueFits, HolderTask
  <2> QED BY <2>1, <2>2
<1>5. WalletFits(DOMAIN wallet, Issued, lastId)'
  BY WalletLater DEF IssueFits
<1>6. (\A m \in DOMAIN net : MessageSound(m, Issued))'
  BY MessageLater DEF IssueFits
<1>7. (\A b \in Agents : OutSound(b, Doing[b], Issued))'
  <2> SUFFICES ASSUME NEW b \in Agents PROVE OutSound(b, Doing'[b], Issued')
    OBVIOUS
  <2>1. b # a => OutSound(b, Doing[b], Issued')
    BY OutLater DEF IssueFits
  <2> QED BY <2>1
<1> QED BY <1>2, <1>3, <1>4, <1>5, <1>6, <1>7 DEF IssueFits

LEMMA SaveIssues ==
  ASSUME CredInv, IssueFits, NEW a \in Agents, NEW s \in Slots, SaveRecord(a, s), UNCHANGED wallet
  PROVE  IssueFits' /\ Aside
<1>1. PICK t, recs, new : t = task[a][s] /\ recs = records[a] /\ new = Append(recs, t.rec)
  OBVIOUS
<1>2. /\ t.pc = "save" /\ TurnsTo(a, s, Idle) /\ UNCHANGED <<net, lastId>>
      /\ records' = [records EXCEPT ![a] = new]
  BY <1>1 DEF SaveRecord, End, TurnsTo
<1>3. Shaped(Record, Message, PCs)
  BY CredShaped
<1>4. \A b \in Agents : records'[b] = IF b = a THEN new ELSE records[b]
  BY <1>2, <1>3 DEF Shaped
<1>5. /\ Doing[a] = t /\ Alone'
      /\ \A b \in Agents : Doing'[b] = IF b = a THEN Idle ELSE Doing[b]
  BY <1>1, <1>2, BusyDoing
<1>6. Idle.pc = "idle" /\ Idle.out = Nothing
  BY DEF Idle
<1> HIDE DEF Idle
<1>7. Settled'[a] = Settled[a]
  BY <1>1, <1>2, <1>4, <1>5, <1>6 DEF Settled, Settle
<1>8. recs \in Seq(Record) /\ t.rec \in Record
  BY <1>1, <1>2, <1>3 DEF Shaped
<1>9. UNCHANGED <<Issued, Acknowledged>>
  <2>1. CASE a = Issuer
    <3>1. t.rec.credential = NoRequest /\ t.rec.state # "done"
      BY <1>2, <1>5, <2>1 DEF IssueFits, IssuerTask
    <3>2. PICK y \in Record : y = t.rec
      BY <1>8
    <3>3. /\ Credentials(new, DOMAIN new) = Credentials(recs, DOMAIN recs)
          /\ Credentials(new, Done(new)) = Credentials(recs, Done(recs))
      <4>1. y.credential = NoRequest /\ y.state # "done" /\ new = Append(recs, y)
        BY <1>1, <3>1, <3>2
      <4> QED BY <1>8, <4>1, SeesNothing, Zenon
    <3> QED BY <1>1, <1>4, <2>1, <3>3 DEF Issued, Acknowledged
  <2>2. CASE a # Issuer
    BY <1>4, <2>2, Ends DEF Issued, Acknowledged
  <2> QED BY <2>1, <2>2
<1>10. OutSound(a, Idle, Issued')
  BY <1>6 DEF OutSound
<1>11. lastId \in Nat
  BY IdsGrow DEF CredInv, HeldWith, Held, ExchangeTypeOK
<1>12. IssueFits'
  BY <1>2, <1>4, <1>5, <1>6, <1>7, <1>9, <1>10, <1>11, WrittenFits
<1> QED BY <1>9, <1>12 DEF Aside

LEMMA SendIssues ==
  ASSUME CredInv, IssueFits, NEW a \in Agents, NEW s \in Slots, Send(a, s), UNCHANGED wallet
  PROVE  IssueFits' /\ Aside
<1>1. PICK t : t = task[a][s]
  OBVIOUS
<1>2. /\ t.pc = "send" /\ TurnsTo(a, s, Idle) /\ UNCHANGED <<records, lastId>>
      /\ net' = Put(net, t.out)
  BY <1>1 DEF Send, End, TurnsTo
<1>3. Idle.pc = "idle" /\ Idle.out = Nothing
  BY DEF Idle
<1>4. Doing[a] = t /\ Alone' /\ Doing' = [Doing EXCEPT ![a] = Idle]
  BY <1>1, <1>2, BusyDoing
<1> HIDE DEF Idle
<1>5. t.out # Nothing
  BY <1>1, <1>2, CredShaped DEF Shaped
<1>6. MessageSound(t.out, Issued)
  BY <1>2, <1>4, <1>5 DEF IssueFits, OutSound
<1>7. \A m \in DOMAIN net' : m \in DOMAIN net \/ MessageSound(m, Issued)
  <2>1. DOMAIN Put(net, t.out) = DOMAIN net \cup {t.out}
    BY PutIn
  <2> QED BY <1>2, <1>6, <2>1
<1>8. lastId \in Nat /\ lastId' \in Nat /\ lastId <= lastId'
  BY <1>2 DEF CredInv, HeldWith, Held, ExchangeTypeOK
<1>9. Settled[a] = records[a] /\ Settle(records[a], Idle) = records[a]
  BY <1>2, <1>3, <1>4 DEF Settled, Settle
<1>10. a = Issuer => /\ IssuerFits(Settle(records[Issuer], Idle), lastId')
                     /\ IssuerTask(records[Issuer], Idle, DOMAIN wallet)
  BY <1>2, <1>3, <1>9 DEF IssueFits, IssuerTask
<1>11. a = Holder => /\ HolderFits(Settle(records[Holder], Idle), DOMAIN wallet, lastId')
                     /\ HolderTask(records[Holder], Idle, Issued)
  BY <1>2, <1>3, <1>9 DEF IssueFits, HolderTask
<1>12. OutSound(a, Idle, Issued)
  BY <1>3 DEF OutSound
<1>13. IssueFits'
  BY <1>2, <1>4, <1>7, <1>8, <1>10, <1>11, <1>12, TaskFits
<1> QED BY <1>2, <1>13 DEF Aside, Issued, Acknowledged

\* Messages are lost, doubled or refused.
LEMMA MessageGone ==
  ASSUME IssueFits, UNCHANGED <<records, task, wallet, lastId>>, DOMAIN net' \subseteq DOMAIN net
  PROVE  IssueFits' /\ Aside
<1>1. UNCHANGED Doing /\ (Alone <=> Alone')
  BY DEF Doing, Alone
<1>2. UNCHANGED <<Settled, Issued, Acknowledged>>
  BY <1>1 DEF Settled, Issued, Acknowledged
<1> QED BY <1>1, <1>2 DEF IssueFits, Aside

\* An update of the issuer's issues, concludes, or is not seen from outside.
LEMMA UpdateSeen ==
  ASSUME CredInv, IssueFits, NEW s \in Slots, UpdateRecord(Issuer, s), UNCHANGED wallet,
         NEW y, y = task[Issuer][s].rec
  PROVE  /\ Issuance!Next \/ Aside
         /\ Issued \subseteq Issued'
         /\ y.state = "credential-issued" => y.credential \in Issued'
<1>1. PICK t, recs, at, new : /\ t = task[Issuer][s] /\ recs = records[Issuer] /\ at = t.at
                              /\ new = [recs EXCEPT ![at] = y]
  OBVIOUS
<1>2. t.pc = "update" /\ records' = [records EXCEPT ![Issuer] = new]
  BY <1>1 DEF UpdateRecord
<1>3. Shaped(Record, Message, PCs)
  BY CredShaped
<1>4. records'[Issuer] = new /\ y \in Record /\ y.credential \in Request
  <2>1. records'[Issuer] = new
    BY <1>2, <1>3, Ends DEF Shaped
  <2>2. y \in Record
    BY <1>1, <1>2, <1>3, Ends DEF Shaped
  <2> QED BY <2>1, <2>2 DEF Record
<1>5. Doing[Issuer] = t
  BY <1>1, <1>2, Busy, Ends DEF IssueFits, Free
<1>6. at \in DOMAIN recs /\ Follows(recs[at], y, DOMAIN wallet)
  BY <1>1, <1>2, <1>5 DEF IssueFits, IssuerTask
<1>7. Settled[Issuer] = new
  BY <1>1, <1>2, <1>5, Ends DEF Settled, Settle
<1>8. IssuerFits(new, lastId)
  BY <1>7 DEF IssueFits
<1>9. DOMAIN new = DOMAIN recs /\ \A r \in DOMAIN recs : new[r] = IF r = at THEN y ELSE recs[r]
  BY <1>1
<1>10. /\ Issued = Credentials(recs, DOMAIN recs) /\ Acknowledged = Credentials(recs, Done(recs))
       /\ Issued' = Credentials(new, DOMAIN new) /\ Acknowledged' = Credentials(new, Done(new))
  BY <1>1, <1>4 DEF Issued, Acknowledged
<1>11. \/ Issued' = Issued /\ Acknowledged' = Acknowledged
       \/ /\ \A p \in Issued : p.offer # y.credential.offer
          /\ Issued' = Issued \cup {y.credential} /\ Acknowledged' = Acknowledged
       \/ /\ y.credential \in DOMAIN wallet /\ y.credential \notin Acknowledged
          /\ Issued' = Issued /\ Acknowledged' = Acknowledged \cup {y.credential}
  BY <1>6, <1>8, <1>9, <1>10, SeesStep
<1>12. y.state = "credential-issued" => y.credential \in Issued'
  <2>1. y.state = "credential-issued" => y.credential # NoRequest
    BY <1>6, <1>8, <1>9 DEF IssuerFits, IssuerSound, GivenOut, NoRequest
  <2>2. at \in DOMAIN new /\ new[at] = y
    BY <1>6, <1>9
  <2> QED BY <1>10, <2>1, <2>2 DEF Credentials
<1>13. Issuance!Next \/ Aside
  <2>1. CASE Issued' = Issued /\ Acknowledged' = Acknowledged
    BY <2>1 DEF Aside
  <2>2. CASE /\ \A p \in Issued : p.offer # y.credential.offer
             /\ Issued' = Issued \cup {y.credential} /\ Acknowledged' = Acknowledged
    <3>1. Issuance!Issue(y.credential)
      BY <2>2 DEF Issuance!Issue
    <3> QED BY <1>4, <3>1 DEF Issuance!Next
  <2>3. CASE /\ y.credential \in DOMAIN wallet /\ y.credential \notin Acknowledged
             /\ Issued' = Issued /\ Acknowledged' = Acknowledged \cup {y.credential}
    <3>1. Issuance!Acknowledge(y.credential)
      BY <2>3 DEF Issuance!Acknowledge, Issuance!BagIn, Issuance!BagToSet
    <3> QED BY <1>4, <3>1 DEF Issuance!Next
  <2> QED BY <1>11, <2>1, <2>2, <2>3
<1> QED BY <1>11, <1>12, <1>13

LEMMA UpdateIssues ==
  ASSUME CredInv, IssueFits, NEW a \in Agents, NEW s \in Slots, UpdateRecord(a, s),
         UNCHANGED wallet
  PROVE  IssueFits' /\ (Issuance!Next \/ Aside)
<1>1. PICK t, recs, new, x : /\ t = task[a][s] /\ recs = records[a]
                             /\ new = [recs EXCEPT ![t.at] = t.rec]
                             /\ x = IF t.out # Nothing THEN [t EXCEPT !.pc = "send"] ELSE Idle
  OBVIOUS
<1>2. Shaped(Record, Message, PCs)
  BY CredShaped
<1>3. /\ t.pc = "update" /\ UNCHANGED <<net, lastId>>
      /\ records' = [records EXCEPT ![a] = new]
  BY <1>1 DEF UpdateRecord
<1>4. TurnsTo(a, s, x)
  BY <1>1, <1>2 DEF UpdateRecord, End, Shaped, TurnsTo
<1>5. x.pc \in {"idle", "send"} /\ x.out = t.out /\ (x.pc = "idle" => x = Idle)
  <2>1. t \in Task(Record, Message, PCs)
    BY <1>1, <1>2 DEF Shaped
  <2> QED BY <1>1, <2>1 DEF Task, Idle
<1>6. /\ Doing[a] = t /\ Alone'
      /\ \A b \in Agents : Doing'[b] = IF b = a THEN x ELSE Doing[b]
  <2>1. task[a][s].pc # "idle" /\ task[a][s] = t
    BY <1>1, <1>3
  <2>2. /\ Doing[a] = task[a][s] /\ Alone'
        /\ \A b \in Agents : Doing'[b] = IF b = a THEN x ELSE Doing[b]
    BY <1>4, <1>5, <2>1, BusyDoing, Zenon
  <2> QED BY <2>1, <2>2
<1>7. \A b \in Agents : records'[b] = IF b = a THEN new ELSE records[b]
  BY <1>2, <1>3 DEF Shaped
<1>8. Settled'[a] = Settled[a]
  BY <1>1, <1>3, <1>5, <1>6, <1>7 DEF Settled, Settle
<1>9. /\ Issuance!Next \/ Aside
      /\ Issued \subseteq Issued'
      /\ a = Issuer /\ t.rec.state = "credential-issued" => t.rec.credential \in Issued'
  <2>1. CASE a = Issuer
    BY <1>1, <2>1, UpdateSeen
  <2>2. CASE a # Issuer
    BY <1>7, <2>2, Ends DEF Aside, Issued, Acknowledged
  <2> QED BY <2>1, <2>2
<1>10. OutSound(a, x, Issued')
  <2>1. OutSound(a, t, Issued)
    BY <1>6 DEF IssueFits
  <2>2. CASE t.out = Nothing
    BY <1>5, <2>2 DEF OutSound
  <2>3. CASE MessageSound(t.out, Issued)
    BY <1>5, <1>9, <2>3, MessageLater DEF OutSound
  <2>4. CASE /\ a = Issuer /\ t.rec.state = "credential-issued"
             /\ t.out.type = "issue" /\ t.out.body = t.rec.credential
    BY <1>5, <1>9, <2>4 DEF OutSound, MessageSound
  <2> QED BY <2>1, <2>2, <2>3, <2>4 DEF OutSound
<1>11. lastId \in Nat
  BY DEF CredInv, HeldWith, Held, ExchangeTypeOK
<1>12. IssueFits'
  BY <1>3, <1>5, <1>6, <1>7, <1>8, <1>9, <1>10, <1>11, WrittenFits
<1> QED BY <1>9, <1>12

\* The holder's record no longer waits for what was stored.
LEMMA StoredOnce ==
  ASSUME NEW recs \in Seq(Record), NEW W, NEW n, HolderFits(recs, W, n),
         NEW at \in DOMAIN recs, recs[at].state = "request-sent",
         NEW c, c = recs[at].request, NEW t, t.pc = "update", t.at = at,
         t.rec.state # "request-sent", t.rec.request = c
  PROVE  HolderFits(Settle(recs, t), W \cup {c}, n)
<1>1. PICK new : new = [recs EXCEPT ![at] = t.rec]
  OBVIOUS
<1>2. DOMAIN new = DOMAIN recs /\ \A r \in DOMAIN recs : new[r] = IF r = at THEN t.rec ELSE recs[r]
  BY <1>1
<1>3. \A r \in DOMAIN recs : new[r].request = recs[r].request
  BY <1>2
<1>4. \A r \in DOMAIN new : HolderSound(new[r], W \cup {c}, n)
  <2> SUFFICES ASSUME NEW r \in DOMAIN recs PROVE HolderSound(new[r], W \cup {c}, n)
    BY <1>2
  <2>1. HolderSound(recs[r], W, n) /\ HolderSound(recs[at], W, n)
    BY DEF HolderFits
  <2>2. CASE r = at
    BY <1>2, <1>3, <2>1, <2>2 DEF HolderSound
  <2>3. CASE r # at
    <3>1. recs[r].request # c
      BY <2>1, <2>3 DEF HolderFits, HolderSound
    <3> QED BY <1>2, <2>1, <2>3, <3>1 DEF HolderSound
  <2> QED BY <2>2, <2>3
<1>5. \A r, q \in DOMAIN new :
        new[r].request.id = new[q].request.id /\ new[r].request.id # None => r = q
  BY <1>2, <1>3 DEF HolderFits
<1>6. Settle(recs, t) = new
  BY <1>1 DEF Settle
<1> QED BY <1>4, <1>5, <1>6 DEF HolderFits

LEMMA StoreIssues ==
  ASSUME CredInv, IssueFits, NEW s \in Slots, StoreCredential(s)
  PROVE  IssueFits' /\ (Issuance!Next \/ Aside)
<1>1. PICK t, recs : t = task[Holder][s] /\ recs = records[Holder]
  OBVIOUS
<1>2. t.pc = "storeCredential" /\ UNCHANGED <<records, net, lastId>>
  BY <1>1 DEF StoreCredential
<1>3. UNCHANGED <<Issued, Acknowledged>>
  BY <1>2 DEF Issued, Acknowledged
<1>4. lastId \in Nat /\ lastId' \in Nat /\ lastId <= lastId'
  BY <1>2 DEF CredInv, HeldWith, Held, ExchangeTypeOK
<1>5. Doing[Holder] = t
  BY <1>1, <1>2, Busy, Ends DEF IssueFits, Free
<1>6. Settled[Holder] = recs
  BY <1>1, <1>2, <1>5, Ends DEF Settled, Settle
<1>7. HolderFits(recs, DOMAIN wallet, lastId) /\ HolderTask(recs, t, Issued)
  BY <1>1, <1>5, <1>6 DEF IssueFits
<1>8. recs \in Seq(Record) /\ t \in Task(Record, Message, PCs)
  BY <1>1, CredShaped, Ends DEF Shaped
<1>9. CASE TurnsTo(Holder, s, Idle) /\ UNCHANGED wallet
  <2>1. Idle.pc = "idle" /\ Idle.out = Nothing
    BY DEF Idle
  <2>2. Alone' /\ Doing' = [Doing EXCEPT ![Holder] = Idle]
    BY <1>1, <1>2, <1>9, BusyDoing, Ends
  <2> HIDE DEF Idle
  <2>3. HolderFits(Settle(recs, Idle), DOMAIN wallet, lastId') /\ HolderTask(recs, Idle, Issued)
    BY <1>2, <1>7, <2>1 DEF Settle, HolderTask
  <2>4. OutSound(Holder, Idle, Issued)
    BY <2>1 DEF OutSound
  <2>5. IssueFits'
    BY <1>1, <1>2, <1>4, <1>9, <2>2, <2>3, <2>4, TaskFits, Ends
  <2> QED BY <1>3, <1>9, <2>5 DEF Aside
<1>10. ASSUME NEW c, c = t.rec.credential, t.rec.request = c, wallet' = Put(wallet, c),
              Update(Holder, s, t.at, [t.rec EXCEPT !.state = "credential-received"], Nothing)
       PROVE  IssueFits' /\ Issuance!Next
  <2>1. PICK x, u : /\ x = [t.rec EXCEPT !.state = "credential-received"]
                    /\ u = [pc |-> "update", at |-> t.at, rec |-> x, out |-> Nothing]
    OBVIOUS
  <2>2. /\ u.pc = "update" /\ u.at = t.at /\ u.rec = x /\ u.out = Nothing
        /\ TurnsTo(Holder, s, u)
    BY <1>10, <2>1 DEF Update, Begin, TurnsTo
  <2>3. t.rec \in Record
    <3>1. task[Holder][s].rec \in HolderGood(DOMAIN wallet)
      BY <1>1, <1>2, Ends, Parts DEF CredInv, HeldWith, Held, Fit, PCs
    <3> QED BY <1>1, <3>1 DEF HolderGood
  <2>4. x.state = "credential-received" /\ x.request = c
    BY <1>10, <2>1, <2>3 DEF Record
  <2>5. c \in Issued /\ c \in Request
    BY <1>2, <1>7, <1>10, <2>3 DEF HolderTask, Record
  <2>6. t.at \in DOMAIN recs /\ recs[t.at].state = "request-sent" /\ recs[t.at].request = c
    BY <1>2, <1>7, <1>10 DEF HolderTask
  <2>7. c \notin DOMAIN wallet /\ c.id \in 0..lastId
    BY <1>7, <2>6 DEF HolderFits, HolderSound
  <2>8. DOMAIN wallet' = DOMAIN wallet \cup {c}
    BY <1>10, PutIn
  <2>9. Issuance!Next
    <3>1. Issuance!Store(c)
      BY <1>3, <1>10, <2>5, <2>7
         DEF Issuance!Store, Issuance!BagIn, Issuance!BagToSet, Issuance!SetToBag, Issuance!(+),
             Put, SetToBag, (+)
    <3> QED BY <2>5, <3>1 DEF Issuance!Next
  <2>10. /\ Alone' /\ \A b \in Agents : Doing'[b] = IF b = Holder THEN u ELSE Doing[b]
    BY <1>1, <1>2, <2>2, BusyDoing, Ends
  <2>11. /\ Settled'[Holder] = Settle(recs, u) /\ Settled'[Issuer] = Settled[Issuer]
    BY <1>1, <1>2, <2>10, Ends DEF Settled
  <2>12. HolderFits(Settled[Holder], DOMAIN wallet, lastId)'
    <3>1. HolderFits(Settle(recs, u), DOMAIN wallet \cup {c}, lastId)
      BY <1>7, <1>8, <2>2, <2>4, <2>6, StoredOnce
    <3> QED BY <1>2, <2>8, <2>11, <3>1
  <2>13. IssuerFits(Settled[Issuer], lastId)'
    BY <1>2, <2>11 DEF IssueFits
  <2>14. IssuerTask(records[Issuer], Doing[Issuer], DOMAIN wallet)'
    BY <1>2, <2>8, <2>10, Ends DEF IssueFits, IssuerTask, Follows
  <2>15. HolderTask(records[Holder], Doing[Holder], Issued)'
    BY <2>2, <2>10, Ends DEF HolderTask
  <2>16. WalletFits(DOMAIN wallet, Issued, lastId)'
    BY <1>2, <1>3, <2>5, <2>7, <2>8 DEF IssueFits, WalletFits
  <2>17. (\A m \in DOMAIN net : MessageSound(m, Issued))'
    BY <1>2, <1>3 DEF IssueFits
  <2>18. (\A a \in Agents : OutSound(a, Doing[a], Issued))'
    BY <1>3, <2>2, <2>10 DEF IssueFits, OutSound
  <2> QED BY <2>9, <2>10, <2>12, <2>13, <2>14, <2>15, <2>16, <2>17, <2>18 DEF IssueFits
<1> QED BY <1>1, <1>2, <1>9, <1>10 DEF StoreCredential, IndyCanStore, End, TurnsTo


-----------------------------------------------------------------------------
LEMMA HandleIssues ==
  ASSUME CredInv, IssueFits, "overlap" \notin happened', NEW a \in Agents, NEW s \in Slots,
         Handle(a, s)
  PROVE  IssueFits' /\ Aside
<1>1. UNCHANGED wallet /\ \E m : m \in DOMAIN net /\
        ( \/ a = Issuer /\ (ProcessProposal(s, m) \/ ProcessRequest(s, m) \/ ProcessAck(s, m))
          \/ a = Holder /\ (ProcessOffer(s, m) \/ ProcessCredential(s, m))
          \/ Refuse(a, s, m) )
  BY DEF Handle
<1>2. UNCHANGED records
  <2>1. ASSUME NEW b, NEW m, NEW type, Receive(b, s, m, type) PROVE UNCHANGED records
    BY <2>1 DEF Receive
  <2>2. ASSUME NEW m, ProcessRequest(s, m) \/ ProcessOffer(s, m)
        PROVE  Receive(Issuer, s, m, "request") \/ Receive(Holder, s, m, "offer")
    BY <2>2, Zenon DEF ProcessRequest, ProcessOffer
  <2> QED BY <1>1, <2>1, <2>2 DEF ProcessProposal, ProcessAck, ProcessCredential, Refuse, Refuses
<1>3. Aside
  BY <1>1, <1>2 DEF Aside, Issued, Acknowledged
<1>4. ASSUME NEW m, Refuse(a, s, m) PROVE IssueFits'
  <2>1. UNCHANGED <<records, task, wallet, lastId>> /\ net' = Take(net, m)
    BY <1>1, <1>4 DEF Refuse, Refuses, Receive
  <2> QED BY <2>1, TakeOut, MessageGone
<1> QED
  BY <1>1, <1>3, <1>4, ProcessProposalIssues, ProcessRequestIssues, ProcessAckIssues,
     ProcessOfferIssues, ProcessCredentialIssues

LEMMA IssueStep ==
  ASSUME CredInv, IssueFits, Spared(Wrecking)', [Next]_vars
  PROVE  IssueFits' /\ (Issuance!Next \/ Aside)
<1>1. "overlap" \notin happened' /\ "crash" \notin happened' /\ "refuse" \notin happened'
  BY DEF Spared, Wrecking
<1>2. CASE UNCHANGED vars
  <2>1. UNCHANGED <<records, task, wallet, lastId>> /\ DOMAIN net' \subseteq DOMAIN net
    BY <1>2 DEF vars
  <2> QED BY <2>1, MessageGone
<1>4. CASE Begins
  <2>1. UNCHANGED <<records, wallet>>
    BY <1>4 DEF Begins, ProposeCredential, OfferCredential, CreateProposal, CreateOffer, Start,
                CreateProposalAsResponse, CallOn
  <2>2. Aside
    BY <2>1 DEF Aside, Issued, Acknowledged
  <2>3. IssueFits'
    BY <1>1, <1>4, StartsIssue, RespondIssues DEF Begins, ProposeCredential, OfferCredential
  <2> QED BY <2>2, <2>3
<1>5. ASSUME NEW a \in Agents, NEW s \in Slots, Accept(a, s) PROVE IssueFits' /\ Aside
  <2>1. UNCHANGED <<records, wallet>>
    BY <1>5 DEF Accept, AcceptProposal, AcceptRequest, AcceptOffer, AcceptCredential, CallOn
  <2>2. Aside
    BY <2>1 DEF Aside, Issued, Acknowledged
  <2>3. IssueFits'
    BY <1>1, <1>5, AcceptProposalIssues, AcceptRequestIssues, AcceptOfferIssues,
       AcceptCredentialIssues DEF Accept
  <2> QED BY <2>2, <2>3
<1>6. ASSUME NEW a \in Agents, NEW s \in Slots, Handle(a, s) PROVE IssueFits' /\ Aside
  BY <1>1, <1>6, HandleIssues
<1>7. ASSUME NEW a \in Agents, NEW s \in Slots, Proceed(a, s)
      PROVE  IssueFits' /\ (Issuance!Next \/ Aside)
  BY <1>7, SaveIssues, UpdateIssues, SendIssues, StoreIssues DEF Proceed
<1>8. CASE Fault /\ UNCHANGED wallet
  <2>1. ~\E a \in Agents : Crash(a)
    BY <1>1 DEF Crash, Strikes
  <2>2. PICK m \in DOMAIN net : Lose(m) \/ Duplicate(m)
    BY <1>8, <2>1 DEF Fault
  <2>3. /\ UNCHANGED <<records, task, wallet, lastId>>
        /\ net' = Take(net, m) \/ net' = Put(net, m)
    BY <1>8, <2>2 DEF Lose, Duplicate
  <2>4. DOMAIN net' \subseteq DOMAIN net
    BY <2>3, TakeOut, PutIn
  <2> QED BY <2>3, <2>4, MessageGone
<1>9. ~\E a \in Agents, s \in Slots : CallFails(a, s)
  BY <1>1 DEF CallFails, Throws, Catches, Strikes
<1> QED BY <1>2, <1>4, <1>5, <1>6, <1>7, <1>8, <1>9 DEF Next

LEMMA IssueInvStep == CredInv /\ IssueInv /\ [Next]_vars => IssueInv'
<1> SUFFICES ASSUME CredInv, IssueInv, [Next]_vars, Spared(Wrecking)' PROVE IssueFits'
  BY DEF IssueInv
<1>1. IssueFits
  BY Remembers DEF IssueInv, Spared
<1> QED BY <1>1, IssueStep

LEMMA IssueInit == Init => IssueInv /\ Issuance!Init
<1> SUFFICES ASSUME Init PROVE IssueFits /\ Issuance!Init
  BY DEF IssueInv
<1>1. /\ records = [a \in Agents |-> <<>>] /\ net = EmptyBag /\ lastId = 0
      /\ task = [a \in Agents |-> [s \in Slots |-> Idle]] /\ wallet = EmptyBag
  BY DEF Init, ExchangeInit
<1>2. Serial /\ \A a \in Agents : Doing[a] = Idle
  BY <1>1, StartsSerial
<1>3. Idle.pc = "idle" /\ Idle.out = Nothing
  BY DEF Idle
<1>4. \A a \in Agents : Settled[a] = <<>> /\ records[a] = <<>>
  BY <1>1, <1>2, <1>3 DEF Settled, Settle
<1>5. DOMAIN wallet = {} /\ DOMAIN net = {} /\ Issued = {} /\ Acknowledged = {}
  BY <1>1, <1>4, EmptyNet, Ends DEF Issued, Acknowledged, Credentials, Done
<1>6. Issuance!Init
  BY <1>1, <1>5 DEF Issuance!Init, EmptyBag, SetToBag, Issuance!EmptyBag, Issuance!SetToBag
<1>7. IssueFits
  BY <1>2, <1>3, <1>4, <1>5, Ends
     DEF IssueFits, Serial, IssuerFits, IssuerTask, HolderFits, HolderTask, WalletFits, OutSound
<1> QED BY <1>6, <1>7

\* Whatever is lost or delivered twice, one credential is issued for an offer, it is
\* stored once, and the issuer is done only when that very credential is stored; until an
\* agent overlaps two tasks or crashes, or a call fails.
THEOREM CredIssuesOnce == Spec => IssuesOnce
<1>1. Init => CredInv /\ IssueInv /\ Issuance!Init
  BY InitEstablishes, IssueInit
<1>2. CredInv /\ IssueInv /\ [Next]_vars => (CredInv /\ IssueInv)'
  BY InvStep, IssueInvStep
<1>3. CredInv /\ IssueInv /\ [Next]_vars
      => [Spared({"overlap", "crash", "refuse"})' => Issuance!Next]_<<Issued, wallet, Acknowledged>>
  <2> SUFFICES ASSUME CredInv, IssueInv, [Next]_vars, Spared(Wrecking)'
               PROVE  Issuance!Next \/ Aside
    BY DEF Aside, Wrecking
  <2>1. IssueFits
    BY Remembers DEF IssueInv, Spared
  <2> QED BY <2>1, IssueStep
<1> QED BY <1>1, <1>2, <1>3, PTL DEF Spec, IssuesOnce
=============================================================================
