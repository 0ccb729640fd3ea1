------------------------- MODULE CredentialExchange -------------------------
(***************************************************************************)
(* The issue-credential protocol of modules/credentials between a Holder   *)
(* and an Issuer: Exchange, with CredentialRecords and the wallet the      *)
(* holder's credentials go into.                                           *)
(*                                                                         *)
(* An indy offer is named by the id of the message that carries it, a      *)
(* request by its own id, the offer it answers and the thread it was made  *)
(* in, a credential by the request it was issued for.  Left out: previews  *)
(* and values, credential definitions, and assertConnection (one           *)
(* connection).                                                            *)
(***************************************************************************)
EXTENDS Exchange

CONSTANTS
  Holder, Issuer,
  Negotiates    \* does the holder call createProposalAsResponse

ASSUME AgentsAssumption ==
  /\ Holder # Issuer
  /\ Agents = {Holder, Issuer}
  /\ Negotiates \in BOOLEAN

HolderStates == {"proposal-sent", "offer-received", "request-sent",
                 "credential-received", "done"}
IssuerStates == {"proposal-received", "offer-sent", "request-received",
                 "credential-issued", "done"}

Request == [id: Ids \cup {None}, offer: Ids \cup {None}, thread: Ids \cup {None}]
NoRequest == [id |-> None, offer |-> None, thread |-> None]

\* request stands for requestMessage and requestMetadata, set together;
\* credential for credentialMessage.
Record == [state: HolderStates \cup IssuerStates, thread: Ids,
           offer: Ids \cup {None}, request: Request, credential: Request]

MessageTypes == {"propose", "offer", "request", "issue", "ack"}

Message == [type: MessageTypes, to: Agents, id: Ids \cup {None}, thread: Ids,
            body: Request]

ASSUME NothingAssumption == Nothing \notin Message \cup Record

VARIABLE wallet   \* the credentials in the holder's wallet, a bag

vars == <<records, wallet, task, net, starts, lastId, mishaps, happened>>

NewRecord(state, thread, offer) ==
  [state |-> state, thread |-> thread, offer |-> offer,
   request |-> NoRequest, credential |-> NoRequest]

Init == ExchangeInit /\ wallet = EmptyBag

-----------------------------------------------------------------------------
(* The service's create... operations: assertState, make the message, write   *)
(* the record.  rec is the object the caller has read.                       *)

Propose(thread) == Msg("propose", Issuer, lastId', thread, NoRequest)
Offer(thread) == Msg("offer", Holder, lastId', thread, NoRequest)

CreateProposal(s) ==
  Start(Holder, s, NewRecord("proposal-sent", lastId', None), Propose(lastId'))

CreateOffer(s) ==
  Start(Issuer, s, NewRecord("offer-sent", lastId', lastId'), Offer(lastId'))

CreateOfferAsResponse(s, r, rec) ==
  /\ rec.state = "proposal-received"
  /\ FreshId
  /\ Update(Issuer, s, r, [rec EXCEPT !.state = "offer-sent", !.offer = lastId'],
            Offer(rec.thread))

CreateRequest(s, r, rec) ==
  /\ rec.state = "offer-received"
  /\ FreshId
  /\ LET request == [id |-> lastId', offer |-> rec.offer, thread |-> rec.thread]
     IN Update(Holder, s, r, [rec EXCEPT !.state = "request-sent", !.request = request],
               Msg("request", Issuer, lastId', rec.thread, request))

\* External: indy issues a credential only for a request made from its offer.
IndyCanIssue(offer, request) == request.offer = offer

CreateCredential(s, r, rec) ==
  /\ rec.state = "request-received"
  /\ IndyCanIssue(rec.offer, rec.request)
  /\ Update(Issuer, s, r,
            [rec EXCEPT !.state = "credential-issued", !.credential = rec.request],
            Msg("issue", Holder, None, rec.thread, rec.request))

\* Mutant: assertState one state too early.
CreateAck_Early(s, r, rec) ==
  /\ rec.state = "request-sent"
  /\ Update(Holder, s, r, [rec EXCEPT !.state = "done"],
            Msg("ack", Issuer, None, rec.thread, NoRequest))

\* Mutant: a state that is not one of CredentialState.
CreateAck_OtherState(s, r, rec) ==
  /\ rec.state = "credential-received"
  /\ Update(Holder, s, r, [rec EXCEPT !.state = "acked"],
            Msg("ack", Issuer, None, rec.thread, NoRequest))

CreateAck(s, r, rec) ==
  /\ rec.state = "credential-received"
  /\ Update(Holder, s, r, [rec EXCEPT !.state = "done"],
            Msg("ack", Issuer, None, rec.thread, NoRequest))

-----------------------------------------------------------------------------
(* CredentialsModule: read the record, call the service, send the message.   *)

ProposeCredential(s) == CreateProposal(s)
OfferCredential(s) == CreateOffer(s)

AcceptProposal(s, r) ==
  /\ CallOn(Issuer, s)
  /\ CreateOfferAsResponse(s, r, records[Issuer][r])
  /\ UNCHANGED net

AcceptOffer(s, r) ==
  /\ CallOn(Holder, s)
  /\ CreateRequest(s, r, records[Holder][r])
  /\ UNCHANGED net

AcceptRequest(s, r) ==
  /\ CallOn(Issuer, s)
  /\ CreateCredential(s, r, records[Issuer][r])
  /\ UNCHANGED <<net, lastId>>

AcceptCredential(s, r) ==
  /\ CallOn(Holder, s)
  /\ CreateAck(s, r, records[Holder][r])
  /\ UNCHANGED <<net, lastId>>

\* createProposalAsResponse has no caller in the module: the application calls it
\* and sends the message.  It does not await updateState.
CreateProposalAsResponse(s, r) ==
  LET rec == records[Holder][r] IN
  /\ Negotiates
  /\ CallOn(Holder, s)
  /\ rec.state = "offer-received"
  /\ FreshId
  /\ Update(Holder, s, r, [rec EXCEPT !.state = "proposal-sent"], Nothing)
  /\ net' = Put(net, Propose(rec.thread))

-----------------------------------------------------------------------------
(* Handlers                                                                  *)

\* The catch clause takes every error for "no record has this thread id".
ProcessProposal(s, m) ==
  /\ Receive(Issuer, s, m, "propose")
  /\ \/ \E r \in ByThread(Issuer, m.thread) :
          /\ Finds(Issuer, m.thread, "offer-sent", r)
          /\ Update(Issuer, s, r, [records[Issuer][r] EXCEPT !.state = "proposal-received"],
                    Nothing)
     \/ /\ \A r \in ByThread(Issuer, m.thread) : ~Finds(Issuer, m.thread, "offer-sent", r)
        /\ Save(Issuer, s, NewRecord("proposal-received", m.thread, None))

\* Mutant: an offer always starts a record.
ProcessOffer_AlwaysNew(s, m) ==
  /\ Receive(Holder, s, m, "offer")
  /\ Save(Holder, s, NewRecord("offer-received", m.id, m.id))

\* Here the new record is tagged with the id of the message, not its thread.
ProcessOffer(s, m) ==
  /\ Receive(Holder, s, m, "offer")
  /\ \/ \E r \in ByThread(Holder, m.thread) :
          /\ Finds(Holder, m.thread, "proposal-sent", r)
          /\ Update(Holder, s, r,
                    [records[Holder][r] EXCEPT !.state = "offer-received", !.offer = m.id],
                    Nothing)
     \/ /\ \A r \in ByThread(Holder, m.thread) : ~Finds(Holder, m.thread, "proposal-sent", r)
        /\ Save(Holder, s, NewRecord("offer-received", m.id, m.id))

ProcessRequest(s, m) ==
  /\ Receive(Issuer, s, m, "request")
  /\ \E r \in ByThread(Issuer, m.thread) :
       /\ Finds(Issuer, m.thread, "offer-sent", r)
       /\ Update(Issuer, s, r,
                 [records[Issuer][r] EXCEPT !.state = "request-received", !.request = m.body],
                 Nothing)

\* Mutant: assertState left out.
ProcessCredential_AnyState(s, m) ==
  /\ Receive(Holder, s, m, "issue")
  /\ \E r \in ByThread(Holder, m.thread) :
       Begin(Holder, s, "storeCredential", r,
             [records[Holder][r] EXCEPT !.credential = m.body], Nothing)

\* Mutant: storeCredential left to the caller.
ProcessCredential_NotStored(s, m) ==
  /\ Receive(Holder, s, m, "issue")
  /\ \E r \in ByThread(Holder, m.thread) :
       /\ Finds(Holder, m.thread, "request-sent", r)
       /\ Update(Holder, s, r,
                 [records[Holder][r] EXCEPT !.credential = m.body,
                                            !.state = "credential-received"], Nothing)

\* The credential goes into the wallet first, the record is updated after.
ProcessCredential(s, m) ==
  /\ Receive(Holder, s, m, "issue")
  /\ \E r \in ByThread(Holder, m.thread) :
       /\ Finds(Holder, m.thread, "request-sent", r)
       /\ Begin(Holder, s, "storeCredential", r,
                [records[Holder][r] EXCEPT !.credential = m.body], Nothing)

ProcessAck(s, m) ==
  /\ Receive(Issuer, s, m, "ack")
  /\ \E r \in ByThread(Issuer, m.thread) :
       /\ Finds(Issuer, m.thread, "credential-issued", r)
       /\ Update(Issuer, s, r, [records[Issuer][r] EXCEPT !.state = "done"], Nothing)

\* External: indy stores a credential only with the metadata of its request.
IndyCanStore(metadata, credential) == metadata = credential

StoreCredential(s) ==
  LET t == task[Holder][s] IN
  /\ t.pc = "storeCredential"
  /\ \/ /\ IndyCanStore(t.rec.request, t.rec.credential)
        /\ wallet' = Put(wallet, t.rec.credential)
        /\ Update(Holder, s, t.at, [t.rec EXCEPT !.state = "credential-received"], Nothing)
     \/ /\ ~IndyCanStore(t.rec.request, t.rec.credential)
        /\ End(Holder, s)
        /\ UNCHANGED wallet
  /\ UNCHANGED <<records, net, starts, lastId, mishaps, happened>>

\* processProposal and processOffer update inside their try clauses.
InTry(t) == t.pc = "update" /\ t.rec.state \in {"proposal-received", "offer-received"}

CallFails(a, s) ==
  LET t == task[a][s] IN
  \/ ~InTry(t) /\ Throws(a, s)
  \/ /\ InTry(t)
     /\ t.rec.state = "proposal-received"
     /\ Catches(a, s, NewRecord("proposal-received", t.rec.thread, None))
  \/ /\ InTry(t)
     /\ t.rec.state = "offer-received"
     /\ Catches(a, s, NewRecord("offer-received", t.rec.offer, t.rec.offer))

-----------------------------------------------------------------------------
Begins ==
  /\ \E s \in Slots :
       \/ ProposeCredential(s)
       \/ OfferCredential(s)
       \/ \E r \in DOMAIN records[Holder] : CreateProposalAsResponse(s, r)
  /\ UNCHANGED wallet

Accept(a, s) ==
  /\ \E r \in DOMAIN records[a] :
       \/ a = Issuer /\ (AcceptProposal(s, r) \/ AcceptRequest(s, r))
       \/ a = Holder /\ (AcceptOffer(s, r) \/ AcceptCredential(s, r))
  /\ UNCHANGED wallet

Refuse(a, s, m) ==
  \/ Refuses(a, s, m, "request", "offer-sent")
  \/ Refuses(a, s, m, "issue", "request-sent")
  \/ Refuses(a, s, m, "ack", "credential-issued")

Handle(a, s) ==
  /\ \E m \in DOMAIN net :
       \/ a = Issuer /\ (ProcessProposal(s, m) \/ ProcessRequest(s, m) \/ ProcessAck(s, m))
       \/ a = Holder /\ (ProcessOffer(s, m) \/ ProcessCredential(s, m))
       \/ Refuse(a, s, m)
  /\ UNCHANGED wallet

Proceed(a, s) ==
  \/ (SaveRecord(a, s) \/ UpdateRecord(a, s) \/ Send(a, s)) /\ UNCHANGED wallet
  \/ a = Holder /\ StoreCredential(s)

Next ==
  \/ Begins
  \/ \E a \in Agents, s \in Slots : Accept(a, s) \/ Handle(a, s) \/ Proceed(a, s)
  \/ (Fault \/ \E a \in Agents, s \in Slots : CallFails(a, s)) /\ UNCHANGED wallet

Spec == Init /\ [][Next]_vars

\* Promises settle, the transport delivers, and both applications accept what
\* they are sent.
Fairness ==
  \A a \in Agents, s \in Slots :
    WF_vars(Proceed(a, s)) /\ WF_vars(Handle(a, s)) /\ WF_vars(Accept(a, s))

FairSpec == Spec /\ Fairness
-----------------------------------------------------------------------------
(* Properties                                                                *)

TypeOK ==
  /\ ExchangeTypeOK(Record, Message, {"storeCredential"})
  /\ DOMAIN wallet \subseteq Request

\* A holder's record that says the credential was received names a credential
\* that is in the wallet: the record is updated after storeCredential, and no
\* stale object, crash or redelivery can put the state ahead of the wallet.
ReceivedIsStored ==
  \A r \in DOMAIN records[Holder] :
    records[Holder][r].state \in {"credential-received", "done"}
      => records[Holder][r].credential \in DOMAIN wallet

\* When the issuer has recorded an ack, a credential requested in that exchange is
\* in the holder's wallet, whatever overlapped, crashed, failed or was doubled on the way.
DoneHasCredential ==
  \A r \in DOMAIN records[Issuer] :
    records[Issuer][r].state = "done"
      => \E c \in DOMAIN wallet : c.thread = records[Issuer][r].thread

\* Seen from outside the exchange issues a credential at most once for an offer,
\* stores it at most once, and is done only when the very credential the issuer's record
\* names is stored (CredentialIssuance).  Holds until an agent overlaps two tasks,
\* crashes, or a call fails: when the update after storeCredential does not come about,
\* a doubled message stores the credential again.
Credentials(recs, chosen) == {recs[r].credential : r \in chosen} \ {NoRequest}
Done(recs) == {r \in DOMAIN recs : recs[r].state = "done"}

Issued == Credentials(records[Issuer], DOMAIN records[Issuer])
Acknowledged == Credentials(records[Issuer], Done(records[Issuer]))

Issuance == INSTANCE CredentialIssuance WITH
  Requests <- Request, issued <- Issued, stored <- wallet, acknowledged <- Acknowledged

IssuesOnce ==
  /\ Issuance!Init
  /\ [][Spared({"overlap", "crash", "refuse"})' => Issuance!Next]_<<Issued, wallet, Acknowledged>>


\* It does hold, however often the two sides go back to a new proposal, until an agent
\* overlaps two tasks, crashes, a call fails, or a message comes twice; and so long the
\* two records of a thread keep in step: the issuer issues only for the request the
\* holder's record shows, the holder has a credential only if the issuer's record shows
\* it issued, and the issuer is done last.
InStep ==
  Spared({"overlap", "crash", "duplicate", "refuse"}) =>
    Unique /\ \A r \in DOMAIN records[Holder], q \in DOMAIN records[Issuer] :
      LET h == records[Holder][r]
          i == records[Issuer][q]
      IN h.thread = i.thread =>
           /\ i.state \in {"credential-issued", "done"} =>
                /\ h.state \in {"request-sent", "credential-received", "done"}
                /\ h.request = i.request
           /\ h.state \in {"credential-received", "done"} =>
                i.state \in {"credential-issued", "done"}
           /\ i.state = "done" => h.state = "done"

\* Every exchange that an agent has a record of ends with both records done when
\* both applications accept what they are sent: unless something goes wrong, or the
\* bound on ids ends a negotiation.
Completes ==
  \A t \in Ids :
    (\E a \in Agents : ByThread(a, t) # {})
      ~> \/ \A a \in Agents : Completed(a, t)
         \/ ~Spared(FaultKinds)
         \/ lastId = MaxIds
=============================================================================
