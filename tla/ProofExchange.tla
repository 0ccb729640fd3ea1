--------------------------- MODULE ProofExchange ---------------------------
(***************************************************************************)
(* The present-proof protocol of modules/proofs between a Prover and a     *)
(* Verifier: Exchange, with ProofRecords.                                  *)
(*                                                                         *)
(* A request is named by the id of the message that carries it, which      *)
(* stands for its nonce; a presentation by the request it was made for and *)
(* what it is worth.  Left out: what proposals and requests ask for        *)
(* (PresentationContent has that), reading credentials, schemas and        *)
(* definitions, and assertConnection (one connection).                     *)
(***************************************************************************)
EXTENDS Exchange

CONSTANTS
  Prover, Verifier,
  Counters,     \* does the prover call createProposalAsResponse
  Qualities     \* what presentations the prover's wallet can yield

ASSUME AgentsAssumption ==
  /\ Prover # Verifier
  /\ Agents = {Prover, Verifier}
  /\ Counters \in BOOLEAN
  /\ Qualities \subseteq {"true", "false", "misencoded"}

ProverStates == {"proposal-sent", "request-received", "presentation-sent", "done"}
VerifierStates == {"proposal-received", "request-sent", "presentation-received", "done"}

\* false: the credentials chosen do not satisfy the request; misencoded: a
\* credential was issued with a value that is not the encoding of its raw value.
Presentation == [request: Ids \cup {None}, quality: Qualities \cup {"none"}]
NoPresentation == [request |-> None, quality |-> "none"]

\* request stands for requestMessage, presentation for presentationMessage.
Verdicts == {"unknown", "verified", "rejected"}
Record == [state: ProverStates \cup VerifierStates, thread: Ids,
           request: Ids \cup {None}, presentation: Presentation, isVerified: Verdicts]

MessageTypes == {"propose", "request", "presentation", "ack"}

Message == [type: MessageTypes, to: Agents, id: Ids \cup {None}, thread: Ids,
            body: Presentation]

ASSUME NothingAssumption == Nothing \notin Message \cup Record

NewRecord(state, thread, request) ==
  [state |-> state, thread |-> thread, request |-> request,
   presentation |-> NoPresentation, isVerified |-> "unknown"]

Init == ExchangeInit

-----------------------------------------------------------------------------
(* The service's create... operations: assertState, make the message, write   *)
(* the record.  rec is the object the caller has read.                       *)

Proposal(thread) == Msg("propose", Verifier, lastId', thread, NoPresentation)
RequestMsg(thread) == Msg("request", Prover, lastId', thread, NoPresentation)

CreateProposal(s) ==
  Start(Prover, s, NewRecord("proposal-sent", lastId', None), Proposal(lastId'))

CreateRequest(s) ==
  Start(Verifier, s, NewRecord("request-sent", lastId', lastId'), RequestMsg(lastId'))

CreateRequestAsResponse(s, r, rec) ==
  /\ rec.state = "proposal-received"
  /\ FreshId
  /\ Update(Verifier, s, r, [rec EXCEPT !.state = "request-sent", !.request = lastId'],
            RequestMsg(rec.thread))

\* Mutant: the presentation answers the request that began the exchange.
CreatePresentation_FirstRequest(s, r, rec, quality) ==
  /\ rec.state = "request-received"
  /\ Begin(Prover, s, "createProof", r,
           [rec EXCEPT !.presentation = [request |-> rec.thread, quality |-> quality]],
           Nothing)

\* createProof reads credentials and the ledger and lets indy make the proof: the
\* object read before is written after.
CreatePresentation(s, r, rec, quality) ==
  /\ rec.state = "request-received"
  /\ Begin(Prover, s, "createProof", r,
           [rec EXCEPT !.presentation = [request |-> rec.request, quality |-> quality]],
           Nothing)

\* Mutant: assertState one state too early.
CreateAck_Early(s, r, rec) ==
  /\ rec.state \in {"request-sent", "presentation-received"}
  /\ Update(Verifier, s, r, [rec EXCEPT !.state = "done"],
            Msg("ack", Prover, None, rec.thread, NoPresentation))

\* Mutant: a state that is not one of ProofState.
CreateAck_OtherState(s, r, rec) ==
  /\ rec.state = "presentation-received"
  /\ Update(Verifier, s, r, [rec EXCEPT !.state = "acked"],
            Msg("ack", Prover, None, rec.thread, NoPresentation))

\* It does not ask whether the presentation was verified.
CreateAck(s, r, rec) ==
  /\ rec.state = "presentation-received"
  /\ Update(Verifier, s, r, [rec EXCEPT !.state = "done"],
            Msg("ack", Prover, None, rec.thread, NoPresentation))

-----------------------------------------------------------------------------
(* ProofsModule: read the record, call the service, send the message.        *)

ProposeProof(s) == CreateProposal(s)
RequestProof(s) == CreateRequest(s)

AcceptProposal(s, r) ==
  /\ CallOn(Verifier, s)
  /\ CreateRequestAsResponse(s, r, records[Verifier][r])
  /\ UNCHANGED net

AcceptRequest(s, r) ==
  /\ CallOn(Prover, s)
  /\ \E quality \in Qualities : CreatePresentation(s, r, records[Prover][r], quality)
  /\ UNCHANGED <<net, lastId>>

AcceptPresentation(s, r) ==
  /\ CallOn(Verifier, s)
  /\ CreateAck(s, r, records[Verifier][r])
  /\ UNCHANGED <<net, lastId>>

\* createProposalAsResponse has no caller in the module: the application calls it
\* and sends the message.  It does not await updateState.
CreateProposalAsResponse(s, r) ==
  LET rec == records[Prover][r] IN
  /\ Counters
  /\ CallOn(Prover, s)
  /\ rec.state = "request-received"
  /\ FreshId
  /\ Update(Prover, s, r, [rec EXCEPT !.state = "proposal-sent"], Nothing)
  /\ net' = Put(net, Proposal(rec.thread))

-----------------------------------------------------------------------------
(* Handlers                                                                  *)

\* Mutant: a proposal always starts a record.
ProcessProposal_AlwaysNew(s, m) ==
  /\ Receive(Verifier, s, m, "propose")
  /\ Save(Verifier, s, NewRecord("proposal-received", m.thread, None))

\* The catch clause takes every error for "no record has this thread id".
ProcessProposal(s, m) ==
  /\ Receive(Verifier, s, m, "propose")
  /\ \/ \E r \in ByThread(Verifier, m.thread) :
          /\ Finds(Verifier, m.thread, "request-sent", r)
          /\ Update(Verifier, s, r,
                    [records[Verifier][r] EXCEPT !.state = "proposal-received"], Nothing)
     \/ /\ \A r \in ByThread(Verifier, m.thread) :
             ~Finds(Verifier, m.thread, "request-sent", r)
        /\ Save(Verifier, s, NewRecord("proposal-received", m.thread, None))

\* As above; the thread of a request that starts an exchange is its own id.
ProcessRequest(s, m) ==
  /\ Receive(Prover, s, m, "request")
  /\ \/ \E r \in ByThread(Prover, m.thread) :
          /\ Finds(Prover, m.thread, "proposal-sent", r)
          /\ Update(Prover, s, r,
                    [records[Prover][r] EXCEPT !.state = "request-received", !.request = m.id],
                    Nothing)
     \/ /\ \A r \in ByThread(Prover, m.thread) :
             ~Finds(Prover, m.thread, "proposal-sent", r)
        /\ Save(Prover, s, NewRecord("request-received", m.thread, m.id))

\* The raw values are checked first: verifyProof throws, and the handler with it.
ProcessPresentation(s, m) ==
  /\ Receive(Verifier, s, m, "presentation")
  /\ \E r \in ByThread(Verifier, m.thread) :
       /\ Finds(Verifier, m.thread, "request-sent", r)
       /\ \/ /\ m.body.quality # "misencoded"
             /\ Begin(Verifier, s, "verifyProof", r,
                      [records[Verifier][r] EXCEPT !.presentation = m.body], Nothing)
          \/ /\ m.body.quality = "misencoded"
             /\ UNCHANGED task

ProcessAck(s, m) ==
  /\ Receive(Prover, s, m, "ack")
  /\ \E r \in ByThread(Prover, m.thread) :
       /\ Finds(Prover, m.thread, "presentation-sent", r)
       /\ Update(Prover, s, r, [records[Prover][r] EXCEPT !.state = "done"], Nothing)

-----------------------------------------------------------------------------
(* The rest of a task                                                        *)

CreateProof(s) ==
  LET t == task[Prover][s] IN
  /\ t.pc = "createProof"
  /\ Update(Prover, s, t.at, [t.rec EXCEPT !.state = "presentation-sent"],
            Msg("presentation", Verifier, None, t.rec.thread, t.rec.presentation))
  /\ UNCHANGED <<records, net, starts, lastId, mishaps, happened>>

\* External: indy accepts a proof of the credentials asked for, made with the
\* nonce of the request.
IndyVerifies(request, presentation) ==
  presentation = [request |-> request, quality |-> "true"]

\* Mutant: the outcome of the verification is not looked at.
VerifyProof_Trusting(s) ==
  LET t == task[Verifier][s] IN
  /\ t.pc = "verifyProof"
  /\ Update(Verifier, s, t.at,
            [t.rec EXCEPT !.state = "presentation-received", !.isVerified = "verified"],
            Nothing)
  /\ UNCHANGED <<records, net, starts, lastId, mishaps, happened>>

\* The presentation is stored whatever the verdict.
VerifyProof(s) ==
  LET t == task[Verifier][s]
      verdict == IF IndyVerifies(t.rec.request, t.rec.presentation)
                 THEN "verified" ELSE "rejected"
  IN
  /\ t.pc = "verifyProof"
  /\ Update(Verifier, s, t.at,
            [t.rec EXCEPT !.state = "presentation-received", !.isVerified = verdict],
            Nothing)
  /\ UNCHANGED <<records, net, starts, lastId, mishaps, happened>>

\* processProposal and processRequest update inside their try clauses.
InTry(t) == t.pc = "update" /\ t.rec.state \in {"proposal-received", "request-received"}

CallFails(a, s) ==
  LET t == task[a][s] IN
  \/ ~InTry(t) /\ Throws(a, s)
  \/ /\ InTry(t)
     /\ t.rec.state = "proposal-received"
     /\ Catches(a, s, NewRecord("proposal-received", t.rec.thread, None))
  \/ /\ InTry(t)
     /\ t.rec.state = "request-received"
     /\ Catches(a, s, NewRecord("request-received", t.rec.thread, t.rec.request))

-----------------------------------------------------------------------------
vars == exchangeVars

Begins ==
  \E s \in Slots :
    \/ ProposeProof(s)
    \/ RequestProof(s)
    \/ \E r \in DOMAIN records[Prover] : CreateProposalAsResponse(s, r)

Accept(a, s) ==
  \E r \in DOMAIN records[a] :
    \/ a = Verifier /\ (AcceptProposal(s, r) \/ AcceptPresentation(s, r))
    \/ a = Prover /\ AcceptRequest(s, r)

Refuse(a, s, m) ==
  \/ Refuses(a, s, m, "presentation", "request-sent")
  \/ Refuses(a, s, m, "ack", "presentation-sent")

Handle(a, s) ==
  \E m \in DOMAIN net :
    \/ a = Verifier /\ (ProcessProposal(s, m) \/ ProcessPresentation(s, m))
    \/ a = Prover /\ (ProcessRequest(s, m) \/ ProcessAck(s, m))
    \/ Refuse(a, s, m)

Proceed(a, s) ==
  \/ SaveRecord(a, s) \/ UpdateRecord(a, s) \/ Send(a, s)
  \/ a = Prover /\ CreateProof(s)
  \/ a = Verifier /\ VerifyProof(s)

Next ==
  \/ Begins
  \/ \E a \in Agents, s \in Slots : Accept(a, s) \/ Handle(a, s) \/ Proceed(a, s)
  \/ Fault \/ \E a \in Agents, s \in Slots : CallFails(a, s)

Spec == Init /\ [][Next]_vars

\* Promises settle, the transport delivers, and both applications accept what
\* they are sent.
Fairness ==
  \A a \in Agents, s \in Slots :
    WF_vars(Proceed(a, s)) /\ WF_vars(Handle(a, s)) /\ WF_vars(Accept(a, s))

FairSpec == Spec /\ Fairness
-----------------------------------------------------------------------------
(* Properties                                                                *)

TypeOK == ExchangeTypeOK(Record, Message, {"createProof", "verifyProof"})

\* What a verifier's record says of a presentation is what indy says of the
\* presentation and the request of that same record, whatever was negotiated,
\* overlapped, doubled or cut short while the verification was awaited; and a record
\* says so exactly if it is in one of the last two states.
VerdictFits ==
  \A r \in DOMAIN records[Verifier] :
    LET rec == records[Verifier][r] IN
    /\ rec.state \in {"presentation-received", "done"} <=> rec.isVerified # "unknown"
    /\ rec.isVerified = "verified" => IndyVerifies(rec.request, rec.presentation)
    /\ rec.isVerified = "rejected" => ~IndyVerifies(rec.request, rec.presentation)

\* What a prover's record says it has presented answers the request of that record,
\* though createProof is awaited between the two.
PresentsWhatWasAsked ==
  \A r \in DOMAIN records[Prover] :
    LET rec == records[Prover][r] IN
    rec.state \in {"presentation-sent", "done"} => rec.presentation.request = rec.request

\* Seen from outside a request is judged once, and done for the prover only when it
\* was (PresentationVerdicts).  Holds until an agent overlaps two tasks, crashes, a call
\* fails, or a message comes twice: an old request that comes again is answered again,
\* and what is judged then is not what the prover has been asked last.
Verdict(q) ==
  LET judged == {r \in DOMAIN records[Verifier] :
                   /\ records[Verifier][r].request = q
                   /\ records[Verifier][r].isVerified # "unknown"}
  IN IF judged = {} THEN "unknown"
     ELSE records[Verifier][CHOOSE r \in judged : TRUE].isVerified

RequestVerdicts == [q \in Ids |-> Verdict(q)]
Concluded == {records[Prover][r].request :
                r \in {r \in DOMAIN records[Prover] : records[Prover][r].state = "done"}}

Promise == INSTANCE PresentationVerdicts WITH
  Requests <- Ids, Unjudged <- "unknown", Verdicts <- {"verified", "rejected"},
  verdict <- RequestVerdicts, concluded <- Concluded

JudgedOnce ==
  /\ Promise!Init
  /\ [][Spared({"overlap", "crash", "duplicate", "refuse"})' => Promise!Next]_<<RequestVerdicts, Concluded>>

\* An agent has one record for each thread id, else getByThreadId throws for ever, and
\* the two records of a thread keep in step: the verifier has judged the very
\* presentation the prover's record shows, and the prover is done last.  Holds on
\* the same terms.
InStep ==
  Spared({"overlap", "crash", "duplicate", "refuse"}) =>
    Unique /\ \A r \in DOMAIN records[Prover], q \in DOMAIN records[Verifier] :
      LET p == records[Prover][r]
          v == records[Verifier][q]
      IN p.thread = v.thread =>
           /\ v.state \in {"presentation-received", "done"} =>
                /\ p.state \in {"presentation-sent", "done"}
                /\ p.presentation = v.presentation
           /\ p.state = "done" => v.state = "done"

\* Every exchange that an agent has a record of ends with both records done when
\* both applications accept what they are sent: unless the agents were disturbed,
\* a credential turns out to be misencoded, or the last id was used up.
Misencoded(t) ==
  \E r \in ByThread(Prover, t) : records[Prover][r].presentation.quality = "misencoded"

Completes ==
  \A t \in Ids :
    (\E a \in Agents : ByThread(a, t) # {})
      ~> \/ \A a \in Agents : Completed(a, t)
         \/ ~Spared(FaultKinds)
         \/ Misencoded(t)
         \/ lastId = MaxIds
=============================================================================
