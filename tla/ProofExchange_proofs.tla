------------------------- MODULE ProofExchange_proofs -------------------------
(***************************************************************************)
(* Proofs about ProofExchange, for any number of slots, exchanges, ids and *)
(* faults, and any set of qualities.                                       *)
(***************************************************************************)
EXTENDS ProofExchange, Exchange_proofs

Answers(rec) == rec.presentation.request = rec.request

ProverGood ==
  {rec \in Record : rec.state \in {"presentation-sent", "done"} => Answers(rec)}

Judged(rec) ==
  /\ rec.state \in {"presentation-received", "done"} <=> rec.isVerified # "unknown"
  /\ rec.isVerified = "verified" => IndyVerifies(rec.request, rec.presentation)
  /\ rec.isVerified = "rejected" => ~IndyVerifies(rec.request, rec.presentation)

VerifierGood == {rec \in Record : rec.state # "presentation-sent" /\ Judged(rec)}

GoodRecords == [a \in Agents |-> IF a = Prover THEN ProverGood ELSE VerifierGood]

PCs == {"createProof", "verifyProof"}
Fits == Held(Record, Message, PCs, GoodRecords, Message)

\* What waits for createProof has the request of its record.
AwaitFits ==
  \A a \in Agents, s \in Slots :
    /\ task[a][s].pc = "createProof" => a = Prover /\ Answers(task[a][s].rec)
    /\ task[a][s].pc = "verifyProof" => a = Verifier

ProofInv == Fits /\ AwaitFits

-----------------------------------------------------------------------------
LEMMA Ends == Prover \in Agents /\ Verifier \in Agents /\ Prover # Verifier
BY AgentsAssumption

LEMMA Parts ==
  /\ GoodRecords[Prover] = ProverGood
  /\ GoodRecords[Verifier] = VerifierGood
  /\ \A a \in Agents : GoodRecords[a] \subseteq Record
BY Ends DEF GoodRecords, ProverGood, VerifierGood

LEMMA InitEstablishes == Init => ProofInv
<1> SUFFICES ASSUME Init PROVE ProofInv
  OBVIOUS
<1>1. DOMAIN net = {}
  BY EmptyNet DEF Init, ExchangeInit
<1>2. \A a \in Agents : records[a] = <<>>
  BY DEF Init, ExchangeInit
<1>3. \A a \in Agents, s \in Slots : task[a][s] = Idle
  BY DEF Init, ExchangeInit
<1>4. Idle \in Task(Record, Message, PCs) /\ Idle.pc = "idle" /\ Idle.out = Nothing
  BY DEF Idle, Task, None
<1>5. Fit(PCs, GoodRecords, Message)
  BY <1>1, <1>2, <1>3, <1>4, EmptySeq DEF Fit, PCs
<1>6. records \in [Agents -> Seq(Record)]
  BY EmptySeq DEF Init, ExchangeInit
<1>7. task \in [Agents -> [Slots -> Task(Record, Message, PCs)]]
  BY <1>4 DEF Init, ExchangeInit
<1>8. ExchangeTypeOK(Record, Message, PCs)
  BY <1>1, <1>6, <1>7, BoundsAssumption DEF Init, ExchangeInit, ExchangeTypeOK, Task
<1>9. Fits
  BY <1>5, <1>8, Parts DEF Fits, Held, PCs
<1>10. AwaitFits
  BY <1>3, <1>4 DEF AwaitFits
<1> QED BY <1>9, <1>10 DEF ProofInv

-----------------------------------------------------------------------------
(* Steps                                                                     *)

\* One task is replaced, and the records are not.
LEMMA Begun ==
  ASSUME Fits, AwaitFits, NEW a \in Agents, NEW s \in Slots, NEW t,
         Good(t, Record, Message, PCs, GoodRecords, Message, a),
         task' = [task EXCEPT ![a][s] = t],
         t.pc = "createProof" => a = Prover /\ Answers(t.rec),
         t.pc = "verifyProof" => a = Verifier,
         UNCHANGED records, DOMAIN net' \subseteq Message, Counted'
  PROVE  Fits' /\ AwaitFits'
<1>1. Held(Record, Message, PCs, GoodRecords, Message)'
  BY TaskStep DEF Fits
<1>2. \A b \in Agents, q \in Slots :
        task'[b][q] = IF b = a /\ q = s THEN t ELSE task[b][q]
  BY DEF Fits, Held, ExchangeTypeOK
<1>3. AwaitFits'
  BY <1>2 DEF AwaitFits
<1> QED BY <1>1, <1>3 DEF Fits

LEMMA NetGood ==
  ASSUME Fits
  PROVE  /\ DOMAIN net \subseteq Message
         /\ Counted
         /\ \A m \in Message : DOMAIN Put(net, m) \subseteq Message
<1>1. DOMAIN net \subseteq Message
  BY DEF Fits, Held, Fit
<1>2. Counted
  BY DEF Fits, Held, ExchangeTypeOK, Counted
<1>3. ASSUME NEW m \in Message PROVE DOMAIN Put(net, m) \subseteq Message
  <2>1. DOMAIN Put(net, m) = DOMAIN net \cup {m}
    BY PutIn
  <2> QED BY <1>1, <1>3, <2>1
<1> QED BY <1>1, <1>2, <1>3

LEMMA Writes ==
  ASSUME Fits, AwaitFits, NEW a \in Agents, NEW s \in Slots,
         NEW pc \in {"save", "update"}, NEW at \in Nat,
         NEW rec \in GoodRecords[a], NEW out \in Message \cup {Nothing},
         Begin(a, s, pc, at, rec, out),
         UNCHANGED records, DOMAIN net' \subseteq Message, Counted'
  PROVE  Fits' /\ AwaitFits'
<1> DEFINE t == [pc |-> pc, at |-> at, rec |-> rec, out |-> out]
<1>1. Good(t, Record, Message, PCs, GoodRecords, Message, a)
  BY WriteGood DEF Fits
<1>2. task' = [task EXCEPT ![a][s] = t] /\ t.pc \notin {"createProof", "verifyProof"}
  BY DEF Begin
<1> HIDE DEF t
<1> QED BY <1>1, <1>2, Begun

\* A record is replaced by what the task holds, and a new one is saved.
LEMMA Rewrites ==
  ASSUME Fits, AwaitFits, NEW a \in Agents, NEW s \in Slots, task[a][s].pc = "update",
         records' = [records EXCEPT ![a][task[a][s].at] = task[a][s].rec],
         NEW rec \in GoodRecords[a], Begin(a, s, "save", 0, rec, Nothing),
         DOMAIN net' \subseteq Message, Counted'
  PROVE  Fits' /\ AwaitFits'
<1> DEFINE t == [pc |-> "save", at |-> 0, rec |-> rec, out |-> Nothing]
<1>1. Good(t, Record, Message, PCs, GoodRecords, Message, a)
  BY WriteGood DEF Fits
<1>2. task' = [task EXCEPT ![a][s] = t] /\ t.pc \notin {"createProof", "verifyProof"}
  BY DEF Begin
<1> HIDE DEF t
<1>3. Fits'
  BY <1>1, <1>2, RewriteStep DEF Fits
<1>4. \A b \in Agents, q \in Slots :
        task'[b][q] = IF b = a /\ q = s THEN t ELSE task[b][q]
  BY <1>2 DEF Fits, Held, ExchangeTypeOK
<1>5. AwaitFits'
  BY <1>2, <1>4 DEF AwaitFits
<1> QED BY <1>3, <1>5

\* A task that awaits the proof library.
LEMMA Awaits ==
  ASSUME Fits, AwaitFits, NEW a \in Agents, NEW s \in Slots, NEW pc \in PCs, NEW at \in Nat,
         NEW rec \in GoodRecords[a], Begin(a, s, pc, at, rec, Nothing),
         pc = "createProof" => a = Prover /\ Answers(rec),
         pc = "verifyProof" => a = Verifier,
         UNCHANGED records, DOMAIN net' \subseteq Message, Counted'
  PROVE  Fits' /\ AwaitFits'
<1> DEFINE t == [pc |-> pc, at |-> at, rec |-> rec, out |-> Nothing]
<1>1. Good(t, Record, Message, PCs, GoodRecords, Message, a)
  BY WriteGood DEF Fits
<1>2. task' = [task EXCEPT ![a][s] = t] /\ t.pc = pc /\ t.rec = rec
  BY DEF Begin
<1> HIDE DEF t
<1> QED BY <1>1, <1>2, Begun

\* The record a call or handler has read.
LEMMA ReadGood ==
  ASSUME Fits, NEW a \in Agents, NEW r \in DOMAIN records[a]
  PROVE  /\ records[a][r] \in GoodRecords[a]
         /\ records[a][r] \in Record
         /\ r \in Nat
BY StoredGood DEF Fits

LEMMA MessageTyped ==
  ASSUME NEW type \in MessageTypes, NEW to \in Agents, NEW id \in Ids \cup {None},
         NEW thread \in Ids, NEW body \in Presentation
  PROVE  Msg(type, to, id, thread, body) \in Message
BY DEF Message, Msg

LEMMA NoPresentationType == NoPresentation \in Presentation
BY DEF NoPresentation, Presentation

LEMMA NewGood ==
  ASSUME NEW state \in {"proposal-sent", "request-received", "proposal-received", "request-sent"},
         NEW thread \in Ids, NEW request \in Ids \cup {None}
  PROVE  NewRecord(state, thread, request) \in ProverGood \cap VerifierGood
<1>1. NewRecord(state, thread, request) \in Record
  BY NoPresentationType DEF NewRecord, Record, ProverStates, VerifierStates, Verdicts
<1>2. /\ NewRecord(state, thread, request).state
            \notin {"presentation-sent", "presentation-received", "done"}
      /\ NewRecord(state, thread, request).isVerified = "unknown"
  BY DEF NewRecord
<1> QED BY <1>1, <1>2 DEF ProverGood, VerifierGood, Judged

LEMMA StartKeeps ==
  ASSUME Fits, AwaitFits, NEW a \in Agents, NEW s \in Slots,
         NEW rec \in GoodRecords[a], NEW m \in Message, Start(a, s, rec, m)
  PROVE  Fits' /\ AwaitFits'
<1>1. Counted' /\ UNCHANGED records
  BY NetGood, StartCounts
<1>2. DOMAIN net' \subseteq Message
  BY NetGood DEF Start
<1>3. Begin(a, s, "save", 0, rec, Nothing)
  BY DEF Start, Save, None
<1> QED BY <1>1, <1>2, <1>3, Writes

LEMMA StartsKeep ==
  ASSUME Fits, AwaitFits, NEW s \in Slots, CreateProposal(s) \/ CreateRequest(s)
  PROVE  Fits' /\ AwaitFits'
<1>1. lastId' \in Ids
  BY NetGood, FreshIds DEF CreateProposal, CreateRequest, Start
<1>2. CASE CreateProposal(s)
  <2>1. NewRecord("proposal-sent", lastId', None) \in GoodRecords[Prover]
    BY <1>1, NewGood, Parts
  <2>2. Proposal(lastId') \in Message
    BY <1>1, MessageTyped, NoPresentationType, Ends DEF Proposal, MessageTypes
  <2>3. Start(Prover, s, NewRecord("proposal-sent", lastId', None), Proposal(lastId'))
    BY <1>2 DEF CreateProposal
  <2> QED BY <2>1, <2>2, <2>3, StartKeeps, Ends
<1>3. CASE CreateRequest(s)
  <2>1. NewRecord("request-sent", lastId', lastId') \in GoodRecords[Verifier]
    BY <1>1, NewGood, Parts
  <2>2. RequestMsg(lastId') \in Message
    BY <1>1, MessageTyped, NoPresentationType, Ends DEF RequestMsg, MessageTypes
  <2>3. Start(Verifier, s, NewRecord("request-sent", lastId', lastId'), RequestMsg(lastId'))
    BY <1>3 DEF CreateRequest
  <2> QED BY <2>1, <2>2, <2>3, StartKeeps, Ends
<1> QED BY <1>2, <1>3

LEMMA RespondKeeps ==
  ASSUME Fits, AwaitFits, NEW s \in Slots,
         NEW r \in DOMAIN records[Prover], CreateProposalAsResponse(s, r)
  PROVE  Fits' /\ AwaitFits'
<1> DEFINE rec == records[Prover][r]
           new == [rec EXCEPT !.state = "proposal-sent"]
<1>1. rec \in Record /\ r \in Nat
  BY ReadGood, Ends
<1>2. /\ CallOn(Prover, s) /\ FreshId /\ net' = Put(net, Proposal(rec.thread))
      /\ Begin(Prover, s, "update", r, new, Nothing)
  BY DEF CreateProposalAsResponse, Update
<1>3. lastId' \in Ids /\ Counted' /\ UNCHANGED records
  BY <1>2, NetGood, FreshIds, CallsCount
<1>4. new \in GoodRecords[Prover]
  BY <1>1, Parts DEF ProverGood, Record, ProverStates
<1>5. Proposal(rec.thread) \in Message
  BY <1>1, <1>3, MessageTyped, NoPresentationType, Ends DEF Proposal, MessageTypes, Record
<1>6. DOMAIN net' \subseteq Message
  BY <1>2, <1>5, NetGood
<1> HIDE DEF new, rec
<1> QED BY <1>1, <1>2, <1>3, <1>4, <1>6, Writes, Ends

\* A record that is not judged is good when its state does not say it is.
LEMMA Unjudged ==
  ASSUME NEW rec \in Record, rec.isVerified = "unknown",
         rec.state \notin {"presentation-sent", "presentation-received", "done"}
  PROVE  rec \in GoodRecords[Verifier]
BY Parts DEF VerifierGood, Judged

LEMMA AcceptKeeps ==
  ASSUME Fits, AwaitFits, NEW a \in Agents, NEW s \in Slots, NEW r \in DOMAIN records[a],
         \/ a = Verifier /\ (AcceptProposal(s, r) \/ AcceptPresentation(s, r))
         \/ a = Prover /\ AcceptRequest(s, r)
  PROVE  Fits' /\ AwaitFits'
<1> DEFINE rec == records[a][r]
<1>1. rec \in GoodRecords[a] /\ rec \in Record /\ r \in Nat
  BY ReadGood
<1>2. Counted' /\ UNCHANGED <<records, net>> /\ DOMAIN net' \subseteq Message
  <2>1. CallOn(a, s) /\ (FreshId \/ UNCHANGED lastId) /\ UNCHANGED net
    BY DEF AcceptProposal, AcceptRequest, AcceptPresentation, CreateRequestAsResponse
  <2> QED BY <2>1, CallsCount, NetGood
<1>3. CASE a = Verifier /\ AcceptProposal(s, r)
  <2> DEFINE new == [rec EXCEPT !.state = "request-sent", !.request = lastId']
  <2>1. /\ Begin(a, s, "update", r, new, RequestMsg(rec.thread)) /\ lastId' \in Ids
        /\ rec.state = "proposal-received"
    BY <1>3, NetGood, FreshIds DEF AcceptProposal, CreateRequestAsResponse, Update
  <2>2. new \in GoodRecords[a]
    <3> HIDE DEF rec
    <3>1. new \in Record /\ new.isVerified = rec.isVerified /\ new.state = "request-sent"
      BY <1>1, <2>1 DEF Record, VerifierStates
    <3>2. rec.isVerified = "unknown"
      BY <1>1, <1>3, <2>1, Parts DEF VerifierGood, Judged
    <3> HIDE DEF new
    <3> QED BY <1>3, <3>1, <3>2, Unjudged
  <2>3. RequestMsg(rec.thread) \in Message
    BY <1>1, <2>1, MessageTyped, NoPresentationType, Ends DEF RequestMsg, MessageTypes, Record
  <2> HIDE DEF new, rec
  <2> QED BY <1>1, <1>2, <2>1, <2>2, <2>3, Writes
<1>4. CASE a = Verifier /\ AcceptPresentation(s, r)
  <2> DEFINE new == [rec EXCEPT !.state = "done"]
             out == Msg("ack", Prover, None, rec.thread, NoPresentation)
  <2>1. Begin(a, s, "update", r, new, out) /\ rec.state = "presentation-received"
    BY <1>4 DEF AcceptPresentation, CreateAck, Update
  <2>2. new \in GoodRecords[a]
    <3> HIDE DEF rec
    <3>1. /\ new \in Record /\ new.isVerified = rec.isVerified /\ new.state = "done"
          /\ new.request = rec.request /\ new.presentation = rec.presentation
      BY <1>1 DEF Record, VerifierStates
    <3>2. Judged(rec)
      BY <1>1, <1>4, Parts DEF VerifierGood
    <3> HIDE DEF new
    <3> QED BY <1>4, <2>1, <3>1, <3>2, Parts DEF VerifierGood, Judged
  <2>3. out \in Message
    BY <1>1, MessageTyped, NoPresentationType, Ends DEF MessageTypes, Record
  <2> HIDE DEF new, out, rec
  <2> QED BY <1>1, <1>2, <2>1, <2>2, <2>3, Writes
<1>5. CASE a = Prover /\ AcceptRequest(s, r)
  <2>1. PICK quality \in Qualities : CreatePresentation(s, r, rec, quality)
    BY <1>5 DEF AcceptRequest
  <2> DEFINE made == [request |-> rec.request, quality |-> quality]
             new == [rec EXCEPT !.presentation = made]
  <2>2. Begin(a, s, "createProof", r, new, Nothing) /\ rec.state = "request-received"
    BY <1>5, <2>1 DEF CreatePresentation
  <2>3. made \in Presentation /\ made.request = rec.request
    BY <1>1 DEF Presentation, Record
  <2>4. new \in GoodRecords[a] /\ Answers(new)
    <3> HIDE DEF made, rec
    <3>1. /\ new \in Record /\ new.presentation = made /\ new.request = rec.request
      BY <1>1, <2>3 DEF Record
    <3> HIDE DEF new
    <3> QED BY <1>5, <2>3, <3>1, Parts DEF ProverGood, Answers
  <2> HIDE DEF new, rec
  <2> QED BY <1>1, <1>2, <1>5, <2>2, <2>4, Awaits DEF PCs
<1> QED BY <1>3, <1>4, <1>5

LEMMA RefuseKeeps ==
  ASSUME Fits, AwaitFits, NEW a, NEW s, NEW m, NEW type, Receive(a, s, m, type), UNCHANGED task
  PROVE  Fits' /\ AwaitFits'
<1>1. UNCHANGED <<records, task>> /\ DOMAIN net' \subseteq Message /\ Counted'
  BY NetGood, ReceivesCount
<1>2. Fits'
  BY <1>1 DEF Fits, Held, ExchangeTypeOK, Fit, Counted
<1> QED BY <1>1, <1>2 DEF AwaitFits

LEMMA VerifierHandles ==
  ASSUME Fits, AwaitFits, NEW s \in Slots, NEW m \in DOMAIN net,
         ProcessProposal(s, m) \/ ProcessPresentation(s, m)
  PROVE  Fits' /\ AwaitFits'
<1>1. Counted' /\ UNCHANGED records /\ DOMAIN net' \subseteq Message /\ m \in Message
  BY NetGood, ReceivesCount DEF ProcessProposal, ProcessPresentation
<1>2. ASSUME NEW r, NEW state, Finds(Verifier, m.thread, state, r), r \in ByThread(Verifier, m.thread),
             state \notin {"presentation-received", "done"}
      PROVE  /\ records[Verifier][r] \in Record /\ r \in Nat
             /\ records[Verifier][r].isVerified = "unknown"
  <2>1. r \in DOMAIN records[Verifier] /\ records[Verifier][r].state = state
    BY <1>2 DEF Finds, ByThread
  <2>2. records[Verifier][r] \in Record /\ records[Verifier][r] \in VerifierGood /\ r \in Nat
    BY <2>1, ReadGood, Ends, Parts
  <2> QED BY <1>2, <2>1, <2>2 DEF VerifierGood, Judged
<1>3. CASE Save(Verifier, s, NewRecord("proposal-received", m.thread, None))
  <2>1. NewRecord("proposal-received", m.thread, None) \in GoodRecords[Verifier]
    BY <1>1, NewGood, Parts DEF Message
  <2>2. Begin(Verifier, s, "save", 0, NewRecord("proposal-received", m.thread, None), Nothing)
    BY <1>3 DEF Save, None
  <2> QED BY <1>1, <2>1, <2>2, Writes, Ends
<1>4. ASSUME NEW r \in ByThread(Verifier, m.thread), Finds(Verifier, m.thread, "request-sent", r),
             Update(Verifier, s, r,
                    [records[Verifier][r] EXCEPT !.state = "proposal-received"], Nothing)
      PROVE  Fits' /\ AwaitFits'
  <2> DEFINE rec == records[Verifier][r]
             new == [rec EXCEPT !.state = "proposal-received"]
  <2>1. rec \in Record /\ r \in Nat /\ rec.isVerified = "unknown"
    BY <1>2, <1>4
  <2>2. new \in GoodRecords[Verifier]
    <3> HIDE DEF rec
    <3>1. new \in Record /\ new.isVerified = "unknown" /\ new.state = "proposal-received"
      BY <2>1 DEF Record, VerifierStates
    <3> HIDE DEF new
    <3> QED BY <3>1, Unjudged
  <2>3. Begin(Verifier, s, "update", r, new, Nothing)
    BY <1>4 DEF Update
  <2> HIDE DEF new, rec
  <2> QED BY <1>1, <2>1, <2>2, <2>3, Writes, Ends
<1>5. ASSUME NEW r \in ByThread(Verifier, m.thread), Finds(Verifier, m.thread, "request-sent", r),
             Begin(Verifier, s, "verifyProof", r,
                   [records[Verifier][r] EXCEPT !.presentation = m.body], Nothing)
      PROVE  Fits' /\ AwaitFits'
  <2> DEFINE rec == records[Verifier][r]
             new == [rec EXCEPT !.presentation = m.body]
  <2>1. rec \in Record /\ r \in Nat /\ rec.isVerified = "unknown" /\ rec.state = "request-sent"
    BY <1>2, <1>5 DEF Finds
  <2>2. new \in GoodRecords[Verifier]
    <3> HIDE DEF rec
    <3>1. m.body \in Presentation
      BY <1>1 DEF Message
    <3>2. new \in Record /\ new.isVerified = "unknown" /\ new.state = "request-sent"
      BY <2>1, <3>1 DEF Record
    <3> HIDE DEF new
    <3> QED BY <3>2, Unjudged
  <2>3. Begin(Verifier, s, "verifyProof", r, new, Nothing)
    BY <1>5
  <2> HIDE DEF new, rec
  <2> QED BY <1>1, <2>1, <2>2, <2>3, Awaits, Ends DEF PCs
<1>6. CASE ProcessProposal(s, m)
  BY <1>3, <1>4, <1>6 DEF ProcessProposal
<1>7. CASE ProcessPresentation(s, m)
  BY <1>5, <1>7, RefuseKeeps DEF ProcessPresentation
<1> QED BY <1>6, <1>7

LEMMA ProverHandles ==
  ASSUME Fits, AwaitFits, NEW s \in Slots, NEW m \in DOMAIN net,
         ProcessRequest(s, m) \/ ProcessAck(s, m)
  PROVE  Fits' /\ AwaitFits'
<1>1. Counted' /\ UNCHANGED records /\ DOMAIN net' \subseteq Message /\ m \in Message
  BY NetGood, ReceivesCount DEF ProcessRequest, ProcessAck
<1>2. ASSUME NEW r \in ByThread(Prover, m.thread)
      PROVE  /\ records[Prover][r] \in Record /\ records[Prover][r] \in ProverGood
             /\ r \in Nat
  <2>1. r \in DOMAIN records[Prover]
    BY DEF ByThread
  <2> QED BY <2>1, ReadGood, Ends, Parts
<1>3. CASE Save(Prover, s, NewRecord("request-received", m.thread, m.id))
  <2>1. NewRecord("request-received", m.thread, m.id) \in GoodRecords[Prover]
    BY <1>1, NewGood, Parts DEF Message
  <2>2. Begin(Prover, s, "save", 0, NewRecord("request-received", m.thread, m.id), Nothing)
    BY <1>3 DEF Save, None
  <2> QED BY <1>1, <2>1, <2>2, Writes, Ends
<1>4. ASSUME NEW r \in ByThread(Prover, m.thread),
             Update(Prover, s, r, [records[Prover][r] EXCEPT !.state = "request-received",
                                                             !.request = m.id], Nothing)
      PROVE  Fits' /\ AwaitFits'
  <2> DEFINE rec == records[Prover][r]
             new == [rec EXCEPT !.state = "request-received", !.request = m.id]
  <2>1. rec \in Record /\ r \in Nat
    BY <1>2
  <2>2. new \in GoodRecords[Prover]
    <3> HIDE DEF rec
    <3>1. m.id \in Ids \cup {None}
      BY <1>1 DEF Message
    <3>2. new \in Record /\ new.state = "request-received"
      BY <2>1, <3>1 DEF Record, ProverStates
    <3> HIDE DEF new
    <3> QED BY <3>2, Parts DEF ProverGood
  <2>3. Begin(Prover, s, "update", r, new, Nothing)
    BY <1>4 DEF Update
  <2> HIDE DEF new, rec
  <2> QED BY <1>1, <2>1, <2>2, <2>3, Writes, Ends
<1>5. ASSUME NEW r \in ByThread(Prover, m.thread),
             Finds(Prover, m.thread, "presentation-sent", r),
             Update(Prover, s, r, [records[Prover][r] EXCEPT !.state = "done"], Nothing)
      PROVE  Fits' /\ AwaitFits'
  <2> DEFINE rec == records[Prover][r]
             new == [rec EXCEPT !.state = "done"]
  <2>1. rec \in Record /\ r \in Nat /\ Answers(rec)
    BY <1>2, <1>5 DEF Finds, ProverGood
  <2>2. new \in GoodRecords[Prover]
    <3> HIDE DEF rec
    <3>1. new \in Record /\ new.request = rec.request /\ new.presentation = rec.presentation
      BY <2>1 DEF Record, ProverStates
    <3> HIDE DEF new
    <3> QED BY <2>1, <3>1, Parts DEF ProverGood, Answers
  <2>3. Begin(Prover, s, "update", r, new, Nothing)
    BY <1>5 DEF Update
  <2> HIDE DEF new, rec
  <2> QED BY <1>1, <2>1, <2>2, <2>3, Writes, Ends
<1>6. CASE ProcessRequest(s, m)
  BY <1>3, <1>4, <1>6 DEF ProcessRequest
<1>7. CASE ProcessAck(s, m)
  BY <1>5, <1>7 DEF ProcessAck
<1> QED BY <1>6, <1>7

\* The proof library has answered.
LEMMA CreateProofKeeps ==
  ASSUME Fits, AwaitFits, NEW s \in Slots, CreateProof(s)
  PROVE  Fits' /\ AwaitFits'
<1> DEFINE t == task[Prover][s]
           new == [t.rec EXCEPT !.state = "presentation-sent"]
           out == Msg("presentation", Verifier, None, t.rec.thread, t.rec.presentation)
<1>1. t.pc = "createProof" /\ Answers(t.rec) /\ Begin(Prover, s, "update", t.at, new, out)
  BY Ends DEF CreateProof, Update, AwaitFits
<1>2. Counted' /\ UNCHANGED records /\ DOMAIN net' \subseteq Message
  <2>1. UNCHANGED <<records, net, starts, lastId, mishaps, happened>>
    BY DEF CreateProof
  <2> QED BY <2>1, NetGood DEF Counted
<1>3. t \in Task(Record, Message, PCs) /\ t.rec \in GoodRecords[Prover]
  BY <1>1, Ends DEF Fits, Held, Fit, PCs, Task, ExchangeTypeOK
<1>4. t.at \in Nat /\ t.rec \in Record
  <2> HIDE DEF t
  <2> QED BY <1>3, Parts, Ends DEF Task
<1>5. new \in GoodRecords[Prover]
  <2> HIDE DEF t
  <2>1. /\ new \in Record /\ new.request = t.rec.request
        /\ new.presentation = t.rec.presentation
    BY <1>4 DEF Record, ProverStates
  <2> HIDE DEF new
  <2> QED BY <1>1, <2>1, Parts DEF ProverGood, Answers
<1>6. out \in Message
  <2> HIDE DEF t
  <2> QED BY <1>4, MessageTyped, Ends DEF MessageTypes, Record
<1> HIDE DEF t, new, out
<1> QED BY <1>1, <1>2, <1>4, <1>5, <1>6, Writes, Ends

LEMMA VerifyProofKeeps ==
  ASSUME Fits, AwaitFits, NEW s \in Slots, VerifyProof(s)
  PROVE  Fits' /\ AwaitFits'
<1> DEFINE t == task[Verifier][s]
           verdict == IF IndyVerifies(t.rec.request, t.rec.presentation)
                      THEN "verified" ELSE "rejected"
           new == [t.rec EXCEPT !.state = "presentation-received", !.isVerified = verdict]
<1>1. t.pc = "verifyProof" /\ Begin(Verifier, s, "update", t.at, new, Nothing)
  BY DEF VerifyProof, Update
<1>2. Counted' /\ UNCHANGED records /\ DOMAIN net' \subseteq Message
  <2>1. UNCHANGED <<records, net, starts, lastId, mishaps, happened>>
    BY DEF VerifyProof
  <2> QED BY <2>1, NetGood DEF Counted
<1>3. t \in Task(Record, Message, PCs) /\ t.rec \in GoodRecords[Verifier]
  BY <1>1, Ends DEF Fits, Held, Fit, PCs, Task, ExchangeTypeOK
<1>4. t.at \in Nat /\ t.rec \in Record
  <2> HIDE DEF t
  <2> QED BY <1>3, Parts, Ends DEF Task
<1>5. new \in GoodRecords[Verifier]
  <2>1. verdict \in {"verified", "rejected"}
    OBVIOUS
  <2>2. verdict = "verified" <=> IndyVerifies(t.rec.request, t.rec.presentation)
    OBVIOUS
  <2> HIDE DEF t, verdict
  <2>3. /\ new \in Record /\ new.request = t.rec.request
        /\ new.presentation = t.rec.presentation
        /\ new.state = "presentation-received" /\ new.isVerified = verdict
    BY <1>4, <2>1 DEF Record, VerifierStates, Verdicts
  <2> HIDE DEF new
  <2> QED BY <2>1, <2>2, <2>3, Parts DEF VerifierGood, Judged
<1> HIDE DEF t, new
<1> QED BY <1>1, <1>2, <1>4, <1>5, Writes, Ends

LEMMA ProceedKeeps ==
  ASSUME Fits, AwaitFits, NEW a \in Agents, NEW s \in Slots,
         SaveRecord(a, s) \/ UpdateRecord(a, s) \/ Send(a, s)
  PROVE  Fits' /\ AwaitFits'
<1>1. Fits'
  BY SaveStep, UpdateStep, SendStep DEF Fits
<1>2. \A b \in Agents, q \in Slots : task'[b][q].pc \in PCs => task'[b][q] = task[b][q]
  <2>1. PICK t : task' = [task EXCEPT ![a][s] = t] /\ t.pc \notin PCs
    <3>1. CASE task' = [task EXCEPT ![a][s] = Idle]
      <4>1. Idle.pc \notin PCs
        BY DEF Idle, PCs
      <4> HIDE DEF Idle
      <4> QED BY <3>1, <4>1
    <3>2. CASE task' = [task EXCEPT ![a][s].pc = "send"]
      <4>1. [task[a][s] EXCEPT !.pc = "send"].pc \notin PCs
        BY DEF Fits, Held, ExchangeTypeOK, PCs
      <4>2. task' = [task EXCEPT ![a][s] = [task[a][s] EXCEPT !.pc = "send"]]
        BY <3>2 DEF Fits, Held, ExchangeTypeOK
      <4> QED BY <4>1, <4>2
    <3> QED BY <3>1, <3>2 DEF SaveRecord, UpdateRecord, Send, End
  <2>2. \A b \in Agents, q \in Slots :
          task'[b][q] = IF b = a /\ q = s THEN t ELSE task[b][q]
    BY <2>1 DEF Fits, Held, ExchangeTypeOK
  <2> QED BY <2>1, <2>2
<1> QED BY <1>1, <1>2 DEF AwaitFits, PCs

LEMMA FaultKeeps ==
  ASSUME Fits, AwaitFits, Fault
  PROVE  Fits' /\ AwaitFits'
<1>1. Fits'
  BY FaultStep DEF Fits
<1>2. CASE UNCHANGED task
  BY <1>1, <1>2 DEF AwaitFits
<1>3. ASSUME NEW a \in Agents, Crash(a) PROVE AwaitFits'
  <2>1. \A b \in Agents, q \in Slots :
          task'[b][q] = IF b = a THEN Idle ELSE task[b][q]
    BY <1>3 DEF Crash, Fits, Held, ExchangeTypeOK
  <2>2. Idle.pc = "idle"
    BY DEF Idle
  <2> HIDE DEF Idle
  <2> QED BY <2>1, <2>2 DEF AwaitFits
<1> QED BY <1>1, <1>2, <1>3 DEF Fault, Lose, Duplicate

\* A call fails: the task ends, or saves the record it takes to be missing.
LEMMA FailureKeeps ==
  ASSUME Fits, AwaitFits, NEW a \in Agents, NEW s \in Slots, CallFails(a, s)
  PROVE  Fits' /\ AwaitFits'
<1> DEFINE t == task[a][s]
           proposed == NewRecord("proposal-received", t.rec.thread, None)
           requested == NewRecord("request-received", t.rec.thread, t.rec.request)
<1>1. /\ UNCHANGED <<net, starts, lastId>> /\ Strikes("refuse")
      /\ \/ task' = [task EXCEPT ![a][s] = Idle] /\ UNCHANGED records
         \/ /\ t.pc = "update" /\ (Save(a, s, proposed) \/ Save(a, s, requested))
            /\ UNCHANGED records \/ records' = [records EXCEPT ![a][t.at] = t.rec]
  BY DEF CallFails, InTry, Throws, Catches, End
<1>2. Counted' /\ DOMAIN net' \subseteq Message
  BY <1>1, NetGood, StrikesCount DEF FaultKinds
<1>3. CASE task' = [task EXCEPT ![a][s] = Idle] /\ UNCHANGED records
  <2>1. Good(Idle, Record, Message, PCs, GoodRecords, Message, a)
    BY IdleGood DEF Fits
  <2>2. Idle.pc = "idle"
    BY DEF Idle
  <2> HIDE DEF Idle, t
  <2> QED BY <1>1, <1>2, <1>3, <2>1, <2>2, Begun
<1>4. CASE /\ t.pc = "update" /\ (Save(a, s, proposed) \/ Save(a, s, requested))
           /\ UNCHANGED records \/ records' = [records EXCEPT ![a][t.at] = t.rec]
  <2>1. t.rec \in GoodRecords[a]
    BY <1>4 DEF Fits, Held, Fit
  <2>2. t.rec.thread \in Ids /\ t.rec.request \in Ids \cup {None}
    <3> HIDE DEF t
    <3> QED BY <2>1, Parts DEF Record
  <2>3. proposed \in GoodRecords[a] /\ requested \in GoodRecords[a]
    BY <2>2, NewGood DEF GoodRecords
  <2> HIDE DEF proposed, requested, t
  <2>4. Begin(a, s, "save", 0, proposed, Nothing) \/ Begin(a, s, "save", 0, requested, Nothing)
    BY <1>4 DEF Save, None
  <2>5. CASE UNCHANGED records
    BY <1>1, <1>2, <2>3, <2>4, <2>5, Writes
  <2>6. CASE records' = [records EXCEPT ![a][t.at] = t.rec]
    BY <1>2, <1>4, <2>3, <2>4, <2>6, Rewrites DEF t
  <2> QED BY <1>4, <2>5, <2>6
<1> HIDE DEF proposed, requested, t
<1> QED BY <1>1, <1>3, <1>4

-----------------------------------------------------------------------------
(* The invariant                                                             *)

LEMMA InvStep == ProofInv /\ [Next]_vars => ProofInv'
<1> SUFFICES ASSUME Fits, AwaitFits, [Next]_vars PROVE Fits' /\ AwaitFits'
  BY DEF ProofInv
<1>1. CASE UNCHANGED vars
  <2>1. UNCHANGED <<records, task, net, starts, lastId, mishaps, happened>>
    BY <1>1 DEF vars, exchangeVars
  <2> QED BY <2>1 DEF Fits, Held, ExchangeTypeOK, Fit, AwaitFits
<1>2. CASE Begins
  BY <1>2, StartsKeep, RespondKeeps DEF Begins, ProposeProof, RequestProof
<1>3. ASSUME NEW a \in Agents, NEW s \in Slots, Accept(a, s) PROVE Fits' /\ AwaitFits'
  BY <1>3, AcceptKeeps DEF Accept
<1>4. ASSUME NEW a \in Agents, NEW s \in Slots, Handle(a, s) PROVE Fits' /\ AwaitFits'
  BY <1>4, VerifierHandles, ProverHandles, RefuseKeeps DEF Handle, Refuse, Refuses
<1>5. ASSUME NEW a \in Agents, NEW s \in Slots, Proceed(a, s) PROVE Fits' /\ AwaitFits'
  BY <1>5, ProceedKeeps, CreateProofKeeps, VerifyProofKeeps DEF Proceed
<1>6. CASE Fault \/ \E a \in Agents, s \in Slots : CallFails(a, s)
  BY <1>6, FaultKeeps, FailureKeeps
<1> QED BY <1>1, <1>2, <1>3, <1>4, <1>5, <1>6 DEF Next

\* What agents hold and what is on its way has its type, a prover's record that was
\* presented answers its request, and a verifier's verdict is indy's.
THEOREM ProofInvariant == Spec => []ProofInv
<1> QED BY InitEstablishes, InvStep, PTL DEF Spec

\* Records, tasks and messages have their types.
THEOREM ProofTypeOK == Spec => []TypeOK
<1>1. ProofInv => TypeOK
  BY DEF ProofInv, Fits, Held, PCs, TypeOK
<1> QED BY <1>1, ProofInvariant, PTL

\* A verifier's record says of a presentation what indy says of it and the request of
\* the same record, however many tasks overlap, messages double and processes crash.
THEOREM ProofVerdictFits == Spec => []VerdictFits
<1>1. ASSUME ProofInv PROVE VerdictFits
  <2>1. ASSUME NEW r \in DOMAIN records[Verifier] PROVE Judged(records[Verifier][r])
    BY <1>1, ReadGood, Ends, Parts DEF ProofInv, VerifierGood
  <2> QED BY <2>1 DEF VerdictFits, Judged
<1> QED BY <1>1, ProofInvariant, PTL

\* A prover's record that says it was presented holds a presentation made for the
\* request it names, on the same terms.
THEOREM ProofPresentsWhatWasAsked == Spec => []PresentsWhatWasAsked
<1>1. ASSUME ProofInv PROVE PresentsWhatWasAsked
  <2>1. ASSUME NEW r \in DOMAIN records[Prover] PROVE records[Prover][r] \in ProverGood
    BY <1>1, ReadGood, Ends, Parts DEF ProofInv
  <2> QED BY <2>1 DEF PresentsWhatWasAsked, ProverGood, Answers
<1> QED BY <1>1, ProofInvariant, PTL
-----------------------------------------------------------------------------
(* Undisturbed, each exchange is at one of a few stages                      *)

StateOf(x) == IF x = Nothing THEN "none" ELSE x.state
TypeOf(m) == IF m = Nothing THEN "none" ELSE m.type

\* The prover's record p, the verifier's record v and the message m of thread u, when
\* all that tasks have decided on is done.  A message that is lost, or refused by
\* verifyProof, leaves the rest as it is.
Stages(p, v, m) ==
  \/ p = "none" /\ v = "none" /\ m = "none"
  \/ p = "none" /\ v = "request-sent" /\ m \in {"none", "request"}
  \/ p = "proposal-sent" /\ v = "none" /\ m \in {"none", "propose"}
  \/ p = "proposal-sent" /\ v = "proposal-received" /\ m = "none"
  \/ p = "proposal-sent" /\ v = "request-sent" /\ m \in {"none", "propose", "request"}
  \/ p = "request-received" /\ v = "request-sent" /\ m = "none"
  \/ p = "presentation-sent" /\ v = "request-sent" /\ m \in {"none", "presentation"}
  \/ p = "presentation-sent" /\ v = "presentation-received" /\ m = "none"
  \/ p = "presentation-sent" /\ v = "done" /\ m \in {"none", "ack"}
  \/ p = "done" /\ v = "done" /\ m = "none"

Stage(u, p, v, m) ==
  /\ p \in Record \cup {Nothing} /\ v \in Record \cup {Nothing} /\ m \in Message \cup {Nothing}
  /\ Stages(StateOf(p), StateOf(v), TypeOf(m))
  /\ StateOf(v) \in {"presentation-received", "done"} => p.presentation = v.presentation
  /\ TypeOf(m) = "presentation" => m.body = p.presentation
  /\ StateOf(v) \in {"request-sent", "presentation-received", "done"} => v.request \in Ids
  /\ StateOf(p) \in {"request-received", "presentation-sent", "done"} => p.request = v.request
  /\ TypeOf(m) = "request" => m.id = v.request

\* An agent awaits the proof library for thread u.
Awaiting(a, pc, u) == Doing[a].pc = pc /\ Doing[a].rec.thread = u

AwaitedFits(u, p, v, m) ==
  /\ Awaiting(Prover, "createProof", u) =>
       StateOf(p) = "request-received" /\ Doing[Prover].rec.request = p.request
  /\ Awaiting(Verifier, "verifyProof", u) =>
       /\ StateOf(p) = "presentation-sent" /\ StateOf(v) = "request-sent" /\ m = Nothing
       /\ Doing[Verifier].rec.presentation = p.presentation
       /\ Doing[Verifier].rec.request = v.request

ThreadFits(u, p, v, m) ==
  /\ Seen(Prover, Verifier, u, p, v, m)
  /\ Stage(u, p, v, m)
  /\ u > lastId => p = Nothing /\ v = Nothing /\ m = Nothing
  /\ v # Nothing => v.request <= lastId
  /\ AwaitedFits(u, p, v, m)

\* No request is made in two threads.
Distinct ==
  \A u, w \in Ids : \A x \in Recs(Verifier, u), y \in Recs(Verifier, w) :
    x.request = y.request => x.request = None \/ u = w

ThreadsFit == Distinct /\ \A u \in Ids : \E p, v, m : ThreadFits(u, p, v, m)

\* What the verifier asks in y is what it asked in x, or nothing, or was never asked.
Renews(x, y) ==
  \/ y = Nothing
  \/ y.request = None
  \/ x # Nothing /\ y.request = x.request
  \/ lastId' = lastId + 1 /\ y.request = lastId'

\* What an update that is under way makes of a record: from which state to which, and
\* with which message.
Moves(x, y, m) ==
  \/ x = "proposal-sent" /\ y = "request-received" /\ m = "none"
  \/ x = "request-received" /\ y = "proposal-sent" /\ m = "none"
  \/ x = "request-received" /\ y = "presentation-sent" /\ m = "presentation"
  \/ x = "presentation-sent" /\ y = "done" /\ m = "none"
  \/ x = "proposal-received" /\ y = "request-sent" /\ m = "request"
  \/ x = "request-sent" /\ y = "proposal-received" /\ m = "none"
  \/ x = "request-sent" /\ y = "presentation-received" /\ m = "none"
  \/ x = "presentation-received" /\ y = "done" /\ m = "ack"

Succeeds(x, y, out) ==
  /\ Moves(x.state, y.state, TypeOf(out))
  /\ y.state = "done" => y.presentation = x.presentation /\ y.isVerified = x.isVerified
  /\ y.state \notin {"request-sent", "request-received"} => y.request = x.request
  /\ out # Nothing => out.thread = y.thread

Changes(x, y, m) == Moves(x, y, m) \/ Moves(x, y, "none")

\* x is y, or the record an update with message m makes y of.
Before(x, y, m) == x = y \/ \E out : Succeeds(x, y, out) /\ (out # Nothing => out = m)

WriteFits(recs, t) ==
  /\ t.pc = "save" =>
       t.rec.state \in {"proposal-sent", "request-sent", "proposal-received", "request-received"}
  /\ t.pc = "update" => Succeeds(recs[t.at], t.rec, t.out)

Orderly ==
  /\ Serial
  /\ ThreadsFit
  /\ \A a \in Agents : WriteFits(records[a], Doing[a])

SerialInv == Spared(Disturbing) => Orderly

-----------------------------------------------------------------------------
LEMMA ProofShaped == ProofInv => Shaped(Record, Message, PCs)
<1> SUFFICES ASSUME ProofInv PROVE Shaped(Record, Message, PCs)
  OBVIOUS
<1>1. Held(Record, Message, PCs, GoodRecords, Message)
  BY DEF ProofInv, Fits
<1>2. /\ \A a \in Agents : GoodRecords[a] \subseteq Record
      /\ ExchangeTypeOK(Record, Message, PCs) /\ Fit(PCs, GoodRecords, Message)
  BY <1>1 DEF Held
<1>3. Nothing \notin DOMAIN net
  BY <1>2, NothingAssumption DEF Fit
<1>4. \A a \in Agents, s \in Slots :
        /\ task[a][s].pc \in {"save", "update"} => task[a][s].rec \in Record
        /\ task[a][s].pc = "send" => task[a][s].out # Nothing
  BY <1>2 DEF Fit
<1>5. records \in [Agents -> Seq(Record)]
      /\ task \in [Agents -> [Slots -> Task(Record, Message, PCs)]]
  BY <1>2 DEF ExchangeTypeOK, Task
<1>6. (\A rec \in Record : rec.thread \in Ids) /\ \A m \in Message : m.to \in Agents /\ m.thread \in Ids
  BY DEF Record, Message
<1> QED BY <1>3, <1>4, <1>5, <1>6 DEF Shaped

\* Nothing changes in the other threads.
LEMMA OneThread ==
  ASSUME ProofInv, ThreadsFit, NEW a \in Agents, NEW t, Doing' = [Doing EXCEPT ![a] = t],
         Decides(a, t), lastId' \in Nat, lastId' >= lastId,
         NEW u \in Ids, t.pc \in {"save", "update"} \cup PCs => t.rec.thread = u,
         \A w \in Ids : w # u => Way(w)' = Way(w),
         NEW x, Recs(Verifier, u) = Opt(x), NEW y, Recs(Verifier, u)' = Opt(y), Renews(x, y),
         \E p, m : ThreadFits(u, p, y, m)'
  PROVE  ThreadsFit'
<1>1. lastId \in Nat
  BY DEF ProofInv, Fits, Held, ExchangeTypeOK
<1>2. \A w \in Ids \ {u} : /\ Recs(Prover, w)' = Recs(Prover, w)
                           /\ Recs(Verifier, w)' = Recs(Verifier, w)
                           /\ Way(w)' = Way(w)
  BY Ends DEF Decides
<1>3. ASSUME NEW w \in Ids, w # u PROVE \E p, v, m : ThreadFits(w, p, v, m)'
  <2>1. PICK p, v, m : ThreadFits(w, p, v, m)
    BY DEF ThreadsFit
  <2>2. Seen(Prover, Verifier, w, p, v, m)'
    BY <1>2, <1>3, <2>1 DEF ThreadFits, Seen
  <2>3. (w > lastId' => w > lastId) /\ (v # Nothing => v.request <= lastId')
    <3>1. v # Nothing => v.request \in Nat /\ v.request <= lastId
      BY <2>1 DEF ThreadFits, Stage, Record, Ids, None
    <3> QED BY <1>1, <3>1 DEF Ids
  <2>4. \A b \in Agents, pc \in PCs :
          Awaiting(b, pc, w)' => Awaiting(b, pc, w) /\ Doing'[b] = Doing[b]
    <3>1. \A b \in Agents : Doing'[b] = IF b = a THEN t ELSE Doing[b]
      BY DEF Doing
    <3> QED BY <1>3, <3>1 DEF Awaiting
  <2>5. AwaitedFits(w, p, v, m)'
    BY <2>1, <2>4, Ends DEF ThreadFits, AwaitedFits, PCs
  <2> QED BY <2>1, <2>2, <2>3, <2>5 DEF ThreadFits, Stage
<1>4. ASSUME NEW w \in Ids, w # u, NEW z \in Recs(Verifier, w)
      PROVE  z.request \in Nat /\ z.request <= lastId
  <2>1. PICK p, v, m : ThreadFits(w, p, v, m)
    BY DEF ThreadsFit
  <2>2. z = v /\ v # Nothing
    BY <1>4, <2>1 DEF ThreadFits, Seen, Opt
  <2> QED BY <2>1, <2>2 DEF ThreadFits, Stage, Record, Ids, None
<1>5. ASSUME NEW w \in Ids, w # u, NEW z \in Recs(Verifier, w), y # Nothing, z.request = y.request
      PROVE  y.request = None
  <2>1. z.request \in Nat /\ z.request <= lastId
    BY <1>4, <1>5
  <2>2. ASSUME x # Nothing, y.request = x.request PROVE y.request = None
    BY <1>5, <2>2 DEF ThreadsFit, Distinct, Opt
  <2> QED BY <1>1, <1>5, <2>1, <2>2 DEF Renews
<1>6. Distinct'
  <2> SUFFICES ASSUME NEW w \in Ids, NEW k \in Ids, w # k,
                      NEW z \in Recs(Verifier, w)', NEW o \in Recs(Verifier, k)',
                      z.request = o.request
               PROVE  z.request = None
    BY DEF Distinct
  <2>1. CASE w = u
    BY <1>2, <1>5, <2>1 DEF Opt
  <2>2. CASE k = u
    BY <1>2, <1>5, <2>2 DEF Opt
  <2>3. CASE w # u /\ k # u
    BY <1>2, <2>3 DEF ThreadsFit, Distinct
  <2> QED BY <2>1, <2>2, <2>3
<1> QED BY <1>3, <1>6 DEF ThreadsFit

\* When the application has to decide something, no message is on its way.
LEMMA Unsent ==
  ASSUME NEW u, NEW p, NEW v, NEW m, Stage(u, p, v, m),
         \/ StateOf(p) = "request-received"
         \/ StateOf(v) \in {"proposal-received", "presentation-received"}
  PROVE  m = Nothing
BY DEF Stage, Stages, TypeOf, Message, MessageTypes

\* An update is under way only where one has begun.
LEMMA WritesFit ==
  ASSUME Orderly, NEW a \in Agents, NEW t, Doing' = [Doing EXCEPT ![a] = t],
         UNCHANGED records, WriteFits(records[a], t)
  PROVE  \A b \in Agents : WriteFits(records[b], Doing[b])'
<1>1. \A b \in Agents : Doing'[b] = IF b = a THEN t ELSE Doing[b]
  BY DEF Doing
<1> QED BY <1>1 DEF Orderly, WriteFits

\* The ids of requests have been given out.
LEMMA Asked ==
  ASSUME NEW x, NEW y, Renews(x, y), lastId \in Nat, lastId' \in Nat, lastId' >= lastId,
         x \in Record \cup {Nothing}, x # Nothing => x.request <= lastId
  PROVE  y # Nothing => y.request <= lastId'
<1> SUFFICES ASSUME y # Nothing PROVE y.request <= lastId'
  OBVIOUS
<1>1. CASE x # Nothing /\ y.request = x.request
  <2>1. x.request \in Nat
    BY <1>1 DEF Record, Ids, None
  <2> QED BY <1>1, <2>1
<1>2. CASE y.request = None
  BY <1>2 DEF None
<1> QED BY <1>1, <1>2 DEF Renews

\* A call of the application on a record: it is updated, or its proof is awaited.
LEMMA AcceptFits ==
  ASSUME ProofInv, Orderly, Spared(Disturbing)',
         NEW a \in Agents, NEW s \in Slots, Enter(a, s), UNCHANGED <<records, net>>,
         lastId' \in Nat, lastId' >= lastId,
         NEW r \in DOMAIN records[a], NEW rec \in Record, rec = records[a][r],
         NEW t, TurnsTo(a, s, t), t.at = r, t.rec \in Record, t.rec.thread = rec.thread,
         t.pc = "update" \/ (a = Prover /\ t.pc = "createProof"),
         NEW out \in Message \cup {Nothing}, t.out = out,
         out # Nothing => t.pc = "update" /\ out.thread = rec.thread /\ out.to # a,
         WriteFits(records[a], t),
         IF a = Prover THEN rec.state = "request-received"
                       ELSE rec.state \in {"proposal-received", "presentation-received"},
         NEW new, new = (IF t.pc = "update" THEN t.rec ELSE rec), Renews(rec, new),
         t.pc = "createProof" => t.rec.request = rec.request,
         \A p, v : /\ a = Prover /\ Stage(rec.thread, rec, v, Nothing)
                        => Stage(rec.thread, new, v, out)
                   /\ a = Verifier /\ Stage(rec.thread, p, rec, Nothing)
                        => Stage(rec.thread, p, new, out)
  PROVE  Orderly'
<1>1. PICK u : u = rec.thread
  OBVIOUS
<1>2. u \in Ids /\ rec # Nothing /\ t.rec # Nothing /\ new # Nothing
  BY <1>1, NothingAssumption DEF Record
<1>3. Shaped(Record, Message, PCs) /\ Serial
  BY ProofShaped DEF Orderly
<1>4. Settled[a] = records[a] /\ Recs(a, u) = {rec}
  BY <1>1, <1>3, EnteredSettled, ReadSeen
<1>5. PICK p, v, m : ThreadFits(u, p, v, m)
  BY <1>2 DEF Orderly, ThreadsFit
<1>6. (a = Prover => p = rec) /\ (a = Verifier => v = rec) /\ (a = Prover \/ a = Verifier)
  <2>1. Recs(Prover, u) = Opt(p) /\ Recs(Verifier, u) = Opt(v)
    BY <1>5 DEF ThreadFits, Seen
  <2> QED BY <1>4, <2>1, AgentsAssumption DEF Opt
<1>7. m = Nothing
  BY <1>2, <1>5, <1>6, Unsent, Ends DEF ThreadFits, StateOf
<1>8. Way(u) = {}
  BY <1>5, <1>7 DEF ThreadFits, Seen, Opt
<1>9. Fitting(a, records[a], t)
  BY DEF Fitting, AtFits, OutFits
<1>10. /\ Serial' /\ Decides(a, t) /\ Doing[a] = Idle /\ Doing' = [Doing EXCEPT ![a] = t]
       /\ WayMayGain(out)
  <2>1. /\ t.pc # "idle" /\ (t.pc \in {"save", "update"} => t.rec \in Record)
        /\ (out # Nothing => out.thread \in Ids /\ Way(out.thread) = {})
    BY <1>1, <1>2, <1>8
  <2> QED BY <1>3, <1>9, <2>1, Accepts
<1>11. PICK p2, v2 : p2 = (IF a = Prover THEN new ELSE p) /\ v2 = (IF a = Prover THEN v ELSE new)
  OBVIOUS
<1>12. Seen(Prover, Verifier, u, p2, v2, out)'
  <2>1. Seen(Prover, Verifier, u, p, v, m)
    BY <1>5 DEF ThreadFits
  <2>2. Recs(Prover, u)' = Opt(p2) /\ Recs(Verifier, u)' = Opt(v2)
    BY <1>1, <1>2, <1>6, <1>10, <1>11, <2>1, Ends DEF Decides, Seen, Opt
  <2>3. Way(u)' = Opt(out)
    BY <1>1, <1>2, <1>8, <1>10 DEF WayMayGain, WayGains, Opt
  <2> QED BY <2>2, <2>3 DEF Seen
<1>13. Stage(u, p2, v2, out)
  BY <1>1, <1>5, <1>6, <1>7, <1>11, Ends DEF ThreadFits
<1>14. ~(u > lastId') /\ Renews(v, v2) /\ (v2 # Nothing => v2.request <= lastId')
  <2>1. lastId \in Nat
    BY DEF ProofInv, Fits, Held, ExchangeTypeOK
  <2>2. Renews(v, v2)
    BY <1>2, <1>6, <1>11, Ends DEF Renews
  <2>3. v2 # Nothing => v2.request <= lastId'
    BY <1>5, <2>1, <2>2, Asked DEF ThreadFits, Stage
  <2> QED BY <1>2, <1>5, <1>6, <2>1, <2>2, <2>3 DEF ThreadFits, Ids
<1>15. AwaitedFits(u, p2, v2, out)'
  <2>1. \A b \in Agents : Doing'[b] = IF b = a THEN t ELSE Doing[b]
    BY <1>10 DEF Doing
  <2>2. a = Prover => ~Awaiting(Verifier, "verifyProof", u)
    BY <1>2, <1>5, <1>6, Ends DEF ThreadFits, AwaitedFits, StateOf
  <2>3. a = Verifier => ~Awaiting(Prover, "createProof", u)
    BY <1>2, <1>5, <1>6, Ends DEF ThreadFits, AwaitedFits, Stage, Stages, StateOf
  <2>4. Awaiting(Prover, "createProof", u)' =>
          a = Prover /\ new = rec /\ Doing'[Prover].rec.request = rec.request
    BY <1>6, <2>1, <2>3, Ends DEF Awaiting
  <2>5. ~Awaiting(Verifier, "verifyProof", u)'
    BY <1>6, <2>1, <2>2, Ends DEF Awaiting
  <2> QED BY <1>2, <1>11, <2>4, <2>5 DEF AwaitedFits, StateOf
<1>16. ThreadFits(u, p2, v2, out)'
  BY <1>12, <1>13, <1>14, <1>15 DEF ThreadFits, Stage
<1>17. \A w \in Ids : w # u => Way(w)' = Way(w)
  BY <1>1, <1>10 DEF WayMayGain, WayGains
<1>18. ThreadsFit'
  <2>1. Recs(Verifier, u) = Opt(v) /\ Recs(Verifier, u)' = Opt(v2)
    BY <1>5, <1>12 DEF ThreadFits, Seen
  <2> QED BY <1>1, <1>2, <1>10, <1>14, <1>16, <1>17, <2>1, OneThread DEF Orderly, PCs
<1> QED BY <1>10, <1>18, WritesFit DEF Orderly

\* An exchange begins with one record and one message.
LEMMA StartFits ==
  ASSUME ProofInv, Orderly, Spared(Disturbing)',
         NEW a \in Agents, NEW s \in Slots, NEW rec \in Record, NEW m \in Message,
         Start(a, s, rec, m), rec.thread = lastId', m.thread = lastId',
         rec.state = (IF a = Prover THEN "proposal-sent" ELSE "request-sent"),
         rec.request \in {None, lastId'},
         Stage(lastId', IF a = Prover THEN rec ELSE Nothing, IF a = Prover THEN Nothing ELSE rec, m)
  PROVE  Orderly'
<1>1. PICK t : t = [pc |-> "save", at |-> None, rec |-> rec, out |-> Nothing]
  OBVIOUS
<1>2. /\ t.pc = "save" /\ t.rec = rec /\ t.out = Nothing
      /\ TurnsTo(a, s, t)
  BY <1>1 DEF Start, Save, Begin, TurnsTo
<1>3. PICK u : u = lastId'
  OBVIOUS
<1>4. /\ u \in Ids /\ lastId' \in Nat /\ lastId \in Nat /\ u > lastId /\ lastId' >= lastId
      /\ rec # Nothing /\ m # Nothing
  <2>1. lastId \in Nat /\ lastId' = lastId + 1
    BY DEF ProofInv, Fits, Held, ExchangeTypeOK, Start, FreshId
  <2>2. rec.thread \in Ids
    BY DEF Record
  <2> QED BY <1>3, <2>1, <2>2, NothingAssumption
<1>5. Shaped(Record, Message, PCs) /\ Serial
  BY ProofShaped DEF Orderly
<1>6. Enter(a, s) /\ UNCHANGED records /\ net' = Put(net, m)
  BY DEF Start
<1>7. Settled[a] = records[a]
  BY <1>5, <1>6, EnteredSettled
<1>8. PICK p, v, n : ThreadFits(u, p, v, n)
  BY <1>4 DEF Orderly, ThreadsFit
<1>9. p = Nothing /\ v = Nothing /\ n = Nothing
  BY <1>4, <1>8 DEF ThreadFits
<1>10. Recs(Prover, u) = {} /\ Recs(Verifier, u) = {} /\ Way(u) = {}
       /\ ~Awaiting(Prover, "createProof", u) /\ ~Awaiting(Verifier, "verifyProof", u)
  BY <1>8, <1>9 DEF ThreadFits, AwaitedFits, Seen, Opt, StateOf
<1>11. a = Prover \/ a = Verifier
  BY AgentsAssumption
<1>12. Fitting(a, records[a], t)
  BY <1>2, <1>3, <1>7, <1>10, <1>11 DEF Fitting, AtFits, OutFits, Recs
<1>13. /\ Serial' /\ Decides(a, t) /\ WayGains(m)
       /\ Doing[a] = Idle /\ Doing' = [Doing EXCEPT ![a] = t]
  <2>1. /\ t.pc # "idle" /\ (t.pc \in {"save", "update"} => t.rec \in Record)
        /\ m.thread \in Ids /\ Way(m.thread) = {}
    BY <1>2, <1>3, <1>4, <1>10
  <2> QED BY <1>2, <1>4, <1>5, <1>6, <1>12, <2>1, Posts
<1>14. PICK p2, v2 : /\ p2 = (IF a = Prover THEN rec ELSE Nothing)
                     /\ v2 = (IF a = Prover THEN Nothing ELSE rec)
  OBVIOUS
<1>15. Seen(Prover, Verifier, u, p2, v2, m)'
  <2>1. Recs(Prover, u)' = Opt(p2) /\ Recs(Verifier, u)' = Opt(v2)
    BY <1>2, <1>3, <1>4, <1>10, <1>11, <1>13, <1>14, Ends DEF Decides, Opt
  <2>2. Way(u)' = Opt(m)
    BY <1>3, <1>4, <1>13 DEF WayGains, Opt
  <2> QED BY <2>1, <2>2 DEF Seen
<1>16. AwaitedFits(u, p2, v2, m)'
  <2>1. \A b \in Agents : Doing'[b] = IF b = a THEN t ELSE Doing[b]
    BY <1>13 DEF Doing
  <2> QED BY <1>2, <1>10, <2>1, Ends DEF AwaitedFits, Awaiting
<1>17. /\ Stage(u, p2, v2, m) /\ ~(u > lastId')
       /\ Renews(v, v2) /\ (v2 # Nothing => v2.request <= lastId')
  <2>1. lastId' = lastId + 1
    BY DEF Start, FreshId
  <2> QED BY <1>3, <1>4, <1>14, <2>1 DEF Renews, None
<1>18. ThreadFits(u, p2, v2, m)'
  BY <1>15, <1>16, <1>17 DEF ThreadFits, Stage
<1>19. \A w \in Ids : w # u => Way(w)' = Way(w)
  BY <1>3, <1>4, <1>13 DEF WayGains
<1>20. ThreadsFit'
  <2>1. Recs(Verifier, u) = Opt(v) /\ Recs(Verifier, u)' = Opt(v2)
    BY <1>8, <1>15 DEF ThreadFits, Seen
  <2> QED BY <1>2, <1>3, <1>4, <1>13, <1>17, <1>18, <1>19, <2>1, OneThread DEF Orderly, PCs
<1>21. WriteFits(records[a], t)
  BY <1>2 DEF WriteFits
<1> QED BY <1>6, <1>13, <1>20, <1>21, WritesFit DEF Orderly

\* What a handler finds.
LEMMA Received ==
  ASSUME ProofInv, Orderly, Spared(Disturbing)',
         NEW a \in Agents, NEW s \in Slots, NEW m, NEW type, Receive(a, s, m, type)
  PROVE  /\ m \in Message /\ m.type = type /\ m.to = a /\ m # Nothing /\ m.thread \in Ids
         /\ Settled[a] = records[a] /\ Serial
         /\ \E p, v : ThreadFits(m.thread, p, v, m)
<1>1. m \in DOMAIN net /\ Enter(a, s) /\ m.type = type /\ m.to = a
  BY DEF Receive
<1>2. Shaped(Record, Message, PCs) /\ Serial
  BY ProofShaped DEF Orderly
<1>3. m \in Message /\ m # Nothing /\ m.thread \in Ids
  <2>1. DOMAIN net \subseteq Message
    BY NetGood DEF ProofInv
  <2>2. m \in Message
    BY <1>1, <2>1
  <2> QED BY <2>2, NothingAssumption DEF Message
<1>4. Settled[a] = records[a]
  BY <1>1, <1>2, EnteredSettled
<1>5. PICK p, v, n : ThreadFits(m.thread, p, v, n)
  BY <1>3 DEF Orderly, ThreadsFit
<1>6. n = m
  BY <1>1, <1>3, <1>5, InNetSeen DEF ThreadFits, Seen, Opt
<1> QED BY <1>1, <1>2, <1>3, <1>4, <1>5, <1>6

\* A handler begins: x is the record it finds, or Nothing, y what it makes of it.
LEMMA HandleFits ==
  ASSUME ProofInv, Orderly, Spared(Disturbing)',
         NEW a \in Agents, NEW s \in Slots, NEW m, NEW type, Receive(a, s, m, type),
         NEW t, t.pc \in {"save", "update", "verifyProof"}, t.out = Nothing,
         TurnsTo(a, s, t), t.rec \in Record, t.rec.thread = m.thread,
         NEW x, Recs(a, m.thread) = Opt(x), t.pc = "save" => x = Nothing,
         AtFits(records[a], t), WriteFits(records[a], t),
         NEW y, y = (IF t.pc = "verifyProof" THEN x ELSE t.rec),
         t.pc = "verifyProof" =>
           /\ a = Verifier /\ type = "presentation"
           /\ t.rec.presentation = m.body /\ t.rec.request = x.request,
         a = Verifier => Renews(x, y),
         \A p, v : /\ a = Prover /\ Stage(m.thread, x, v, m) => Stage(m.thread, y, v, Nothing)
                   /\ a = Verifier /\ Stage(m.thread, p, x, m) => Stage(m.thread, p, y, Nothing)
  PROVE  Orderly'
<1>1. PICK u : u = m.thread
  OBVIOUS
<1>2. /\ m \in Message /\ m.type = type /\ m.to = a /\ m # Nothing /\ u \in Ids
      /\ Settled[a] = records[a] /\ Serial
  BY <1>1, Received
<1>3. PICK p, v : ThreadFits(u, p, v, m)
  BY <1>1, Received
<1>4. Shaped(Record, Message, PCs) /\ t.rec # Nothing /\ a \in {Prover, Verifier}
  BY ProofShaped, NothingAssumption, AgentsAssumption
<1>5. UNCHANGED <<records, starts, lastId>>
  BY DEF Receive
<1>6. lastId' \in Nat /\ lastId' >= lastId
  BY <1>5 DEF ProofInv, Fits, Held, ExchangeTypeOK
<1>7. (a = Prover => Opt(p) = Opt(x)) /\ (a = Verifier => Opt(v) = Opt(x))
  BY <1>1, <1>3 DEF ThreadFits, Seen
<1>8. (a = Prover => p = x) /\ (a = Verifier => v = x)
  BY <1>7 DEF Opt
<1>9. Fitting(a, records[a], t)
  <2>1. t.pc = "save" => Recs(a, u) = {}
    BY <1>1 DEF Opt
  <2> QED BY <1>1, <1>2, <2>1 DEF Fitting, OutFits, Recs
<1>10. /\ Serial' /\ Decides(a, t) /\ WayLoses(m)
       /\ Doing[a] = Idle /\ Doing' = [Doing EXCEPT ![a] = t]
  <2>1. t.pc # "idle" /\ (t.pc \in {"save", "update"} => t.rec \in Record)
    OBVIOUS
  <2> QED BY <1>2, <1>4, <1>9, <2>1, Handles
<1>11. PICK p2, v2 : p2 = (IF a = Prover THEN y ELSE p) /\ v2 = (IF a = Prover THEN v ELSE y)
  OBVIOUS
<1>12. Seen(Prover, Verifier, u, p2, v2, Nothing)'
  <2>1. Seen(Prover, Verifier, u, p, v, m)
    BY <1>3 DEF ThreadFits
  <2>2. Recs(Prover, u)' = Opt(p2)
    BY <1>1, <1>2, <1>4, <1>8, <1>10, <1>11, <2>1, Ends DEF Decides, Seen, Opt
  <2>3. Recs(Verifier, u)' = Opt(v2)
    BY <1>1, <1>2, <1>4, <1>8, <1>10, <1>11, <2>1, Ends DEF Decides, Seen, Opt
  <2>4. Way(u)' = Opt(Nothing)
    BY <1>2, <1>10, <2>1 DEF WayLoses, Seen, Opt
  <2> QED BY <2>2, <2>3, <2>4 DEF Seen
<1>13. Stage(u, p2, v2, Nothing)
  BY <1>1, <1>3, <1>4, <1>8, <1>11, Ends DEF ThreadFits
<1>14. ~(u > lastId') /\ Renews(v, v2) /\ (v2 # Nothing => v2.request <= lastId')
  <2>1. lastId \in Nat
    BY DEF ProofInv, Fits, Held, ExchangeTypeOK
  <2>2. Renews(v, v2)
    BY <1>4, <1>8, <1>11, Ends DEF Renews
  <2>3. v2 # Nothing => v2.request <= lastId'
    BY <1>3, <1>6, <2>1, <2>2, Asked DEF ThreadFits, Stage
  <2> QED BY <1>2, <1>3, <1>5, <2>1, <2>2, <2>3 DEF ThreadFits, Ids
<1>15. AwaitedFits(u, p2, v2, Nothing)'
  <2>1. \A b \in Agents : Doing'[b] = IF b = a THEN t ELSE Doing[b]
    BY <1>10 DEF Doing
  <2>2. ~Awaiting(Prover, "createProof", u) /\ ~Awaiting(Verifier, "verifyProof", u)
    BY <1>2, <1>3, Unsent DEF ThreadFits, AwaitedFits
  <2>3. ~Awaiting(Prover, "createProof", u)'
    BY <2>1, <2>2, Ends DEF Awaiting
  <2>4. ASSUME Awaiting(Verifier, "verifyProof", u)'
        PROVE  /\ StateOf(p2) = "presentation-sent" /\ StateOf(v2) = "request-sent"
               /\ Doing'[Verifier].rec.presentation = p2.presentation
               /\ Doing'[Verifier].rec.request = v2.request
    <3>1. a = Verifier /\ t.pc = "verifyProof" /\ Doing'[Verifier] = t
      BY <2>1, <2>2, <2>4, Ends DEF Awaiting
    <3>2. /\ p2 = p /\ v2 = v /\ t.rec.presentation = m.body /\ TypeOf(m) = "presentation"
          /\ t.rec.request = v2.request
      BY <1>2, <1>8, <1>11, <3>1, Ends DEF TypeOf
    <3>3. Stages(StateOf(p), StateOf(v), "presentation") /\ m.body = p.presentation
      BY <1>3, <3>2 DEF ThreadFits, Stage
    <3> QED BY <3>1, <3>2, <3>3 DEF Stages
  <2> QED BY <2>3, <2>4 DEF AwaitedFits
<1>16. ThreadFits(u, p2, v2, Nothing)'
  BY <1>12, <1>13, <1>14, <1>15 DEF ThreadFits, Stage
<1>17. \A w \in Ids : w # u => Way(w)' = Way(w)
  <2>1. \A w \in Ids : w # u => m \notin Way(w)
    BY <1>1 DEF Way
  <2> QED BY <1>10, <2>1 DEF WayLoses
<1>18. ThreadsFit'
  <2>1. Recs(Verifier, u) = Opt(v) /\ Recs(Verifier, u)' = Opt(v2)
    BY <1>3, <1>12 DEF ThreadFits, Seen
  <2> QED BY <1>1, <1>2, <1>6, <1>10, <1>14, <1>16, <1>17, <2>1, OneThread DEF Orderly, PCs
<1> QED BY <1>5, <1>10, <1>18, WritesFit DEF Orderly

\* A message is gone, and nothing else.
LEMMA DropFits ==
  ASSUME ProofInv, Orderly, UNCHANGED <<records, task>>, UNCHANGED lastId,
         NEW m \in DOMAIN net, net' = Take(net, m)
  PROVE  Orderly'
<1>1. Serial' /\ UNCHANGED <<Settled, Doing>> /\ WayLoses(m)
  BY Drops DEF Orderly
<1>2. ASSUME NEW u \in Ids PROVE \E p, v, n : ThreadFits(u, p, v, n)'
  <2>1. PICK p, v, n : ThreadFits(u, p, v, n)
    BY DEF Orderly, ThreadsFit
  <2>2. PICK k : k = IF n = m THEN Nothing ELSE n
    OBVIOUS
  <2>3. Seen(Prover, Verifier, u, p, v, k)'
    <3>1. Recs(Prover, u)' = Recs(Prover, u) /\ Recs(Verifier, u)' = Recs(Verifier, u)
      BY <1>1 DEF Recs
    <3>2. Way(u)' = Way(u) \ {m}
      BY <1>1 DEF WayLoses
    <3> QED BY <2>1, <2>2, <3>1, <3>2 DEF ThreadFits, Seen, Opt
  <2>4. Stage(u, p, v, k)
    BY <2>1, <2>2 DEF ThreadFits, Stage, Stages, TypeOf
  <2>5. AwaitedFits(u, p, v, k)'
    BY <1>1, <2>1, <2>2 DEF ThreadFits, AwaitedFits, Awaiting
  <2>6. ThreadFits(u, p, v, k)'
    BY <1>1, <2>1, <2>2, <2>3, <2>4, <2>5 DEF ThreadFits, Stage
  <2> QED BY <2>6
<1>3. ThreadsFit'
  BY <1>1, <1>2 DEF Orderly, ThreadsFit, Distinct, Recs
<1> QED BY <1>1, <1>3 DEF Orderly

\* What was decided on is done.
LEMMA ProceedFits ==
  ASSUME ProofInv, Orderly, NEW a \in Agents, NEW s \in Slots,
         SaveRecord(a, s) \/ UpdateRecord(a, s) \/ Send(a, s)
  PROVE  Orderly'
<1>1. Shaped(Record, Message, PCs) /\ Serial
  BY ProofShaped DEF Orderly
<1>2. PICK x : /\ Serial' /\ UNCHANGED <<Settled, Sent>>
               /\ Doing' = [Doing EXCEPT ![a] = x] /\ x.pc \in {"idle", "send"}
  <2>1. Idle.pc \in {"idle", "send"}
    BY DEF Idle
  <2>2. CASE SaveRecord(a, s)
    BY <1>1, <2>1, <2>2, SaveSettles
  <2>3. CASE UpdateRecord(a, s)
    BY <1>1, <2>3, UpdateSettles
  <2>4. CASE Send(a, s)
    BY <1>1, <2>1, <2>4, SendSettles
  <2> QED BY <2>2, <2>3, <2>4
<1>3. \A b \in Agents : Doing'[b] = IF b = a THEN x ELSE Doing[b]
  BY <1>2 DEF Doing
<1>4. UNCHANGED lastId /\ \A b \in Agents : b # a => records'[b] = records[b]
  BY <1>1 DEF SaveRecord, UpdateRecord, Send, Shaped
<1>5. ThreadsFit'
  <2> SUFFICES ASSUME NEW u \in Ids PROVE \E p, v, m : ThreadFits(u, p, v, m)'
    BY <1>2 DEF Orderly, ThreadsFit, Distinct, Recs
  <2>1. PICK p, v, m : ThreadFits(u, p, v, m)
    BY DEF Orderly, ThreadsFit
  <2>2. Seen(Prover, Verifier, u, p, v, m)'
    BY <1>2, <2>1 DEF ThreadFits, Seen, Recs, Way
  <2>3. AwaitedFits(u, p, v, m)'
    <3>1. \A b \in Agents, pc \in PCs :
            Awaiting(b, pc, u)' => Awaiting(b, pc, u) /\ Doing'[b] = Doing[b]
      BY <1>2, <1>3 DEF Awaiting, PCs
    <3> QED BY <2>1, <3>1, Ends DEF ThreadFits, AwaitedFits, PCs
  <2> QED BY <1>4, <2>1, <2>2, <2>3 DEF ThreadFits, Stage
<1>6. \A b \in Agents : WriteFits(records[b], Doing[b])'
  BY <1>2, <1>3, <1>4 DEF Orderly, WriteFits
<1> QED BY <1>2, <1>5, <1>6 DEF Orderly

\* What an agent awaits the proof library with.
LEMMA Awaited ==
  ASSUME ProofInv, Orderly, NEW a \in Agents, NEW s \in Slots, NEW t0, t0 = task[a][s],
         t0.pc \in PCs
  PROVE  /\ Doing[a] = t0 /\ t0.rec \in Record /\ t0.rec.thread \in Ids
         /\ t0.at \in DOMAIN records[a] /\ records[a][t0.at].thread = t0.rec.thread
         /\ Recs(a, t0.rec.thread) = Opt(records[a][t0.at])
         /\ records[a][t0.at] \in Record
<1>1. Shaped(Record, Message, PCs) /\ Serial
  BY ProofShaped DEF Orderly
<1>2. Doing[a] = t0
  BY <1>1, Busy DEF Free, Serial, PCs
<1>3. t0.rec \in Record /\ t0.rec.thread \in Ids
  <2>1. task[a][s].rec \in GoodRecords[a]
    BY DEF ProofInv, Fits, Held, Fit
  <2>2. t0.rec \in Record
    BY <2>1, Parts
  <2> QED BY <2>2 DEF Record
<1>4. AtFits(records[a], t0)
  BY <1>1, <1>2 DEF Serial
<1>5. t0.at \in DOMAIN records[a] /\ records[a][t0.at].thread = t0.rec.thread
  BY <1>4 DEF AtFits, PCs
<1>6. Settled[a] = records[a]
  BY <1>2 DEF Settled, Settle, PCs
<1>7. records[a][t0.at] \in Record /\ records[a][t0.at] # Nothing
  BY <1>5, ReadGood, NothingAssumption DEF ProofInv
<1>8. PICK rec : rec = records[a][t0.at]
  OBVIOUS
<1>9. Recs(a, t0.rec.thread) = {rec}
  <2>1. Recs(a, records[a][t0.at].thread) = {records[a][t0.at]}
    BY <1>1, <1>5, <1>6, ReadSeen
  <2> QED BY <1>5, <1>8, <2>1
<1> QED BY <1>2, <1>3, <1>5, <1>7, <1>8, <1>9 DEF Opt

\* The proof library has answered: the record is updated, then perhaps a message sent.
LEMMA AwaitedThenFits ==
  ASSUME ProofInv, Orderly, NEW a \in Agents, NEW s \in Slots, NEW t0, t0 = task[a][s],
         t0.pc \in PCs, UNCHANGED <<records, net, lastId>>,
         NEW t, t.pc = "update", t.at = t0.at, t.rec \in Record, t.rec.thread = t0.rec.thread,
         t.rec.request = t0.rec.request,
         TurnsTo(a, s, t),
         NEW out \in Message \cup {Nothing}, t.out = out,
         out # Nothing => out.thread = t.rec.thread /\ out.to # a,
         WriteFits(records[a], t),
         NEW p, NEW v, ThreadFits(t0.rec.thread, p, v, Nothing),
         ~Awaiting(IF a = Prover THEN Verifier ELSE Prover,
                   IF a = Prover THEN "verifyProof" ELSE "createProof", t0.rec.thread),
         NEW p2, p2 = (IF a = Prover THEN t.rec ELSE p),
         NEW v2, v2 = (IF a = Prover THEN v ELSE t.rec),
         Stage(t0.rec.thread, p2, v2, out)
  PROVE  Orderly'
<1>1. PICK u : u = t0.rec.thread
  OBVIOUS
<1>2. /\ Doing[a] = t0 /\ u \in Ids
      /\ t0.at \in DOMAIN records[a] /\ records[a][t0.at].thread = u
      /\ Recs(a, u) = Opt(records[a][t0.at]) /\ records[a][t0.at] # Nothing
  BY <1>1, Awaited, NothingAssumption
<1>3. Shaped(Record, Message, PCs) /\ Serial /\ a \in {Prover, Verifier}
  BY ProofShaped, AgentsAssumption DEF Orderly
<1>4. task[a][s].pc \notin {"idle", "save", "update", "send"}
  BY DEF PCs
<1>5. Way(u) = {}
  BY <1>1 DEF ThreadFits, Seen, Opt
<1>6. Fitting(a, records[a], t)
  BY <1>1, <1>2 DEF Fitting, AtFits, OutFits
<1>7. /\ Serial' /\ Decides(a, t) /\ Doing' = [Doing EXCEPT ![a] = t]
      /\ WayMayGain(out)
  <2>1. UNCHANGED <<records, net>>
    OBVIOUS
  <2>2. /\ t.pc \in {"idle", "update"} /\ (t.pc = "idle" => t = Idle)
        /\ (t.pc = "update" => t.rec \in Record)
        /\ (out # Nothing => out.thread \in Ids /\ Way(out.thread) = {})
    BY <1>1, <1>2, <1>5
  <2> QED BY <1>3, <1>4, <1>6, <2>1, <2>2, Continues
<1>8. Seen(Prover, Verifier, u, p2, v2, out)'
  <2>1. Seen(Prover, Verifier, u, p, v, Nothing) /\ t.rec # Nothing
    BY <1>1, NothingAssumption DEF ThreadFits
  <2>2. Recs(Prover, u)' = Opt(p2)
    BY <1>1, <1>2, <1>3, <1>7, <2>1, Ends DEF Decides, Seen, Opt
  <2>3. Recs(Verifier, u)' = Opt(v2)
    BY <1>1, <1>2, <1>3, <1>7, <2>1, Ends DEF Decides, Seen, Opt
  <2>4. Way(u)' = Opt(out)
    BY <1>1, <1>2, <1>5, <1>7 DEF WayMayGain, WayGains, Opt
  <2> QED BY <2>2, <2>3, <2>4 DEF Seen
<1>9. /\ lastId' \in Nat /\ lastId' >= lastId /\ ~(u > lastId')
      /\ Renews(v, v2) /\ (v2 # Nothing => v2.request <= lastId')
  <2>1. lastId \in Nat
    BY DEF ProofInv, Fits, Held, ExchangeTypeOK
  <2>2. (p # Nothing \/ v # Nothing) /\ (a = Verifier => v # Nothing)
    BY <1>1, <1>2, <1>3, Ends DEF ThreadFits, Seen, Opt
  <2>3. a = Verifier => t0.rec.request = v.request
    <3>1. ASSUME a = Verifier PROVE Awaiting(Verifier, "verifyProof", u)
      BY <1>1, <1>2, <3>1, Ends DEF ProofInv, AwaitFits, Awaiting, PCs
    <3> QED BY <1>1, <1>2, <3>1 DEF ThreadFits, AwaitedFits
  <2>4. Renews(v, v2)
    BY <1>3, <2>2, <2>3, Ends DEF Renews
  <2>5. v2 # Nothing => v2.request <= lastId'
    BY <2>1, <2>4, Asked DEF ThreadFits, Stage
  <2> QED BY <1>1, <1>2, <2>1, <2>2, <2>4, <2>5 DEF ThreadFits, Ids
<1>10. AwaitedFits(u, p2, v2, out)'
  <2>1. \A b \in Agents : Doing'[b] = IF b = a THEN t ELSE Doing[b]
    BY <1>7 DEF Doing
  <2>2. ~Awaiting(Prover, "createProof", u)' /\ ~Awaiting(Verifier, "verifyProof", u)'
    BY <1>1, <1>3, <2>1, Ends DEF Awaiting
  <2> QED BY <2>2 DEF AwaitedFits
<1>11. ThreadFits(u, p2, v2, out)'
  BY <1>1, <1>8, <1>9, <1>10 DEF ThreadFits, Stage
<1>12. \A w \in Ids : w # u => Way(w)' = Way(w)
  BY <1>1, <1>7 DEF WayMayGain, WayGains
<1>13. ThreadsFit'
  <2>1. Recs(Verifier, u) = Opt(v) /\ Recs(Verifier, u)' = Opt(v2)
    BY <1>1, <1>8 DEF ThreadFits, Seen
  <2> QED BY <1>1, <1>2, <1>7, <1>9, <1>11, <1>12, <2>1, OneThread DEF Orderly, PCs
<1> QED BY <1>7, <1>13, WritesFit DEF Orderly

LEMMA CreateProofFits ==
  ASSUME ProofInv, Orderly, NEW s \in Slots, CreateProof(s)
  PROVE  Orderly'
<1>1. PICK t0 : t0 = task[Prover][s]
  OBVIOUS
<1>2. /\ t0.pc = "createProof" /\ UNCHANGED <<records, net, lastId>>
      /\ Update(Prover, s, t0.at, [t0.rec EXCEPT !.state = "presentation-sent"],
                Msg("presentation", Verifier, None, t0.rec.thread, t0.rec.presentation))
  BY <1>1 DEF CreateProof
<1>3. PICK u : u = t0.rec.thread
  OBVIOUS
<1>4. PICK x : x = records[Prover][t0.at]
  OBVIOUS
<1>5. /\ Doing[Prover] = t0 /\ t0.rec \in Record /\ u \in Ids
      /\ t0.at \in DOMAIN records[Prover] /\ x.thread = u
      /\ Recs(Prover, u) = Opt(x) /\ x # Nothing
  BY <1>1, <1>2, <1>3, <1>4, Awaited, Ends, NothingAssumption DEF PCs
<1>6. PICK p, v, m : ThreadFits(u, p, v, m)
  BY <1>5 DEF Orderly, ThreadsFit
<1>7. p = x
  BY <1>5, <1>6 DEF ThreadFits, Seen, Opt
<1>8. x.state = "request-received" /\ t0.rec.request = x.request
  BY <1>2, <1>3, <1>5, <1>6, <1>7 DEF ThreadFits, AwaitedFits, Awaiting, StateOf
<1>9. m = Nothing
  BY <1>5, <1>6, <1>7, <1>8, Unsent DEF ThreadFits, StateOf
<1>10. PICK rec : rec = [t0.rec EXCEPT !.state = "presentation-sent"]
  BY Zenon
<1>11. /\ rec \in Record /\ rec # Nothing /\ rec.state = "presentation-sent" /\ rec.thread = u
       /\ rec.presentation = t0.rec.presentation /\ t0.rec.presentation \in Presentation
       /\ rec.request = t0.rec.request
  BY <1>3, <1>5, <1>10, NothingAssumption DEF Record, ProverStates
<1>12. PICK out : out = Msg("presentation", Verifier, None, u, rec.presentation)
  BY Zenon
<1>13. /\ out \in Message /\ out # Nothing /\ out.thread = u /\ out.to # Prover
       /\ out.type = "presentation" /\ out.body = rec.presentation
  BY <1>5, <1>11, <1>12, Ends, NothingAssumption DEF Msg, Message, MessageTypes
<1>14. PICK t : t = [pc |-> "update", at |-> t0.at, rec |-> rec, out |-> out]
  OBVIOUS
<1>15. t.pc = "update" /\ t.at = t0.at /\ t.rec = rec /\ t.out = out
  BY <1>14
<1>16. TurnsTo(Prover, s, t)
  BY <1>2, <1>3, <1>10, <1>11, <1>12, <1>14, Zenon DEF Update, Begin, TurnsTo
<1>17. WriteFits(records[Prover], t)
  BY <1>4, <1>8, <1>11, <1>13, <1>15 DEF WriteFits, Succeeds, Moves, TypeOf
<1>18. ~Awaiting(Verifier, "verifyProof", u)
  BY <1>5, <1>6, <1>7, <1>8 DEF ThreadFits, AwaitedFits, StateOf
<1>19. Stage(u, rec, v, out)
  BY <1>5, <1>6, <1>7, <1>8, <1>11, <1>13, NothingAssumption
     DEF ThreadFits, Stage, Stages, StateOf, TypeOf
<1>20. /\ t0.pc \in PCs /\ UNCHANGED <<records, net, lastId>>
       /\ ThreadFits(t0.rec.thread, p, v, Nothing) /\ Stage(t0.rec.thread, rec, v, out)
       /\ out # Nothing => out.thread = t.rec.thread /\ out.to # Prover
       /\ t.rec \in Record /\ t.rec.thread = t0.rec.thread /\ t.rec.request = t0.rec.request
       /\ rec = (IF Prover = Prover THEN t.rec ELSE p)
       /\ v = (IF Prover = Prover THEN v ELSE t.rec)
  BY <1>2, <1>3, <1>6, <1>9, <1>11, <1>13, <1>15, <1>19 DEF PCs
<1> QED BY <1>1, <1>3, <1>13, <1>15, <1>16, <1>17, <1>18, <1>20, AwaitedThenFits, Ends

LEMMA VerifyProofFits ==
  ASSUME ProofInv, Orderly, NEW s \in Slots, VerifyProof(s)
  PROVE  Orderly'
<1>1. PICK t0 : t0 = task[Verifier][s]
  OBVIOUS
<1>2. PICK verdict \in {"verified", "rejected"} :
        /\ t0.pc = "verifyProof" /\ UNCHANGED <<records, net, lastId>>
        /\ Update(Verifier, s, t0.at,
                  [t0.rec EXCEPT !.state = "presentation-received", !.isVerified = verdict],
                  Nothing)
  BY <1>1, Zenon DEF VerifyProof
<1>3. PICK u : u = t0.rec.thread
  OBVIOUS
<1>4. PICK x : x = records[Verifier][t0.at]
  OBVIOUS
<1>5. /\ Doing[Verifier] = t0 /\ t0.rec \in Record /\ u \in Ids
      /\ t0.at \in DOMAIN records[Verifier] /\ x.thread = u
      /\ Recs(Verifier, u) = Opt(x) /\ x # Nothing
  BY <1>1, <1>2, <1>3, <1>4, Awaited, Ends, NothingAssumption DEF PCs
<1>6. PICK p, v, m : ThreadFits(u, p, v, m)
  BY <1>5 DEF Orderly, ThreadsFit
<1>7. v = x
  BY <1>5, <1>6 DEF ThreadFits, Seen, Opt
<1>8. /\ StateOf(p) = "presentation-sent" /\ x.state = "request-sent" /\ m = Nothing
      /\ t0.rec.presentation = p.presentation /\ t0.rec.request = x.request
  BY <1>2, <1>3, <1>5, <1>6, <1>7 DEF ThreadFits, AwaitedFits, Awaiting, StateOf
<1>9. PICK rec : rec = [t0.rec EXCEPT !.state = "presentation-received", !.isVerified = verdict]
  BY Zenon
<1>10. /\ rec \in Record /\ rec # Nothing /\ rec.state = "presentation-received"
       /\ rec.thread = u /\ rec.presentation = p.presentation /\ rec.request = x.request
  BY <1>2, <1>3, <1>5, <1>8, <1>9, NothingAssumption DEF Record, VerifierStates, Verdicts
<1>11. PICK t : t = [pc |-> "update", at |-> t0.at, rec |-> rec, out |-> Nothing]
  OBVIOUS
<1>12. t.pc = "update" /\ t.at = t0.at /\ t.rec = rec /\ t.out = Nothing
  BY <1>11
<1>13. TurnsTo(Verifier, s, t)
  BY <1>2, <1>9, <1>11, Zenon DEF Update, Begin, TurnsTo
<1>14. WriteFits(records[Verifier], t)
  BY <1>4, <1>8, <1>10, <1>12 DEF WriteFits, Succeeds, Moves, TypeOf
<1>15. ~Awaiting(Prover, "createProof", u)
  BY <1>6, <1>8 DEF ThreadFits, AwaitedFits
<1>16. Stage(u, p, rec, Nothing)
  BY <1>6, <1>7, <1>8, <1>10 DEF ThreadFits, Stage, Stages, StateOf, TypeOf
<1>17. /\ t0.pc \in PCs /\ UNCHANGED <<records, net, lastId>>
       /\ ThreadFits(t0.rec.thread, p, v, Nothing) /\ Stage(t0.rec.thread, p, rec, Nothing)
       /\ t.rec \in Record /\ t.rec.thread = t0.rec.thread /\ t.rec.request = t0.rec.request
       /\ p = (IF Verifier = Prover THEN t.rec ELSE p)
       /\ rec = (IF Verifier = Prover THEN v ELSE t.rec)
  BY <1>2, <1>3, <1>6, <1>8, <1>10, <1>12, <1>16, Ends DEF PCs
<1> QED BY <1>1, <1>3, <1>12, <1>13, <1>14, <1>15, <1>17, AwaitedThenFits, Ends

-----------------------------------------------------------------------------
(* Each operation leads from stage to stage                                  *)

\* The record an agent has read, and the ids it may give out.
LEMMA ReadRecord ==
  ASSUME ProofInv, NEW a \in Agents, NEW r \in DOMAIN records[a]
  PROVE  /\ records[a][r] \in Record
         /\ lastId \in Nat
         /\ UNCHANGED lastId => lastId' \in Nat /\ lastId' >= lastId
         /\ FreshId => lastId' \in Ids /\ lastId' \in Nat /\ lastId' >= lastId /\ lastId' = lastId + 1
<1>1. records[a][r] \in Record
  BY ReadGood DEF ProofInv
<1>2. lastId \in Nat /\ lastId \in 0..MaxIds
  BY DEF ProofInv, Fits, Held, ExchangeTypeOK
<1> QED BY <1>1, <1>2, BoundsAssumption DEF FreshId, Ids

\* Either side begins an exchange.
LEMMA StartsFit ==
  ASSUME ProofInv, Orderly, Spared(Disturbing)', NEW s \in Slots, CreateProposal(s) \/ CreateRequest(s)
  PROVE  Orderly'
<1>1. lastId' \in Ids
  BY NetGood, FreshIds DEF CreateProposal, CreateRequest, Start, ProofInv
<1>2. CASE CreateProposal(s)
  <2>1. PICK rec, m : rec = NewRecord("proposal-sent", lastId', None) /\ m = Proposal(lastId')
    OBVIOUS
  <2>2. /\ rec \in Record /\ rec.state = "proposal-sent" /\ rec.thread = lastId'
        /\ rec.request = None
    BY <1>1, <2>1, NoPresentationType DEF NewRecord, Record, ProverStates, Verdicts
  <2>3. m \in Message /\ m.type = "propose" /\ m.thread = lastId'
    BY <1>1, <2>1, NoPresentationType, Ends DEF Proposal, Msg, Message, MessageTypes
  <2>4. Stage(lastId', rec, Nothing, m)
    BY <2>2, <2>3, NothingAssumption DEF Stage, Stages, StateOf, TypeOf
  <2>5. Start(Prover, s, rec, m)
    BY <1>2, <2>1 DEF CreateProposal
  <2> QED BY <2>2, <2>3, <2>4, <2>5, StartFits, Ends
<1>3. CASE CreateRequest(s)
  <2>1. PICK rec, m : rec = NewRecord("request-sent", lastId', lastId') /\ m = RequestMsg(lastId')
    OBVIOUS
  <2>2. /\ rec \in Record /\ rec.state = "request-sent" /\ rec.thread = lastId'
        /\ rec.request = lastId'
    BY <1>1, <2>1, NoPresentationType DEF NewRecord, Record, VerifierStates, Verdicts
  <2>3. m \in Message /\ m.type = "request" /\ m.thread = lastId' /\ m.id = lastId'
    BY <1>1, <2>1, NoPresentationType, Ends DEF RequestMsg, Msg, Message, MessageTypes
  <2>4. Stage(lastId', Nothing, rec, m)
    BY <1>1, <2>2, <2>3, NothingAssumption DEF Stage, Stages, StateOf, TypeOf
  <2>5. Start(Verifier, s, rec, m)
    BY <1>3, <2>1 DEF CreateRequest
  <2> QED BY <2>2, <2>3, <2>4, <2>5, StartFits, Ends
<1> QED BY <1>2, <1>3

\* The application accepts a proposal, a request or a presentation.
LEMMA AcceptsFit ==
  ASSUME ProofInv, Orderly, Spared(Disturbing)', NEW a \in Agents, NEW s \in Slots,
         NEW r \in DOMAIN records[a],
         \/ a = Verifier /\ (AcceptProposal(s, r) \/ AcceptPresentation(s, r))
         \/ a = Prover /\ AcceptRequest(s, r)
  PROVE  Orderly'
<1>1. PICK rec : rec = records[a][r]
  OBVIOUS
<1>2. /\ rec \in Record /\ rec # Nothing /\ rec.thread \in Ids
      /\ rec.request \in Ids \cup {None}
  BY <1>1, ReadRecord, NothingAssumption DEF Record
<1>3. CallOn(a, s) /\ UNCHANGED net /\ (FreshId \/ UNCHANGED lastId)
  BY DEF AcceptProposal, AcceptRequest, AcceptPresentation, CreateRequestAsResponse
<1>4. /\ Enter(a, s) /\ UNCHANGED <<records, net>> /\ lastId' \in Nat /\ lastId' >= lastId
  BY <1>3, ReadRecord DEF CallOn
<1>5. CASE a = Verifier /\ AcceptProposal(s, r)
  <2>1. PICK new, out : /\ new = [rec EXCEPT !.state = "request-sent", !.request = lastId']
                        /\ out = RequestMsg(rec.thread)
    BY Zenon
  <2>2. Begin(a, s, "update", r, new, out) /\ rec.state = "proposal-received" /\ FreshId
    BY <1>1, <1>5, <2>1, Zenon DEF AcceptProposal, CreateRequestAsResponse, Update
  <2>3. lastId' \in Ids /\ lastId' = lastId + 1
    BY <2>2, ReadRecord
  <2>4. /\ new \in Record /\ new.thread = rec.thread /\ new.state = "request-sent"
        /\ new.request = lastId'
    BY <1>2, <2>1, <2>3 DEF Record, VerifierStates
  <2>5. /\ out \in Message /\ out.thread = rec.thread /\ out.to = Prover /\ out.type = "request"
        /\ out.id = lastId'
    BY <1>2, <2>1, <2>3, NoPresentationType, Ends DEF RequestMsg, Msg, Message, MessageTypes
  <2>6. PICK t : t = [pc |-> "update", at |-> r, rec |-> new, out |-> out]
    OBVIOUS
  <2>7. t.pc = "update" /\ t.at = r /\ t.rec = new /\ t.out = out /\ TurnsTo(a, s, t)
    BY <2>2, <2>6 DEF Begin, TurnsTo
  <2>8. WriteFits(records[a], t)
    BY <1>1, <2>2, <2>4, <2>5, <2>7, NothingAssumption DEF WriteFits, Succeeds, Moves, TypeOf
  <2>9. \A p : Stage(rec.thread, p, rec, Nothing) => Stage(rec.thread, p, new, out)
    BY <1>2, <2>2, <2>3, <2>4, <2>5, NothingAssumption DEF Stage, Stages, StateOf, TypeOf
  <2>10. Renews(rec, new) /\ t.pc # "createProof" /\ new = (IF t.pc = "update" THEN t.rec ELSE rec)
    BY <2>3, <2>4, <2>7 DEF Renews
  <2> QED BY <1>1, <1>2, <1>4, <1>5, <2>2, <2>4, <2>5, <2>7, <2>8, <2>9, <2>10, AcceptFits, Ends
<1>6. CASE a = Verifier /\ AcceptPresentation(s, r)
  <2>1. PICK new, out : /\ new = [rec EXCEPT !.state = "done"]
                        /\ out = Msg("ack", Prover, None, rec.thread, NoPresentation)
    OBVIOUS
  <2>2. Begin(a, s, "update", r, new, out) /\ rec.state = "presentation-received"
    BY <1>1, <1>6, <2>1 DEF AcceptPresentation, CreateAck, Update
  <2>3. /\ new \in Record /\ new.thread = rec.thread /\ new.state = "done"
        /\ new.presentation = rec.presentation /\ new.request = rec.request
        /\ new.isVerified = rec.isVerified
    BY <1>2, <2>1 DEF Record, VerifierStates
  <2>4. /\ out \in Message /\ out.thread = rec.thread /\ out.to = Prover /\ out.type = "ack"
    BY <1>2, <2>1, NoPresentationType, Ends DEF Msg, Message, MessageTypes
  <2>5. PICK t : t = [pc |-> "update", at |-> r, rec |-> new, out |-> out]
    OBVIOUS
  <2>6. t.pc = "update" /\ t.at = r /\ t.rec = new /\ t.out = out /\ TurnsTo(a, s, t)
    BY <2>2, <2>5 DEF Begin, TurnsTo
  <2>7. WriteFits(records[a], t)
    BY <1>1, <2>2, <2>3, <2>4, <2>6, NothingAssumption DEF WriteFits, Succeeds, Moves, TypeOf
  <2>8. \A p : Stage(rec.thread, p, rec, Nothing) => Stage(rec.thread, p, new, out)
    BY <1>2, <2>2, <2>3, <2>4, NothingAssumption DEF Stage, Stages, StateOf, TypeOf
  <2>9. Renews(rec, new) /\ t.pc # "createProof" /\ new = (IF t.pc = "update" THEN t.rec ELSE rec)
    BY <1>2, <2>3, <2>6 DEF Renews
  <2> QED BY <1>1, <1>2, <1>4, <1>6, <2>2, <2>3, <2>4, <2>6, <2>7, <2>8, <2>9, AcceptFits, Ends
<1>7. CASE a = Prover /\ AcceptRequest(s, r)
  <2>1. PICK quality \in Qualities :
          /\ rec.state = "request-received"
          /\ Begin(a, s, "createProof", r,
                   [rec EXCEPT !.presentation = [request |-> rec.request, quality |-> quality]],
                   Nothing)
    BY <1>1, <1>7, Zenon DEF AcceptRequest, CreatePresentation
  <2>2. PICK k : k = [request |-> rec.request, quality |-> quality]
    OBVIOUS
  <2>3. PICK new : new = [rec EXCEPT !.presentation = k]
    OBVIOUS
  <2>4. k \in Presentation
    BY <1>2, <2>1, <2>2, AgentsAssumption DEF Presentation
  <2>5. new \in Record /\ new.thread = rec.thread /\ new.request = rec.request
    BY <1>2, <2>3, <2>4 DEF Record
  <2>6. PICK t : t = [pc |-> "createProof", at |-> r, rec |-> new, out |-> Nothing]
    OBVIOUS
  <2>7. /\ t.pc = "createProof" /\ t.at = r /\ t.rec = new /\ t.out = Nothing
        /\ TurnsTo(a, s, t)
    BY <2>1, <2>2, <2>3, <2>6 DEF Begin, TurnsTo
  <2>8. WriteFits(records[a], t)
    BY <2>7 DEF WriteFits
  <2>9. Renews(rec, rec) /\ rec = (IF t.pc = "update" THEN t.rec ELSE rec)
    BY <1>2, <2>7 DEF Renews
  <2> QED BY <1>1, <1>2, <1>4, <1>7, <2>1, <2>5, <2>7, <2>8, <2>9, AcceptFits, Ends
<1> QED BY <1>5, <1>6, <1>7

\* The prover answers a request with another proposal, and does not await its own update.
LEMMA RespondFits ==
  ASSUME ProofInv, Orderly, Spared(Disturbing)', NEW s \in Slots,
         NEW r \in DOMAIN records[Prover], CreateProposalAsResponse(s, r)
  PROVE  Orderly'
<1>1. PICK rec : rec = records[Prover][r]
  OBVIOUS
<1>2. PICK u, new, m : /\ u = rec.thread /\ new = [rec EXCEPT !.state = "proposal-sent"]
                       /\ m = Proposal(rec.thread)
  OBVIOUS
<1>3. PICK t : t = [pc |-> "update", at |-> r, rec |-> new, out |-> Nothing]
  OBVIOUS
<1>4. /\ CallOn(Prover, s) /\ FreshId /\ net' = Put(net, m) /\ TurnsTo(Prover, s, t)
      /\ rec.state = "request-received"
  BY <1>1, <1>2, <1>3 DEF CreateProposalAsResponse, Update, Begin, TurnsTo
<1>5. /\ rec \in Record /\ rec # Nothing /\ u \in Ids
      /\ lastId' \in Ids /\ lastId' \in Nat /\ lastId' >= lastId /\ lastId \in Nat
  BY <1>1, <1>2, <1>4, ReadRecord, NothingAssumption, Ends DEF Record
<1>6. /\ new \in Record /\ new # Nothing /\ new.thread = u /\ new.state = "proposal-sent"
      /\ new.request = rec.request
  BY <1>2, <1>5, NothingAssumption DEF Record, ProverStates
<1>7. /\ m \in Message /\ m # Nothing /\ m.thread = u /\ m.type = "propose"
  BY <1>2, <1>5, NoPresentationType, NothingAssumption, Ends DEF Proposal, Msg, Message, MessageTypes
<1>8. t.pc = "update" /\ t.at = r /\ t.rec = new /\ t.out = Nothing
  BY <1>3
<1>9. Shaped(Record, Message, PCs) /\ Serial /\ Enter(Prover, s) /\ UNCHANGED records
  BY <1>4, ProofShaped DEF Orderly, CallOn
<1>10. Settled[Prover] = records[Prover] /\ Recs(Prover, u) = {rec}
  BY <1>1, <1>2, <1>9, EnteredSettled, ReadSeen, Ends
<1>11. PICK p, v, k : ThreadFits(u, p, v, k)
  BY <1>5 DEF Orderly, ThreadsFit
<1>12. p = rec
  BY <1>10, <1>11 DEF ThreadFits, Seen, Opt
<1>13. k = Nothing
  BY <1>4, <1>5, <1>11, <1>12, Unsent DEF ThreadFits, StateOf
<1>14. Way(u) = {}
  BY <1>11, <1>13 DEF ThreadFits, Seen, Opt
<1>15. Fitting(Prover, records[Prover], t) /\ WriteFits(records[Prover], t)
  BY <1>1, <1>2, <1>4, <1>6, <1>8
     DEF Fitting, AtFits, OutFits, WriteFits, Succeeds, Moves, TypeOf
<1>16. /\ Serial' /\ Decides(Prover, t) /\ WayGains(m)
       /\ Doing[Prover] = Idle /\ Doing' = [Doing EXCEPT ![Prover] = t]
  <2>1. /\ t.pc # "idle" /\ (t.pc \in {"save", "update"} => t.rec \in Record)
        /\ m.thread \in Ids /\ Way(m.thread) = {}
    BY <1>5, <1>6, <1>7, <1>8, <1>14
  <2> QED BY <1>4, <1>7, <1>8, <1>9, <1>15, <2>1, Posts, Ends
<1>17. Seen(Prover, Verifier, u, new, v, m)'
  <2>1. Seen(Prover, Verifier, u, p, v, k)
    BY <1>11 DEF ThreadFits
  <2>2. Recs(Prover, u)' = Opt(new) /\ Recs(Verifier, u)' = Opt(v)
    BY <1>5, <1>6, <1>8, <1>16, <2>1, Ends DEF Decides, Seen, Opt
  <2>3. Way(u)' = Opt(m)
    BY <1>5, <1>7, <1>16 DEF WayGains, Opt
  <2> QED BY <2>2, <2>3 DEF Seen
<1>18. Stage(u, new, v, m)
  BY <1>4, <1>5, <1>6, <1>7, <1>11, <1>12, <1>13 DEF ThreadFits, Stage, Stages, StateOf, TypeOf
<1>19. ~(u > lastId') /\ Renews(v, v) /\ (v # Nothing => v.request <= lastId')
  <2>1. Renews(v, v)
    BY DEF Renews
  <2>2. v # Nothing => v.request <= lastId'
    BY <1>5, <1>11, <2>1, Asked DEF ThreadFits, Stage
  <2> QED BY <1>5, <1>11, <1>12, <2>1, <2>2 DEF ThreadFits, Ids
<1>20. AwaitedFits(u, new, v, m)'
  <2>1. \A b \in Agents : Doing'[b] = IF b = Prover THEN t ELSE Doing[b]
    BY <1>16 DEF Doing
  <2>2. ~Awaiting(Verifier, "verifyProof", u)
    BY <1>4, <1>5, <1>11, <1>12 DEF ThreadFits, AwaitedFits, StateOf
  <2>3. ~Awaiting(Prover, "createProof", u)' /\ ~Awaiting(Verifier, "verifyProof", u)'
    BY <1>8, <2>1, <2>2, Ends DEF Awaiting
  <2> QED BY <2>3 DEF AwaitedFits
<1>21. ThreadFits(u, new, v, m)'
  BY <1>17, <1>18, <1>19, <1>20 DEF ThreadFits, Stage
<1>22. \A w \in Ids : w # u => Way(w)' = Way(w)
  BY <1>7, <1>16 DEF WayGains
<1>23. ThreadsFit'
  <2>1. Recs(Verifier, u) = Opt(v) /\ Recs(Verifier, u)' = Opt(v)
    BY <1>11, <1>17 DEF ThreadFits, Seen
  <2> QED BY <1>5, <1>6, <1>8, <1>16, <1>19, <1>21, <1>22, <2>1, OneThread, Ends DEF Orderly, PCs
<1> QED BY <1>9, <1>15, <1>16, <1>23, WritesFit, Ends DEF Orderly

\* A handler that updates the record it finds.
LEMMA HandleUpdateFits ==
  ASSUME ProofInv, Orderly, Spared(Disturbing)',
         NEW a \in Agents, NEW s \in Slots, NEW m, NEW type, Receive(a, s, m, type),
         NEW r \in ByThread(a, m.thread), NEW rec, rec = records[a][r],
         NEW new \in Record, new.thread = rec.thread, Update(a, s, r, new, Nothing),
         Moves(rec.state, new.state, "none"),
         new.state = "done" =>
           new.presentation = rec.presentation /\ new.isVerified = rec.isVerified,
         new.request = rec.request \/ (a = Prover /\ new.state = "request-received"),
         \A p, v : /\ a = Prover /\ Stage(m.thread, rec, v, m) => Stage(m.thread, new, v, Nothing)
                   /\ a = Verifier /\ Stage(m.thread, p, rec, m) => Stage(m.thread, p, new, Nothing)
  PROVE  Orderly'
<1>1. PICK t : t = [pc |-> "update", at |-> r, rec |-> new, out |-> Nothing]
  OBVIOUS
<1>2. /\ t.pc = "update" /\ t.at = r /\ t.rec = new /\ t.out = Nothing
      /\ TurnsTo(a, s, t)
  BY <1>1 DEF Update, Begin, TurnsTo
<1>3. /\ r \in DOMAIN records[a] /\ Recs(a, m.thread) = {rec} /\ rec.thread = m.thread
  BY Received, FoundSeen
<1>4. rec \in Record /\ rec # Nothing
  BY <1>3, ReadRecord, NothingAssumption
<1>5. Recs(a, m.thread) = Opt(rec)
  BY <1>3, <1>4 DEF Opt
<1>6. AtFits(records[a], t) /\ WriteFits(records[a], t) /\ (a = Verifier => Renews(rec, new))
  <2>1. a = Verifier => Renews(rec, new)
    BY <1>4, Ends DEF Renews
  <2>2. AtFits(records[a], t)
    BY <1>2, <1>3 DEF AtFits
  <2>3. WriteFits(records[a], t)
    BY <1>2 DEF WriteFits, Succeeds, TypeOf, Moves
  <2> QED BY <2>1, <2>2, <2>3
<1>7. /\ t.pc \in {"save", "update", "verifyProof"} /\ t.pc # "save"
      /\ t.pc # "verifyProof" /\ t.rec \in Record /\ t.rec.thread = m.thread
      /\ new = (IF t.pc = "verifyProof" THEN rec ELSE t.rec)
  BY <1>2, <1>3
<1> QED BY <1>2, <1>5, <1>6, <1>7, HandleFits

\* A handler that saves a new record.
LEMMA HandleSaveFits ==
  ASSUME ProofInv, Orderly, Spared(Disturbing)',
         NEW a \in Agents, NEW s \in Slots, NEW m, NEW type, Receive(a, s, m, type),
         NEW new \in Record, new.thread = m.thread, Save(a, s, new), Recs(a, m.thread) = {},
         new.state \in {"proposal-received", "request-received"},
         a = Verifier => new.request = None,
         \A p, v : /\ a = Prover /\ Stage(m.thread, Nothing, v, m) => Stage(m.thread, new, v, Nothing)
                   /\ a = Verifier /\ Stage(m.thread, p, Nothing, m) => Stage(m.thread, p, new, Nothing)
  PROVE  Orderly'
<1>1. PICK t : t = [pc |-> "save", at |-> None, rec |-> new, out |-> Nothing]
  OBVIOUS
<1>2. /\ t.pc = "save" /\ t.rec = new /\ t.out = Nothing
      /\ TurnsTo(a, s, t)
  BY <1>1 DEF Save, Begin, TurnsTo
<1>3. PICK x : x = Nothing /\ Recs(a, m.thread) = Opt(x)
  BY DEF Opt
<1>4. AtFits(records[a], t) /\ WriteFits(records[a], t)
  BY <1>2 DEF AtFits, WriteFits
<1>5. /\ a = Verifier => Renews(x, new)
      /\ t.pc \in {"save", "update", "verifyProof"}
      /\ t.pc # "verifyProof" /\ t.rec \in Record /\ t.rec.thread = m.thread
      /\ new = (IF t.pc = "verifyProof" THEN x ELSE t.rec)
      /\ \A p, v : /\ a = Prover /\ Stage(m.thread, x, v, m) => Stage(m.thread, new, v, Nothing)
                   /\ a = Verifier /\ Stage(m.thread, p, x, m) => Stage(m.thread, p, new, Nothing)
  BY <1>2, <1>3 DEF Renews
<1> QED BY <1>2, <1>3, <1>4, <1>5, HandleFits

\* A proposal answers the verifier's request, or begins an exchange.
LEMMA ProcessProposalFits ==
  ASSUME ProofInv, Orderly, Spared(Disturbing)', NEW s \in Slots, NEW m, ProcessProposal(s, m)
  PROVE  Orderly'
<1>1. Receive(Verifier, s, m, "propose")
  BY DEF ProcessProposal
<1>2. /\ m \in Message /\ m.type = "propose" /\ m # Nothing /\ m.thread \in Ids
      /\ Settled[Verifier] = records[Verifier] /\ Serial
  BY <1>1, Received, Ends
<1>3. CASE Save(Verifier, s, NewRecord("proposal-received", m.thread, None))
           /\ \A r \in ByThread(Verifier, m.thread) : ~Finds(Verifier, m.thread, "request-sent", r)
  <2>1. PICK p, v : ThreadFits(m.thread, p, v, m)
    BY <1>1, Received, Ends
  <2>2. Recs(Verifier, m.thread) = Opt(v)
    BY <2>1 DEF ThreadFits, Seen
  <2>3. v # Nothing => v.state = "request-sent"
    BY <1>2, <2>1, NothingAssumption
       DEF ThreadFits, Stage, Stages, StateOf, TypeOf, Record, ProverStates, VerifierStates
  <2>4. Recs(Verifier, m.thread) = {}
    BY <1>2, <1>3, <2>2, <2>3, FindsNone, Ends DEF Opt
  <2>5. PICK new : new = NewRecord("proposal-received", m.thread, None)
    OBVIOUS
  <2>6. /\ new \in Record /\ new # Nothing /\ new.thread = m.thread
        /\ new.state = "proposal-received" /\ new.request = None
    BY <1>2, <2>5, NoPresentationType, NothingAssumption
       DEF NewRecord, Record, VerifierStates, Verdicts
  <2>7. \A k : Stage(m.thread, k, Nothing, m) => Stage(m.thread, k, new, Nothing)
    BY <1>2, <2>6 DEF Stage, Stages, StateOf, TypeOf
  <2> QED BY <1>1, <1>3, <2>4, <2>5, <2>6, <2>7, HandleSaveFits, Ends
<1>4. ASSUME NEW r \in ByThread(Verifier, m.thread), Finds(Verifier, m.thread, "request-sent", r),
             Update(Verifier, s, r, [records[Verifier][r] EXCEPT !.state = "proposal-received"], Nothing)
      PROVE  Orderly'
  <2>1. PICK rec, new : rec = records[Verifier][r] /\ new = [rec EXCEPT !.state = "proposal-received"]
    OBVIOUS
  <2>2. rec \in Record /\ rec # Nothing /\ rec.state = "request-sent"
    BY <1>4, <2>1, ReadRecord, NothingAssumption, Ends DEF ByThread, Finds
  <2>3. /\ new \in Record /\ new # Nothing /\ new.thread = rec.thread
        /\ new.state = "proposal-received" /\ new.request = rec.request
    BY <2>1, <2>2, NothingAssumption DEF Record, VerifierStates
  <2>4. \A k : Stage(m.thread, k, rec, m) => Stage(m.thread, k, new, Nothing)
    BY <1>2, <2>2, <2>3 DEF Stage, Stages, StateOf, TypeOf
  <2>5. Moves(rec.state, new.state, "none") /\ Update(Verifier, s, r, new, Nothing)
    BY <1>4, <2>1, <2>2, <2>3 DEF Moves
  <2> QED BY <1>1, <1>4, <2>1, <2>3, <2>4, <2>5, HandleUpdateFits, Ends
<1> QED BY <1>3, <1>4 DEF ProcessProposal

\* A request answers the prover's proposal, or begins an exchange.
LEMMA ProcessRequestFits ==
  ASSUME ProofInv, Orderly, Spared(Disturbing)', NEW s \in Slots, NEW m, ProcessRequest(s, m)
  PROVE  Orderly'
<1>1. Receive(Prover, s, m, "request")
  BY Zenon DEF ProcessRequest
<1>2. /\ m \in Message /\ m.type = "request" /\ m # Nothing /\ m.thread \in Ids
      /\ m.id \in Ids \cup {None}
      /\ Settled[Prover] = records[Prover] /\ Serial
  BY <1>1, Received, Ends DEF Message
<1>3. CASE Save(Prover, s, NewRecord("request-received", m.thread, m.id))
           /\ \A r \in ByThread(Prover, m.thread) : ~Finds(Prover, m.thread, "proposal-sent", r)
  <2>1. PICK p, v : ThreadFits(m.thread, p, v, m)
    BY <1>1, Received, Ends
  <2>2. Recs(Prover, m.thread) = Opt(p)
    BY <2>1 DEF ThreadFits, Seen
  <2>3. p # Nothing => p.state = "proposal-sent"
    BY <1>2, <2>1, NothingAssumption
       DEF ThreadFits, Stage, Stages, StateOf, TypeOf, Record, ProverStates, VerifierStates
  <2>4. Recs(Prover, m.thread) = {}
    BY <1>2, <1>3, <2>2, <2>3, FindsNone, Ends DEF Opt
  <2>5. PICK new : new = NewRecord("request-received", m.thread, m.id)
    OBVIOUS
  <2>6. /\ new \in Record /\ new # Nothing /\ new.thread = m.thread
        /\ new.state = "request-received" /\ new.request = m.id
    BY <1>2, <2>5, NoPresentationType, NothingAssumption
       DEF NewRecord, Record, ProverStates, Verdicts
  <2>7. \A k : Stage(m.thread, Nothing, k, m) => Stage(m.thread, new, k, Nothing)
    BY <1>2, <2>6 DEF Stage, Stages, StateOf, TypeOf
  <2> QED BY <1>1, <1>3, <2>4, <2>5, <2>6, <2>7, HandleSaveFits, Ends
<1>4. ASSUME NEW r \in ByThread(Prover, m.thread), Finds(Prover, m.thread, "proposal-sent", r),
             Update(Prover, s, r, [records[Prover][r] EXCEPT !.state = "request-received",
                                                             !.request = m.id], Nothing)
      PROVE  Orderly'
  <2>1. PICK rec, new : /\ rec = records[Prover][r]
                        /\ new = [rec EXCEPT !.state = "request-received", !.request = m.id]
    BY Zenon
  <2>2. rec \in Record /\ rec # Nothing /\ rec.state = "proposal-sent"
    BY <1>4, <2>1, ReadRecord, NothingAssumption, Ends DEF ByThread, Finds
  <2>3. /\ new \in Record /\ new # Nothing /\ new.thread = rec.thread
        /\ new.state = "request-received" /\ new.request = m.id
    BY <1>2, <2>1, <2>2, NothingAssumption DEF Record, ProverStates
  <2>4. \A k : Stage(m.thread, rec, k, m) => Stage(m.thread, new, k, Nothing)
    BY <1>2, <2>2, <2>3 DEF Stage, Stages, StateOf, TypeOf
  <2>5. Moves(rec.state, new.state, "none") /\ Update(Prover, s, r, new, Nothing)
    BY <1>4, <2>1, <2>2, <2>3 DEF Moves
  <2> QED BY <1>1, <1>4, <2>1, <2>3, <2>4, <2>5, HandleUpdateFits, Ends
<1> QED BY <1>3, <1>4, Zenon DEF ProcessRequest

\* A presentation is checked, or refused for a value it reveals.
LEMMA ProcessPresentationFits ==
  ASSUME ProofInv, Orderly, Spared(Disturbing)', NEW s \in Slots, NEW m, ProcessPresentation(s, m)
  PROVE  Orderly'
<1>1. Receive(Verifier, s, m, "presentation")
  BY DEF ProcessPresentation
<1>2. /\ m \in Message /\ m.type = "presentation" /\ m # Nothing /\ m.body \in Presentation
      /\ Settled[Verifier] = records[Verifier] /\ Serial
  BY <1>1, Received, Ends DEF Message
<1>3. CASE UNCHANGED task
  <2>1. /\ UNCHANGED <<records, task>> /\ UNCHANGED lastId /\ m \in DOMAIN net
        /\ net' = Take(net, m)
    BY <1>1, <1>3 DEF Receive
  <2> QED BY <2>1, DropFits
<1>4. ASSUME NEW r \in ByThread(Verifier, m.thread), Finds(Verifier, m.thread, "request-sent", r),
             Begin(Verifier, s, "verifyProof", r,
                   [records[Verifier][r] EXCEPT !.presentation = m.body], Nothing)
      PROVE  Orderly'
  <2>1. PICK x, rec : x = records[Verifier][r] /\ rec = [x EXCEPT !.presentation = m.body]
    OBVIOUS
  <2>2. PICK t : t = [pc |-> "verifyProof", at |-> r, rec |-> rec, out |-> Nothing]
    OBVIOUS
  <2>3. /\ t.pc = "verifyProof" /\ t.at = r /\ t.rec = rec /\ t.out = Nothing
        /\ TurnsTo(Verifier, s, t)
    BY <1>4, <2>1, <2>2 DEF Begin, TurnsTo
  <2>4. r \in DOMAIN records[Verifier] /\ Recs(Verifier, m.thread) = {x} /\ x.thread = m.thread
    BY <1>2, <1>4, <2>1, FoundSeen, Ends
  <2>5. x \in Record /\ x # Nothing
    BY <2>1, <2>4, ReadRecord, NothingAssumption, Ends
  <2>6. /\ rec \in Record /\ rec.thread = m.thread /\ rec.presentation = m.body
        /\ rec.request = x.request /\ Renews(x, x)
    BY <1>2, <2>1, <2>4, <2>5 DEF Record, Renews
  <2>7. Recs(Verifier, m.thread) = Opt(x)
    BY <2>4, <2>5 DEF Opt
  <2>8. AtFits(records[Verifier], t) /\ WriteFits(records[Verifier], t)
    BY <2>1, <2>3, <2>4, <2>6 DEF AtFits, WriteFits
  <2>9. \A k : Stage(m.thread, k, x, m) => Stage(m.thread, k, x, Nothing)
    BY <1>2 DEF Stage, Stages, StateOf, TypeOf
  <2>10. /\ t.pc \in {"save", "update", "verifyProof"} /\ t.pc # "save"
         /\ t.rec \in Record /\ t.rec.thread = m.thread /\ t.rec.presentation = m.body
         /\ t.rec.request = x.request /\ Renews(x, x)
         /\ x = (IF t.pc = "verifyProof" THEN x ELSE t.rec)
    BY <2>3, <2>6
  <2> QED BY <1>1, <2>3, <2>7, <2>8, <2>9, <2>10, HandleFits, Ends
<1> QED BY <1>3, <1>4 DEF ProcessPresentation

\* An ack ends the exchange for the prover.
LEMMA ProcessAckFits ==
  ASSUME ProofInv, Orderly, Spared(Disturbing)', NEW s \in Slots, NEW m, ProcessAck(s, m)
  PROVE  Orderly'
<1>1. Receive(Prover, s, m, "ack")
  BY DEF ProcessAck
<1>2. m \in Message /\ m.type = "ack" /\ m # Nothing
  BY <1>1, Received, Ends
<1>3. PICK r \in ByThread(Prover, m.thread) :
        /\ Finds(Prover, m.thread, "presentation-sent", r)
        /\ Update(Prover, s, r, [records[Prover][r] EXCEPT !.state = "done"], Nothing)
  BY DEF ProcessAck
<1>4. PICK rec, new : rec = records[Prover][r] /\ new = [rec EXCEPT !.state = "done"]
  OBVIOUS
<1>5. rec \in Record /\ rec # Nothing /\ rec.state = "presentation-sent"
  BY <1>3, <1>4, ReadRecord, NothingAssumption, Ends DEF ByThread, Finds
<1>6. /\ new \in Record /\ new # Nothing /\ new.thread = rec.thread
      /\ new.state = "done" /\ new.presentation = rec.presentation
      /\ new.isVerified = rec.isVerified /\ new.request = rec.request
  BY <1>4, <1>5, NothingAssumption DEF Record, ProverStates
<1>7. \A k : Stage(m.thread, rec, k, m) => Stage(m.thread, new, k, Nothing)
  BY <1>2, <1>5, <1>6 DEF Stage, Stages, StateOf, TypeOf
<1>8. Moves(rec.state, new.state, "none") /\ Update(Prover, s, r, new, Nothing)
  BY <1>3, <1>4, <1>5, <1>6 DEF Moves
<1> QED BY <1>1, <1>3, <1>4, <1>6, <1>7, <1>8, HandleUpdateFits, Ends

\* Nothing that has happened is forgotten.
LEMMA Remembers == [Next]_vars => happened \subseteq happened'
<1> SUFFICES ASSUME [Next]_vars PROVE happened \subseteq happened'
  OBVIOUS
<1>1. ASSUME NEW a \in Agents, NEW s \in Slots, Enter(a, s) PROVE happened \subseteq happened'
  BY <1>1, EnterRemembers
<1>2. ASSUME NEW a \in Agents, NEW s \in Slots, Throws(a, s) \/ \E rec : Catches(a, s, rec)
      PROVE  happened \subseteq happened'
  BY <1>2 DEF Throws, Catches, Strikes
<1>3. CASE UNCHANGED vars
  BY <1>3 DEF vars, exchangeVars
<1>4. CASE Begins
  BY <1>1, <1>4, Ends
     DEF Begins, ProposeProof, RequestProof, CreateProposal, CreateRequest, Start,
         CreateProposalAsResponse, CallOn
<1>5. ASSUME NEW a \in Agents, NEW s \in Slots, Accept(a, s) PROVE happened \subseteq happened'
  BY <1>1, <1>5 DEF Accept, AcceptProposal, AcceptRequest, AcceptPresentation, CallOn
<1>6. ASSUME NEW a \in Agents, NEW s \in Slots, Handle(a, s) PROVE happened \subseteq happened'
  <2>1. ASSUME NEW m, NEW type, Receive(a, s, m, type) PROVE happened \subseteq happened'
    BY <1>1, <2>1 DEF Receive
  <2>2. ASSUME NEW m, ProcessRequest(s, m) PROVE Receive(Prover, s, m, "request")
    BY <2>2, Zenon DEF ProcessRequest
  <2> QED
    BY <1>1, <1>6, <2>1, <2>2, Ends
       DEF Handle, ProcessProposal, ProcessPresentation, ProcessAck, Refuse, Refuses, Receive
<1>7. ASSUME NEW a \in Agents, NEW s \in Slots, Proceed(a, s) PROVE happened \subseteq happened'
  <2>1. ASSUME CreateProof(s) \/ VerifyProof(s) PROVE UNCHANGED happened
    BY <2>1, Zenon DEF CreateProof, VerifyProof
  <2> QED BY <1>7, <2>1 DEF Proceed, SaveRecord, UpdateRecord, Send
<1>8. CASE Fault
  BY <1>8 DEF Fault, Lose, Duplicate, Crash, Strikes
<1>9. ASSUME NEW a \in Agents, NEW s \in Slots, CallFails(a, s) PROVE happened \subseteq happened'
  BY <1>2, <1>9 DEF CallFails
<1> QED BY <1>3, <1>4, <1>5, <1>6, <1>7, <1>8, <1>9 DEF Next

\* Every step leads from stage to stage, while nothing disturbs the agents.
LEMMA OrderlyStep ==
  ASSUME ProofInv, Orderly, Spared(Disturbing)', [Next]_vars
  PROVE  Orderly'
<1>1. CASE UNCHANGED vars
  <2>1. UNCHANGED <<records, task, net, lastId>>
    BY <1>1 DEF vars, exchangeVars
  <2> QED BY <2>1
     DEF Orderly, Serial, Alone, Settled, Doing, ThreadsFit, ThreadFits, Seen, Recs, Way, Sent,
         AwaitedFits, Awaiting, Stage, WriteFits, Distinct
<1>2. CASE Begins
  BY <1>2, StartsFit, RespondFits DEF Begins, ProposeProof, RequestProof
<1>3. ASSUME NEW a \in Agents, NEW s \in Slots, Accept(a, s) PROVE Orderly'
  BY <1>3, AcceptsFit DEF Accept
<1>4. ASSUME NEW a \in Agents, NEW s \in Slots, NEW m, Refuse(a, s, m) PROVE Orderly'
  <2>1. /\ UNCHANGED <<records, task>> /\ UNCHANGED lastId /\ m \in DOMAIN net
        /\ net' = Take(net, m)
    BY <1>4 DEF Refuse, Refuses, Receive
  <2> QED BY <2>1, DropFits
<1>5. ASSUME NEW a \in Agents, NEW s \in Slots, Handle(a, s) PROVE Orderly'
  BY <1>4, <1>5, ProcessProposalFits, ProcessPresentationFits, ProcessRequestFits, ProcessAckFits
     DEF Handle
<1>6. ASSUME NEW a \in Agents, NEW s \in Slots, Proceed(a, s) PROVE Orderly'
  BY <1>6, ProceedFits, CreateProofFits, VerifyProofFits DEF Proceed
<1>7. CASE Fault
  <2>1. ASSUME NEW m \in DOMAIN net, Lose(m) PROVE Orderly'
    <3>1. UNCHANGED <<records, task>> /\ UNCHANGED lastId /\ net' = Take(net, m)
      BY <2>1 DEF Lose
    <3> QED BY <3>1, DropFits
  <2>2. ~\E m \in DOMAIN net : Duplicate(m)
    BY Unstruck DEF Duplicate, Disturbing
  <2>3. ~\E a \in Agents : Crash(a)
    BY Unstruck DEF Crash, Disturbing
  <2> QED BY <1>7, <2>1, <2>2, <2>3 DEF Fault
<1>8. ~\E a \in Agents, s \in Slots : CallFails(a, s)
  BY Unstruck DEF CallFails, Throws, Catches, Disturbing
<1> QED BY <1>1, <1>2, <1>3, <1>5, <1>6, <1>7, <1>8 DEF Next

LEMMA SerialStep == ProofInv /\ SerialInv /\ [Next]_vars => SerialInv'
<1> SUFFICES ASSUME ProofInv, SerialInv, [Next]_vars, Spared(Disturbing)' PROVE Orderly'
  BY DEF SerialInv
<1>1. Spared(Disturbing)
  BY Remembers DEF Spared
<1> QED BY <1>1, OrderlyStep DEF SerialInv

LEMMA SerialInit == Init => SerialInv
<1> SUFFICES ASSUME Init PROVE Orderly
  BY DEF SerialInv
<1>1. /\ records = [a \in Agents |-> <<>>] /\ net = EmptyBag /\ lastId = 0
      /\ task = [a \in Agents |-> [s \in Slots |-> Idle]]
  BY DEF Init, ExchangeInit
<1>2. Serial /\ (\A a \in Agents, u \in Ids : Recs(a, u) = {} /\ Way(u) = {})
      /\ \A a \in Agents : Doing[a] = Idle
  BY <1>1, StartsSerial
<1>3. Idle.pc = "idle"
  BY DEF Idle
<1>4. ThreadsFit
  <2>0. Distinct
    BY <1>2, Ends DEF Distinct
  <2> SUFFICES ASSUME NEW u \in Ids PROVE ThreadFits(u, Nothing, Nothing, Nothing)
    BY <2>0 DEF ThreadsFit
  <2>1. Seen(Prover, Verifier, u, Nothing, Nothing, Nothing)
    BY <1>2, Ends DEF Seen, Opt
  <2>2. Stage(u, Nothing, Nothing, Nothing)
    BY DEF Stage, Stages, StateOf, TypeOf
  <2>3. AwaitedFits(u, Nothing, Nothing, Nothing)
    BY <1>2, <1>3, Ends DEF AwaitedFits, Awaiting
  <2> QED BY <2>1, <2>2, <2>3 DEF ThreadFits
<1>5. \A a \in Agents : WriteFits(records[a], Doing[a])
  BY <1>2, <1>3 DEF WriteFits
<1> QED BY <1>2, <1>4, <1>5 DEF Orderly

\* Until something disturbs the agents, each exchange is at one of the stages, and what
\* they await the proof library for fits it.
THEOREM ProofSerial == Spec => []SerialInv
<1>1. Init => ProofInv /\ SerialInv
  BY InitEstablishes, SerialInit
<1>2. ProofInv /\ SerialInv /\ [Next]_vars => (ProofInv /\ SerialInv)'
  BY InvStep, SerialStep
<1> QED BY <1>1, <1>2, PTL DEF Spec

\* The record in an agent's wallet is the one of its stage, or the one before it.
LEMMA Behind ==
  ASSUME ProofInv, Orderly, NEW a \in Agents, NEW r \in DOMAIN records[a],
         NEW u, u = records[a][r].thread, NEW p, NEW v, NEW m, ThreadFits(u, p, v, m),
         NEW x, x = (IF a = Prover THEN p ELSE v)
  PROVE  x # Nothing /\ Before(records[a][r], x, m)
<1>1. PICK rec, t : rec = records[a][r] /\ t = Doing[a]
  OBVIOUS
<1>2. Shaped(Record, Message, PCs) /\ Serial
  BY ProofShaped DEF Orderly
<1>3. PICK y : Shows(a, u, y) /\ (y = rec \/ (t.pc = "update" /\ t.at = r /\ y = t.rec /\ y.thread = u))
  BY <1>1, <1>2, BehindSettled
<1>4. Recs(a, u) = Opt(x) /\ Way(u) = Opt(m)
  BY AgentsAssumption DEF ThreadFits, Seen
<1>5. x # Nothing /\ x = y
  BY <1>3, <1>4 DEF Opt, Shows
<1>6. CASE x # rec
  <2>1. x = t.rec /\ t.pc = "update" /\ t.at = r /\ x.thread = u
    BY <1>3, <1>5, <1>6
  <2>2. Succeeds(rec, x, t.out)
    BY <1>1, <2>1 DEF Orderly, WriteFits
  <2>3. ASSUME t.out # Nothing PROVE t.out = m
    <3>1. t.out \in Way(u)
      BY <1>1, <2>1, <2>2, <2>3 DEF Succeeds, Way, Sent
    <3> QED BY <1>4, <3>1 DEF Opt
  <2> QED BY <1>1, <1>5, <2>2, <2>3 DEF Before
<1> QED BY <1>1, <1>5, <1>6 DEF Before

\* What the records say of each other, when one or both are a step behind.
LEMMA StagesInStep ==
  ASSUME NEW u, NEW x, NEW y, NEW m, x # Nothing, y # Nothing, Stage(u, x, y, m),
         NEW p, Before(p, x, m), NEW v, v.state # "presentation-sent", Before(v, y, m)
  PROVE  /\ v.state \in {"presentation-received", "done"} =>
              /\ p.state \in {"presentation-sent", "done"}
              /\ p.presentation = v.presentation
         /\ p.state = "done" => v.state = "done"
<1>1. /\ Stages(x.state, y.state, TypeOf(m))
      /\ y.state \in {"presentation-received", "done"} => x.presentation = y.presentation
  BY DEF Stage, StateOf
<1>2. /\ p = x \/ Changes(p.state, x.state, TypeOf(m))
      /\ p = x \/ x.state = "done" => p.presentation = x.presentation
  BY DEF Before, Succeeds, Changes, TypeOf
<1>3. /\ v = y \/ Changes(v.state, y.state, TypeOf(m))
      /\ v = y \/ y.state = "done" => v.presentation = y.presentation
  BY DEF Before, Succeeds, Changes, TypeOf
<1>4. ASSUME v.state \in {"presentation-received", "done"}
      PROVE  /\ p.state \in {"presentation-sent", "done"}
             /\ p.presentation = v.presentation
  <2>1. y.state \in {"presentation-received", "done"}
    BY <1>3, <1>4 DEF Changes, Moves
  <2>2. v.presentation = y.presentation
    BY <1>3, <1>4 DEF Changes, Moves
  <2>3. x.state \in {"presentation-sent", "done"}
    BY <1>1, <2>1 DEF Stages
  <2>4. p.state \in {"presentation-sent", "done"} /\ p.presentation = x.presentation
    BY <1>1, <1>2, <2>1 DEF Stages, Changes, Moves
  <2> QED BY <1>1, <2>1, <2>2, <2>4
<1>5. p.state = "done" => v.state = "done"
  BY <1>1, <1>2, <1>3 DEF Stages, Changes, Moves
<1> QED BY <1>4, <1>5

\* However often the two sides negotiate and whatever is lost, the verifier has judged
\* the very presentation the prover's record shows, and each has one record of it.
THEOREM ProofInStep == Spec => []InStep
<1>1. ASSUME ProofInv, SerialInv PROVE InStep
  <2> SUFFICES ASSUME Spared(Disturbing)
               PROVE  Unique /\ \A r \in DOMAIN records[Prover], q \in DOMAIN records[Verifier] :
                        LET p == records[Prover][r]
                            v == records[Verifier][q]
                        IN p.thread = v.thread =>
                             /\ v.state \in {"presentation-received", "done"} =>
                                  /\ p.state \in {"presentation-sent", "done"}
                                  /\ p.presentation = v.presentation
                             /\ p.state = "done" => v.state = "done"
    BY DEF InStep, Disturbing
  <2>1. Orderly
    BY <1>1 DEF SerialInv
  <2>2. Shaped(Record, Message, PCs) /\ Serial
    BY <1>1, <2>1, ProofShaped DEF Orderly
  <2>3. Unique
    BY <2>2, SerialUnique
  <2>4. ASSUME NEW r \in DOMAIN records[Prover], NEW q \in DOMAIN records[Verifier],
               NEW p, p = records[Prover][r], NEW v, v = records[Verifier][q], p.thread = v.thread
        PROVE  /\ v.state \in {"presentation-received", "done"} =>
                    /\ p.state \in {"presentation-sent", "done"}
                    /\ p.presentation = v.presentation
               /\ p.state = "done" => v.state = "done"
    <3>1. PICK u : u = p.thread
      OBVIOUS
    <3>2. u \in Ids
      BY <1>1, <2>4, <3>1, ReadRecord, Ends DEF Record
    <3>3. PICK x, y, m : ThreadFits(u, x, y, m)
      BY <2>1, <3>2 DEF Orderly, ThreadsFit
    <3>4. x # Nothing /\ Before(p, x, m) /\ y # Nothing /\ Before(v, y, m)
      BY <1>1, <2>1, <2>4, <3>1, <3>3, Behind, Ends
    <3>5. Stage(u, x, y, m)
      BY <3>3 DEF ThreadFits
    <3>6. v.state # "presentation-sent"
      <4>1. records[Verifier][q] \in VerifierGood
        BY <1>1, ReadGood, Parts, Ends DEF ProofInv
      <4> QED BY <2>4, <4>1 DEF VerifierGood
    <3> QED BY <3>4, <3>5, <3>6, StagesInStep
  <2> QED BY <2>3, <2>4
<1> QED BY <1>1, ProofInvariant, ProofSerial, PTL

-----------------------------------------------------------------------------
(* The refinement of PresentationVerdicts                                    *)

\* The records of a wallet that judge request q, and what they say of it.
JudgedIn(recs, q) == {r \in DOMAIN recs : recs[r].request = q /\ recs[r].isVerified # "unknown"}
VerdictIn(recs, q) ==
  IF JudgedIn(recs, q) = {} THEN "unknown"
  ELSE recs[CHOOSE r \in JudgedIn(recs, q) : TRUE].isVerified
DoneIn(recs) == {recs[r].request : r \in {r \in DOMAIN recs : recs[r].state = "done"}}

LEMMA SeenFrom ==
  /\ RequestVerdicts = [q \in Ids |-> VerdictIn(records[Verifier], q)]
  /\ Concluded = DoneIn(records[Prover])
<1>1. ASSUME NEW q PROVE Verdict(q) = VerdictIn(records[Verifier], q)
  BY Zenon DEF Verdict, VerdictIn, JudgedIn
<1>2. RequestVerdicts = [q \in Ids |-> VerdictIn(records[Verifier], q)]
  BY <1>1 DEF RequestVerdicts
<1> QED BY <1>2 DEF Concluded, DoneIn

LEMMA SeenThen ==
  (/\ RequestVerdicts = [q \in Ids |-> VerdictIn(records[Verifier], q)]
   /\ Concluded = DoneIn(records[Prover]))'
BY SeenFrom, PTL

LEMMA SameVerdict ==
  ASSUME NEW recs, NEW recs2, NEW q, JudgedIn(recs2, q) = JudgedIn(recs, q),
         \A r \in JudgedIn(recs, q) : recs2[r].isVerified = recs[r].isVerified
  PROVE  VerdictIn(recs2, q) = VerdictIn(recs, q)
<1>1. PICK J : J = JudgedIn(recs, q)
  OBVIOUS
<1>2. J # {} => (CHOOSE r \in J : TRUE) \in J
  OBVIOUS
<1> QED BY <1>1, <1>2 DEF VerdictIn

LEMMA JudgedHas ==
  ASSUME NEW recs, NEW q, NEW x \in JudgedIn(recs, q)
  PROVE  /\ VerdictIn(recs, q) # "unknown"
         /\ (\A r \in JudgedIn(recs, q) : r = x) => VerdictIn(recs, q) = recs[x].isVerified
<1>1. PICK y \in JudgedIn(recs, q) : VerdictIn(recs, q) = recs[y].isVerified
  <2>1. PICK J : J = JudgedIn(recs, q)
    OBVIOUS
  <2>2. (CHOOSE r \in J : TRUE) \in J /\ J # {}
    BY <2>1
  <2> QED BY <2>1, <2>2 DEF VerdictIn
<1>2. recs[y].isVerified # "unknown"
  BY <1>1 DEF JudgedIn
<1> QED BY <1>1, <1>2

\* A record that is no judgement yet, or no conclusion, changes nothing by being added.
LEMMA AddedSilently ==
  ASSUME NEW recs \in Seq(Record), NEW x \in Record, NEW recs2, recs2 = Append(recs, x)
  PROVE  /\ x.isVerified = "unknown" => \A q : VerdictIn(recs2, q) = VerdictIn(recs, q)
         /\ x.state # "done" => DoneIn(recs2) = DoneIn(recs)
<1>1. /\ DOMAIN recs2 = 1..Len(recs) + 1 /\ DOMAIN recs = 1..Len(recs) /\ Len(recs) \in Nat
      /\ recs2[Len(recs) + 1] = x /\ \A r \in 1..Len(recs) : recs2[r] = recs[r]
  OBVIOUS
<1>2. \A r \in DOMAIN recs2 : r = Len(recs) + 1 \/ r \in DOMAIN recs
  BY <1>1
<1>3. ASSUME x.isVerified = "unknown", NEW q PROVE VerdictIn(recs2, q) = VerdictIn(recs, q)
  <2>1. JudgedIn(recs2, q) = JudgedIn(recs, q)
    BY <1>1, <1>2, <1>3 DEF JudgedIn
  <2>2. \A r \in JudgedIn(recs, q) : recs2[r].isVerified = recs[r].isVerified
    BY <1>1 DEF JudgedIn
  <2> QED BY <2>1, <2>2, SameVerdict
<1>4. ASSUME x.state # "done" PROVE DoneIn(recs2) = DoneIn(recs)
  <2>1. {r \in DOMAIN recs2 : recs2[r].state = "done"} = {r \in DOMAIN recs : recs[r].state = "done"}
    BY <1>1, <1>2, <1>4
  <2>2. \A r \in DOMAIN recs : recs2[r] = recs[r]
    BY <1>1
  <2> QED BY <2>1, <2>2 DEF DoneIn
<1> QED BY <1>3, <1>4

\* One record is replaced, and judged as it was.
LEMMA ReplacedSilently ==
  ASSUME NEW recs, NEW i \in DOMAIN recs, NEW y, NEW recs2, DOMAIN recs2 = DOMAIN recs,
         recs2[i] = y, \A r \in DOMAIN recs : r # i => recs2[r] = recs[r],
         y.isVerified = recs[i].isVerified, y.isVerified # "unknown" => y.request = recs[i].request
  PROVE  \A q : VerdictIn(recs2, q) = VerdictIn(recs, q)
<1> SUFFICES ASSUME NEW q PROVE VerdictIn(recs2, q) = VerdictIn(recs, q)
  OBVIOUS
<1>1. JudgedIn(recs2, q) = JudgedIn(recs, q)
  BY DEF JudgedIn
<1>2. \A r \in JudgedIn(recs, q) : recs2[r].isVerified = recs[r].isVerified
  BY DEF JudgedIn
<1> QED BY <1>1, <1>2, SameVerdict

\* One record is replaced, and judged for the first time.
LEMMA ReplacedJudged ==
  ASSUME NEW recs, NEW i \in DOMAIN recs, NEW y, NEW recs2, DOMAIN recs2 = DOMAIN recs,
         recs2[i] = y, \A r \in DOMAIN recs : r # i => recs2[r] = recs[r],
         recs[i].isVerified = "unknown", y.isVerified # "unknown", NEW q, q = y.request,
         JudgedIn(recs, q) = {}
  PROVE  /\ VerdictIn(recs2, q) = y.isVerified
         /\ \A o : o # q => VerdictIn(recs2, o) = VerdictIn(recs, o)
<1>1. i \in JudgedIn(recs2, q) /\ \A r \in JudgedIn(recs2, q) : r = i
  BY DEF JudgedIn
<1>2. ASSUME NEW o, o # q PROVE VerdictIn(recs2, o) = VerdictIn(recs, o)
  <2>1. JudgedIn(recs2, o) = JudgedIn(recs, o)
    BY <1>2 DEF JudgedIn
  <2>2. \A r \in JudgedIn(recs, o) : recs2[r].isVerified = recs[r].isVerified
    BY DEF JudgedIn
  <2> QED BY <2>1, <2>2, SameVerdict
<1> QED BY <1>1, <1>2, JudgedHas

LEMMA ReplacedDone ==
  ASSUME NEW recs, NEW i \in DOMAIN recs, NEW y, NEW recs2, DOMAIN recs2 = DOMAIN recs,
         recs2[i] = y, \A r \in DOMAIN recs : r # i => recs2[r] = recs[r],
         recs[i].state # "done"
  PROVE  DoneIn(recs2) = DoneIn(recs) \cup (IF y.state = "done" THEN {y.request} ELSE {})
BY DEF DoneIn

\* The wallets are written by the steps that were decided on, and by no other.
LEMMA WritesOnly ==
  ASSUME [Next]_vars, Spared({"overlap", "crash", "duplicate", "refuse"})'
  PROVE  UNCHANGED records \/ \E a \in Agents, s \in Slots : SaveRecord(a, s) \/ UpdateRecord(a, s)
<1>1. CASE UNCHANGED vars
  BY <1>1 DEF vars, exchangeVars
<1>2. CASE Begins
  BY <1>2
     DEF Begins, ProposeProof, RequestProof, CreateProposal, CreateRequest, Start,
         CreateProposalAsResponse, CallOn
<1>3. ASSUME NEW a \in Agents, NEW s \in Slots, Accept(a, s) PROVE UNCHANGED records
  BY <1>3 DEF Accept, AcceptProposal, AcceptRequest, AcceptPresentation, CallOn
<1>4. ASSUME NEW a \in Agents, NEW s \in Slots, Handle(a, s) PROVE UNCHANGED records
  <2>1. ASSUME NEW m, ProcessRequest(s, m) PROVE Receive(Prover, s, m, "request")
    BY <2>1, Zenon DEF ProcessRequest
  <2> QED BY <1>4, <2>1
    DEF Handle, ProcessProposal, ProcessPresentation, ProcessAck, Refuse, Refuses, Receive
<1>5. ASSUME NEW a \in Agents, NEW s \in Slots, Proceed(a, s)
      PROVE  UNCHANGED records \/ SaveRecord(a, s) \/ UpdateRecord(a, s)
  <2>1. ASSUME CreateProof(s) \/ VerifyProof(s) PROVE UNCHANGED records
    BY <2>1, Zenon DEF CreateProof, VerifyProof
  <2> QED BY <1>5, <2>1 DEF Proceed, Send
<1>6. CASE Fault
  BY <1>6 DEF Fault, Lose, Duplicate, Crash
<1>7. ~\E a \in Agents, s \in Slots : CallFails(a, s)
  BY DEF CallFails, Throws, Catches, Strikes, Spared
<1> QED BY <1>1, <1>2, <1>3, <1>4, <1>5, <1>6, <1>7 DEF Next

\* What an update that is under way writes, and over what.
LEMMA Written ==
  ASSUME ProofInv, Orderly, NEW a \in Agents, NEW s \in Slots, UpdateRecord(a, s),
         NEW t, t = task[a][s]
  PROVE  /\ Doing[a] = t /\ t.pc = "update" /\ t.rec \in GoodRecords[a]
         /\ t.at \in DOMAIN records[a]
         /\ records[a][t.at] \in GoodRecords[a] /\ records[a][t.at].thread = t.rec.thread
         /\ Succeeds(records[a][t.at], t.rec, t.out)
         /\ Settled[a] = [records[a] EXCEPT ![t.at] = t.rec]
         /\ records' = [records EXCEPT ![a] = [records[a] EXCEPT ![t.at] = t.rec]]
         /\ records \in [Agents -> Seq(Record)]
<1>1. Shaped(Record, Message, PCs) /\ Serial
  BY ProofShaped DEF Orderly
<1>2. t.pc = "update" /\ records' = [records EXCEPT ![a] = [records[a] EXCEPT ![t.at] = t.rec]]
  BY DEF UpdateRecord
<1>3. Doing[a] = t
  BY <1>1, <1>2, Busy DEF Free, Serial
<1>4. t.rec \in GoodRecords[a]
  BY <1>2 DEF ProofInv, Fits, Held, Fit
<1>5. t.at \in DOMAIN records[a] /\ records[a][t.at].thread = t.rec.thread
  <2>1. AtFits(records[a], t)
    BY <1>1, <1>3 DEF Serial
  <2> QED BY <1>2, <2>1 DEF AtFits
<1>6. records[a][t.at] \in GoodRecords[a]
  BY <1>5, ReadGood DEF ProofInv
<1>7. Succeeds(records[a][t.at], t.rec, t.out)
  BY <1>2, <1>3 DEF Orderly, WriteFits
<1>8. Settled[a] = [records[a] EXCEPT ![t.at] = t.rec]
  BY <1>2, <1>3 DEF Settled, Settle
<1> QED BY <1>1, <1>2, <1>3, <1>4, <1>5, <1>6, <1>7, <1>8 DEF Shaped

\* Saving a record neither judges nor concludes.
LEMMA SaveJudgesNothing ==
  ASSUME ProofInv, Orderly, NEW a \in Agents, NEW s \in Slots, SaveRecord(a, s)
  PROVE  UNCHANGED <<RequestVerdicts, Concluded>>
<1>1. PICK t, recs, recs2 : t = task[a][s] /\ recs = records[a] /\ recs2 = Append(recs, t.rec)
  OBVIOUS
<1>2. Shaped(Record, Message, PCs) /\ Serial
  BY ProofShaped DEF Orderly
<1>3. t.pc = "save" /\ records' = [records EXCEPT ![a] = recs2]
  BY <1>1 DEF SaveRecord
<1>4. Doing[a] = t
  BY <1>1, <1>2, <1>3, Busy DEF Free, Serial
<1>5. t.rec \in GoodRecords[a]
  BY <1>1, <1>3 DEF ProofInv, Fits, Held, Fit
<1>6. t.rec.state \in {"proposal-sent", "request-sent", "proposal-received", "request-received"}
  BY <1>3, <1>4 DEF Orderly, WriteFits
<1>7. a = Verifier => t.rec.isVerified = "unknown"
  BY <1>5, <1>6, Parts DEF VerifierGood, Judged
<1>8. recs \in Seq(Record) /\ t.rec \in Record
  BY <1>1, <1>2, <1>3 DEF Shaped
<1>9. /\ a = Verifier => \A q : VerdictIn(recs2, q) = VerdictIn(recs, q)
      /\ a = Prover => DoneIn(recs2) = DoneIn(recs)
  <2>1. PICK x \in Record : x = t.rec
    BY <1>8
  <2>2. recs \in Seq(Record) /\ recs2 = Append(recs, x)
    BY <1>1, <1>8, <2>1
  <2>3. /\ x.isVerified = "unknown" => \A q : VerdictIn(recs2, q) = VerdictIn(recs, q)
        /\ x.state # "done" => DoneIn(recs2) = DoneIn(recs)
    BY <2>2, AddedSilently, Zenon
  <2> QED BY <1>6, <1>7, <2>1, <2>3
<1>10. \A b \in Agents : records'[b] = IF b = a THEN recs2 ELSE records[b]
  BY <1>2, <1>3 DEF Shaped
<1>11. /\ \A q : VerdictIn(records[Verifier], q)' = VerdictIn(records[Verifier], q)
       /\ DoneIn(records[Prover])' = DoneIn(records[Prover])
  BY <1>1, <1>9, <1>10, Ends
<1>12. RequestVerdicts' = [q \in Ids |-> VerdictIn(records'[Verifier], q)]
       /\ Concluded' = DoneIn(records'[Prover])
  BY SeenThen
<1> QED BY <1>11, <1>12, SeenFrom

\* A request is judged at most once: no other record asks it.
LEMMA NotYetJudged ==
  ASSUME ProofInv, Orderly, NEW s \in Slots, UpdateRecord(Verifier, s),
         NEW t, t = task[Verifier][s], t.rec.state = "presentation-received"
  PROVE  t.rec.request \in Ids /\ JudgedIn(records[Verifier], t.rec.request) = {}
<1>1. PICK recs, old, u, q : /\ recs = records[Verifier] /\ old = recs[t.at]
                             /\ u = t.rec.thread /\ q = t.rec.request
  OBVIOUS
<1>2. /\ t.at \in DOMAIN recs /\ old \in VerifierGood /\ t.rec \in VerifierGood
      /\ Settled[Verifier] = [recs EXCEPT ![t.at] = t.rec] /\ old.thread = u
      /\ Succeeds(old, t.rec, t.out)
  BY <1>1, Written, Ends, Parts
<1>3. old.isVerified = "unknown" /\ u \in Ids /\ t.rec # Nothing
  BY <1>1, <1>2, NothingAssumption DEF Succeeds, Moves, VerifierGood, Judged, Record
<1>4. Once(Settled[Verifier])
  BY Ends DEF Orderly, Serial
<1>5. PICK new : new = [recs EXCEPT ![t.at] = t.rec]
  OBVIOUS
<1>6. DOMAIN new = DOMAIN recs /\ new[t.at] = t.rec /\ \A r \in DOMAIN recs : r # t.at => new[r] = recs[r]
  BY <1>2, <1>5
<1>7. \A r \in DOMAIN recs : new[r] \in Recs(Verifier, new[r].thread)
  BY <1>2, <1>5, <1>6 DEF Recs, Of
<1>8. PICK p, v, m : ThreadFits(u, p, v, m)
  BY <1>3 DEF Orderly, ThreadsFit
<1>9. t.rec \in Recs(Verifier, u)
  BY <1>1, <1>2, <1>6, <1>7
<1>10. v = t.rec
  BY <1>8, <1>9 DEF ThreadFits, Seen, Opt
<1>11. q \in Ids
  BY <1>1, <1>3, <1>8, <1>10 DEF ThreadFits, Stage, StateOf
<1>12. ASSUME NEW r \in JudgedIn(recs, q) PROVE FALSE
  <2>1. r \in DOMAIN recs /\ recs[r].request = q /\ r # t.at
    BY <1>1, <1>3, <1>12 DEF JudgedIn
  <2>2. recs[r] \in Recs(Verifier, recs[r].thread) /\ new[r] = recs[r]
    BY <1>6, <1>7, <2>1
  <2>3. recs[r].thread \in Ids
    BY <1>1, <2>1, ReadRecord, Ends DEF Record
  <2>4. recs[r].thread = u
    <3>1. q # None
      BY <1>11 DEF Ids, None
    <3> QED BY <1>1, <1>3, <1>9, <2>1, <2>2, <2>3, <3>1 DEF Orderly, ThreadsFit, Distinct
  <2> QED BY <1>1, <1>2, <1>4, <1>5, <1>6, <2>1, <2>2, <2>4 DEF Once
<1> QED BY <1>1, <1>11, <1>12

\* The verifier's record is written: a request is judged, or nothing is seen.
LEMMA UpdateJudges ==
  ASSUME ProofInv, Orderly, NEW s \in Slots, UpdateRecord(Verifier, s)
  PROVE  Promise!Next \/ UNCHANGED <<RequestVerdicts, Concluded>>
<1>1. PICK t, recs, recs2 : /\ t = task[Verifier][s] /\ recs = records[Verifier]
                            /\ recs2 = [recs EXCEPT ![t.at] = t.rec]
  OBVIOUS
<1>2. /\ t.at \in DOMAIN recs /\ recs[t.at] \in VerifierGood /\ t.rec \in VerifierGood
      /\ Succeeds(recs[t.at], t.rec, t.out)
      /\ records' = [records EXCEPT ![Verifier] = recs2] /\ records \in [Agents -> Seq(Record)]
  BY <1>1, Written, Ends, Parts
<1>3. records'[Verifier] = recs2 /\ records'[Prover] = records[Prover]
  BY <1>2, Ends
<1>4. DOMAIN recs2 = DOMAIN recs /\ recs2[t.at] = t.rec /\ \A r \in DOMAIN recs : r # t.at => recs2[r] = recs[r]
  BY <1>1, <1>2
<1>5. RequestVerdicts' = [q \in Ids |-> VerdictIn(recs2, q)] /\ Concluded' = Concluded
  <2>1. RequestVerdicts' = [q \in Ids |-> VerdictIn(records'[Verifier], q)]
        /\ Concluded' = DoneIn(records'[Prover])
    BY SeenThen
  <2> QED BY <1>3, <2>1, SeenFrom
<1>6. RequestVerdicts = [q \in Ids |-> VerdictIn(recs, q)]
  BY <1>1, SeenFrom
<1>7. CASE t.rec.state = "presentation-received"
  <2>1. recs[t.at].isVerified = "unknown" /\ t.rec.isVerified \in {"verified", "rejected"}
    BY <1>2, <1>7 DEF Succeeds, Moves, VerifierGood, Judged, Record, Verdicts
  <2>2. t.rec.request \in Ids /\ JudgedIn(recs, t.rec.request) = {}
    BY <1>1, <1>7, NotYetJudged
  <2>3. /\ VerdictIn(recs2, t.rec.request) = t.rec.isVerified
        /\ \A q : q # t.rec.request => VerdictIn(recs2, q) = VerdictIn(recs, q)
    <3>1. PICK y, q : y = t.rec /\ q = y.request
      OBVIOUS
    <3>2. /\ recs2[t.at] = y /\ recs[t.at].isVerified = "unknown" /\ y.isVerified # "unknown"
          /\ JudgedIn(recs, q) = {} /\ t.at \in DOMAIN recs
      BY <1>2, <1>4, <2>1, <2>2, <3>1
    <3> QED BY <1>4, <3>1, <3>2, ReplacedJudged
  <2>4. RequestVerdicts' = [RequestVerdicts EXCEPT ![t.rec.request] = t.rec.isVerified]
    BY <1>5, <1>6, <2>3
  <2>5. RequestVerdicts[t.rec.request] = "unknown"
    BY <1>6, <2>2 DEF VerdictIn
  <2>6. Promise!Judge(t.rec.request, t.rec.isVerified)
    BY <1>5, <2>4, <2>5 DEF Promise!Judge
  <2> QED BY <2>1, <2>2, <2>6 DEF Promise!Next
<1>8. CASE t.rec.state # "presentation-received"
  <2>1. t.rec.isVerified = recs[t.at].isVerified
        /\ (t.rec.isVerified # "unknown" => t.rec.request = recs[t.at].request)
    BY <1>2, <1>8 DEF Succeeds, Moves, VerifierGood, Judged
  <2>2. \A q : VerdictIn(recs2, q) = VerdictIn(recs, q)
    BY <1>2, <1>4, <2>1, ReplacedSilently
  <2> QED BY <1>5, <1>6, <2>2
<1> QED BY <1>7, <1>8

\* What the prover is about to conclude was judged.
LEMMA AlreadyJudged ==
  ASSUME ProofInv, Orderly, NEW s \in Slots, UpdateRecord(Prover, s),
         NEW t, t = task[Prover][s], t.rec.state = "done"
  PROVE  t.rec.request \in Ids /\ VerdictIn(records[Verifier], t.rec.request) # "unknown"
<1>1. PICK recs, u : recs = records[Verifier] /\ u = t.rec.thread
  OBVIOUS
<1>2. /\ t.at \in DOMAIN records[Prover] /\ t.rec \in Record
      /\ Settled[Prover] = [records[Prover] EXCEPT ![t.at] = t.rec]
  BY Written, Ends, Parts
<1>3. u \in Ids /\ t.rec # Nothing
  BY <1>1, <1>2, NothingAssumption DEF Record
<1>4. t.rec \in Recs(Prover, u)
  BY <1>1, <1>2 DEF Recs, Of
<1>5. PICK p, v, m : ThreadFits(u, p, v, m)
  BY <1>3 DEF Orderly, ThreadsFit
<1>6. p = t.rec
  BY <1>4, <1>5 DEF ThreadFits, Seen, Opt
<1>7. v # Nothing /\ v.state = "done" /\ v.request \in Ids /\ t.rec.request = v.request
  BY <1>3, <1>5, <1>6 DEF ThreadFits, Stage, Stages, StateOf
<1>8. PICK d : d = Doing[Verifier]
  OBVIOUS
<1>9. PICK r \in DOMAIN Settled[Verifier] : Settled[Verifier][r] = v /\ v.thread = u
  BY <1>5, <1>7 DEF ThreadFits, Seen, Opt, Recs, Of
<1>10. r \in DOMAIN recs /\ recs[r].thread = u
  <2>1. Settled[Verifier] = Settle(recs, d)
    BY <1>1, <1>8, Ends DEF Settled
  <2>2. recs \in Seq(Record)
    BY <1>1, Ends DEF ProofInv, Fits, Held, ExchangeTypeOK
  <2>3. CASE d.pc = "save"
    <3>1. d.rec.state # "done"
      BY <1>1, <1>8, <2>3, Ends DEF Orderly, WriteFits
    <3>2. Append(recs, d.rec)[r] = v /\ r \in 1..Len(recs) + 1
      BY <1>9, <2>1, <2>2, <2>3 DEF Settle
    <3>3. r # Len(recs) + 1
      BY <1>7, <2>2, <3>1, <3>2
    <3>4. r \in DOMAIN recs /\ recs[r] = v
      BY <2>2, <3>2, <3>3
    <3> QED BY <1>9, <3>4
  <2>4. CASE d.pc = "update"
    <3>1. [recs EXCEPT ![d.at] = d.rec][r] = v /\ r \in DOMAIN recs
      BY <1>9, <2>1, <2>4 DEF Settle
    <3>2. d.at \in DOMAIN recs /\ recs[d.at].thread = d.rec.thread
      <4>1. AtFits(recs, d)
        BY <1>1, <1>8, Ends DEF Orderly, Serial
      <4> QED BY <2>4, <4>1 DEF AtFits
    <3> QED BY <1>9, <3>1, <3>2
  <2>5. CASE d.pc \notin {"save", "update"}
    BY <1>9, <2>1, <2>5 DEF Settle
  <2> QED BY <2>3, <2>4, <2>5
<1>11. PICK rec : rec = recs[r]
  OBVIOUS
<1>12. rec \in VerifierGood
  BY <1>1, <1>10, <1>11, ReadGood, Ends, Parts DEF ProofInv
<1>13. Before(rec, v, m)
  <2>1. r \in DOMAIN records[Verifier] /\ u = records[Verifier][r].thread
        /\ v = (IF Verifier = Prover THEN p ELSE v)
    BY <1>1, <1>10, Ends
  <2> QED BY <1>1, <1>5, <1>11, <2>1, Behind, Ends
<1>14. rec.isVerified # "unknown" /\ rec.request = v.request
  BY <1>7, <1>12, <1>13 DEF Before, Succeeds, Moves, VerifierGood, Judged
<1>15. r \in JudgedIn(recs, t.rec.request)
  BY <1>7, <1>10, <1>11, <1>14 DEF JudgedIn
<1> QED BY <1>1, <1>7, <1>15, JudgedHas

\* The prover's record is written: its request is concluded, or nothing is seen.
LEMMA UpdateConcludes ==
  ASSUME ProofInv, Orderly, NEW s \in Slots, UpdateRecord(Prover, s)
  PROVE  Promise!Next \/ UNCHANGED <<RequestVerdicts, Concluded>>
<1>1. PICK t, recs, recs2 : /\ t = task[Prover][s] /\ recs = records[Prover]
                            /\ recs2 = [recs EXCEPT ![t.at] = t.rec]
  OBVIOUS
<1>2. /\ t.at \in DOMAIN recs /\ Succeeds(recs[t.at], t.rec, t.out)
      /\ records' = [records EXCEPT ![Prover] = recs2] /\ records \in [Agents -> Seq(Record)]
  BY <1>1, Written, Ends
<1>3. records'[Prover] = recs2 /\ records'[Verifier] = records[Verifier]
  BY <1>2, Ends
<1>4. DOMAIN recs2 = DOMAIN recs /\ recs2[t.at] = t.rec /\ \A r \in DOMAIN recs : r # t.at => recs2[r] = recs[r]
  BY <1>1, <1>2
<1>5. recs[t.at].state # "done"
  BY <1>2 DEF Succeeds, Moves
<1>6. RequestVerdicts' = RequestVerdicts /\ Concluded' = DoneIn(recs2) /\ Concluded = DoneIn(recs)
  <2>1. RequestVerdicts' = [q \in Ids |-> VerdictIn(records'[Verifier], q)]
        /\ Concluded' = DoneIn(records'[Prover])
    BY SeenThen
  <2> QED BY <1>1, <1>3, <2>1, SeenFrom
<1>7. Concluded' = Concluded \cup (IF t.rec.state = "done" THEN {t.rec.request} ELSE {})
  BY <1>2, <1>4, <1>5, <1>6, ReplacedDone
<1>8. CASE t.rec.state = "done" /\ t.rec.request \notin Concluded
  <2>1. t.rec.request \in Ids /\ VerdictIn(records[Verifier], t.rec.request) # "unknown"
    BY <1>1, <1>8, AlreadyJudged
  <2>2. RequestVerdicts[t.rec.request] # "unknown"
    BY <2>1, SeenFrom
  <2>3. Promise!Conclude(t.rec.request)
    BY <1>6, <1>7, <1>8, <2>2 DEF Promise!Conclude
  <2> QED BY <2>1, <2>3 DEF Promise!Next
<1>9. CASE ~(t.rec.state = "done" /\ t.rec.request \notin Concluded)
  BY <1>6, <1>7, <1>9
<1> QED BY <1>8, <1>9

\* Seen from outside a request is judged once and for good, and the prover takes it for
\* done only after it was, however the two negotiate and whatever messages are lost.
THEOREM ProofJudgedOnce == Spec => JudgedOnce
<1>1. Init => Promise!Init
  <2> SUFFICES ASSUME Init PROVE Promise!Init
    OBVIOUS
  <2>1. records[Prover] = <<>> /\ records[Verifier] = <<>> /\ DOMAIN <<>> = {}
    BY Ends DEF Init, ExchangeInit
  <2>2. (\A q : JudgedIn(records[Verifier], q) = {}) /\ DoneIn(records[Prover]) = {}
    BY <2>1 DEF JudgedIn, DoneIn
  <2>3. \A q : VerdictIn(records[Verifier], q) = "unknown"
    BY <2>2 DEF VerdictIn
  <2> QED BY <2>2, <2>3, SeenFrom DEF Promise!Init
<1>2. ASSUME ProofInv, SerialInv, [Next]_vars
      PROVE  [Spared({"overlap", "crash", "duplicate", "refuse"})' => Promise!Next]_<<RequestVerdicts, Concluded>>
  <2> SUFFICES ASSUME Spared({"overlap", "crash", "duplicate", "refuse"})'
               PROVE  Promise!Next \/ UNCHANGED <<RequestVerdicts, Concluded>>
    OBVIOUS
  <2>1. Orderly
    BY <1>2, Remembers DEF SerialInv, Spared, Disturbing
  <2>2. ASSUME UNCHANGED records PROVE UNCHANGED <<RequestVerdicts, Concluded>>
    <3>1. RequestVerdicts' = [q \in Ids |-> VerdictIn(records'[Verifier], q)]
          /\ Concluded' = DoneIn(records'[Prover])
      BY SeenThen
    <3> QED BY <2>2, <3>1, SeenFrom
  <2> QED BY <1>2, <2>1, <2>2, WritesOnly, SaveJudgesNothing, UpdateJudges, UpdateConcludes,
             AgentsAssumption
<1> QED BY <1>1, <1>2, ProofInvariant, ProofSerial, PTL DEF Spec, JudgedOnce
=============================================================================
