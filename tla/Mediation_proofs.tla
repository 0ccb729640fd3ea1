-------------------------- MODULE Mediation_proofs --------------------------
(***************************************************************************)
(* What the mediator guarantees for any number of edge agents, connections,*)
(* keys and messages: type correctness, that nobody handles the mail of    *)
(* another agent or handles a message twice or out of order, and, where    *)
(* the process of the agent (or of the mediator) does not die, that routes *)
(* lead where the agent polls and exist before a key made by               *)
(* acceptInvitation is known.                                              *)
(***************************************************************************)
EXTENDS Mediation, SequenceTheorems, TLAPS

Key == [owner: Edges, awaited: BOOLEAN]

\* Connection c was made by agent e; key k is one of agent e's.
Reaches(c, e) == c \in 1..Len(conns) /\ conns[c] = e
Owns(e, k) == k \in 1..Len(keys) /\ keys[k].owner = e
Mine(e, batch) == \A i \in 1..Len(batch) : Owns(e, batch[i].to)

-----------------------------------------------------------------------------
(* The inductive invariant, in parts                                         *)

AgentPart ==
  \A e \in Edges :
    /\ agent[e].inbound # None => Reaches(agent[e].inbound, e)
    /\ agent[e].unsaved # None => Reaches(agent[e].unsaved, e)
    /\ provision[e] # None => Reaches(provision[e], e)
    /\ agent[e].pc = "ready" => agent[e].inbound # None

PollPart ==
  \A e \in Edges :
    /\ Mine(e, poll[e].batch)
    /\ poll[e].pc = "handling" => poll[e].batch # <<>>

GoodPost(p) ==
  /\ p.kind # "connect" => Reaches(p.conn, p.edge)
  /\ p.kind = "keylist" => Owns(p.edge, p.key)

PostPart == \A p \in posts : GoodPost(p)

ReplyPart ==
  \A r \in replies :
    /\ GoodPost(r.to)
    /\ r.to.kind = "connect" => Reaches(r.conn, r.to.edge)
    /\ Mine(r.to.edge, r.batch)

RoutePart ==
  \A k \in Keys : routes[k] # None =>
    \E e \in Edges : Owns(e, k) /\ Reaches(routes[k], e)

PackingPart ==
  \A f \in packing : \E e \in Edges : Owns(e, f.message.to) /\ Reaches(f.conn, e)

QueuePart ==
  \A c \in Conns : queue[c] # <<>> =>
    \E e \in Edges : Reaches(c, e) /\ Mine(e, queue[c])

HandledPart ==
  \A c \in Conns : handled[c] # <<>> =>
    \E e \in Edges : Reaches(c, e) /\ Mine(e, handled[c])

MailInv ==
  /\ TypeOK
  /\ AgentPart
  /\ PollPart
  /\ PostPart
  /\ ReplyPart
  /\ RoutePart
  /\ PackingPart
  /\ QueuePart
  /\ HandledPart

-----------------------------------------------------------------------------
(* Types                                                                     *)

\* Init: nothing exists, every agent is off.
LEMMA InitMail == Init => MailInv
<1> SUFFICES ASSUME Init PROVE MailInv
  OBVIOUS
<1> USE BoundsAssumption
<1>1. TypeOK
  BY DEF Init, TypeOK, Off, Process, Processes, NoBatch, Sessions, Conns, Keys, None, Message
<1>2. AgentPart /\ PollPart
  BY DEF Init, AgentPart, PollPart, Mine, Off, Process, NoBatch, None
<1>3. PostPart /\ ReplyPart /\ RoutePart /\ PackingPart /\ QueuePart /\ HandledPart
  BY DEF Init, PostPart, ReplyPart, RoutePart, PackingPart, QueuePart, HandledPart, None
<1> QED
  BY <1>1, <1>2, <1>3 DEF MailInv

\* What an agent posts has the type of a post.
LEMMA NewPostType ==
  ASSUME TypeOK, NEW e \in Edges, NEW kind \in {"connect", "keylist", "pickup"},
         NEW key \in Keys \cup {None}
  PROVE  NewPost(e, kind, key) \in Post
BY DEF TypeOK, Processes, NewPost, Post

\* What a process of an agent is replaced by.
LEMMA AgentType ==
  ASSUME TypeOK, NEW e \in Edges, NEW pc \in {"off", "connecting", "ready"},
         NEW session \in Sessions, NEW inbound \in Conns \cup {None},
         NEW unsaved \in Conns \cup {None},
         agent' = [agent EXCEPT ![e] = Process(pc, session, inbound, unsaved)]
  PROVE  agent' \in [Edges -> Processes]
<1>1. Process(pc, session, inbound, unsaved) \in Processes
  BY DEF Process, Processes
<1> QED
  BY <1>1 DEF TypeOK

\* What a loop is replaced by, and that a batch that is handled has a message.
LEMMA PollType ==
  ASSUME TypeOK, NEW e \in Edges, NEW batch \in Seq(Message),
         NEW pc \in {"idle", "asked", "ended"}
  PROVE  /\ [poll EXCEPT ![e] = Rest(batch)] \in
              [Edges -> [pc: {"idle", "asked", "handling", "ended"}, batch: Seq(Message)]]
         /\ [poll EXCEPT ![e] = NoBatch(pc)] \in
              [Edges -> [pc: {"idle", "asked", "handling", "ended"}, batch: Seq(Message)]]
<1> DEFINE P == [pc: {"idle", "asked", "handling", "ended"}, batch: Seq(Message)]
<1>1. Rest(batch) \in P
  BY DEF Rest
<1>2. NoBatch(pc) \in P
  BY DEF NoBatch
<1> QED
  BY <1>1, <1>2 DEF TypeOK

\* What the mediator answers.
LEMMA AnswerType ==
  ASSUME TypeOK, NEW p \in posts, NEW conn \in Conns \cup {None},
         NEW batch \in Seq(Message), Answer(p, conn, batch)
  PROVE  posts' \subseteq Post /\ replies' \subseteq Reply
<1>1. [to |-> p, conn |-> conn, batch |-> batch] \in Reply
  BY DEF TypeOK, Reply
<1> QED
  BY <1>1 DEF TypeOK, Answer

\* Every step keeps the types.
LEMMA TypeStep == MailInv /\ [Next]_vars => TypeOK'
<1> SUFFICES ASSUME MailInv, [Next]_vars PROVE TypeOK'
  OBVIOUS
<1> USE BoundsAssumption DEF MailInv
<1>1. ASSUME NEW e \in Edges, Start(e) PROVE TypeOK'
  <2>1. provision[e] \in Conns \cup {None} /\ agent[e].session \in Sessions
    BY DEF TypeOK, Processes
  <2>2. agent' \in [Edges -> Processes]
    BY <1>1, <2>1, AgentType DEF Start, Inbound, None
  <2>3. posts' \subseteq Post
    BY <1>1, NewPostType DEF Start, TypeOK, None
  <2> QED
    BY <1>1, <2>2, <2>3 DEF Start, TypeOK, mediator, peers
<1>2. ASSUME NEW p \in posts, HandleConnect(p) PROVE TypeOK'
  <2>1. conns' \in Seq(Edges) /\ Len(conns') <= MaxConns /\ Len(conns') \in Conns
    BY <1>2 DEF HandleConnect, TypeOK, Post, Conns
  <2>2. <<>> \in Seq(Message)
    OBVIOUS
  <2>3. posts' \subseteq Post /\ replies' \subseteq Reply
    BY <1>2, <2>1, <2>2, AnswerType DEF HandleConnect
  <2> QED
    BY <1>2, <2>1, <2>3 DEF HandleConnect, TypeOK, peers
<1>3. ASSUME NEW e \in Edges, NEW r \in replies, Connected(e, r) PROVE TypeOK'
  <2>1. r.conn \in Conns \cup {None} /\ agent[e].session \in Sessions
    BY DEF TypeOK, Processes, Reply
  <2>2. agent' \in [Edges -> Processes]
    BY <1>3, <2>1, AgentType DEF Connected, Inbound
  <2> QED
    BY <1>3, <2>2 DEF Connected, Gets, TypeOK, mediator, peers
<1>4. ASSUME NEW e \in Edges, SaveProvision(e) PROVE TypeOK'
  <2>1. agent[e] \in Processes
    BY DEF TypeOK
  <2>2. agent' \in [Edges -> Processes]
    BY <1>4, <2>1, AgentType DEF SaveProvision, Processes, None
  <2> QED
    BY <1>4, <2>1, <2>2 DEF SaveProvision, TypeOK, Processes, mediator, peers
<1>5. ASSUME NEW e \in Edges, CreateConnection(e) PROVE TypeOK'
  BY <1>5, NewPostType DEF CreateConnection, NewKey, TypeOK, mediator, Keys
<1>6. ASSUME NEW e \in Edges, AcceptInvitation(e) PROVE TypeOK'
  BY <1>6, NewPostType DEF AcceptInvitation, NewKey, TypeOK, mediator, peers, Keys
<1>7. ASSUME NEW e \in Edges, NEW r \in replies, RouteCreated(e, r) PROVE TypeOK'
  <2>1. r.to.key \in DOMAIN keys
    BY <1>7 DEF RouteCreated, Gets, ReplyPart, GoodPost, Owns, TypeOK
  <2> QED
    BY <1>7, <2>1 DEF RouteCreated, Gets, TypeOK, mediator
<1>8. ASSUME NEW p \in posts, UpdateRoutes(p) PROVE TypeOK'
  <2>1. p.conn \in Conns \cup {None} /\ <<>> \in Seq(Message)
    BY DEF TypeOK, Post
  <2>2. posts' \subseteq Post /\ replies' \subseteq Reply
    BY <1>8, <2>1, AnswerType DEF UpdateRoutes
  <2> QED
    BY <1>8, <2>1, <2>2 DEF UpdateRoutes, TypeOK, peers
<1>9. ASSUME NEW k \in disclosed, SendMessage(k) PROVE TypeOK'
  <2>1. k \in Keys /\ sent' \in 1..MaxMessages
    BY <1>9 DEF SendMessage, TypeOK, Keys
  <2>2. [id |-> sent', to |-> k] \in Message
    BY <2>1 DEF Message
  <2>3. mail' \subseteq Message /\ sent' \in 0..MaxMessages
    BY <1>9, <2>1, <2>2 DEF SendMessage, TypeOK
  <2> QED
    BY <1>9, <2>3 DEF SendMessage, TypeOK, mediator
<1>10. ASSUME NEW m \in mail, Forward(m) PROVE TypeOK'
  <2>1. m \in Message /\ m.to \in Keys /\ routes[m.to] \in Conns \cup {None}
    BY DEF TypeOK, Message
  <2>2. packing' \subseteq [message: Message, conn: Conns]
    BY <1>10, <2>1 DEF Forward, TypeOK
  <2> QED
    BY <1>10, <2>2 DEF Forward, TypeOK
<1>11. ASSUME NEW f \in packing, StoreForwarded(f) PROVE TypeOK'
  <2>1. f.message \in Message /\ f.conn \in Conns
    BY DEF TypeOK
  <2>2. Append(queue[f.conn], f.message) \in Seq(Message)
    BY <2>1 DEF TypeOK
  <2> QED
    BY <1>11, <2>1, <2>2 DEF StoreForwarded, TypeOK, peers
<1>12. ASSUME NEW e \in Edges, BatchPickup(e) PROVE TypeOK'
  <2>1. posts' \subseteq Post
    BY <1>12, NewPostType DEF BatchPickup, TypeOK
  <2>2. <<>> \in Seq(Message)
    OBVIOUS
  <2>3. poll' \in [Edges -> [pc: {"idle", "asked", "handling", "ended"}, batch: Seq(Message)]]
    BY <1>12, <2>2, PollType DEF BatchPickup
  <2> QED
    BY <1>12, <2>1, <2>3 DEF BatchPickup, TypeOK, mediator, peers
<1>13. ASSUME NEW p \in posts, Batch(p) PROVE TypeOK'
  <2>1. p.conn \in Conns
    BY <1>13 DEF Batch, TypeOK, PostPart, GoodPost, Reaches, Conns
  <2>2. queue[p.conn] \in Seq(Message) /\ <<>> \in Seq(Message)
    BY <2>1 DEF TypeOK
  <2>3. posts' \subseteq Post /\ replies' \subseteq Reply
    BY <1>13, <2>2, AnswerType DEF Batch
  <2> QED
    BY <1>13, <2>2, <2>3 DEF Batch, TypeOK, peers
<1>14. ASSUME NEW e \in Edges, NEW r \in replies, Downloaded(e, r) PROVE TypeOK'
  <2>1. r.batch \in Seq(Message)
    BY DEF TypeOK, Reply
  <2>2. poll' \in [Edges -> [pc: {"idle", "asked", "handling", "ended"}, batch: Seq(Message)]]
    BY <1>14, <2>1, PollType DEF Downloaded
  <2> QED
    BY <1>14, <2>2 DEF Downloaded, Gets, TypeOK, mediator, peers
<1>15. ASSUME NEW e \in Edges, ReceiveMessage(e) PROVE TypeOK'
  <2>1. poll[e].batch \in Seq(Message) /\ poll[e].batch # <<>>
    BY <1>15 DEF ReceiveMessage, TypeOK, PollPart
  <2>2. Head(poll[e].batch) \in Message /\ Tail(poll[e].batch) \in Seq(Message)
    BY <2>1
  <2>3. poll' \in [Edges -> [pc: {"idle", "asked", "handling", "ended"}, batch: Seq(Message)]]
    BY <1>15, <2>2, PollType DEF ReceiveMessage
  <2>4. \A c \in Conns : Append(handled[c], Head(poll[e].batch)) \in Seq(Message)
    BY <2>2 DEF TypeOK
  <2>5. handled' \in [Conns -> Seq(Message)]
    BY <1>15, <2>4 DEF ReceiveMessage, TypeOK
  <2> QED
    BY <1>15, <2>3, <2>5 DEF ReceiveMessage, TypeOK, mediator, peers
<1>16. ASSUME NEW e \in Edges, Stop(e) \/ Crash(e) PROVE TypeOK'
  <2>1. agent[e].session + 1 \in Sessions
    BY <1>16 DEF Stop, Crash, Restart, TypeOK, Processes, Sessions
  <2>2. agent' \in [Edges -> Processes]
    <3>1. agent' = [agent EXCEPT ![e] = Off(agent[e].session + 1)]
      BY <1>16 DEF Stop, Crash, Restart, TypeOK
    <3>2. Off(agent[e].session + 1) \in Processes
      BY <2>1 DEF Off, Process, Processes, None
    <3> QED
      BY <3>1, <3>2 DEF TypeOK
  <2>3. <<>> \in Seq(Message)
    OBVIOUS
  <2>4. poll' = [poll EXCEPT ![e] = NoBatch("idle")]
    BY <1>16 DEF Stop, Crash, Restart
  <2>5. poll' \in [Edges -> [pc: {"idle", "asked", "handling", "ended"}, batch: Seq(Message)]]
    BY <2>3, <2>4, PollType
  <2> QED
    BY <1>16, <2>2, <2>5 DEF Stop, Crash, Restart, TypeOK, mediator, peers
<1>17. ASSUME NEW e \in Edges, ReceiveMessageThrows(e) PROVE TypeOK'
  <2>1. <<>> \in Seq(Message)
    OBVIOUS
  <2>2. poll' \in [Edges -> [pc: {"idle", "asked", "handling", "ended"}, batch: Seq(Message)]]
    BY <1>17, <2>1, PollType DEF ReceiveMessageThrows
  <2> QED
    BY <1>17, <2>2 DEF ReceiveMessageThrows, TypeOK, mediator, peers
<1>18. ASSUME NEW p \in posts, LosePost(p) PROVE TypeOK'
  BY <1>18 DEF LosePost, TypeOK, mediator, peers
<1>19. ASSUME NEW r \in replies, LoseReply(r) PROVE TypeOK'
  BY <1>19 DEF LoseReply, TypeOK, mediator, peers
<1>20. ASSUME NEW m \in mail, LoseMail(m) PROVE TypeOK'
  BY <1>20 DEF LoseMail, TypeOK, mediator
<1>21. ASSUME MediatorRestart PROVE TypeOK'
  BY <1>21 DEF MediatorRestart, TypeOK, peers, None
<1>22. ASSUME UNCHANGED vars PROVE TypeOK'
  BY <1>22 DEF vars, TypeOK
<1> QED
  BY <1>1, <1>2, <1>3, <1>4, <1>5, <1>6, <1>7, <1>8, <1>9, <1>10, <1>11, <1>12, <1>13,
     <1>14, <1>15, <1>16, <1>17, <1>18, <1>19, <1>20, <1>21, <1>22
  DEF Next, Mediate, Proceed, Fail
-----------------------------------------------------------------------------
(* The mail of an agent stays with it                                        *)

\* Keys and connections are only ever added, so who owns or is reached stays so.
Grows == /\ \A e, k : Owns(e, k) => Owns(e, k)'
         /\ \A c, e : Reaches(c, e) => Reaches(c, e)'

\* Every step leaves the owners of keys and the ends of connections alone.
LEMMA StepGrows == MailInv /\ [Next]_vars => Grows
<1> SUFFICES ASSUME MailInv, [Next]_vars PROVE Grows
  OBVIOUS
<1>1. CASE UNCHANGED <<keys, conns>>
  BY <1>1 DEF Grows, Owns, Reaches
<1>2. ASSUME NEW e \in Edges, NEW awaited \in BOOLEAN, NewKey(e, awaited), UNCHANGED conns
      PROVE  Grows
  BY <1>2 DEF NewKey, Grows, Owns, Reaches, MailInv, TypeOK
<1>3. ASSUME NEW p \in posts, HandleConnect(p) PROVE Grows
  BY <1>3 DEF HandleConnect, Grows, Owns, Reaches, MailInv, TypeOK, Post
<1> QED
  BY <1>1, <1>2, <1>3
  DEF Next, Mediate, Proceed, Fail, vars, mediator, Start, SaveProvision, BatchPickup,
      ReceiveMessage, Connected, RouteCreated, Downloaded, UpdateRoutes, Batch, Forward,
      StoreForwarded, CreateConnection, AcceptInvitation, SendMessage, Stop, Crash, Restart,
      ReceiveMessageThrows, LosePost, LoseReply, LoseMail, MediatorRestart

\* A part holds after a step that adds nothing to what it speaks of.
LEMMA Kept ==
  ASSUME MailInv, Grows
  PROVE  /\ UNCHANGED <<agent, provision>> => AgentPart'
         /\ UNCHANGED poll => PollPart'
         /\ posts' \subseteq posts => PostPart'
         /\ replies' \subseteq replies => ReplyPart'
         /\ UNCHANGED routes => RoutePart'
         /\ packing' \subseteq packing => PackingPart'
         /\ UNCHANGED queue => QueuePart'
         /\ UNCHANGED handled => HandledPart'
<1>1. \A p : GoodPost(p) => GoodPost(p)'
  BY DEF Grows, GoodPost
<1>2. \A e, batch : Mine(e, batch) => Mine(e, batch)'
  BY DEF Grows, Mine
<1>3. UNCHANGED <<agent, provision>> => AgentPart'
  BY DEF Grows, MailInv, AgentPart
<1>4. UNCHANGED poll => PollPart'
  BY <1>2 DEF MailInv, PollPart
<1>5. posts' \subseteq posts => PostPart'
  BY <1>1 DEF MailInv, PostPart
<1>6. replies' \subseteq replies => ReplyPart'
  BY <1>1, <1>2 DEF Grows, MailInv, ReplyPart
<1>7. UNCHANGED routes => RoutePart'
  BY DEF Grows, MailInv, RoutePart
<1>8. packing' \subseteq packing => PackingPart'
  BY DEF Grows, MailInv, PackingPart
<1>9. UNCHANGED queue => QueuePart'
  BY <1>2 DEF Grows, MailInv, QueuePart
<1>10. UNCHANGED handled => HandledPart'
  BY <1>2 DEF Grows, MailInv, HandledPart
<1> QED
  BY <1>3, <1>4, <1>5, <1>6, <1>7, <1>8, <1>9, <1>10

\* What was good stays good: the facts the steps below use of Grows.
LEMMA StaysGood ==
  ASSUME Grows
  PROVE  /\ \A p : GoodPost(p) => GoodPost(p)'
         /\ \A e, batch : Mine(e, batch) => Mine(e, batch)'
BY DEF Grows, GoodPost, Mine

\* An answer is good when its body is what its post asked for.
LEMMA AnswerGood ==
  ASSUME MailInv, Grows, NEW p \in posts, NEW conn, NEW batch, Answer(p, conn, batch),
         (p.kind = "connect" => Reaches(conn, p.edge))',
         Mine(p.edge, batch)
  PROVE  PostPart' /\ ReplyPart'
<1>1. PostPart'
  BY Kept DEF Answer
<1>2. GoodPost(p)'
  BY StaysGood DEF MailInv, PostPart
<1>3. Mine(p.edge, batch)'
  BY StaysGood
<1>4. ASSUME NEW r \in replies'
      PROVE  /\ GoodPost(r.to)'
             /\ (r.to.kind = "connect" => Reaches(r.conn, r.to.edge))'
             /\ Mine(r.to.edge, r.batch)'
  <2>1. CASE r \in replies
    BY <2>1, StaysGood DEF MailInv, ReplyPart, Grows
  <2>2. CASE r = [to |-> p, conn |-> conn, batch |-> batch]
    BY <2>2, <1>2, <1>3
  <2> QED
    BY <2>1, <2>2 DEF Answer
<1>5. ReplyPart'
  BY <1>4 DEF ReplyPart
<1> QED
  BY <1>1, <1>5
\* A process that changes to one whose connections are the agent's.
LEMMA AgentGood ==
  ASSUME MailInv, Grows, NEW e \in Edges, UNCHANGED provision,
         \A d \in Edges : d # e => agent'[d] = agent[d],
         agent'[e].inbound # None => Reaches(agent'[e].inbound, e),
         agent'[e].unsaved # None => Reaches(agent'[e].unsaved, e),
         agent'[e].pc = "ready" => agent'[e].inbound # None
  PROVE  AgentPart'
BY DEF MailInv, AgentPart, Grows

\* A loop that changes to one whose batch is the agent's.
LEMMA PollGood ==
  ASSUME MailInv, Grows, NEW e \in Edges,
         \A d \in Edges : d # e => poll'[d] = poll[d],
         Mine(e, poll'[e].batch),
         poll'[e].pc = "handling" => poll'[e].batch # <<>>
  PROVE  PollPart'
BY StaysGood DEF MailInv, PollPart

\* A sequence of an agent's messages keeps to it when one more is appended.
LEMMA AppendMine ==
  ASSUME NEW e, NEW s \in Seq(Message), NEW m \in Message, Mine(e, s), Owns(e, m.to)
  PROVE  Append(s, m) # <<>> /\ Mine(e, Append(s, m))
<1>1. Len(s) \in Nat /\ Len(Append(s, m)) = Len(s) + 1
  OBVIOUS
<1>2. \A i \in 1..Len(s) + 1 : Append(s, m)[i] = IF i = Len(s) + 1 THEN m ELSE s[i]
  OBVIOUS
<1>3. \A i \in 1..Len(s) + 1 : Owns(e, Append(s, m)[i].to)
  BY <1>2 DEF Mine
<1>4. Append(s, m) # <<>>
  BY AppendProperties
<1> QED
  BY <1>1, <1>3, <1>4 DEF Mine

\* Every step keeps each part of the invariant.
LEMMA MailStep == MailInv /\ [Next]_vars => MailInv'
<1> SUFFICES ASSUME MailInv, [Next]_vars PROVE MailInv'
  OBVIOUS
<1> DEFINE Parts == /\ AgentPart /\ PollPart /\ PostPart /\ ReplyPart
                    /\ RoutePart /\ PackingPart /\ QueuePart /\ HandledPart
<1>g. Grows
  BY StepGrows
<1>n. \A e : Mine(e, <<>>)
  BY DEF Mine
<1>1. ASSUME NEW e \in Edges, Start(e) PROVE Parts'
  <2>1. AgentPart'
    <3>1. /\ \A d \in Edges : d # e => agent'[d] = agent[d]
          /\ agent'[e].inbound # None => agent'[e].inbound = provision[e]
          /\ agent'[e].unsaved = None
          /\ agent'[e].pc = "ready" => agent'[e].inbound # None
      BY <1>1 DEF Start, Inbound, Process, MailInv, TypeOK
    <3>2. provision[e] # None => Reaches(provision[e], e)
      BY DEF MailInv, AgentPart
    <3> QED
      BY <1>1, <1>g, <3>1, <3>2, AgentGood DEF Start
  <2>2. PostPart'
    BY <1>1, <1>g, Kept, StaysGood DEF Start, NewPost, GoodPost, MailInv, PostPart
  <2> QED
    BY <1>1, <1>g, <2>1, <2>2, Kept DEF Start, mediator, peers
<1>2. ASSUME NEW p \in posts, HandleConnect(p) PROVE Parts'
  <2>1. Reaches(Len(conns), p.edge)'
    BY <1>2 DEF HandleConnect, Reaches, MailInv, TypeOK, Post
  <2>2. PostPart' /\ ReplyPart'
    BY <1>2, <1>g, <1>n, <2>1, AnswerGood DEF HandleConnect
  <2> QED
    BY <1>2, <1>g, <2>2, Kept DEF HandleConnect, peers
<1>3. ASSUME NEW e \in Edges, NEW r \in replies, Connected(e, r) PROVE Parts'
  <2>1. Reaches(r.conn, e) /\ r.conn # None
    BY <1>3 DEF Connected, Gets, MailInv, ReplyPart, Reaches, None
  <2>2. agent' = [agent EXCEPT ![e] = Process("ready", agent[e].session, r.conn, r.conn)]
    BY <1>3 DEF Connected, Inbound, MailInv, TypeOK
  <2>3. /\ \A d \in Edges : d # e => agent'[d] = agent[d]
        /\ agent'[e].inbound = r.conn /\ agent'[e].unsaved = r.conn
    BY <2>2 DEF Process, MailInv, TypeOK
  <2>4. AgentPart'
    BY <1>3, <1>g, <2>1, <2>3, AgentGood DEF Connected
  <2> QED
    BY <1>3, <1>g, <2>4, Kept DEF Connected, Gets, mediator, peers
<1>4. ASSUME NEW e \in Edges, SaveProvision(e) PROVE Parts'
  <2>1. \A d \in Edges :
          /\ agent'[d] = IF d = e THEN Process(agent[e].pc, agent[e].session,
                                               agent[e].inbound, None)
                                  ELSE agent[d]
          /\ provision'[d] = IF d = e THEN agent[e].unsaved ELSE provision[d]
    BY <1>4 DEF SaveProvision, MailInv, TypeOK
  <2>2. AgentPart'
    BY <1>4, <1>g, <2>1 DEF SaveProvision, MailInv, AgentPart, Grows, Process
  <2> QED
    BY <1>4, <1>g, <2>2, Kept DEF SaveProvision, mediator, peers
<1>5. ASSUME NEW e \in Edges, NEW awaited \in BOOLEAN, NewKey(e, awaited) PROVE PostPart'
  <2>1. Owns(e, Len(keys))'
    BY <1>5 DEF NewKey, Owns, MailInv, TypeOK
  <2>2. agent[e].inbound # None /\ Reaches(agent[e].inbound, e)
    BY <1>5 DEF NewKey, MailInv, AgentPart
  <2>3. SUFFICES ASSUME NEW p \in posts' PROVE GoodPost(p)'
    BY DEF PostPart
  <2>4. CASE p \in posts
    BY <1>g, <2>4, StaysGood DEF MailInv, PostPart
  <2>5. CASE p = NewPost(e, "keylist", Len(keys'))
    BY <1>g, <2>1, <2>2, <2>5 DEF Grows, GoodPost, NewPost
  <2> QED
    BY <1>5, <2>4, <2>5 DEF NewKey
<1>6. ASSUME NEW e \in Edges, CreateConnection(e) \/ AcceptInvitation(e) PROVE Parts'
  BY <1>5, <1>6, <1>g, Kept DEF CreateConnection, AcceptInvitation, mediator, peers
<1>7. ASSUME NEW e \in Edges, NEW r \in replies, RouteCreated(e, r) PROVE Parts'
  BY <1>7, <1>g, Kept DEF RouteCreated, Gets, mediator
<1>8. ASSUME NEW p \in posts, UpdateRoutes(p) PROVE Parts'
  <2>1. PostPart' /\ ReplyPart'
    BY <1>8, <1>g, <1>n, AnswerGood DEF UpdateRoutes
  <2>2. Owns(p.edge, p.key)' /\ Reaches(p.conn, p.edge)' /\ p.edge \in Edges
    BY <1>8, <1>g, StaysGood DEF UpdateRoutes, MailInv, TypeOK, Post, PostPart, GoodPost, Grows
  <2>3. RoutePart'
    <3>1. \A k \in Keys : routes'[k] = IF k = p.key THEN p.conn ELSE routes[k]
      BY <1>8 DEF UpdateRoutes, MailInv, TypeOK
    <3> QED
      BY <1>g, <2>2, <3>1 DEF MailInv, RoutePart, Grows
  <2> QED
    BY <1>8, <1>g, <2>1, <2>3, Kept DEF UpdateRoutes, peers
<1>9. ASSUME NEW k \in disclosed, SendMessage(k) PROVE Parts'
  BY <1>9, <1>g, Kept DEF SendMessage, mediator
<1>10. ASSUME NEW m \in mail, Forward(m) PROVE Parts'
  <2>1. PackingPart'
    <3>1. CASE UNCHANGED packing
      BY <1>g, <3>1, Kept
    <3>2. CASE /\ routes[m.to] # None
               /\ packing' = packing \cup {[message |-> m, conn |-> routes[m.to]]}
      <4>1. PICK e \in Edges : Owns(e, m.to) /\ Reaches(routes[m.to], e)
        BY <3>2 DEF MailInv, TypeOK, Message, RoutePart
      <4> QED
        BY <1>g, <3>2, <4>1 DEF MailInv, PackingPart, Grows
    <3> QED
      BY <1>10, <3>1, <3>2 DEF Forward
  <2> QED
    BY <1>10, <1>g, <2>1, Kept DEF Forward
<1>11. ASSUME NEW f \in packing, StoreForwarded(f) PROVE Parts'
  <2>1. f.message \in Message /\ f.conn \in Conns /\ queue \in [Conns -> Seq(Message)]
    BY DEF MailInv, TypeOK
  <2>2. PICK e \in Edges : Owns(e, f.message.to) /\ Reaches(f.conn, e)
    BY DEF MailInv, PackingPart
  <2>3. Mine(e, queue[f.conn])
    <3>1. CASE queue[f.conn] = <<>>
      BY <1>n, <3>1
    <3>2. CASE queue[f.conn] # <<>>
      BY <2>1, <2>2, <3>2 DEF MailInv, QueuePart, Reaches
    <3> QED
      BY <3>1, <3>2
  <2>4. Mine(e, Append(queue[f.conn], f.message))
    BY <1>g, <2>1, <2>2, <2>3, AppendMine, StaysGood
  <2>5. \A c \in Conns : queue'[c] = IF c = f.conn THEN Append(queue[c], f.message)
                                                  ELSE queue[c]
    BY <1>11, <2>1 DEF StoreForwarded
  <2>6. QueuePart'
    BY <1>g, <2>2, <2>4, <2>5, StaysGood DEF MailInv, QueuePart, Grows
  <2> QED
    BY <1>11, <1>g, <2>6, Kept DEF StoreForwarded, peers
<1>12. ASSUME NEW e \in Edges, BatchPickup(e) PROVE Parts'
  <2>1. Reaches(agent[e].inbound, e)
    BY <1>12 DEF BatchPickup, MailInv, AgentPart
  <2>2. PostPart'
    <3>1. SUFFICES ASSUME NEW p \in posts' PROVE GoodPost(p)'
      BY DEF PostPart
    <3>2. CASE p \in posts
      BY <1>g, <3>2, StaysGood DEF MailInv, PostPart
    <3>3. CASE p = NewPost(e, "pickup", None)
      BY <1>g, <2>1, <3>3 DEF Grows, GoodPost, NewPost
    <3> QED
      BY <1>12, <3>2, <3>3 DEF BatchPickup
  <2>3. PollPart'
    <3>1. poll'[e].batch = <<>> /\ poll'[e].pc # "handling"
      BY <1>12 DEF BatchPickup, NoBatch, MailInv, TypeOK
    <3>2. \A d \in Edges : d # e => poll'[d] = poll[d]
      BY <1>12 DEF BatchPickup, MailInv, TypeOK
    <3> QED
      BY <1>g, <1>n, <3>1, <3>2, PollGood
  <2> QED
    BY <1>12, <1>g, <2>2, <2>3, Kept DEF BatchPickup, mediator, peers
<1>13. ASSUME NEW p \in posts, Batch(p) PROVE Parts'
  <2>0. Reaches(p.conn, p.edge) /\ p.kind # "connect"
    BY <1>13 DEF Batch, MailInv, PostPart, GoodPost
  <2>1. p.conn \in Conns
    BY <2>0, BoundsAssumption DEF MailInv, TypeOK, Reaches, Conns
  <2>2. Mine(p.edge, queue[p.conn])
    <3>1. CASE queue[p.conn] = <<>>
      BY <1>n, <3>1
    <3>2. CASE queue[p.conn] # <<>>
      BY <2>0, <2>1, <3>2 DEF MailInv, QueuePart, Reaches
    <3> QED
      BY <3>1, <3>2
  <2>3. PostPart' /\ ReplyPart'
    BY <1>13, <1>g, <2>0, <2>2, AnswerGood DEF Batch
  <2>4. \A c \in Conns : queue'[c] # <<>> => queue'[c] = queue[c]
    BY <1>13 DEF Batch, MailInv, TypeOK
  <2>5. QueuePart'
    BY <1>g, <2>4, StaysGood DEF MailInv, QueuePart, Grows
  <2> QED
    BY <1>13, <1>g, <2>3, <2>5, Kept DEF Batch, peers
<1>14. ASSUME NEW e \in Edges, NEW r \in replies, Downloaded(e, r) PROVE Parts'
  <2>1. Mine(e, r.batch)
    BY <1>14 DEF Downloaded, Gets, MailInv, ReplyPart
  <2>2. PollPart'
    <3>1. poll'[e].batch = r.batch /\ (poll'[e].pc = "handling" => r.batch # <<>>)
      BY <1>14 DEF Downloaded, Rest, MailInv, TypeOK
    <3>2. \A d \in Edges : d # e => poll'[d] = poll[d]
      BY <1>14 DEF Downloaded, MailInv, TypeOK
    <3> QED
      BY <1>g, <2>1, <3>1, <3>2, PollGood
  <2> QED
    BY <1>14, <1>g, <2>2, Kept DEF Downloaded, Gets, mediator, peers
<1>15. ASSUME NEW e \in Edges, ReceiveMessage(e) PROVE Parts'
  <2> DEFINE b == poll[e].batch
             c == agent[e].inbound
  <2>1. b \in Seq(Message) /\ b # <<>> /\ Mine(e, b)
    BY <1>15 DEF ReceiveMessage, MailInv, TypeOK, PollPart
  <2>2. Head(b) \in Message /\ Tail(b) \in Seq(Message) /\ Owns(e, Head(b).to) /\ Mine(e, Tail(b))
    BY <2>1 DEF Mine
  <2>3. PollPart'
    <3>1. poll'[e].batch = Tail(b) /\ (poll'[e].pc = "handling" => Tail(b) # <<>>)
      BY <1>15 DEF ReceiveMessage, Rest, MailInv, TypeOK
    <3>2. \A d \in Edges : d # e => poll'[d] = poll[d]
      BY <1>15 DEF ReceiveMessage, MailInv, TypeOK
    <3> QED
      BY <1>g, <2>2, <3>1, <3>2, PollGood
  <2>4. HandledPart'
    <3>1. CASE c \notin Conns
      <4>1. handled' = handled
        BY <1>15, <3>1 DEF ReceiveMessage, MailInv, TypeOK
      <4> QED
        BY <1>g, <4>1, Kept
    <3>2. CASE c \in Conns
      <4>1. Reaches(c, e) /\ handled[c] \in Seq(Message)
        BY <3>2 DEF MailInv, AgentPart, TypeOK, Conns, None
      <4>2. Mine(e, handled[c])
        <5>1. CASE handled[c] = <<>>
          BY <1>n, <5>1
        <5>2. CASE handled[c] # <<>>
          BY <3>2, <4>1, <5>2 DEF MailInv, HandledPart, Reaches
        <5> QED
          BY <5>1, <5>2
      <4>3. Mine(e, Append(handled[c], Head(b)))
        BY <1>g, <2>2, <4>1, <4>2, AppendMine, StaysGood
      <4>4. \A d \in Conns : handled'[d] = IF d = c THEN Append(handled[d], Head(b))
                                                    ELSE handled[d]
        BY <1>15 DEF ReceiveMessage, MailInv, TypeOK
      <4> QED
        BY <1>g, <4>1, <4>3, <4>4, StaysGood DEF MailInv, HandledPart, Grows
    <3> QED
      BY <3>1, <3>2
  <2> QED
    BY <1>15, <1>g, <2>3, <2>4, Kept DEF ReceiveMessage, mediator, peers
<1>16. ASSUME NEW e \in Edges, Stop(e) \/ Crash(e) PROVE Parts'
  <2>1. Restart(e)
    BY <1>16 DEF Stop, Crash
  <2>2. AgentPart'
    <3>1. /\ \A d \in Edges : d # e => agent'[d] = agent[d]
          /\ agent'[e].inbound = None /\ agent'[e].unsaved = None /\ agent'[e].pc = "off"
      BY <2>1 DEF Restart, Off, Process, MailInv, TypeOK
    <3> QED
      BY <1>g, <2>1, <3>1, AgentGood DEF Restart
  <2>3. PollPart'
    <3>1. /\ poll'[e].batch = <<>> /\ poll'[e].pc # "handling"
          /\ \A d \in Edges : d # e => poll'[d] = poll[d]
      BY <2>1 DEF Restart, NoBatch, MailInv, TypeOK
    <3> QED
      BY <1>g, <1>n, <3>1, PollGood
  <2> QED
    BY <1>g, <2>1, <2>2, <2>3, Kept DEF Restart, mediator, peers
<1>17. ASSUME NEW e \in Edges, ReceiveMessageThrows(e) PROVE Parts'
  <2>1. PollPart'
    <3>1. /\ poll'[e].batch = <<>> /\ poll'[e].pc # "handling"
          /\ \A d \in Edges : d # e => poll'[d] = poll[d]
      BY <1>17 DEF ReceiveMessageThrows, NoBatch, MailInv, TypeOK
    <3> QED
      BY <1>g, <1>n, <3>1, PollGood
  <2> QED
    BY <1>17, <1>g, <2>1, Kept DEF ReceiveMessageThrows, mediator, peers
<1>18. ASSUME NEW p \in posts, LosePost(p) PROVE Parts'
  BY <1>18, <1>g, Kept DEF LosePost, mediator, peers
<1>19. ASSUME NEW r \in replies, LoseReply(r) PROVE Parts'
  BY <1>19, <1>g, Kept DEF LoseReply, mediator, peers
<1>20. ASSUME NEW m \in mail, LoseMail(m) PROVE Parts'
  BY <1>20, <1>g, Kept DEF LoseMail, mediator
<1>21. ASSUME MediatorRestart PROVE Parts'
  <2>1. RoutePart' /\ QueuePart'
    BY <1>21 DEF MediatorRestart, RoutePart, QueuePart
  <2> QED
    BY <1>21, <1>g, <2>1, Kept DEF MediatorRestart, peers
<1>22. ASSUME UNCHANGED vars PROVE Parts'
  BY <1>22, <1>g, Kept DEF vars
<1>23. Parts'
  BY <1>1, <1>2, <1>3, <1>4, <1>6, <1>7, <1>8, <1>9, <1>10, <1>11, <1>12, <1>13,
     <1>14, <1>15, <1>16, <1>17, <1>18, <1>19, <1>20, <1>21, <1>22
  DEF Next, Mediate, Proceed, Fail
<1> QED
  BY <1>23, TypeStep DEF MailInv

\* The inductive invariant holds in every reachable state.
THEOREM MailInvariant == Spec => []MailInv
<1> QED
  BY InitMail, MailStep, PTL DEF Spec

\* Every variable keeps its type, for any number of agents and messages.
THEOREM TypeCorrect == Spec => []TypeOK
<1>1. MailInv => TypeOK
  BY DEF MailInv
<1> QED
  BY <1>1, MailInvariant, PTL

\* Nobody handles mail of another agent: whatever is lost, answered late or forgotten
\* in a restart, routes, queues and batches never cross over.
THEOREM OwnMail == Spec => []OwnMailOnly
<1>1. MailInv => OwnMailOnly
  <2> SUFFICES ASSUME MailInv, NEW c \in Conns, NEW i \in DOMAIN handled[c]
               PROVE  c \in DOMAIN conns /\ keys[handled[c][i].to].owner = conns[c]
    BY DEF OwnMailOnly
  <2>1. handled[c] \in Seq(Message) /\ i \in 1..Len(handled[c]) /\ handled[c] # <<>>
    BY DEF MailInv, TypeOK
  <2>2. PICK e \in Edges : Reaches(c, e) /\ Mine(e, handled[c])
    BY <2>1 DEF MailInv, HandledPart
  <2> QED
    BY <2>1, <2>2 DEF MailInv, TypeOK, Reaches, Mine, Owns
<1> QED
  BY <1>1, MailInvariant, PTL
-----------------------------------------------------------------------------
(* A key is known only when its route is there                               *)

Routed ==
  /\ \A r \in replies : r.to.kind = "keylist" => routes[r.to.key] # None
  /\ AcceptedKeyHasRoute

\* While the mediator runs, a route that is made stays.
LEMMA RoutesStay ==
  ASSUME MailInv, [Next]_vars, "restart" \notin Faults
  PROVE  \A k \in Keys : routes[k] # None => routes'[k] # None
<1>1. CASE UNCHANGED routes
  BY <1>1
<1>2. ASSUME NEW p \in posts, UpdateRoutes(p)
      PROVE  \A k \in Keys : routes[k] # None => routes'[k] # None
  BY <1>2 DEF UpdateRoutes, MailInv, TypeOK
<1> QED
  BY <1>1, <1>2
  DEF Next, Mediate, Proceed, Fail, vars, mediator, Start, HandleConnect, SaveProvision,
      BatchPickup, ReceiveMessage, Connected, RouteCreated, Downloaded, Batch, Forward,
      StoreForwarded, CreateConnection, AcceptInvitation, SendMessage, Stop, Crash, Restart,
      ReceiveMessageThrows, LosePost, LoseReply, LoseMail, MediatorRestart

\* A keylist update is answered after its route is made; nothing else answers one.
LEMMA AnsweredRouted ==
  ASSUME MailInv, Routed, [Next]_vars, "restart" \notin Faults
  PROVE  \A r \in replies' : r.to.kind = "keylist" => routes'[r.to.key] # None
<1> DEFINE Goal == \A r \in replies' : r.to.kind = "keylist" => routes'[r.to.key] # None
<1>k. \A e, k : Owns(e, k) => k \in Keys
  BY BoundsAssumption DEF Owns, Keys, MailInv, TypeOK
<1>1. \A r \in replies : r.to.kind = "keylist" => routes'[r.to.key] # None
  BY <1>k, RoutesStay DEF Routed, MailInv, ReplyPart, GoodPost
<1>2. CASE replies' \subseteq replies
  BY <1>1, <1>2
<1>3. ASSUME NEW p \in posts, HandleConnect(p) \/ Batch(p) PROVE Goal
  BY <1>1, <1>3 DEF HandleConnect, Batch, Answer
<1>4. ASSUME NEW p \in posts, UpdateRoutes(p) PROVE Goal
  <2>1. p.key \in Keys /\ p.conn # None
    BY <1>4, <1>k DEF UpdateRoutes, MailInv, PostPart, GoodPost, Reaches, None
  <2>2. routes'[p.key] # None
    BY <1>4, <2>1 DEF UpdateRoutes, MailInv, TypeOK
  <2> QED
    BY <1>1, <1>4, <2>2 DEF UpdateRoutes, Answer
<1> QED
  BY <1>2, <1>3, <1>4
  DEF Next, Mediate, Proceed, Fail, vars, mediator, peers, Start, SaveProvision,
      BatchPickup, ReceiveMessage, Connected, RouteCreated, Downloaded, Gets, Forward,
      StoreForwarded, CreateConnection, AcceptInvitation, SendMessage, Stop, Crash, Restart,
      ReceiveMessageThrows, LosePost, LoseReply, LoseMail, MediatorRestart

\* Of the steps that let a peer know a key, only RouteCreated is for an awaited one.
LEMMA RoutedStep ==
  MailInv /\ Routed /\ [Next]_vars /\ "restart" \notin Faults => Routed'
<1> SUFFICES ASSUME MailInv, Routed, [Next]_vars, "restart" \notin Faults PROVE Routed'
  OBVIOUS
<1>1. ASSUME NEW k \in disclosed PROVE k \in Keys /\ k \in DOMAIN keys /\ keys'[k] = keys[k]
  <2>1. k \in Keys /\ k \in DOMAIN keys
    BY BoundsAssumption DEF MailInv, TypeOK, Keys
  <2>2. CASE UNCHANGED keys
    BY <2>1, <2>2
  <2>3. ASSUME NEW e \in Edges, NEW awaited \in BOOLEAN, NewKey(e, awaited)
        PROVE  keys'[k] = keys[k]
    BY <2>1, <2>3 DEF NewKey, MailInv, TypeOK
  <2> QED
    BY <2>1, <2>2, <2>3
    DEF Next, Mediate, Proceed, Fail, vars, Start, HandleConnect, SaveProvision,
      BatchPickup, ReceiveMessage, Connected, RouteCreated, Downloaded, UpdateRoutes, Batch,
      Forward, StoreForwarded, CreateConnection, AcceptInvitation, SendMessage, Stop, Crash,
      Restart, ReceiveMessageThrows, LosePost, LoseReply, LoseMail, MediatorRestart
<1>2. \A k \in disclosed : keys'[k].awaited => routes'[k] # None
  BY <1>1, RoutesStay DEF Routed, AcceptedKeyHasRoute
<1>3. CASE UNCHANGED disclosed
  BY <1>2, <1>3, AnsweredRouted DEF Routed, AcceptedKeyHasRoute
<1>4. ASSUME NEW e \in Edges, CreateConnection(e) PROVE AcceptedKeyHasRoute'
  <2>1. keys'[Len(keys')].awaited = FALSE
    BY <1>4 DEF CreateConnection, NewKey, MailInv, TypeOK
  <2> QED
    BY <1>2, <1>4, <2>1 DEF CreateConnection, AcceptedKeyHasRoute
<1>5. ASSUME NEW e \in Edges, NEW r \in replies, RouteCreated(e, r) PROVE AcceptedKeyHasRoute'
  BY <1>2, <1>5 DEF RouteCreated, Gets, Routed, AcceptedKeyHasRoute, mediator
<1> QED
  BY <1>3, <1>4, <1>5, AnsweredRouted
  DEF Routed, Next, Mediate, Proceed, Fail, vars, peers, Start, HandleConnect, SaveProvision,
      BatchPickup, ReceiveMessage, Connected, Downloaded, UpdateRoutes, Batch, Forward,
      StoreForwarded, AcceptInvitation, SendMessage, Stop, Crash, Restart,
      ReceiveMessageThrows, LosePost, LoseReply, LoseMail, MediatorRestart

\* A peer that learns a key from acceptInvitation meets a mediator with its route, for
\* every loss and crash of an agent, as long as the mediator keeps its routing table.
THEOREM AcceptedRouted ==
  ASSUME "restart" \notin Faults
  PROVE  Spec => []AcceptedKeyHasRoute
<1>1. Init => Routed
  BY DEF Init, Routed, AcceptedKeyHasRoute
<1>2. Init /\ [][Next]_vars /\ []MailInv => []Routed
  BY <1>1, RoutedStep, PTL
<1>3. Routed => AcceptedKeyHasRoute
  BY DEF Routed
<1> QED
  BY <1>2, <1>3, MailInvariant, PTL DEF Spec

-----------------------------------------------------------------------------
(* Routes lead where the agent polls                                         *)

\* The connection that this session of an agent, and its later ones, poll.
Home(e) == {provision[e], agent[e].unsaved} \ {None}

ProcessPart ==
  \A e \in Edges :
    /\ agent[e].unsaved # None => provision[e] = None
    /\ agent[e].pc = "connecting" => agent[e].unsaved = None /\ provision[e] = None
    /\ agent[e].pc = "off" => agent[e].unsaved = None
    /\ agent[e].pc = "ready" => agent[e].inbound \in Home(e)

HomePosts == \A p \in posts : p.kind = "keylist" => p.conn \in Home(p.edge)

FollowInv == ProcessPart /\ HomePosts /\ RoutesFollowProvision

\* An agent that finds no ProvisioningRecord has none to be saved either, unless its
\* process died; so it never gets a second home.
LEMMA HomeStays ==
  ASSUME MailInv, ProcessPart, [Next]_vars, "crash" \notin Faults
  PROVE  ProcessPart' /\ \A e \in Edges : Home(e) \subseteq Home(e)'
<1> DEFINE Goal == ProcessPart' /\ \A e \in Edges : Home(e) \subseteq Home(e)'
<1>1. CASE UNCHANGED <<agent, provision>>
  BY <1>1 DEF ProcessPart, Home
<1>2. ASSUME NEW e \in Edges, Start(e) PROVE Goal
  <2>1. /\ UNCHANGED provision
        /\ \A d \in Edges : d # e => agent'[d] = agent[d]
        /\ agent'[e].unsaved = None
        /\ agent'[e].pc = "connecting" => provision[e] = None
        /\ agent'[e].pc = "ready" => agent'[e].inbound = provision[e] /\ provision[e] # None
        /\ agent'[e].pc \in {"connecting", "ready"}
    BY <1>2 DEF Start, Inbound, Process, MailInv, TypeOK
  <2>2. agent[e].unsaved = None
    BY <1>2 DEF Start, ProcessPart
  <2> QED
    BY <2>1, <2>2 DEF ProcessPart, Home
<1>3. ASSUME NEW e \in Edges, NEW r \in replies, Connected(e, r) PROVE Goal
  <2>1. r.conn # None
    BY <1>3 DEF Connected, Gets, MailInv, ReplyPart, Reaches, None
  <2>2. /\ UNCHANGED provision
        /\ \A d \in Edges : d # e => agent'[d] = agent[d]
        /\ agent'[e].pc = "ready" /\ agent'[e].inbound = r.conn /\ agent'[e].unsaved = r.conn
    BY <1>3 DEF Connected, Inbound, Process, MailInv, TypeOK
  <2>3. agent[e].unsaved = None /\ provision[e] = None
    BY <1>3 DEF Connected, ProcessPart
  <2> QED
    BY <2>1, <2>2, <2>3 DEF ProcessPart, Home
<1>4. ASSUME NEW e \in Edges, SaveProvision(e) PROVE Goal
  <2>1. /\ \A d \in Edges : d # e => agent'[d] = agent[d] /\ provision'[d] = provision[d]
        /\ agent'[e].pc = agent[e].pc /\ agent'[e].inbound = agent[e].inbound
        /\ agent'[e].unsaved = None /\ provision'[e] = agent[e].unsaved
    BY <1>4 DEF SaveProvision, Process, MailInv, TypeOK
  <2>2. agent[e].unsaved # None /\ provision[e] = None
    BY <1>4 DEF SaveProvision, ProcessPart
  <2> QED
    BY <2>1, <2>2 DEF ProcessPart, Home
<1>5. ASSUME NEW e \in Edges, Stop(e) PROVE Goal
  <2>1. /\ UNCHANGED provision
        /\ \A d \in Edges : d # e => agent'[d] = agent[d]
        /\ agent'[e].pc = "off" /\ agent'[e].unsaved = None /\ agent[e].unsaved = None
    BY <1>5 DEF Stop, Restart, Off, Process, MailInv, TypeOK
  <2> QED
    BY <2>1 DEF ProcessPart, Home
<1> QED
  BY <1>1, <1>2, <1>3, <1>4, <1>5
  DEF Next, Mediate, Proceed, Fail, vars, mediator, HandleConnect, BatchPickup,
      ReceiveMessage, RouteCreated, Downloaded, UpdateRoutes, Batch, Forward,
      StoreForwarded, CreateConnection, AcceptInvitation, SendMessage, Crash,
      ReceiveMessageThrows, LosePost, LoseReply, LoseMail, MediatorRestart

\* A keylist update is posted by an agent that polls its home.
LEMMA HomePostsStep ==
  ASSUME MailInv, ProcessPart, HomePosts, [Next]_vars, "crash" \notin Faults
  PROVE  HomePosts'
<1>1. \A p \in posts : p.kind = "keylist" => p.conn \in Home(p.edge)'
  BY HomeStays DEF HomePosts, MailInv, TypeOK, Post
<1>2. CASE posts' \subseteq posts
  BY <1>1, <1>2 DEF HomePosts
<1>3. ASSUME NEW e \in Edges, NEW awaited \in BOOLEAN, NewKey(e, awaited), UNCHANGED <<agent, provision>>
      PROVE  HomePosts'
  <2>1. agent[e].inbound \in Home(e)'
    BY <1>3 DEF NewKey, ProcessPart, Home
  <2> QED
    BY <1>1, <1>3, <2>1 DEF NewKey, NewPost, HomePosts
<1>4. ASSUME NEW e \in Edges, NEW kind \in {"connect", "pickup"},
             posts' = posts \cup {NewPost(e, kind, None)}
      PROVE  HomePosts'
  BY <1>1, <1>4 DEF NewPost, HomePosts
<1> QED
  BY <1>2, <1>3, <1>4
  DEF Next, Mediate, Proceed, Fail, vars, mediator, peers, Start, HandleConnect,
      SaveProvision, BatchPickup, ReceiveMessage, Connected, RouteCreated, Downloaded, Gets,
      UpdateRoutes, Batch, Answer, Forward, StoreForwarded, CreateConnection,
      AcceptInvitation, SendMessage, Stop, Crash, Restart, ReceiveMessageThrows, LosePost,
      LoseReply, LoseMail, MediatorRestart

\* A route is made for the home of the key's agent, and the agent keeps that home.
LEMMA FollowStep ==
  MailInv /\ FollowInv /\ [Next]_vars /\ "crash" \notin Faults => FollowInv'
<1> SUFFICES ASSUME MailInv, FollowInv, [Next]_vars, "crash" \notin Faults PROVE FollowInv'
  OBVIOUS
<1>1. Grows /\ ProcessPart' /\ \A e \in Edges : Home(e) \subseteq Home(e)'
  BY StepGrows, HomeStays DEF FollowInv
<1>2. ASSUME NEW k \in Keys, routes[k] # None
      PROVE  \E e \in Edges : Owns(e, k)' /\ routes[k] \in Home(e)'
  <2>1. PICK e \in Edges : Owns(e, k)
    BY <1>2 DEF MailInv, RoutePart
  <2>2. routes[k] \in Home(e)
    BY <1>2, <2>1 DEF FollowInv, RoutesFollowProvision, Home, Owns, MailInv, TypeOK
  <2> QED
    BY <1>1, <2>1, <2>2 DEF Grows
<1>3. SUFFICES ASSUME NEW k \in Keys, routes'[k] # None
               PROVE  \E e \in Edges : Owns(e, k)' /\ routes'[k] \in Home(e)'
  <2>1. DOMAIN keys' \subseteq Keys
    BY TypeStep, BoundsAssumption DEF TypeOK, Keys
  <2> QED
    BY <1>1, <2>1, <1>3, HomePostsStep DEF FollowInv, RoutesFollowProvision, Home, Owns
<1>4. CASE routes' = routes \/ MediatorRestart
  BY <1>2, <1>3, <1>4 DEF MediatorRestart
<1>5. ASSUME NEW p \in posts, UpdateRoutes(p)
      PROVE  \E e \in Edges : Owns(e, k)' /\ routes'[k] \in Home(e)'
  <2>1. CASE k = p.key
    <3>1. Owns(p.edge, k)' /\ p.edge \in Edges
      BY <1>1, <1>5, <2>1
      DEF UpdateRoutes, Grows, MailInv, TypeOK, Post, PostPart, GoodPost
    <3>2. p.conn \in Home(p.edge)'
      BY <1>1, <1>5, <3>1 DEF UpdateRoutes, FollowInv, HomePosts
    <3>3. routes'[k] = p.conn
      BY <1>5, <2>1 DEF UpdateRoutes, MailInv, TypeOK
    <3> QED
      BY <3>1, <3>2, <3>3
  <2>2. CASE k # p.key
    BY <1>2, <1>3, <1>5, <2>2 DEF UpdateRoutes, MailInv, TypeOK
  <2> QED
    BY <2>1, <2>2
<1> QED
  BY <1>4, <1>5
  DEF Next, Mediate, Proceed, Fail, vars, mediator, Start, HandleConnect,
      SaveProvision, BatchPickup, ReceiveMessage, Connected, RouteCreated, Downloaded,
      Batch, Forward, StoreForwarded, CreateConnection, AcceptInvitation, SendMessage, Stop,
      Crash, Restart, ReceiveMessageThrows, LosePost, LoseReply, LoseMail

\* A route always leads to the connection its agent polls now and after every restart,
\* unless the process can die before the ProvisioningRecord is written.
THEOREM RoutesFollow ==
  ASSUME "crash" \notin Faults
  PROVE  Spec => []RoutesFollowProvision
<1>1. Init => FollowInv
  BY DEF Init, FollowInv, ProcessPart, HomePosts, RoutesFollowProvision, Off, Process, None
<1>2. Init /\ [][Next]_vars /\ []MailInv => []FollowInv
  BY <1>1, FollowStep, PTL
<1>3. FollowInv => RoutesFollowProvision
  BY DEF FollowInv
<1> QED
  BY <1>2, <1>3, MailInvariant, PTL DEF Spec

-----------------------------------------------------------------------------
(* One pickup at a time: what is on its way to an agent                      *)

\* A pickup of the session its agent is in; its answer would be listened to.
Current(p) == p.kind = "pickup" /\ p.session = agent[p.edge].session

AskPart ==
  \A e \in Edges :
    /\ agent[e].pc # "ready" => poll[e].pc = "idle"
    /\ poll[e].pc # "handling" => poll[e].batch = <<>>

\* Only an agent that waits for an answer has a current pickup, of the connection it polls.
Waits(p) == poll[p.edge].pc = "asked" /\ p.conn = agent[p.edge].inbound

PostedPart ==
  /\ \A p \in posts : p.session <= agent[p.edge].session
  /\ \A p \in posts : Current(p) => Waits(p)
  /\ \A p, q \in posts : Current(p) /\ Current(q) /\ p.edge = q.edge => p = q

AnsweredPart ==
  /\ \A r \in replies : r.to.session <= agent[r.to.edge].session
  /\ \A r \in replies : Current(r.to) => Waits(r.to)
  /\ \A r, q \in replies : Current(r.to) /\ Current(q.to) /\ r.to.edge = q.to.edge => r = q
  /\ \A r \in replies, p \in posts : Current(r.to) /\ Current(p) => r.to.edge # p.edge

PickupInv == AskPart /\ PostedPart /\ AnsweredPart

\* A step that leaves sessions, connections and the loop alone, and adds no pickup.
LEMMA PickupKept ==
  ASSUME MailInv, PickupInv, UNCHANGED poll,
         \A e \in Edges : /\ agent'[e].session = agent[e].session
                          /\ poll[e].pc = "asked" => agent'[e].inbound = agent[e].inbound
                          /\ agent'[e].pc # "ready" => poll[e].pc = "idle",
         posts' \subseteq Post, replies' \subseteq Reply,
         \A p \in posts' \ posts : p.kind # "pickup" /\ p.session = agent[p.edge].session,
         \A r \in replies' \ replies : /\ r.to \in posts
                                       /\ r.to.kind # "pickup"
  PROVE  PickupInv'
<1>1. AskPart'
  BY DEF PickupInv, AskPart
<1>t. /\ \A p \in posts' \cup posts : p.edge \in Edges
      /\ \A r \in replies' \cup replies : r.to.edge \in Edges
  BY DEF MailInv, TypeOK, Post, Reply
<1>2. \A p \in posts' : Current(p)' => p \in posts /\ Current(p)
  BY <1>t DEF Current
<1>3. \A r \in replies' : Current(r.to)' => r \in replies /\ Current(r.to)
  BY <1>t DEF Current
<1>4. \A p : p.edge \in Edges /\ Waits(p) => Waits(p)'
  BY DEF Waits
<1>s. \A e \in Edges : agent[e].session \in Int
  BY BoundsAssumption DEF MailInv, TypeOK, Processes, Sessions
<1>5. PostedPart'
  BY <1>t, <1>2, <1>4, <1>s DEF PickupInv, PostedPart
<1>6. AnsweredPart'
  <2>1. \A r \in replies' : r.to.session <= agent'[r.to.edge].session
    BY <1>t DEF PickupInv, PostedPart, AnsweredPart
  <2> QED
    BY <1>t, <1>2, <1>3, <1>4, <2>1 DEF PickupInv, AnsweredPart
<1> QED
  BY <1>1, <1>5, <1>6 DEF PickupInv

\* Init: nobody has asked for anything.
LEMMA InitPickup == Init => PickupInv
BY DEF Init, PickupInv, AskPart, PostedPart, AnsweredPart, Off, Process, NoBatch

\* Every step keeps it: a restart makes the pickups of its agent stale, an answer takes
\* the place of its post, and the loop asks again only when it has the answer.
LEMMA PickupStep == MailInv /\ PickupInv /\ [Next]_vars => PickupInv'
<1> SUFFICES ASSUME MailInv, PickupInv, [Next]_vars PROVE PickupInv'
  OBVIOUS
<1>t. MailInv' /\ posts' \subseteq Post /\ replies' \subseteq Reply
  BY MailStep DEF MailInv, TypeOK
<1>e. /\ \A p \in posts \cup posts' : p.edge \in Edges /\ p.session \in Int
      /\ \A r \in replies \cup replies' : r.to.edge \in Edges /\ r.to.session \in Int
      /\ \A e \in Edges : agent[e].session \in Int
  BY <1>t, BoundsAssumption DEF MailInv, TypeOK, Post, Reply, Processes, Sessions
<1>1. ASSUME NEW e \in Edges, Start(e) PROVE PickupInv'
  <2>1. \A d \in Edges : /\ agent'[d].session = agent[d].session
                         /\ d # e => agent'[d] = agent[d]
    BY <1>1 DEF Start, Inbound, Process, MailInv, TypeOK
  <2>2. poll[e].pc = "idle"
    BY <1>1 DEF Start, PickupInv, AskPart
  <2>3. \A p \in posts' \ posts : p.kind # "pickup" /\ p.session = agent[p.edge].session
    BY <1>1 DEF Start, NewPost
  <2>4. UNCHANGED <<poll, replies>>
    BY <1>1 DEF Start
  <2> QED
    BY <1>t, <2>1, <2>2, <2>3, <2>4, PickupKept DEF PickupInv, AskPart
<1>2. ASSUME NEW e \in Edges, NEW r \in replies, Connected(e, r) PROVE PickupInv'
  <2>1. \A d \in Edges : /\ agent'[d].session = agent[d].session
                         /\ d # e => agent'[d] = agent[d]
    BY <1>2 DEF Connected, Inbound, Process, MailInv, TypeOK
  <2>2. poll[e].pc = "idle"
    BY <1>2 DEF Connected, PickupInv, AskPart
  <2>4. UNCHANGED <<poll, posts>> /\ replies' \subseteq replies
    BY <1>2 DEF Connected, Gets
  <2> QED
    BY <1>t, <2>1, <2>2, <2>4, PickupKept DEF PickupInv, AskPart
<1>3. ASSUME NEW e \in Edges, SaveProvision(e) PROVE PickupInv'
  <2>1. \A d \in Edges : /\ agent'[d].session = agent[d].session
                         /\ agent'[d].inbound = agent[d].inbound
                         /\ agent'[d].pc = agent[d].pc
    BY <1>3 DEF SaveProvision, Process, MailInv, TypeOK
  <2>4. UNCHANGED <<poll, posts, replies>>
    BY <1>3 DEF SaveProvision
  <2> QED
    BY <1>t, <2>1, <2>4, PickupKept DEF PickupInv, AskPart
<1>4. ASSUME NEW p \in posts, HandleConnect(p) \/ UpdateRoutes(p) PROVE PickupInv'
  <2>1. UNCHANGED <<poll, agent>> /\ posts' \subseteq posts
    BY <1>4 DEF HandleConnect, UpdateRoutes, Answer
  <2>2. \A r \in replies' \ replies : r.to \in posts /\ r.to.kind # "pickup"
    BY <1>4 DEF HandleConnect, UpdateRoutes, Answer
  <2> QED
    BY <1>t, <2>1, <2>2, PickupKept DEF PickupInv, AskPart
<1>5. ASSUME NEW e \in Edges, CreateConnection(e) \/ AcceptInvitation(e) PROVE PickupInv'
  <2>1. UNCHANGED <<poll, agent, replies>>
    BY <1>5 DEF CreateConnection, AcceptInvitation
  <2>2. \A p \in posts' \ posts : p.kind # "pickup" /\ p.session = agent[p.edge].session
    BY <1>5 DEF CreateConnection, AcceptInvitation, NewKey, NewPost
  <2> QED
    BY <1>t, <2>1, <2>2, PickupKept DEF PickupInv, AskPart
<1>6. ASSUME UNCHANGED <<poll, agent>>, posts' \subseteq posts, replies' \subseteq replies
      PROVE  PickupInv'
  BY <1>t, <1>6, PickupKept DEF PickupInv, AskPart
<1>7. ASSUME NEW e \in Edges, BatchPickup(e) PROVE PickupInv'
  <2>0. PICK new : new = NewPost(e, "pickup", None)
    OBVIOUS
  <2>1. /\ new.kind = "pickup" /\ new.edge = e /\ new.session = agent[e].session
        /\ new.conn = agent[e].inbound
    BY <2>0 DEF NewPost
  <2>2. /\ UNCHANGED <<agent, replies>> /\ posts' = posts \cup {new}
        /\ poll[e].pc = "idle" /\ poll'[e].pc = "asked" /\ poll'[e].batch = <<>>
        /\ agent[e].pc = "ready"
        /\ \A d \in Edges : d # e => poll'[d] = poll[d]
    BY <1>7, <2>0 DEF BatchPickup, NoBatch, MailInv, TypeOK
  <2>3. /\ \A p \in posts : Current(p) => p.edge # e
        /\ \A r \in replies : Current(r.to) => r.to.edge # e
    BY <2>2 DEF PickupInv, PostedPart, AnsweredPart, Waits
  <2>4. AskPart'
    BY <2>2 DEF PickupInv, AskPart
  <2>5. \A p : Current(p)' <=> Current(p)
    BY <2>2 DEF Current
  <2>6. \A p : p.edge \in Edges /\ p.edge # e => (Waits(p)' <=> Waits(p))
    BY <2>2 DEF Waits
  <2>7. Waits(new)'
    BY <2>1, <2>2 DEF Waits
  <2>8. PostedPart'
    <3>1. \A p \in posts' : p.session <= agent'[p.edge].session
      <4>1. new.session <= agent[new.edge].session
        BY <1>e, <2>1
      <4> QED
        BY <2>2, <4>1 DEF PickupInv, PostedPart
    <3>2. \A p \in posts' : Current(p)' => Waits(p)'
      BY <1>e, <2>2, <2>3, <2>5, <2>6, <2>7 DEF PickupInv, PostedPart
    <3>3. \A p, q \in posts' : Current(p)' /\ Current(q)' /\ p.edge = q.edge => p = q
      BY <2>1, <2>2, <2>3, <2>5 DEF PickupInv, PostedPart
    <3> QED
      BY <3>1, <3>2, <3>3 DEF PostedPart
  <2>9. AnsweredPart'
    BY <1>e, <2>1, <2>2, <2>3, <2>5, <2>6 DEF PickupInv, AnsweredPart
  <2> QED
    BY <2>4, <2>8, <2>9 DEF PickupInv
<1>8. ASSUME NEW p \in posts, Batch(p) PROVE PickupInv'
  <2>1. PICK r : /\ r.to = p
                 /\ posts' = posts \ {p} /\ replies' = replies \cup {r}
    BY <1>8 DEF Batch, Answer
  <2>2. UNCHANGED <<agent, poll>>
    BY <1>8 DEF Batch
  <2>3. \A q : (Current(q)' <=> Current(q)) /\ (Waits(q)' <=> Waits(q))
    BY <2>2 DEF Current, Waits
  <2>4. AskPart'
    BY <2>2 DEF PickupInv, AskPart
  <2>5. PostedPart'
    BY <2>1, <2>2, <2>3 DEF PickupInv, PostedPart
  <2>6. AnsweredPart'
    <3>1. \A s \in replies' : s.to.session <= agent'[s.to.edge].session
      BY <2>1, <2>2 DEF PickupInv, PostedPart, AnsweredPart
    <3>2. \A s \in replies' : Current(s.to)' => Waits(s.to)'
      BY <2>1, <2>3 DEF PickupInv, PostedPart, AnsweredPart
    <3>3. \A s, q \in replies' : Current(s.to)' /\ Current(q.to)' /\ s.to.edge = q.to.edge => s = q
      BY <2>1, <2>3 DEF PickupInv, PostedPart, AnsweredPart
    <3>4. \A s \in replies', q \in posts' : Current(s.to)' /\ Current(q)' => s.to.edge # q.edge
      BY <2>1, <2>3 DEF PickupInv, PostedPart, AnsweredPart
    <3> QED
      BY <3>1, <3>2, <3>3, <3>4 DEF AnsweredPart
  <2> QED
    BY <2>4, <2>5, <2>6 DEF PickupInv
<1>9. ASSUME NEW e \in Edges, NEW r \in replies, Downloaded(e, r) PROVE PickupInv'
  <2>1. Current(r.to) /\ r.to.edge = e
    BY <1>9 DEF Downloaded, Gets, Current
  <2>2. /\ UNCHANGED <<agent, posts>> /\ replies' = replies \ {r}
        /\ poll'[e] = Rest(r.batch)
        /\ \A d \in Edges : d # e => poll'[d] = poll[d]
    BY <1>9 DEF Downloaded, Gets, MailInv, TypeOK
  <2>3. agent[e].pc = "ready"
    BY <2>1 DEF PickupInv, AskPart, AnsweredPart, Waits
  <2>4. AskPart'
    BY <2>2, <2>3 DEF PickupInv, AskPart, Rest
  <2>5. \A p : Current(p)' <=> Current(p)
    BY <2>2 DEF Current
  <2>6. \A p : p.edge \in Edges /\ p.edge # e => (Waits(p)' <=> Waits(p))
    BY <2>2 DEF Waits
  <2>7. /\ \A p \in posts' : Current(p) => p.edge # e
        /\ \A q \in replies' : Current(q.to) => q.to.edge # e
    BY <2>1, <2>2 DEF PickupInv, AnsweredPart
  <2>8. PostedPart'
    BY <1>e, <2>2, <2>5, <2>6, <2>7 DEF PickupInv, PostedPart
  <2>9. AnsweredPart'
    BY <1>e, <2>2, <2>5, <2>6, <2>7 DEF PickupInv, AnsweredPart
  <2> QED
    BY <2>4, <2>8, <2>9 DEF PickupInv
<1>10. ASSUME NEW e \in Edges, ReceiveMessage(e) \/ ReceiveMessageThrows(e) PROVE PickupInv'
  <2>1. /\ UNCHANGED <<agent, posts, replies>> /\ poll[e].pc = "handling"
        /\ poll'[e].pc # "handling" => poll'[e].batch = <<>>
        /\ \A d \in Edges : d # e => poll'[d] = poll[d]
    <3>1. CASE ReceiveMessage(e)
      <4>1. poll' = [poll EXCEPT ![e] = Rest(Tail(poll[e].batch))]
        BY <3>1 DEF ReceiveMessage
      <4> QED
        BY <3>1, <4>1 DEF ReceiveMessage, Rest, MailInv, TypeOK
    <3>2. CASE ReceiveMessageThrows(e)
      BY <3>2 DEF ReceiveMessageThrows, NoBatch, MailInv, TypeOK
    <3> QED
      BY <1>10, <3>1, <3>2
  <2>2. agent[e].pc = "ready"
    BY <2>1 DEF PickupInv, AskPart
  <2>3. AskPart'
    BY <2>1, <2>2 DEF PickupInv, AskPart
  <2>4. \A p : Current(p)' <=> Current(p)
    BY <2>1 DEF Current
  <2>5. \A p : p.edge \in Edges /\ Waits(p) => Waits(p)'
    BY <2>1 DEF Waits
  <2>6. PostedPart' /\ AnsweredPart'
    BY <1>e, <2>1, <2>4, <2>5 DEF PickupInv, PostedPart, AnsweredPart
  <2> QED
    BY <2>3, <2>6 DEF PickupInv
<1>11. ASSUME NEW e \in Edges, Stop(e) \/ Crash(e) PROVE PickupInv'
  <2>1. /\ UNCHANGED <<posts, replies>>
        /\ agent'[e].session = agent[e].session + 1
        /\ agent'[e].pc = "off" /\ poll'[e].pc = "idle" /\ poll'[e].batch = <<>>
        /\ \A d \in Edges : d # e => poll'[d] = poll[d] /\ agent'[d] = agent[d]
    BY <1>11 DEF Stop, Crash, Restart, Off, Process, NoBatch, MailInv, TypeOK
  <2>2. AskPart'
    BY <2>1 DEF PickupInv, AskPart
  <2>3. /\ \A p \in posts : Current(p)' => Current(p) /\ p.edge # e
        /\ \A r \in replies : Current(r.to)' => Current(r.to) /\ r.to.edge # e
    BY <1>e, <2>1 DEF PickupInv, PostedPart, AnsweredPart, Current
  <2>4. \A p : p.edge \in Edges /\ p.edge # e /\ Waits(p) => Waits(p)'
    BY <2>1 DEF Waits
  <2>5. /\ \A p \in posts : p.session <= agent'[p.edge].session
        /\ \A r \in replies : r.to.session <= agent'[r.to.edge].session
    BY <1>e, <2>1 DEF PickupInv, PostedPart, AnsweredPart
  <2>6. PostedPart'
    BY <1>e, <2>1, <2>3, <2>4, <2>5 DEF PickupInv, PostedPart
  <2>7. AnsweredPart'
    BY <1>e, <2>1, <2>3, <2>4, <2>5 DEF PickupInv, AnsweredPart
  <2> QED
    BY <2>2, <2>6, <2>7 DEF PickupInv
<1> QED
  BY <1>1, <1>2, <1>3, <1>4, <1>5, <1>6, <1>7, <1>8, <1>9, <1>10, <1>11
  DEF Next, Mediate, Proceed, Fail, vars, mediator, peers, RouteCreated, Gets, Forward,
      StoreForwarded, SendMessage, LosePost, LoseReply, LoseMail, MediatorRestart

-----------------------------------------------------------------------------
(* The box of a connection: in hand, on its way, in the queue                *)

\* The answer r is the one OnItsWay(c) speaks of.
Brings(r, c) == r \in replies /\ Current(r.to) /\ r.to.conn = c

\* What is in hand is the batch of the one agent that polls the connection.
LEMMA HandIs ==
  MailInv =>
    \A c \in Conns :
      /\ \A e \in Edges : agent[e].inbound = c => InHand(c) = poll[e].batch
      /\ (\A e \in Edges : agent[e].inbound = c => poll[e].batch = <<>>) => InHand(c) = <<>>
      /\ InHand(c) \in Seq(Message)
<1> SUFFICES ASSUME MailInv, NEW c \in Conns
             PROVE  /\ \A e \in Edges : agent[e].inbound = c => InHand(c) = poll[e].batch
                    /\ (\A e \in Edges : agent[e].inbound = c => poll[e].batch = <<>>)
                         => InHand(c) = <<>>
                    /\ InHand(c) \in Seq(Message)
  OBVIOUS
<1>0. c # None /\ <<>> \in Seq(Message)
  BY DEF Conns, None
<1>1. \A e \in Edges : agent[e].inbound = c => Reaches(c, e)
  BY <1>0 DEF MailInv, AgentPart
<1>2. \A e \in Edges : agent[e].inbound = c => InHand(c) = poll[e].batch
  BY <1>1 DEF InHand, Reaches, MailInv, TypeOK
<1>3. (\A e \in Edges : agent[e].inbound # c) => InHand(c) = <<>>
  BY DEF InHand, MailInv, TypeOK
<1>4. \A e \in Edges : poll[e].batch \in Seq(Message)
  BY DEF MailInv, TypeOK
<1>5. CASE \A e \in Edges : agent[e].inbound # c
  BY <1>0, <1>3, <1>5
<1>6. CASE \E e \in Edges : agent[e].inbound = c
  BY <1>2, <1>4, <1>6
<1> QED
  BY <1>5, <1>6

\* What is on its way is the batch of the one answer the agent's session will hear, and then
\* nothing is in hand.
LEMMA WayIs ==
  MailInv /\ PickupInv =>
    \A c \in Conns :
      /\ \A r : Brings(r, c) => OnItsWay(c) = r.batch /\ InHand(c) = <<>>
      /\ (\A r : ~Brings(r, c)) => OnItsWay(c) = <<>>
      /\ OnItsWay(c) \in Seq(Message)
<1> SUFFICES ASSUME MailInv, PickupInv, NEW c \in Conns
             PROVE  /\ \A r : Brings(r, c) => OnItsWay(c) = r.batch /\ InHand(c) = <<>>
                    /\ (\A r : ~Brings(r, c)) => OnItsWay(c) = <<>>
                    /\ OnItsWay(c) \in Seq(Message)
  OBVIOUS
<1> DEFINE R == {q \in replies : /\ q.to.kind = "pickup" /\ q.to.conn = c
                                 /\ q.to.session = agent[q.to.edge].session}
<1>1. \A r : r \in R <=> Brings(r, c)
  BY DEF Brings, Current
<1>2. OnItsWay(c) = IF R = {} THEN <<>> ELSE (CHOOSE q \in R : TRUE).batch
  BY DEF OnItsWay
<1>3. ASSUME NEW r, Brings(r, c)
      PROVE  /\ R = {r} /\ r.batch \in Seq(Message) /\ InHand(c) = <<>>
  <2>1. \A q : Brings(q, c) => Reaches(c, q.to.edge) /\ q.to.edge \in Edges
    BY DEF Brings, Current, MailInv, ReplyPart, GoodPost, TypeOK, Reply, Post
  <2>2. \A q : Brings(q, c) => q = r
    BY <1>3, <2>1 DEF Reaches, Brings, PickupInv, AnsweredPart
  <2>3. poll[r.to.edge].batch = <<>> /\ agent[r.to.edge].inbound = c
    BY <1>3, <2>1 DEF Brings, PickupInv, AnsweredPart, AskPart, Waits
  <2>4. InHand(c) = <<>>
    BY <2>1, <2>3, <1>3, HandIs
  <2>5. r.batch \in Seq(Message)
    BY <1>3 DEF Brings, MailInv, TypeOK, Reply
  <2> QED
    BY <1>1, <1>3, <2>2, <2>4, <2>5
<1>4. (\A r : ~Brings(r, c)) => R = {}
  BY <1>1
<1> HIDE DEF R
<1>5. <<>> \in Seq(Message)
  OBVIOUS
<1>6. ASSUME NEW r, Brings(r, c) PROVE OnItsWay(c) = r.batch
  BY <1>2, <1>3, <1>6
<1>7. OnItsWay(c) \in Seq(Message)
  <2>1. CASE \E r : Brings(r, c)
    BY <1>3, <1>6, <2>1
  <2>2. CASE ~\E r : Brings(r, c)
    BY <1>2, <1>4, <1>5, <2>2
  <2> QED
    BY <2>1, <2>2
<1>8. (\A r : ~Brings(r, c)) => OnItsWay(c) = <<>>
  BY <1>2, <1>4
<1> QED
  BY <1>3, <1>6, <1>7, <1>8

\* The same after a step.
LEMMA BoxThen ==
  ASSUME MailInv', PickupInv'
  PROVE  \A c \in Conns :
           /\ \A e \in Edges : agent'[e].inbound = c => InHand(c)' = poll'[e].batch
           /\ (\A e \in Edges : agent'[e].inbound = c => poll'[e].batch = <<>>)
                => InHand(c)' = <<>>
           /\ InHand(c)' \in Seq(Message)
           /\ \A r : Brings(r, c)' => OnItsWay(c)' = r.batch /\ InHand(c)' = <<>>
           /\ (\A r : ~Brings(r, c)') => OnItsWay(c)' = <<>>
           /\ OnItsWay(c)' \in Seq(Message)
<1>1. ( \A c \in Conns :
          /\ \A e \in Edges : agent[e].inbound = c => InHand(c) = poll[e].batch
          /\ (\A e \in Edges : agent[e].inbound = c => poll[e].batch = <<>>) => InHand(c) = <<>>
          /\ InHand(c) \in Seq(Message) )'
  BY HandIs, PTL
<1>2. ( \A c \in Conns :
          /\ \A r : Brings(r, c) => OnItsWay(c) = r.batch /\ InHand(c) = <<>>
          /\ (\A r : ~Brings(r, c)) => OnItsWay(c) = <<>>
          /\ OnItsWay(c) \in Seq(Message) )'
  BY WayIs, PTL
<1> QED
  BY <1>1, <1>2

\* What is in hand stays when the agent keeps its batch and what it polls.
LEMMA HandStays ==
  ASSUME MailInv, PickupInv, MailInv', PickupInv', NEW c \in Conns,
         \A e \in Edges : agent[e].inbound = c \/ agent'[e].inbound = c =>
           /\ poll'[e].batch = poll[e].batch
           /\ poll[e].batch # <<>> => agent'[e].inbound = agent[e].inbound
  PROVE  InHand(c)' = InHand(c)
<1>1. CASE \E e \in Edges : agent[e].inbound = c /\ poll[e].batch # <<>>
  BY <1>1, HandIs, BoxThen
<1>2. CASE ~\E e \in Edges : agent[e].inbound = c /\ poll[e].batch # <<>>
  BY <1>2, HandIs, BoxThen
<1> QED
  BY <1>1, <1>2

\* What is on its way stays when the answers of current pickups do.
LEMMA WayStays ==
  ASSUME MailInv, PickupInv, MailInv', PickupInv', NEW c \in Conns,
         \A r : Brings(r, c)' <=> Brings(r, c)
  PROVE  OnItsWay(c)' = OnItsWay(c)
<1>1. CASE \E r : Brings(r, c)
  BY <1>1, WayIs, BoxThen
<1>2. CASE ~\E r : Brings(r, c)
  BY <1>2, WayIs, BoxThen
<1> QED
  BY <1>1, <1>2

\* A box, of its three parts.
Joined(h, w, q) == h \o w \o q

\* Waiting in terms of the parts, before and after a step.
LEMMA WaitingIs ==
  /\ Waiting = [c \in Conns |-> Joined(InHand(c), OnItsWay(c), queue[c])]
  /\ Waiting' = [c \in Conns |-> Joined(InHand(c)', OnItsWay(c)', queue'[c])]
BY DEF Waiting, Joined

\* Steps that a box does not notice.
LEMMA BoxStays ==
  ASSUME MailInv, PickupInv, MailInv', PickupInv', UNCHANGED queue,
         \A e \in Edges : /\ poll'[e].batch = poll[e].batch
                          /\ poll[e].batch # <<>> => agent'[e].inbound = agent[e].inbound
                          /\ agent'[e].session = agent[e].session,
         \A r : r.to.kind = "pickup" => (r \in replies' <=> r \in replies)
  PROVE  UNCHANGED Waiting
<1>1. ASSUME NEW c \in Conns PROVE InHand(c)' = InHand(c) /\ OnItsWay(c)' = OnItsWay(c)
  <2>1. InHand(c)' = InHand(c)
    BY HandStays
  <2>2. \A r \in replies \cup replies' : r.to.edge \in Edges
    BY DEF MailInv, TypeOK, Reply, Post
  <2>3. \A r : Brings(r, c)' <=> Brings(r, c)
    BY <2>2 DEF Brings, Current
  <2> QED
    BY <2>1, <2>3, WayStays
<1> QED
  BY <1>1, WaitingIs

-----------------------------------------------------------------------------
(* What each step does to the boxes                                          *)

\* What is left when a stretch at either end is gone.
Shortened(s, t) ==
  \E u, v \in Seq(Message) : s = u \o v /\ (t = u \/ t = v)

\* Such a rest is a subsequence as Mailbox says it.
LEMMA ShortenedIs ==
  ASSUME NEW s, NEW t, Shortened(s, t)
  PROVE  \E first \in 1..Len(s) + 1, last \in 0..Len(s) : t = SubSeq(s, first, last)
<1>1. PICK u \in Seq(Message), v \in Seq(Message) : s = u \o v /\ (t = u \/ t = v)
  BY DEF Shortened
<1>2. /\ s \in Seq(Message) /\ Len(s) = Len(u) + Len(v) /\ Len(u) \in Nat /\ Len(v) \in Nat
      /\ \A i \in 1..Len(u) : s[i] = u[i]
      /\ \A i \in 1..Len(v) : s[Len(u) + i] = v[i]
  BY <1>1
<1>3. CASE t = u
  <2>1. /\ SubSeq(s, 1, Len(u)) \in Seq(Message) /\ Len(SubSeq(s, 1, Len(u))) = Len(u)
        /\ \A i \in 1..Len(u) : SubSeq(s, 1, Len(u))[i] = s[i]
    <3>1. 1 \in Int /\ Len(u) \in Int /\ \A i \in 1..Len(u) : s[i] \in Message
      BY <1>2
    <3>2. /\ SubSeq(s, 1, Len(u)) \in Seq(Message)
          /\ Len(SubSeq(s, 1, Len(u))) = IF 1 <= Len(u) THEN Len(u) - 1 + 1 ELSE 0
          /\ \A i \in 1..Len(u) - 1 + 1 : SubSeq(s, 1, Len(u))[i] = s[1 + i - 1]
      BY <3>1, SubSeqProperties
    <3> QED
      BY <1>2, <3>2
  <2>2. SubSeq(s, 1, Len(u)) = u
    BY <1>2, <2>1, SeqEqual
  <2>3. 1 \in 1..Len(s) + 1 /\ Len(u) \in 0..Len(s)
    BY <1>2
  <2> QED
    BY <1>3, <2>2, <2>3, Zenon
<1>4. CASE t = v
  <2>1. /\ SubSeq(s, Len(u) + 1, Len(s)) \in Seq(Message)
        /\ Len(SubSeq(s, Len(u) + 1, Len(s))) = Len(v)
        /\ \A i \in 1..Len(v) : SubSeq(s, Len(u) + 1, Len(s))[i] = s[Len(u) + i]
    <3> DEFINE k == Len(u) + 1
               n == Len(s)
    <3>1. k \in Int /\ n \in Int /\ \A i \in k..n : s[i] \in Message
      BY <1>2
    <3> HIDE DEF k, n
    <3>2. /\ SubSeq(s, k, n) \in Seq(Message)
          /\ Len(SubSeq(s, k, n)) = IF k <= n THEN n - k + 1 ELSE 0
          /\ \A i \in 1..n - k + 1 : SubSeq(s, k, n)[i] = s[k + i - 1]
      BY <3>1, SubSeqProperties
    <3>3. n - k + 1 = Len(v) /\ \A i \in 1..Len(v) : k + i - 1 = Len(u) + i
      BY <1>2 DEF k, n
    <3>4. (k <= n <=> Len(v) # 0)
      BY <1>2 DEF k, n
    <3>5. /\ SubSeq(s, k, n) \in Seq(Message) /\ Len(SubSeq(s, k, n)) = Len(v)
          /\ \A i \in 1..Len(v) : SubSeq(s, k, n)[i] = s[Len(u) + i]
      BY <1>2, <3>1, <3>2, <3>3, <3>4
    <3> QED
      BY <3>5 DEF k, n
  <2>2. SubSeq(s, Len(u) + 1, Len(s)) = v
    BY <1>2, <2>1, SeqEqual
  <2>3. Len(u) + 1 \in 1..Len(s) + 1 /\ Len(s) \in 0..Len(s)
    BY <1>2
  <2> QED
    BY <1>4, <2>2, <2>3, Zenon
<1> QED
  BY <1>1, <1>3, <1>4

\* The parts of a box: joined, cut off, moved on, taken from and added to.
LEMMA Joins ==
  ASSUME NEW h \in Seq(Message), NEW w \in Seq(Message), NEW q \in Seq(Message)
  PROVE  /\ Joined(h, w, q) \in Seq(Message)
         /\ Shortened(Joined(h, w, q), Joined(h, w, q))
         /\ Shortened(Joined(h, w, q), Joined(<<>>, w, q))
         /\ Shortened(Joined(h, w, q), Joined(<<>>, <<>>, q))
         /\ Shortened(Joined(h, w, q), Joined(h, w, <<>>))
         /\ Joined(h, <<>>, q) = Joined(h, q, <<>>)
         /\ Joined(<<>>, w, q) = Joined(w, <<>>, q)
         /\ \A m \in Message : Joined(h, w, Append(q, m)) = Append(Joined(h, w, q), m)
         /\ h # <<>> => /\ Joined(h, w, q) # <<>>
                        /\ Head(Joined(h, w, q)) = Head(h)
                        /\ Tail(Joined(h, w, q)) = Joined(Tail(h), w, q)
<1>1. /\ <<>> \in Seq(Message) /\ h \o w \in Seq(Message) /\ w \o q \in Seq(Message)
      /\ (h \o w) \o q \in Seq(Message) /\ (h \o w) \o q = h \o (w \o q)
      /\ h \o q \in Seq(Message)
  BY ConcatAssociative
<1>2. \A s \in Seq(Message) : s \o <<>> = s /\ <<>> \o s = s
  BY ConcatEmptySeq
<1>3. Joined(h, w, q) \in Seq(Message)
  BY <1>1 DEF Joined
<1>4. Shortened(Joined(h, w, q), Joined(h, w, q))
  BY <1>1, <1>2, <1>3 DEF Shortened
<1>5. Joined(<<>>, w, q) = w \o q /\ Joined(<<>>, <<>>, q) = q /\ Joined(h, w, <<>>) = h \o w
  BY <1>1, <1>2 DEF Joined
<1>6. Shortened(Joined(h, w, q), Joined(<<>>, w, q))
  BY <1>1, <1>5 DEF Shortened, Joined
<1>7. Shortened(Joined(h, w, q), Joined(<<>>, <<>>, q))
  BY <1>1, <1>5 DEF Shortened, Joined
<1>8. Shortened(Joined(h, w, q), Joined(h, w, <<>>))
  BY <1>1, <1>5 DEF Shortened, Joined
<1>9. Joined(h, <<>>, q) = Joined(h, q, <<>>) /\ Joined(<<>>, w, q) = Joined(w, <<>>, q)
  BY <1>1, <1>2 DEF Joined
<1>10. ASSUME NEW m \in Message PROVE Joined(h, w, Append(q, m)) = Append(Joined(h, w, q), m)
  <2>1. Append(q, m) = q \o <<m>>
    BY <1>1, AppendIsConcat
  <2>2. Append((h \o w) \o q, m) = ((h \o w) \o q) \o <<m>>
    BY <1>1, AppendIsConcat
  <2>3. <<m>> \in Seq(Message)
    OBVIOUS
  <2>4. ((h \o w) \o q) \o <<m>> = (h \o w) \o (q \o <<m>>)
    <3>1. \A u \in Seq(Message) : (u \o q) \o <<m>> = u \o (q \o <<m>>)
      BY <2>3, ConcatAssociative
    <3> QED BY <1>1, <3>1
  <2> QED
    BY <2>1, <2>2, <2>4 DEF Joined
<1>11. ASSUME h # <<>>
       PROVE  /\ Joined(h, w, q) # <<>>
              /\ Head(Joined(h, w, q)) = Head(h)
              /\ Tail(Joined(h, w, q)) = Joined(Tail(h), w, q)
  <2>1. \A s \in Seq(Message) : /\ h \o s # <<>> /\ Head(h \o s) = Head(h)
                                /\ Tail(h \o s) = Tail(h) \o s
    <3> SUFFICES ASSUME NEW s \in Seq(Message)
                 PROVE  h \o s # <<>> /\ Head(h \o s) = Head(h) /\ Tail(h \o s) = Tail(h) \o s
      OBVIOUS
    <3>1. Len(h) \in Nat /\ Len(h) # 0 /\ Len(s) \in Nat /\ h \o s \in Seq(Message)
      BY <1>11
    <3>2. Len(h \o s) = Len(h) + Len(s)
      OBVIOUS
    <3>3. h \o s # <<>> /\ Head(h \o s) = Head(h)
      BY <3>1, <3>2
    <3>4. /\ Tail(h) \in Seq(Message) /\ Len(Tail(h)) = Len(h) - 1
          /\ \A i \in 1..Len(h) - 1 : Tail(h)[i] = h[i + 1]
      BY <1>11
    <3>5. /\ Tail(h \o s) \in Seq(Message) /\ Len(Tail(h \o s)) = Len(h) + Len(s) - 1
          /\ \A i \in 1..Len(h) + Len(s) - 1 : Tail(h \o s)[i] = (h \o s)[i + 1]
      BY <3>1, <3>2, <3>3
    <3>6. /\ Tail(h) \o s \in Seq(Message) /\ Len(Tail(h) \o s) = Len(h) + Len(s) - 1
          /\ \A i \in 1..Len(h) + Len(s) - 1 :
               (Tail(h) \o s)[i] = IF i <= Len(h) - 1 THEN Tail(h)[i] ELSE s[i - (Len(h) - 1)]
      BY <3>1, <3>4
    <3>7. \A i \in 1..Len(h) + Len(s) - 1 : Tail(h \o s)[i] = (Tail(h) \o s)[i]
      BY <3>1, <3>4, <3>5, <3>6
    <3> QED
      BY <3>1, <3>3, <3>5, <3>6, <3>7, SeqEqual
  <2>2. Tail(h) \in Seq(Message)
    BY <1>11
  <2>3. Joined(Tail(h), w, q) = Tail(h) \o (w \o q)
    BY <2>2, ConcatAssociative DEF Joined
  <2>4. Joined(h, w, q) = h \o (w \o q)
    BY <1>1 DEF Joined
  <2>5. PICK s \in Seq(Message) : s = w \o q
    BY <1>1
  <2>6. h \o s # <<>> /\ Head(h \o s) = Head(h) /\ Tail(h \o s) = Tail(h) \o s
    BY <2>1
  <2>7. Joined(h, w, q) = h \o s /\ Joined(Tail(h), w, q) = Tail(h) \o s
    BY <2>3, <2>4, <2>5, Zenon
  <2> QED
    BY <2>6, <2>7
<1> QED
  BY <1>3, <1>4, <1>6, <1>7, <1>8, <1>9, <1>10, <1>11

\* An answer that is taken becomes what is in hand.
LEMMA MovedOn ==
  ASSUME NEW w \in Seq(Message), NEW q \in Seq(Message)
  PROVE  Joined(<<>>, w, q) = Joined(w, <<>>, q)
<1>1. <<>> \in Seq(Message)
  OBVIOUS
<1> QED
  BY <1>1, Joins

\* What the ways to lose messages leave of a box.
LEMMA CutOff ==
  ASSUME NEW h \in Seq(Message), NEW w \in Seq(Message), NEW q \in Seq(Message)
  PROVE  /\ Shortened(Joined(h, w, q), Joined(h, w, q))
         /\ Shortened(Joined(h, w, q), Joined(<<>>, w, q))
         /\ Shortened(Joined(h, w, q), Joined(<<>>, <<>>, q))
         /\ Shortened(Joined(h, w, q), Joined(h, w, <<>>))
BY Joins

\* Seen from outside nothing happened; or a stretch of some boxes is gone.
Unseen == UNCHANGED <<Waiting, handled>>
Forgotten == UNCHANGED handled /\ \A c \in Conns : Shortened(Waiting[c], Waiting'[c])

\* A box with its parts before and after a step.
LEMMA BoxParts ==
  ASSUME MailInv, PickupInv, MailInv', PickupInv', NEW c \in Conns
  PROVE  /\ Waiting[c] = Joined(InHand(c), OnItsWay(c), queue[c])
         /\ Waiting'[c] = Joined(InHand(c)', OnItsWay(c)', queue'[c])
         /\ InHand(c) \in Seq(Message) /\ OnItsWay(c) \in Seq(Message)
         /\ queue[c] \in Seq(Message)
BY HandIs, WayIs, WaitingIs DEF MailInv, TypeOK

\* What makes no difference: provisioning, routes, and asking for messages.
LEMMA UnseenSteps ==
  ASSUME MailInv, PickupInv, MailInv', PickupInv', UNCHANGED <<queue, handled>>,
         \/ \E e \in Edges : \/ Start(e) \/ SaveProvision(e) \/ BatchPickup(e)
                             \/ CreateConnection(e) \/ AcceptInvitation(e)
         \/ \E e \in Edges, r \in replies : Connected(e, r) \/ RouteCreated(e, r)
         \/ \E p \in posts : HandleConnect(p) \/ UpdateRoutes(p)
         \/ UNCHANGED <<agent, poll, replies>>
  PROVE  Unseen
<1> DEFINE Goal ==
      /\ \A e \in Edges : /\ poll'[e].batch = poll[e].batch
                          /\ poll[e].batch # <<>> => agent'[e].inbound = agent[e].inbound
                          /\ agent'[e].session = agent[e].session
      /\ \A r : r.to.kind = "pickup" => (r \in replies' <=> r \in replies)
<1>1. ASSUME NEW e \in Edges, Start(e) PROVE Goal
  <2>1. /\ UNCHANGED <<poll, replies>> /\ agent'[e].session = agent[e].session
        /\ \A d \in Edges : d # e => agent'[d] = agent[d]
    BY <1>1 DEF Start, Inbound, Process, MailInv, TypeOK
  <2>2. poll[e].batch = <<>>
    BY <1>1 DEF Start, PickupInv, AskPart
  <2> QED
    BY <2>1, <2>2
<1>2. ASSUME NEW e \in Edges, SaveProvision(e) PROVE Goal
  <2>1. /\ UNCHANGED <<poll, replies>>
        /\ \A d \in Edges : /\ agent'[d].session = agent[d].session
                            /\ agent'[d].inbound = agent[d].inbound
    BY <1>2 DEF SaveProvision, Process, MailInv, TypeOK
  <2> QED
    BY <2>1
<1>3. ASSUME NEW e \in Edges, BatchPickup(e) PROVE Goal
  <2>1. /\ UNCHANGED <<agent, replies>> /\ poll[e].pc = "idle" /\ poll'[e].batch = <<>>
        /\ \A d \in Edges : d # e => poll'[d] = poll[d]
    BY <1>3 DEF BatchPickup, NoBatch, MailInv, TypeOK
  <2> QED
    BY <2>1 DEF PickupInv, AskPart
<1>4. ASSUME NEW e \in Edges, CreateConnection(e) \/ AcceptInvitation(e) PROVE Goal
  BY <1>4 DEF CreateConnection, AcceptInvitation
<1>5. ASSUME NEW e \in Edges, NEW r \in replies, Connected(e, r) PROVE Goal
  <2>1. /\ UNCHANGED poll /\ agent'[e].session = agent[e].session
        /\ \A d \in Edges : d # e => agent'[d] = agent[d]
    BY <1>5 DEF Connected, Inbound, Process, MailInv, TypeOK
  <2>2. poll[e].batch = <<>>
    BY <1>5 DEF Connected, PickupInv, AskPart
  <2>3. \A q : q.to.kind = "pickup" => (q \in replies' <=> q \in replies)
    BY <1>5 DEF Connected, Gets
  <2> QED
    BY <2>1, <2>2, <2>3
<1>6. ASSUME NEW e \in Edges, NEW r \in replies, RouteCreated(e, r) PROVE Goal
  BY <1>6 DEF RouteCreated, Gets
<1>7. ASSUME NEW p \in posts, HandleConnect(p) \/ UpdateRoutes(p) PROVE Goal
  BY <1>7 DEF HandleConnect, UpdateRoutes, Answer
<1>8. ASSUME UNCHANGED <<agent, poll, replies>> PROVE Goal
  BY <1>8
<1>9. Goal
  BY <1>1, <1>2, <1>3, <1>4, <1>5, <1>6, <1>7, <1>8
<1> QED
  BY <1>9, BoxStays DEF Unseen

\* The queue moves on into the answer; it is gone if nobody waits for the answer any more.
LEMMA BatchMoves ==
  ASSUME MailInv, PickupInv, MailInv', PickupInv', NEW p \in posts, Batch(p)
  PROVE  /\ Current(p) => Unseen
         /\ ~Current(p) => Forgotten
<1> DEFINE b == p.conn
<1>1. PICK new : /\ new.to = p /\ new.batch = queue[p.conn]
                 /\ posts' = posts \ {p} /\ replies' = replies \cup {new}
  BY DEF Batch, Answer
<1>2. /\ UNCHANGED <<agent, poll, handled>> /\ p.kind = "pickup"
      /\ queue' = [queue EXCEPT ![b] = <<>>]
  BY DEF Batch
<1>3. Reaches(b, p.edge) /\ b \in Conns /\ p.edge \in Edges
  <2>1. Reaches(b, p.edge)
    BY <1>2 DEF MailInv, PostPart, GoodPost
  <2>2. p \in Post
    BY DEF MailInv, TypeOK
  <2>3. b # None
    BY <2>1 DEF Reaches, None
  <2> QED BY <2>1, <2>2, <2>3 DEF Post
<1>4. queue'[b] = <<>> /\ \A c \in Conns : c # b => queue'[c] = queue[c]
  BY <1>2, <1>3 DEF MailInv, TypeOK
<1>5. \A c \in Conns : InHand(c)' = InHand(c)
  BY <1>2, HandStays
<1>6. \A r, c : Brings(r, c)' <=> Brings(r, c) \/ (r = new /\ Current(p) /\ c = b)
  BY <1>1, <1>2 DEF Brings, Current
<1>7. \A c \in Conns : c # b \/ ~Current(p) => OnItsWay(c)' = OnItsWay(c)
  BY <1>6, WayStays
<1>8. \A c \in Conns : c # b => Waiting'[c] = Waiting[c]
  BY <1>4, <1>5, <1>7, BoxParts
<1>9. CASE Current(p)
  <2>1. \A r : ~Brings(r, b)
    <3> SUFFICES ASSUME NEW r, Brings(r, b) PROVE FALSE
      OBVIOUS
    <3>1. Reaches(b, r.to.edge)
      BY DEF Brings, Current, MailInv, ReplyPart, GoodPost
    <3> QED
      BY <1>3, <1>9, <3>1 DEF Brings, Reaches, PickupInv, AnsweredPart
  <2>2. OnItsWay(b) = <<>>
    BY <1>3, <2>1, WayIs
  <2>3. OnItsWay(b)' = queue[b]
    BY <1>1, <1>3, <1>6, <1>9, BoxThen
  <2>4. Waiting'[b] = Waiting[b]
    <3>1. /\ Waiting[b] = Joined(InHand(b), <<>>, queue[b])
          /\ Waiting'[b] = Joined(InHand(b), queue[b], <<>>)
          /\ InHand(b) \in Seq(Message) /\ queue[b] \in Seq(Message)
      BY <1>3, <1>4, <1>5, <2>2, <2>3, BoxParts
    <3> QED
      BY <3>1, Joins
  <2>5. Waiting' = Waiting
    BY <1>8, <2>4 DEF Waiting
  <2> QED
    BY <1>2, <1>9, <2>5 DEF Unseen
<1>10. CASE ~Current(p)
  <2>1. Waiting'[b] = Joined(InHand(b), OnItsWay(b), <<>>)
    BY <1>3, <1>4, <1>5, <1>7, <1>10, BoxParts
  <2>2. Shortened(Waiting[b], Waiting'[b])
    <3>1. /\ Waiting[b] = Joined(InHand(b), OnItsWay(b), queue[b])
          /\ InHand(b) \in Seq(Message) /\ OnItsWay(b) \in Seq(Message)
          /\ queue[b] \in Seq(Message)
      BY <1>3, BoxParts
    <3>2. Shortened(Joined(InHand(b), OnItsWay(b), queue[b]), Joined(InHand(b), OnItsWay(b), <<>>))
      BY <3>1, Joins
    <3> QED
      BY <2>1, <3>1, <3>2
  <2>3. \A c \in Conns : Shortened(Waiting[c], Waiting[c])
    BY BoxParts, Joins
  <2> QED
    BY <1>2, <1>8, <1>10, <2>2, <2>3 DEF Forgotten
<1> QED
  BY <1>9, <1>10

\* The answer becomes the batch in hand.
LEMMA DownloadMoves ==
  ASSUME MailInv, PickupInv, MailInv', PickupInv',
         NEW e \in Edges, NEW r \in replies, Downloaded(e, r)
  PROVE  Unseen
<1>0. PICK b : b = agent[e].inbound
  OBVIOUS
<1>1. /\ UNCHANGED <<agent, queue, handled>> /\ replies' = replies \ {r}
      /\ Current(r.to) /\ r.to.edge = e
  BY DEF Downloaded, Gets, mediator, Current
<1>2. poll'[e].batch = r.batch /\ \A d \in Edges : d # e => poll'[d] = poll[d]
  BY DEF Downloaded, Rest, MailInv, TypeOK
<1>3. r.to.conn = b /\ Brings(r, b) /\ b \in Conns /\ Reaches(b, e)
  <2>1. r.to.conn = b
    BY <1>0, <1>1 DEF PickupInv, AnsweredPart, Waits
  <2>2. Reaches(b, e)
    BY <1>1, <2>1 DEF Current, MailInv, ReplyPart, GoodPost
  <2> QED
    BY <1>1, <2>1, <2>2, BoundsAssumption DEF Brings, Reaches, MailInv, TypeOK, Conns
<1>4. OnItsWay(b) = r.batch /\ InHand(b) = <<>>
  BY <1>3, WayIs
<1>5. InHand(b)' = r.batch
  BY <1>0, <1>1, <1>2, <1>3, BoxThen
<1>6. OnItsWay(b)' = <<>>
  <2>1. \A q : Brings(q, b) => q = r
    <3> SUFFICES ASSUME NEW q, Brings(q, b) PROVE q = r
      OBVIOUS
    <3>1. Reaches(b, q.to.edge)
      BY DEF Brings, Current, MailInv, ReplyPart, GoodPost
    <3> QED
      BY <1>1, <1>3, <3>1 DEF Brings, Reaches, PickupInv, AnsweredPart
  <2>2. \A q : ~Brings(q, b)'
    BY <1>1, <2>1 DEF Brings, Current
  <2> QED
    BY <1>3, <2>2, BoxThen
<1>7. Waiting'[b] = Waiting[b]
  <2>1. /\ Waiting[b] = Joined(<<>>, r.batch, queue[b])
        /\ Waiting'[b] = Joined(r.batch, <<>>, queue[b])
        /\ r.batch \in Seq(Message) /\ queue[b] \in Seq(Message) /\ <<>> \in Seq(Message)
    BY <1>1, <1>3, <1>4, <1>5, <1>6, BoxParts
  <2>2. Joined(<<>>, r.batch, queue[b]) = Joined(r.batch, <<>>, queue[b])
    BY <2>1, MovedOn, Zenon
  <2> QED
    BY <2>1, <2>2
<1>8. ASSUME NEW c \in Conns, c # b PROVE Waiting'[c] = Waiting[c]
  <2>1. InHand(c)' = InHand(c)
    BY <1>0, <1>1, <1>2, <1>8, HandStays
  <2>2. \A q : Brings(q, c)' <=> Brings(q, c)
    BY <1>1, <1>3, <1>8 DEF Brings, Current
  <2>3. OnItsWay(c)' = OnItsWay(c)
    BY <2>2, WayStays
  <2> QED
    BY <1>1, <2>1, <2>3, BoxParts
<1> QED
  BY <1>1, <1>7, <1>8 DEF Waiting, Unseen

\* The first message of the box is collected.
LEMMA ReceiveCollects ==
  ASSUME MailInv, PickupInv, MailInv', PickupInv', NEW e \in Edges, ReceiveMessage(e)
  PROVE  agent[e].inbound \in Conns /\ SureMailbox!Collect(agent[e].inbound)
<1>1. PICK b, h : b = agent[e].inbound /\ h = poll[e].batch
  OBVIOUS
<1>2. /\ UNCHANGED <<agent, queue, replies>> /\ poll[e].pc = "handling"
      /\ handled' = [handled EXCEPT ![b] = Append(@, Head(h))]
  BY <1>1 DEF ReceiveMessage, mediator
<1>3. h # <<>> /\ h \in Seq(Message) /\ Tail(h) \in Seq(Message)
  BY <1>1, <1>2 DEF MailInv, PollPart, TypeOK
<1>4. poll'[e].batch = Tail(h) /\ \A d \in Edges : d # e => poll'[d] = poll[d]
  <2>1. poll' = [poll EXCEPT ![e] = Rest(Tail(h))]
    BY <1>1 DEF ReceiveMessage
  <2> QED
    BY <2>1 DEF Rest, MailInv, TypeOK
<1>5. b \in Conns /\ Reaches(b, e)
  <2>1. agent[e].pc = "ready"
    BY <1>2 DEF PickupInv, AskPart
  <2> QED
    BY <1>1, <2>1, BoundsAssumption DEF MailInv, AgentPart, Reaches, TypeOK, Conns
<1>6. InHand(b) = h /\ InHand(b)' = Tail(h)
  BY <1>1, <1>2, <1>4, <1>5, HandIs, BoxThen
<1>7. ASSUME NEW c \in Conns PROVE OnItsWay(c)' = OnItsWay(c)
  <2>1. \A q : Brings(q, c)' <=> Brings(q, c)
    BY <1>2 DEF Brings, Current
  <2> QED
    BY <2>1, WayStays
<1>8. ASSUME NEW c \in Conns, c # b PROVE Waiting'[c] = Waiting[c]
  <2>1. InHand(c)' = InHand(c)
    BY <1>1, <1>2, <1>4, <1>8, HandStays
  <2> QED
    BY <1>2, <1>7, <2>1, BoxParts
<1>9. Waiting[b] # <<>> /\ Head(Waiting[b]) = Head(h) /\ Waiting'[b] = Tail(Waiting[b])
  <2>1. PICK w, q : w = OnItsWay(b) /\ q = queue[b]
    OBVIOUS
  <2>2. /\ Waiting[b] = Joined(h, w, q) /\ Waiting'[b] = Joined(Tail(h), w, q)
        /\ w \in Seq(Message) /\ q \in Seq(Message)
    BY <1>2, <1>5, <1>6, <1>7, <2>1, BoxParts
  <2> QED
    BY <1>3, <2>2, Joins
<1>10. Waiting' = [Waiting EXCEPT ![b] = Tail(@)]
  BY <1>8, <1>9 DEF Waiting
<1> QED
  BY <1>1, <1>2, <1>5, <1>9, <1>10 DEF SureMailbox!Collect

\* A message is put in at the end of the queue, which is the end of the box.
LEMMA StoreAppends ==
  ASSUME MailInv, PickupInv, MailInv', PickupInv', NEW f \in packing, StoreForwarded(f)
  PROVE  /\ f.conn \in Conns /\ f.message \in Message
         /\ Waiting' = [Waiting EXCEPT ![f.conn] = Append(@, f.message)]
         /\ UNCHANGED handled
<1>1. PICK b, m : b = f.conn /\ m = f.message
  OBVIOUS
<1>2. /\ UNCHANGED <<agent, poll, replies, handled>> /\ b \in Conns /\ m \in Message
      /\ queue' = [queue EXCEPT ![b] = Append(@, m)]
  BY <1>1 DEF StoreForwarded, MailInv, TypeOK
<1>3. queue'[b] = Append(queue[b], m) /\ \A c \in Conns : c # b => queue'[c] = queue[c]
  BY <1>2 DEF MailInv, TypeOK
<1>4. ASSUME NEW c \in Conns PROVE InHand(c)' = InHand(c) /\ OnItsWay(c)' = OnItsWay(c)
  <2>1. \A q : Brings(q, c)' <=> Brings(q, c)
    BY <1>2 DEF Brings, Current
  <2> QED
    BY <1>2, <2>1, HandStays, WayStays
<1>5. \A c \in Conns : c # b => Waiting'[c] = Waiting[c]
  BY <1>3, <1>4, BoxParts
<1>6. Waiting'[b] = Append(Waiting[b], m)
  <2>1. PICK h, w, q : h = InHand(b) /\ w = OnItsWay(b) /\ q = queue[b]
    OBVIOUS
  <2>2. /\ Waiting[b] = Joined(h, w, q) /\ Waiting'[b] = Joined(h, w, Append(q, m))
        /\ h \in Seq(Message) /\ w \in Seq(Message) /\ q \in Seq(Message)
    BY <1>2, <1>3, <1>4, <2>1, BoxParts
  <2> QED
    BY <1>2, <2>2, Joins
<1>7. Waiting' = [Waiting EXCEPT ![b] = Append(@, m)]
  BY <1>5, <1>6 DEF Waiting
<1> QED
  BY <1>1, <1>2, <1>7

\* What was on its way to a process that is gone, or to a loop that ended, is forgotten.
LEMMA HandForgotten ==
  ASSUME MailInv, PickupInv, MailInv', PickupInv', NEW e \in Edges,
         Stop(e) \/ Crash(e) \/ ReceiveMessageThrows(e)
  PROVE  /\ Stop(e) => Unseen
         /\ Forgotten
<1>1. /\ UNCHANGED <<queue, replies, handled>> /\ poll'[e].batch = <<>>
      /\ \A d \in Edges : d # e => poll'[d] = poll[d] /\ agent'[d] = agent[d]
      /\ UNCHANGED agent \/ agent'[e].session = agent[e].session + 1
      /\ Stop(e) => poll[e].batch = <<>> /\ \A r \in replies : r.to.edge # e
      /\ agent'[e].inbound # None => agent'[e].inbound = agent[e].inbound
  <2>1. CASE Stop(e) \/ Crash(e)
    <3>1. /\ UNCHANGED <<queue, replies, handled>> /\ poll'[e].batch = <<>>
          /\ \A d \in Edges : d # e => poll'[d] = poll[d] /\ agent'[d] = agent[d]
          /\ agent'[e].session = agent[e].session + 1 /\ agent'[e].inbound = None
      BY <2>1 DEF Stop, Crash, Restart, Off, Process, NoBatch, mediator, MailInv, TypeOK
    <3>2. Stop(e) => poll[e].batch = <<>> /\ \A r \in replies : r.to.edge # e
      BY DEF Stop, PickupInv, AskPart
    <3> QED
      BY <3>1, <3>2
  <2>2. CASE ReceiveMessageThrows(e)
    <3>1. /\ UNCHANGED <<agent, queue, replies, handled>> /\ poll'[e].batch = <<>>
          /\ \A d \in Edges : d # e => poll'[d] = poll[d]
      BY <2>2 DEF ReceiveMessageThrows, NoBatch, mediator, MailInv, TypeOK
    <3>2. ~Stop(e)
      BY <2>2 DEF Stop, ReceiveMessageThrows
    <3> QED
      BY <3>1, <3>2
  <2> QED
    BY <2>1, <2>2
<1>2. \A r \in replies : r.to.edge \in Edges /\ agent[r.to.edge].session \in Int
  <2> SUFFICES ASSUME NEW r \in replies
               PROVE  r.to.edge \in Edges /\ agent[r.to.edge].session \in Int
    OBVIOUS
  <2>1. r.to \in Post
    BY DEF MailInv, TypeOK, Reply
  <2>2. r.to.edge \in Edges
    BY <2>1 DEF Post
  <2>3. agent[r.to.edge] \in Processes
    BY <2>2 DEF MailInv, TypeOK
  <2>4. agent[r.to.edge].session \in Int
    BY <2>3, BoundsAssumption DEF Processes, Sessions
  <2> QED
    BY <2>2, <2>4
<1>3. ASSUME NEW r, NEW c \in Conns, Brings(r, c)' PROVE Brings(r, c)
  BY <1>1, <1>2, <1>3 DEF Brings, Current, PickupInv, AnsweredPart
<1>4. ASSUME NEW r, NEW c \in Conns, Brings(r, c), r.to.edge # e PROVE Brings(r, c)'
  BY <1>1, <1>2, <1>4 DEF Brings, Current
<1>5. ASSUME NEW c \in Conns, poll[e].batch = <<>> \/ agent[e].inbound # c
      PROVE  InHand(c)' = InHand(c)
  <2>1. c # None
    BY DEF Conns, None
  <2> QED
    BY <1>1, <1>5, <2>1, HandStays
<1>6. Stop(e) => Unseen
  <2> SUFFICES ASSUME Stop(e) PROVE Unseen
    OBVIOUS
  <2>1. ASSUME NEW c \in Conns PROVE Waiting'[c] = Waiting[c]
    <3>1. \A r : Brings(r, c)' <=> Brings(r, c)
      BY <1>1, <1>3, <1>4 DEF Brings
    <3>2. OnItsWay(c)' = OnItsWay(c)
      BY <3>1, WayStays
    <3> QED
      BY <1>1, <1>5, <3>2, BoxParts
  <2> QED
    BY <1>1, <2>1 DEF Unseen, Waiting
<1>7. ASSUME NEW c \in Conns PROVE Shortened(Waiting[c], Waiting'[c])
  <2>1. PICK h, w, q : h = InHand(c) /\ w = OnItsWay(c) /\ q = queue[c]
    OBVIOUS
  <2>2. /\ Waiting[c] = Joined(h, w, q) /\ Waiting'[c] = Joined(InHand(c)', OnItsWay(c)', q)
        /\ h \in Seq(Message) /\ w \in Seq(Message) /\ q \in Seq(Message)
    BY <1>1, <2>1, BoxParts
  <2>3. InHand(c)' = h \/ InHand(c)' = <<>>
    <3>1. CASE agent[e].inbound = c
      <4>1. \A d \in Edges : agent[d].inbound = c => d = e
        BY <3>1 DEF MailInv, AgentPart, Reaches, Conns, None
      <4>2. \A d \in Edges : agent'[d].inbound = c => poll'[d].batch = <<>>
        BY <1>1, <4>1 DEF Conns, None
      <4> QED
        BY <4>2, BoxThen
    <3>2. CASE agent[e].inbound # c
      BY <1>5, <2>1, <3>2
    <3> QED
      BY <3>1, <3>2
  <2>4. OnItsWay(c)' = w \/ OnItsWay(c)' = <<>>
    <3>1. CASE \E r : Brings(r, c)'
      BY <1>3, <2>1, <3>1, WayIs, BoxThen
    <3>2. CASE ~\E r : Brings(r, c)'
      BY <3>2, BoxThen
    <3> QED
      BY <3>1, <3>2
  <2>5. w # <<>> => h = <<>>
    BY <2>1, WayIs
  <2>6. \/ Joined(InHand(c)', OnItsWay(c)', q) = Joined(h, w, q)
        \/ Joined(InHand(c)', OnItsWay(c)', q) = Joined(<<>>, w, q)
        \/ Joined(InHand(c)', OnItsWay(c)', q) = Joined(<<>>, <<>>, q)
    BY <2>3, <2>4, <2>5
  <2> QED
    BY <2>2, <2>6, CutOff, Zenon
<1> QED
  BY <1>1, <1>6, <1>7 DEF Forgotten

\* A lost answer takes what was on its way with it; then nothing is in hand.
LEMMA ReplyForgotten ==
  ASSUME MailInv, PickupInv, MailInv', PickupInv', NEW r \in replies, LoseReply(r)
  PROVE  Forgotten
<1>1. UNCHANGED <<agent, poll, queue, handled>> /\ replies' = replies \ {r}
  BY DEF LoseReply, mediator
<1>2. ASSUME NEW c \in Conns PROVE Shortened(Waiting[c], Waiting'[c])
  <2>1. PICK h, w, q : h = InHand(c) /\ w = OnItsWay(c) /\ q = queue[c]
    OBVIOUS
  <2>2. InHand(c)' = h
    BY <1>1, <2>1, HandStays
  <2>3. /\ Waiting[c] = Joined(h, w, q) /\ Waiting'[c] = Joined(h, OnItsWay(c)', q)
        /\ h \in Seq(Message) /\ w \in Seq(Message) /\ q \in Seq(Message)
    BY <1>1, <2>1, <2>2, BoxParts
  <2>4. OnItsWay(c)' = w \/ OnItsWay(c)' = <<>>
    <3>1. \A s : Brings(s, c)' => Brings(s, c)
      BY <1>1 DEF Brings, Current
    <3>2. CASE \E s : Brings(s, c)'
      BY <2>1, <3>1, <3>2, WayIs, BoxThen
    <3>3. CASE ~\E s : Brings(s, c)'
      BY <3>3, BoxThen
    <3> QED
      BY <3>2, <3>3
  <2>5. w # <<>> => h = <<>>
    BY <2>1, WayIs
  <2>6. \/ Joined(h, OnItsWay(c)', q) = Joined(h, w, q)
        \/ Joined(h, OnItsWay(c)', q) = Joined(<<>>, <<>>, q)
    BY <2>4, <2>5
  <2> QED
    BY <2>3, <2>6, CutOff, Zenon
<1> QED
  BY <1>1, <1>2 DEF Forgotten

\* A mediator that restarts forgets its queues.
LEMMA QueueForgotten ==
  ASSUME MailInv, PickupInv, MailInv', PickupInv', MediatorRestart
  PROVE  Forgotten
<1>1. UNCHANGED <<agent, poll, replies, handled>> /\ \A c \in Conns : queue'[c] = <<>>
  BY DEF MediatorRestart
<1>2. ASSUME NEW c \in Conns PROVE Shortened(Waiting[c], Waiting'[c])
  <2>1. PICK h, w, q : h = InHand(c) /\ w = OnItsWay(c) /\ q = queue[c]
    OBVIOUS
  <2>2. \A r : Brings(r, c)' <=> Brings(r, c)
    BY <1>1 DEF Brings, Current
  <2>3. /\ Waiting[c] = Joined(h, w, q) /\ Waiting'[c] = Joined(h, w, <<>>)
        /\ h \in Seq(Message) /\ w \in Seq(Message) /\ q \in Seq(Message)
    BY <1>1, <2>1, <2>2, HandStays, WayStays, BoxParts
  <2> QED
    BY <2>3, CutOff, Zenon
<1> QED
  BY <1>1, <1>2 DEF Forgotten

\* Every step, seen from outside.
LEMMA BoxStep ==
  ASSUME MailInv, PickupInv, [Next]_vars
  PROVE  \/ Unseen
         \/ \E c \in Conns : SureMailbox!Collect(c)
         \/ \E f \in packing :
              /\ StoreForwarded(f) /\ f.conn \in Conns /\ f.message \in Message
              /\ Waiting' = [Waiting EXCEPT ![f.conn] = Append(@, f.message)]
              /\ UNCHANGED handled
         \/ /\ Forgotten
            /\ \/ ~(Faults \subseteq {"stop"})
               \/ \E p \in posts : p.kind = "pickup" /\ ~Current(p)
<1> DEFINE Goal ==
      \/ Unseen
      \/ \E c \in Conns : SureMailbox!Collect(c)
      \/ \E f \in packing :
           /\ StoreForwarded(f) /\ f.conn \in Conns /\ f.message \in Message
           /\ Waiting' = [Waiting EXCEPT ![f.conn] = Append(@, f.message)]
           /\ UNCHANGED handled
      \/ /\ Forgotten
         /\ \/ ~(Faults \subseteq {"stop"})
            \/ \E p \in posts : p.kind = "pickup" /\ ~Current(p)
<1>i. MailInv' /\ PickupInv'
  BY MailStep, PickupStep
<1>1. ASSUME NEW p \in posts, Batch(p) PROVE Goal
  <2>1. p.kind = "pickup"
    BY <1>1 DEF Batch
  <2> QED
    BY <1>1, <1>i, <2>1, BatchMoves
<1>2. ASSUME NEW e \in Edges, NEW r \in replies, Downloaded(e, r) PROVE Goal
  BY <1>2, <1>i, DownloadMoves
<1>3. ASSUME NEW e \in Edges, ReceiveMessage(e) PROVE Goal
  BY <1>3, <1>i, ReceiveCollects
<1>4. ASSUME NEW f \in packing, StoreForwarded(f) PROVE Goal
  BY <1>4, <1>i, StoreAppends
<1>5. ASSUME NEW e \in Edges, Stop(e) \/ Crash(e) \/ ReceiveMessageThrows(e) PROVE Goal
  <2>1. Stop(e) \/ ~(Faults \subseteq {"stop"})
    BY <1>5 DEF Crash, ReceiveMessageThrows
  <2> QED
    BY <1>5, <1>i, <2>1, HandForgotten
<1>6. ASSUME NEW r \in replies, LoseReply(r) PROVE Goal
  <2>1. ~(Faults \subseteq {"stop"})
    BY <1>6 DEF LoseReply
  <2> QED
    BY <1>6, <1>i, <2>1, ReplyForgotten
<1>7. ASSUME MediatorRestart PROVE Goal
  <2>1. ~(Faults \subseteq {"stop"})
    BY <1>7 DEF MediatorRestart
  <2> QED
    BY <1>7, <1>i, <2>1, QueueForgotten
<1>8. ASSUME UNCHANGED <<queue, handled>>,
             \/ \E e \in Edges : \/ Start(e) \/ SaveProvision(e) \/ BatchPickup(e)
                                 \/ CreateConnection(e) \/ AcceptInvitation(e)
             \/ \E e \in Edges, r \in replies : Connected(e, r) \/ RouteCreated(e, r)
             \/ \E p \in posts : HandleConnect(p) \/ UpdateRoutes(p)
             \/ UNCHANGED <<agent, poll, replies>>
      PROVE  Goal
  BY <1>8, <1>i, UnseenSteps
<1>9. ASSUME NEW e \in Edges, \/ Start(e) \/ SaveProvision(e) \/ BatchPickup(e)
                              \/ CreateConnection(e) \/ AcceptInvitation(e)
      PROVE  UNCHANGED <<queue, handled>>
  BY <1>9 DEF Start, SaveProvision, BatchPickup, CreateConnection, AcceptInvitation, mediator
<1>10. ASSUME NEW e \in Edges, NEW r \in replies, Connected(e, r) \/ RouteCreated(e, r)
       PROVE  UNCHANGED <<queue, handled>>
  BY <1>10 DEF Connected, RouteCreated, mediator
<1>11. ASSUME NEW p \in posts, HandleConnect(p) \/ UpdateRoutes(p)
       PROVE  UNCHANGED <<queue, handled>>
  BY <1>11 DEF HandleConnect, UpdateRoutes
<1>12. ASSUME \/ UNCHANGED vars
              \/ \E m \in mail : Forward(m) \/ LoseMail(m)
              \/ \E k \in disclosed : SendMessage(k)
              \/ \E p \in posts : LosePost(p)
       PROVE  UNCHANGED <<queue, handled, agent, poll, replies>>
  BY <1>12 DEF vars, Forward, LoseMail, SendMessage, LosePost, mediator
<1> QED
  BY <1>1, <1>2, <1>3, <1>4, <1>5, <1>6, <1>7, <1>8, <1>9, <1>10, <1>11, <1>12
  DEF Next, Mediate, Proceed, Fail

-----------------------------------------------------------------------------
(* Each message is in one place, so it is put into a box once                *)

\* The message was put into a box and has not been forgotten.
Within(m, seq) == \E i \in DOMAIN seq : seq[i] = m
Seen(m) == \E c \in Conns : Within(m, Waiting[c]) \/ Within(m, handled[c])

PlaceInv ==
  /\ \A m \in mail : /\ m.id <= sent /\ ~Seen(m)
                     /\ \A f \in packing : f.message # m
  /\ \A f \in packing : f.message.id <= sent /\ ~Seen(f.message)
  /\ \A f, g \in packing : f.message = g.message => f = g
  /\ \A m : Seen(m) => m.id \in 1..sent

\* A rest holds no message that the whole did not; an end holds one more.
LEMMA WithinRest ==
  /\ \A s, t, m : Shortened(s, t) /\ Within(m, t) => Within(m, s)
  /\ \A m : \A s \in Seq(Message), n \in Message :
       Within(m, Append(s, n)) => Within(m, s) \/ m = n
  /\ \A m : \A s \in Seq(Message) :
       s # <<>> => (Within(m, Tail(s)) => Within(m, s)) /\ Within(Head(s), s)
<1>1. ASSUME NEW s, NEW t, NEW m, Shortened(s, t), Within(m, t) PROVE Within(m, s)
  <2>1. PICK u \in Seq(Message), v \in Seq(Message) : s = u \o v /\ (t = u \/ t = v)
    BY <1>1 DEF Shortened
  <2>2. /\ DOMAIN s = 1..Len(u) + Len(v) /\ Len(u) \in Nat /\ Len(v) \in Nat
        /\ DOMAIN u = 1..Len(u) /\ DOMAIN v = 1..Len(v)
        /\ \A i \in 1..Len(u) : s[i] = u[i]
        /\ \A i \in 1..Len(v) : s[Len(u) + i] = v[i]
    BY <2>1
  <2>3. PICK i \in DOMAIN t : t[i] = m
    BY <1>1 DEF Within
  <2>4. CASE t = u
    <3>1. i \in DOMAIN s /\ s[i] = m
      BY <2>2, <2>3, <2>4
    <3> QED
      BY <3>1 DEF Within
  <2>5. CASE t = v
    <3>1. Len(u) + i \in DOMAIN s /\ s[Len(u) + i] = m
      BY <2>2, <2>3, <2>5
    <3> QED
      BY <3>1 DEF Within
  <2> QED
    BY <2>1, <2>4, <2>5
<1>2. ASSUME NEW s \in Seq(Message), NEW n \in Message, NEW m, Within(m, Append(s, n))
      PROVE  Within(m, s) \/ m = n
  <2>1. PICK i \in 1..Len(s) + 1 : Append(s, n)[i] = m
    BY <1>2 DEF Within
  <2> QED
    BY <2>1 DEF Within
<1>3. ASSUME NEW s \in Seq(Message), NEW m, s # <<>>
      PROVE  (Within(m, Tail(s)) => Within(m, s)) /\ Within(Head(s), s)
  <2>1. /\ Len(s) \in Nat \ {0} /\ DOMAIN s = 1..Len(s) /\ DOMAIN Tail(s) = 1..Len(s) - 1
        /\ Head(s) = s[1] /\ \A i \in 1..Len(s) - 1 : Tail(s)[i] = s[i + 1]
    BY <1>3
  <2>2. Within(Head(s), s)
    BY <2>1 DEF Within
  <2>3. ASSUME Within(m, Tail(s)) PROVE Within(m, s)
    <3>1. PICK i \in 1..Len(s) - 1 : Tail(s)[i] = m
      BY <2>1, <2>3 DEF Within
    <3>2. i + 1 \in DOMAIN s /\ s[i + 1] = m
      BY <2>1, <3>1
    <3> QED
      BY <3>2 DEF Within
  <2> QED
    BY <2>2, <2>3
<1> QED
  BY <1>1, <1>2, <1>3

\* A step shows no message but the one it puts into a box.
LEMMA SeenStep ==
  ASSUME MailInv, PickupInv, [Next]_vars, NEW m, Seen(m)'
  PROVE  Seen(m) \/ \E f \in packing : StoreForwarded(f) /\ m = f.message
<1>1. PICK c \in Conns : Within(m, Waiting'[c]) \/ Within(m, handled'[c])
  BY DEF Seen, Within
<1>2. /\ Waiting[c] \in Seq(Message) /\ handled[c] \in Seq(Message)
      /\ DOMAIN Waiting = Conns /\ DOMAIN handled = Conns
  BY BoxParts, HandIs, WayIs, WaitingIs, Joins DEF MailInv, TypeOK
<1>3. CASE Unseen
  BY <1>1, <1>3 DEF Unseen, Seen
<1>4. CASE Forgotten
  BY <1>1, <1>4, WithinRest DEF Forgotten, Seen
<1>5. ASSUME NEW b \in Conns, SureMailbox!Collect(b) PROVE Seen(m)
  <2>1. /\ Waiting[b] # <<>>
        /\ handled' = [handled EXCEPT ![b] = Append(@, Head(Waiting[b]))]
        /\ Waiting' = [Waiting EXCEPT ![b] = Tail(@)]
    BY <1>5 DEF SureMailbox!Collect
  <2>2. CASE c # b
    BY <1>1, <1>2, <2>1, <2>2 DEF Seen
  <2>3. CASE c = b
    <3>1. Waiting'[c] = Tail(Waiting[c]) /\ handled'[c] = Append(handled[c], Head(Waiting[c]))
      BY <1>2, <2>1, <2>3
    <3>2. Head(Waiting[c]) \in Message
      BY <1>2, <2>1, <2>3
    <3>3. Within(m, Waiting[c]) \/ Within(m, handled[c])
      BY <1>1, <1>2, <2>1, <2>3, <3>1, <3>2, WithinRest
    <3> QED
      BY <3>3 DEF Seen
  <2> QED
    BY <2>2, <2>3
<1>6. ASSUME NEW f \in packing, StoreForwarded(f), f.conn \in Conns, f.message \in Message,
             Waiting' = [Waiting EXCEPT ![f.conn] = Append(@, f.message)], UNCHANGED handled
      PROVE  Seen(m) \/ m = f.message
  <2>1. CASE Within(m, handled[c])
    BY <2>1 DEF Seen
  <2>2. CASE Within(m, Waiting'[c])
    <3>1. Waiting'[c] = Waiting[c] \/ Waiting'[c] = Append(Waiting[c], f.message)
      BY <1>2, <1>6
    <3>2. Within(m, Waiting[c]) \/ m = f.message
      BY <1>2, <1>6, <2>2, <3>1, WithinRest
    <3> QED
      BY <3>2 DEF Seen
  <2> QED
    BY <1>1, <1>6, <2>1, <2>2
<1> QED
  BY <1>3, <1>4, <1>5, <1>6, BoxStep

\* At the start there are no messages and nothing waits.
LEMMA InitBoxes == Init => PlaceInv /\ Waiting = [c \in Conns |-> <<>>]
<1> SUFFICES ASSUME Init PROVE PlaceInv /\ Waiting = [c \in Conns |-> <<>>]
  OBVIOUS
<1>1. MailInv /\ PickupInv
  BY InitMail, InitPickup
<1>2. ASSUME NEW c \in Conns PROVE Waiting[c] = <<>>
  <2>1. \A r : ~Brings(r, c)
    BY DEF Init, Brings
  <2>2. \A e \in Edges : poll[e].batch = <<>>
    BY DEF Init, NoBatch
  <2>3. Waiting[c] = Joined(<<>>, <<>>, <<>>)
    BY <1>1, <2>1, <2>2, HandIs, WayIs, WaitingIs DEF Init
  <2> QED
    BY <2>3, ConcatEmptySeq DEF Joined
<1>3. \A m : ~Seen(m)
  BY <1>2 DEF Seen, Within, Init
<1> QED
  BY <1>2, <1>3 DEF Init, PlaceInv, Waiting

\* Sending makes a new message; forwarding and storing take it away where it was.
LEMMA PlaceStep == MailInv /\ PickupInv /\ PlaceInv /\ [Next]_vars => PlaceInv'
<1> SUFFICES ASSUME MailInv, PickupInv, PlaceInv, [Next]_vars PROVE PlaceInv'
  OBVIOUS
<1>t. /\ sent \in Nat /\ \A m \in mail : m \in Message /\ m.id \in Nat
      /\ \A f \in packing : f.message \in Message /\ f.message.id \in Nat
  BY BoundsAssumption DEF MailInv, TypeOK, Message
<1>1. ASSUME NEW f \in packing, StoreForwarded(f) PROVE PlaceInv'
  <2>1. packing' = packing \ {f} /\ UNCHANGED <<mail, sent>>
    BY <1>1 DEF StoreForwarded, peers
  <2>2. \A m : Seen(m)' => Seen(m) \/ m = f.message
    <3> SUFFICES ASSUME NEW m, Seen(m)' PROVE Seen(m) \/ m = f.message
      OBVIOUS
    <3>1. CASE \E g \in packing : StoreForwarded(g) /\ m = g.message
      <4>1. PICK g \in packing : packing' = packing \ {g} /\ m = g.message
        BY <3>1 DEF StoreForwarded
      <4> QED
        BY <2>1, <4>1
    <3> QED
      BY <3>1, SeenStep
  <2>3. f.message.id \in 1..sent
    BY <1>t DEF PlaceInv, Message
  <2>4. \A n \in mail' : n.id <= sent /\ ~Seen(n)' /\ \A g \in packing' : g.message # n
    BY <2>1, <2>2 DEF PlaceInv
  <2>5. \A g \in packing' : g.message.id <= sent /\ ~Seen(g.message)'
    BY <2>1, <2>2 DEF PlaceInv
  <2>6. \A n : Seen(n)' => n.id \in 1..sent
    BY <2>2, <2>3 DEF PlaceInv
  <2> QED
    BY <2>1, <2>4, <2>5, <2>6 DEF PlaceInv
<1>2. ASSUME ~\E f \in packing : StoreForwarded(f) PROVE \A m : Seen(m)' => Seen(m)
  BY <1>2, SeenStep
<1>3. ASSUME ~\E f \in packing : StoreForwarded(f), NEW k \in disclosed, SendMessage(k)
      PROVE  PlaceInv'
  <2>1. PICK m : /\ m.id = sent + 1
                 /\ mail' = mail \cup {m} /\ sent' = sent + 1 /\ packing' = packing
    BY <1>3 DEF SendMessage, mediator
  <2>2. \A n : Seen(n)' => Seen(n) /\ n.id \in 1..sent
    BY <1>2, <1>3 DEF PlaceInv
  <2>3. ~Seen(m)' /\ \A f \in packing : f.message # m
    BY <1>t, <2>1, <2>2 DEF PlaceInv
  <2>4. \A n : Seen(n)' => n.id \in 1..sent + 1
    BY <1>t, <2>2
  <2> QED
    BY <1>t, <2>1, <2>2, <2>3, <2>4 DEF PlaceInv
<1>4. ASSUME ~\E f \in packing : StoreForwarded(f), NEW m \in mail, Forward(m)
      PROVE  PlaceInv'
  <2>0. PICK g : g = [message |-> m, conn |-> routes[m.to]]
    OBVIOUS
  <2>1. /\ g.message = m /\ mail' = mail \ {m} /\ sent' = sent
        /\ packing' = packing \/ packing' = packing \cup {g}
    BY <1>4, <2>0 DEF Forward
  <2>2. m.id <= sent /\ ~Seen(m)' /\ \A f \in packing : f.message # m
    BY <1>2, <1>4 DEF PlaceInv
  <2>3. \A n \in mail' : n.id <= sent /\ ~Seen(n)' /\ \A f \in packing' : f.message # n
    BY <1>2, <1>4, <2>1 DEF PlaceInv
  <2>4. \A f \in packing' : f.message.id <= sent /\ ~Seen(f.message)'
    BY <1>2, <1>4, <2>1, <2>2 DEF PlaceInv
  <2>5. \A f, h \in packing' : f.message = h.message => f = h
    BY <2>1, <2>2 DEF PlaceInv
  <2>6. \A n : Seen(n)' => n.id \in 1..sent
    BY <1>2, <1>4 DEF PlaceInv
  <2> QED
    BY <2>1, <2>3, <2>4, <2>5, <2>6 DEF PlaceInv
<1>5. ASSUME ~\E f \in packing : StoreForwarded(f),
             mail' \subseteq mail, packing' \subseteq packing, UNCHANGED sent
      PROVE  PlaceInv'
  BY <1>2, <1>5 DEF PlaceInv
<1>6. \/ \E f \in packing : StoreForwarded(f)
      \/ \E k \in disclosed : SendMessage(k)
      \/ \E m \in mail : Forward(m)
      \/ mail' \subseteq mail /\ packing' \subseteq packing /\ UNCHANGED sent
  BY DEF Next, Mediate, Proceed, Fail, vars, mediator, peers, Start, HandleConnect,
         SaveProvision, BatchPickup, ReceiveMessage, Connected, RouteCreated, Downloaded,
         UpdateRoutes, Batch, CreateConnection, AcceptInvitation, Stop, Crash, Restart,
         ReceiveMessageThrows, LosePost, LoseReply, LoseMail, MediatorRestart
<1> QED
  BY <1>1, <1>3, <1>4, <1>5, <1>6

\* Together: where every message and every answer is.
BoxInv == MailInv /\ PickupInv /\ PlaceInv

\* It holds in every reachable state, under every fault.
THEOREM BoxInvariant == Spec => []BoxInv
<1>1. Init => BoxInv
  BY InitMail, InitPickup, InitBoxes DEF BoxInv
<1>2. BoxInv /\ [Next]_vars => BoxInv'
  BY MailStep, PickupStep, PlaceStep DEF BoxInv
<1> QED
  BY <1>1, <1>2, PTL DEF Spec

\* What is put into a box was in none before.
LEMMA PutIsDeposit ==
  ASSUME BoxInv, NEW f \in packing, f.conn \in Conns, f.message \in Message,
         Waiting' = [Waiting EXCEPT ![f.conn] = Append(@, f.message)], UNCHANGED handled
  PROVE  SureMailbox!Deposit(f.conn, f.message) /\ LossyMailbox!Deposit(f.conn, f.message)
<1>1. ~Seen(f.message)
  BY DEF BoxInv, PlaceInv
<1>2. \A c \in Conns : ~Within(f.message, Waiting[c]) /\ ~Within(f.message, handled[c])
  BY <1>1 DEF Seen
<1>3. SureMailbox!Deposit(f.conn, f.message)
  BY <1>2 DEF Within, SureMailbox!Deposit, SureMailbox!In
<1>4. LossyMailbox!Deposit(f.conn, f.message)
  BY <1>2 DEF Within, LossyMailbox!Deposit, LossyMailbox!In
<1> QED
  BY <1>3, <1>4

\* Whatever is lost, thrown, crashed or restarted, each agent's box is one from which no
\* message is handled twice and none overtakes an earlier one.
THEOREM MailHandledOnce == Spec => HandledOnce
<1>1. Init => LossyMailbox!Init
  BY InitBoxes DEF Init, LossyMailbox!Init
<1>2. BoxInv /\ [Next]_vars => [LossyMailbox!Next]_<<Waiting, handled>>
  <2> SUFFICES ASSUME BoxInv, [Next]_vars
               PROVE  LossyMailbox!Next \/ UNCHANGED <<Waiting, handled>>
    OBVIOUS
  <2>1. ASSUME NEW c \in Conns, SureMailbox!Collect(c) PROVE LossyMailbox!Next
    <3>1. LossyMailbox!Collect(c)
      BY <2>1 DEF SureMailbox!Collect, LossyMailbox!Collect
    <3> QED
      BY <3>1 DEF LossyMailbox!Next
  <2>2. ASSUME NEW f \in packing, f.conn \in Conns, f.message \in Message,
               Waiting' = [Waiting EXCEPT ![f.conn] = Append(@, f.message)], UNCHANGED handled
        PROVE  LossyMailbox!Next
    BY <2>2, PutIsDeposit DEF LossyMailbox!Next
  <2>3. ASSUME Forgotten PROVE LossyMailbox!Next
    <3>1. DOMAIN Waiting' = Conns
      BY DEF Waiting
    <3>2. \A c \in Conns : \E first \in 1..Len(Waiting[c]) + 1, last \in 0..Len(Waiting[c]) :
            Waiting'[c] = SubSeq(Waiting[c], first, last)
      BY <2>3, ShortenedIs DEF Forgotten
    <3>3. LossyMailbox!Forget
      BY <2>3, <3>1, <3>2 DEF Forgotten, LossyMailbox!Forget
    <3> QED
      BY <3>3 DEF LossyMailbox!Next
  <2> QED
    BY <2>1, <2>2, <2>3, BoxStep DEF BoxInv, Unseen
<1> QED
  BY <1>1, <1>2, BoxInvariant, PTL DEF Spec, HandledOnce, LossyMailbox!Spec

\* No post and no answer is of a session that is over.
FreshInv ==
  /\ \A p \in posts : p.session = agent[p.edge].session
  /\ \A r \in replies : r.to.session = agent[r.to.edge].session

\* An agent that is stopped, and never crashes, leaves none behind.
LEMMA FreshStep ==
  MailInv /\ FreshInv /\ [Next]_vars /\ "crash" \notin Faults => FreshInv'
<1> SUFFICES ASSUME MailInv, FreshInv, [Next]_vars, "crash" \notin Faults PROVE FreshInv'
  OBVIOUS
<1>t. /\ \A p \in posts' \cup posts : p.edge \in Edges
      /\ \A r \in replies' \cup replies : r.to.edge \in Edges
  BY TypeStep DEF MailInv, TypeOK, Post, Reply
<1>1. ASSUME NEW e \in Edges, Stop(e) PROVE FreshInv'
  <2>1. /\ UNCHANGED <<posts, replies>> /\ \A d \in Edges : d # e => agent'[d] = agent[d]
        /\ \A p \in posts : p.edge # e
        /\ \A r \in replies : r.to.edge # e
    BY <1>1 DEF Stop, Restart, MailInv, TypeOK
  <2> QED
    BY <1>t, <2>1 DEF FreshInv
<1>2. ASSUME \A e \in Edges : agent'[e].session = agent[e].session,
             \A p \in posts' \ posts : p.session = agent[p.edge].session,
             \A r \in replies' \ replies : r.to \in posts
      PROVE  FreshInv'
  BY <1>t, <1>2 DEF FreshInv
<1>3. ASSUME NEW e \in Edges, \/ Start(e) \/ SaveProvision(e) \/ BatchPickup(e)
                              \/ CreateConnection(e) \/ AcceptInvitation(e)
      PROVE  FreshInv'
  <2>1. \A d \in Edges : agent'[d].session = agent[d].session
    <3>1. CASE Start(e)
      <4>1. /\ agent'[e].session = agent[e].session
            /\ \A d \in Edges : d # e => agent'[d] = agent[d]
        BY <3>1 DEF Start, Inbound, Process, MailInv, TypeOK
      <4> QED
        BY <4>1
    <3>2. CASE SaveProvision(e)
      BY <3>2 DEF SaveProvision, Process, MailInv, TypeOK
    <3>3. CASE BatchPickup(e) \/ CreateConnection(e) \/ AcceptInvitation(e)
      BY <3>3 DEF BatchPickup, CreateConnection, AcceptInvitation
    <3> QED
      BY <1>3, <3>1, <3>2, <3>3
  <2>2. \A p \in posts' \ posts : p.session = agent[p.edge].session
    BY <1>3 DEF Start, SaveProvision, BatchPickup, CreateConnection, AcceptInvitation,
                NewKey, NewPost
  <2>3. UNCHANGED replies
    BY <1>3 DEF Start, SaveProvision, BatchPickup, CreateConnection, AcceptInvitation
  <2> QED
    BY <1>2, <2>1, <2>2, <2>3
<1>4. ASSUME NEW e \in Edges, NEW r \in replies,
             Connected(e, r) \/ RouteCreated(e, r) \/ Downloaded(e, r)
      PROVE  FreshInv'
  <2>1. \A d \in Edges : agent'[d].session = agent[d].session
    BY <1>4 DEF Connected, RouteCreated, Downloaded, Inbound, Process, MailInv, TypeOK
  <2>2. UNCHANGED posts /\ replies' \subseteq replies
    BY <1>4 DEF Connected, RouteCreated, Downloaded, Gets
  <2> QED
    BY <1>2, <2>1, <2>2
<1>5. ASSUME NEW p \in posts, HandleConnect(p) \/ UpdateRoutes(p) \/ Batch(p)
      PROVE  FreshInv'
  <2>1. UNCHANGED agent /\ posts' \subseteq posts /\ \A r \in replies' \ replies : r.to = p
    BY <1>5 DEF HandleConnect, UpdateRoutes, Batch, Answer
  <2> QED
    BY <1>2, <2>1
<1>6. ASSUME UNCHANGED agent, posts' \subseteq posts, replies' \subseteq replies
      PROVE  FreshInv'
  BY <1>2, <1>6
<1> QED
  BY <1>1, <1>3, <1>4, <1>5, <1>6
  DEF Next, Mediate, Proceed, Fail, vars, mediator, peers, Forward, StoreForwarded,
      ReceiveMessage, SendMessage, Crash, ReceiveMessageThrows, LosePost, LoseReply,
      LoseMail, MediatorRestart

\* While nothing fails but agents are stopped and started, an agent handles all that was
\* accepted for it, up to what still waits, in the order it was accepted.
THEOREM MailInOrder ==
  ASSUME Faults \subseteq {"stop"}
  PROVE  Spec => HandledInOrder
<1>1. Init => SureMailbox!Init /\ FreshInv
  BY InitBoxes DEF Init, SureMailbox!Init, FreshInv
<1>c. "crash" \notin Faults
  OBVIOUS
<1>2. Init /\ [][Next]_vars /\ []MailInv => []FreshInv
  <2>1. MailInv /\ FreshInv /\ [Next]_vars => FreshInv'
    BY <1>c, FreshStep
  <2> QED
    BY <1>1, <2>1, PTL
<1>3. BoxInv /\ FreshInv /\ [Next]_vars => [SureMailbox!Next]_<<Waiting, handled>>
  <2> SUFFICES ASSUME BoxInv, FreshInv, [Next]_vars
               PROVE  SureMailbox!Next \/ UNCHANGED <<Waiting, handled>>
    OBVIOUS
  <2>1. \A p \in posts : p.kind = "pickup" => Current(p)
    BY DEF FreshInv, Current
  <2>2. ASSUME NEW c \in Conns, SureMailbox!Collect(c) PROVE SureMailbox!Next
    BY <2>2 DEF SureMailbox!Next
  <2>3. ASSUME NEW f \in packing, f.conn \in Conns, f.message \in Message,
               Waiting' = [Waiting EXCEPT ![f.conn] = Append(@, f.message)], UNCHANGED handled
        PROVE  SureMailbox!Next
    BY <2>3, PutIsDeposit DEF SureMailbox!Next
  <2> QED
    BY <2>1, <2>2, <2>3, BoxStep DEF BoxInv, Unseen
<1> QED
  BY <1>1, <1>2, <1>3, MailInvariant, BoxInvariant, PTL
  DEF Spec, HandledInOrder, SureMailbox!Spec
=============================================================================
