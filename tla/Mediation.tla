----------------------------- MODULE Mediation -----------------------------
(***************************************************************************)
(* modules/routing: edge agents that receive their messages through one    *)
(* mediator, with the transports of samples/ (HTTP posts; the mediator     *)
(* stores what it sends, an edge agent polls for it).                      *)
(*                                                                         *)
(* An edge agent provisions a connection with the mediator once, registers *)
(* a route for the key of every connection it makes, and downloads and     *)
(* handles messages in a loop.  The mediator finds the route of a          *)
(* forwarded message and queues it for the connection of that route.  The  *)
(* routing table and the queues are in memory; connections and the         *)
(* ProvisioningRecord are in a wallet.                                     *)
(*                                                                         *)
(* A connection with the mediator stands for the two ConnectionRecords and *)
(* for theirKey, by which the queue is kept.  A session is one run of an   *)
(* agent's process: the answer to a post of an earlier one reaches nobody. *)
(* Left out: batch size (the mediator ignores it), messages the mediator   *)
(* itself sends, and removal of a route, which no code asks for.           *)
(***************************************************************************)
EXTENDS Naturals, Sequences

CONSTANTS
  Edges,          \* the edge agents
  MaxConns,       \* bound: connections made with the mediator
  MaxKeys,        \* bound: keys the edge agents create
  MaxMessages,    \* bound: messages peers send
  MaxSessions,    \* bound: restarts of an edge agent
  Faults          \* what may go wrong, of FaultKinds

\* stop is no failure: the application stops the loop and lets messages flush out.
FaultKinds == {"stop", "crash", "lose", "throw", "restart"}

ASSUME BoundsAssumption ==
  /\ MaxConns \in Nat
  /\ MaxKeys \in Nat
  /\ MaxMessages \in Nat
  /\ MaxSessions \in Nat
  /\ Faults \subseteq FaultKinds

None == 0
Conns == 1..MaxConns
Keys == 1..MaxKeys
Sessions == 0..MaxSessions

Message == [id: 1..MaxMessages, to: Keys]

Post == [kind: {"connect", "keylist", "pickup"}, edge: Edges, session: Sessions,
         conn: Conns \cup {None}, key: Keys \cup {None}]

\* conn answers a connection request, batch a pickup; a keylist update has no body.
Reply == [to: Post, conn: Conns \cup {None}, batch: Seq(Message)]

VARIABLES
  agent,       \* the process of each edge agent
  poll,        \* its loop: what it does, and messages downloaded but not handled
  provision,   \* the connection its ProvisioningRecord names, in its wallet
  keys,        \* the keys made so far: the agent, and whether the route is awaited
  disclosed,   \* the keys peers know
  conns,       \* the mediator's connections: the edge agent of each
  routes,      \* routingTable: the connection of a key
  packing,     \* forwarded messages being packed
  queue,       \* InMemoryMessageRepository: the messages for a connection
  posts,       \* posts on their way to the mediator, or being handled
  replies,     \* their answers, on the way back
  mail,        \* messages of peers on their way to the mediator
  sent,        \* messages sent by peers
  handled      \* for each connection, the messages the edge agent handled

vars == <<agent, poll, provision, keys, disclosed, conns, routes, packing, queue,
          posts, replies, mail, sent, handled>>

mediator == <<conns, routes, packing, queue>>
peers == <<disclosed, mail, sent>>

Process(pc, session, inbound, unsaved) ==
  [pc |-> pc, session |-> session, inbound |-> inbound, unsaved |-> unsaved]
Off(session) == Process("off", session, None, None)
NoBatch(pc) == [pc |-> pc, batch |-> <<>>]

Init ==
  /\ agent = [e \in Edges |-> Off(0)]
  /\ poll = [e \in Edges |-> NoBatch("idle")]
  /\ provision = [e \in Edges |-> None]
  /\ keys = <<>>
  /\ disclosed = {}
  /\ conns = <<>>
  /\ routes = [k \in Keys |-> None]
  /\ packing = {}
  /\ queue = [c \in Conns |-> <<>>]
  /\ posts = {}
  /\ replies = {}
  /\ mail = {}
  /\ sent = 0
  /\ handled = [c \in Conns |-> <<>>]

-----------------------------------------------------------------------------
(* Posts                                                                     *)

NewPost(e, kind, key) ==
  [kind |-> kind, edge |-> e, session |-> agent[e].session,
   conn |-> agent[e].inbound, key |-> key]

\* The mediator's handler ends and its result is the answer.
Answer(p, conn, batch) ==
  /\ posts' = posts \ {p}
  /\ replies' = replies \cup {[to |-> p, conn |-> conn, batch |-> batch]}

\* The answer reaches the process that posted.
Gets(e, r, kind) ==
  /\ r.to.edge = e
  /\ r.to.kind = kind
  /\ r.to.session = agent[e].session
  /\ agent[e].pc # "off"
  /\ replies' = replies \ {r}

-----------------------------------------------------------------------------
(* Provisioning: Agent.init starts the transporter, which calls provision.   *)

Inbound(e, conn, unsaved) ==
  agent' = [agent EXCEPT ![e] = Process("ready", @.session, conn, unsaved)]

\* Mutant: the ProvisioningRecord is not looked for.
Start_Afresh(e) ==
  /\ agent[e].pc = "off"
  /\ agent' = [agent EXCEPT ![e] = Process("connecting", @.session, None, None)]
  /\ posts' = posts \cup {NewPost(e, "connect", None)}
  /\ UNCHANGED <<mediator, peers, poll, provision, keys, replies, handled>>

Start(e) ==
  /\ agent[e].pc = "off"
  /\ \/ /\ provision[e] # None
        /\ Inbound(e, provision[e], None)
        /\ UNCHANGED posts
     \/ /\ provision[e] = None
        /\ agent' = [agent EXCEPT ![e] = Process("connecting", @.session, None, None)]
        /\ posts' = posts \cup {NewPost(e, "connect", None)}
  /\ UNCHANGED <<mediator, peers, poll, provision, keys, replies, handled>>

\* The mediator accepts the request at once and answers with the response.
HandleConnect(p) ==
  /\ p.kind = "connect"
  /\ Len(conns) < MaxConns
  /\ conns' = Append(conns, p.edge)
  /\ Answer(p, Len(conns'), <<>>)
  /\ UNCHANGED <<agent, poll, provision, keys, peers, routes, packing, queue, handled>>

\* Mutant: the loop waits for a first message to be announced.
Connected_NotPolling(e, r) ==
  /\ Gets(e, r, "connect")
  /\ agent[e].pc = "connecting"
  /\ Inbound(e, r.conn, r.conn)
  /\ poll' = [poll EXCEPT ![e] = NoBatch("announced")]
  /\ UNCHANGED <<mediator, peers, provision, keys, posts, handled>>

\* processResponse, createTrustPing and the ping; then provisioningService.create,
\* which does not await the wallet, and establishInbound.
Connected(e, r) ==
  /\ Gets(e, r, "connect")
  /\ agent[e].pc = "connecting"
  /\ Inbound(e, r.conn, r.conn)
  /\ UNCHANGED <<mediator, peers, poll, provision, keys, posts, handled>>

SaveProvision(e) ==
  /\ agent[e].unsaved # None
  /\ provision' = [provision EXCEPT ![e] = agent[e].unsaved]
  /\ agent' = [agent EXCEPT ![e] = Process(@.pc, @.session, @.inbound, None)]
  /\ UNCHANGED <<mediator, peers, poll, keys, posts, replies, handled>>

-----------------------------------------------------------------------------
(* Routes                                                                    *)

\* A new connection has a new key; createRoute posts a keylist update for it.
NewKey(e, awaited) ==
  /\ agent[e].pc = "ready"
  /\ Len(keys) < MaxKeys
  /\ keys' = Append(keys, [owner |-> e, awaited |-> awaited])
  /\ posts' = posts \cup {NewPost(e, "keylist", Len(keys'))}

\* createConnection does not await createRoute: the invitation is out already.
CreateConnection(e) ==
  /\ NewKey(e, FALSE)
  /\ disclosed' = disclosed \cup {Len(keys')}
  /\ UNCHANGED <<mediator, agent, poll, provision, replies, mail, sent, handled>>

\* Mutant: createRoute is not awaited here either.
AcceptInvitation_NotAwaited(e) ==
  /\ NewKey(e, TRUE)
  /\ disclosed' = disclosed \cup {Len(keys')}
  /\ UNCHANGED <<mediator, agent, poll, provision, replies, mail, sent, handled>>

AcceptInvitation(e) ==
  /\ NewKey(e, TRUE)
  /\ UNCHANGED <<mediator, peers, agent, poll, provision, replies, handled>>

\* The connection request, which names the key, is sent when createRoute resolves.
RouteCreated(e, r) ==
  /\ Gets(e, r, "keylist")
  /\ disclosed' = disclosed \cup {r.to.key}
  /\ UNCHANGED <<mediator, agent, poll, provision, keys, posts, mail, sent, handled>>

\* Mutant: the route is made for the first connection, not that of the context.
UpdateRoutes_First(p) ==
  /\ p.kind = "keylist"
  /\ routes[p.key] = None
  /\ routes' = [routes EXCEPT ![p.key] = 1]
  /\ Answer(p, None, <<>>)
  /\ UNCHANGED <<agent, poll, provision, keys, peers, conns, packing, queue, handled>>

\* saveRoute throws when the key has a route; the post is then never answered.
UpdateRoutes(p) ==
  /\ p.kind = "keylist"
  /\ routes[p.key] = None
  /\ routes' = [routes EXCEPT ![p.key] = p.conn]
  /\ Answer(p, None, <<>>)
  /\ UNCHANGED <<agent, poll, provision, keys, peers, conns, packing, queue, handled>>

-----------------------------------------------------------------------------
(* Messages                                                                  *)

\* External: a peer sends a message to a key, wrapped in a forward.
SendMessage(k) ==
  /\ sent < MaxMessages
  /\ sent' = sent + 1
  /\ mail' = mail \cup {[id |-> sent', to |-> k]}
  /\ UNCHANGED <<mediator, agent, poll, provision, keys, disclosed, posts, replies, handled>>

\* The route is looked up, then packing the message for its connection is awaited.
Forward(m) ==
  /\ mail' = mail \ {m}
  /\ \/ /\ routes[m.to] # None
        /\ packing' = packing \cup {[message |-> m, conn |-> routes[m.to]]}
     \/ /\ routes[m.to] = None
        /\ UNCHANGED packing
  /\ UNCHANGED <<agent, poll, provision, keys, disclosed, conns, routes, queue, posts,
                 replies, sent, handled>>

StoreForwarded(f) ==
  /\ packing' = packing \ {f}
  /\ queue' = [queue EXCEPT ![f.conn] = Append(@, f.message)]
  /\ UNCHANGED <<agent, poll, provision, keys, peers, conns, routes, posts, replies, handled>>

\* downloadMessages, called by the loop of the transporter.
BatchPickup(e) ==
  /\ agent[e].pc = "ready"
  /\ poll[e].pc = "idle"
  /\ poll' = [poll EXCEPT ![e] = NoBatch("asked")]
  /\ posts' = posts \cup {NewPost(e, "pickup", None)}
  /\ UNCHANGED <<mediator, peers, agent, provision, keys, replies, handled>>

\* Mutant: the messages stay in the repository.
Batch_Kept(p) ==
  /\ p.kind = "pickup"
  /\ Answer(p, None, queue[p.conn])
  /\ UNCHANGED <<agent, poll, provision, keys, peers, mediator, handled>>

\* Messages are found and deleted without an await between; the answer comes after.
Batch(p) ==
  /\ p.kind = "pickup"
  /\ Answer(p, None, queue[p.conn])
  /\ queue' = [queue EXCEPT ![p.conn] = <<>>]
  /\ UNCHANGED <<agent, poll, provision, keys, peers, conns, routes, packing, handled>>

Rest(batch) == [pc |-> IF batch = <<>> THEN "idle" ELSE "handling", batch |-> batch]

\* Mutant: only the first message of the batch is taken.
Downloaded_First(e, r) ==
  /\ Gets(e, r, "pickup")
  /\ \/ r.batch = <<>> /\ poll' = [poll EXCEPT ![e] = Rest(<<>>)]
     \/ r.batch # <<>> /\ poll' = [poll EXCEPT ![e] = Rest(<<Head(r.batch)>>)]
  /\ UNCHANGED <<mediator, peers, agent, provision, keys, posts, handled>>

Downloaded(e, r) ==
  /\ Gets(e, r, "pickup")
  /\ poll' = [poll EXCEPT ![e] = Rest(r.batch)]
  /\ UNCHANGED <<mediator, peers, agent, provision, keys, posts, handled>>

ReceiveMessage(e) ==
  /\ poll[e].pc = "handling"
  /\ handled' = [handled EXCEPT ![agent[e].inbound] = Append(@, Head(poll[e].batch))]
  /\ poll' = [poll EXCEPT ![e] = Rest(Tail(poll[e].batch))]
  /\ UNCHANGED <<mediator, peers, agent, provision, keys, posts, replies>>

-----------------------------------------------------------------------------
(* Faults                                                                    *)

Restart(e) ==
  /\ agent[e].session < MaxSessions
  /\ agent' = [agent EXCEPT ![e] = Off(@.session + 1)]
  /\ poll' = [poll EXCEPT ![e] = NoBatch("idle")]
  /\ UNCHANGED <<mediator, peers, provision, keys, posts, replies, handled>>

\* The agent is shut down between two polls, when nothing it began is under way.
Stop(e) ==
  /\ "stop" \in Faults
  /\ agent[e].pc = "ready"
  /\ agent[e].unsaved = None
  /\ poll[e].pc = "idle"
  /\ \A p \in posts : p.edge # e
  /\ \A r \in replies : r.to.edge # e
  /\ Restart(e)

Crash(e) ==
  /\ "crash" \in Faults
  /\ agent[e].pc # "off"
  /\ Restart(e)

\* receiveMessage throws: the promise of the loop is rejected, and the loop ends.
ReceiveMessageThrows(e) ==
  /\ "throw" \in Faults
  /\ poll[e].pc = "handling"
  /\ poll' = [poll EXCEPT ![e] = NoBatch("ended")]
  /\ UNCHANGED <<mediator, peers, agent, provision, keys, posts, replies, handled>>

\* A post or its answer is lost: who posted waits for ever.
LosePost(p) ==
  /\ "lose" \in Faults
  /\ posts' = posts \ {p}
  /\ UNCHANGED <<mediator, peers, agent, poll, provision, keys, replies, handled>>

LoseReply(r) ==
  /\ "lose" \in Faults
  /\ replies' = replies \ {r}
  /\ UNCHANGED <<mediator, peers, agent, poll, provision, keys, posts, handled>>

LoseMail(m) ==
  /\ "lose" \in Faults
  /\ mail' = mail \ {m}
  /\ UNCHANGED <<mediator, disclosed, sent, agent, poll, provision, keys, posts, replies,
                 handled>>

\* The mediator's process restarts: its connections are in its wallet.
MediatorRestart ==
  /\ "restart" \in Faults
  /\ routes' = [k \in Keys |-> None]
  /\ packing' = {}
  /\ queue' = [c \in Conns |-> <<>>]
  /\ UNCHANGED <<agent, poll, provision, keys, peers, conns, posts, replies, handled>>

-----------------------------------------------------------------------------
Mediate ==
  \/ \E p \in posts : HandleConnect(p) \/ UpdateRoutes(p) \/ Batch(p)
  \/ \E m \in mail : Forward(m)
  \/ \E f \in packing : StoreForwarded(f)

Proceed(e) ==
  \/ Start(e)
  \/ SaveProvision(e)
  \/ BatchPickup(e)
  \/ ReceiveMessage(e)
  \/ \E r \in replies : Connected(e, r) \/ RouteCreated(e, r) \/ Downloaded(e, r)

Fail ==
  \/ \E e \in Edges : Stop(e) \/ Crash(e) \/ ReceiveMessageThrows(e)
  \/ \E p \in posts : LosePost(p)
  \/ \E r \in replies : LoseReply(r)
  \/ \E m \in mail : LoseMail(m)
  \/ MediatorRestart

Next ==
  \/ Mediate
  \/ \E e \in Edges : Proceed(e) \/ CreateConnection(e) \/ AcceptInvitation(e)
  \/ \E k \in disclosed : SendMessage(k)
  \/ Fail

Spec == Init /\ [][Next]_vars

\* Promises settle, posts are answered, a stopped agent comes back.  Nothing is
\* assumed of the applications and the peers.
Fairness ==
  /\ WF_vars(\E p \in posts : HandleConnect(p))
  /\ WF_vars(\E p \in posts : UpdateRoutes(p))
  /\ WF_vars(\E p \in posts : Batch(p))
  /\ WF_vars(\E m \in mail : Forward(m))
  /\ WF_vars(\E f \in packing : StoreForwarded(f))
  /\ \A e \in Edges :
       /\ WF_vars(Start(e))
       /\ WF_vars(SaveProvision(e))
       /\ WF_vars(BatchPickup(e))
       /\ WF_vars(ReceiveMessage(e))
       /\ WF_vars(\E r \in replies : Connected(e, r))
       /\ WF_vars(\E r \in replies : Downloaded(e, r))

FairSpec == Spec /\ Fairness
-----------------------------------------------------------------------------
(* Properties                                                                *)

Processes == [pc: {"off", "connecting", "ready"}, session: Sessions,
              inbound: Conns \cup {None}, unsaved: Conns \cup {None}]

TypeOK ==
  /\ agent \in [Edges -> Processes]
  /\ poll \in [Edges -> [pc: {"idle", "asked", "handling", "ended"}, batch: Seq(Message)]]
  /\ provision \in [Edges -> Conns \cup {None}]
  /\ keys \in Seq([owner: Edges, awaited: BOOLEAN]) /\ Len(keys) <= MaxKeys
  /\ disclosed \subseteq DOMAIN keys
  /\ conns \in Seq(Edges) /\ Len(conns) <= MaxConns
  /\ routes \in [Keys -> Conns \cup {None}]
  /\ packing \subseteq [message: Message, conn: Conns]
  /\ queue \in [Conns -> Seq(Message)]
  /\ posts \subseteq Post
  /\ replies \subseteq Reply
  /\ mail \subseteq Message
  /\ sent \in 0..MaxMessages
  /\ handled \in [Conns -> Seq(Message)]

\* Whatever a connection of the mediator delivered was sent to a key of the agent at
\* its other end: routes, queues and batches never cross over, through restarts of
\* either side, stale answers and losses.
OwnMailOnly ==
  \A c \in Conns : \A i \in DOMAIN handled[c] :
    /\ c \in DOMAIN conns
    /\ keys[handled[c][i].to].owner = conns[c]

\* A route leads to the connection its agent polls, or will poll after a restart: else
\* what is queued there is never picked up.  Holds unless the process dies between
\* provisioningService.create and the wallet write that it does not await.
RoutesFollowProvision ==
  \A k \in DOMAIN keys :
    routes[k] # None =>
      routes[k] \in {provision[keys[k].owner], agent[keys[k].owner].unsaved}

\* A peer that learns a key from acceptInvitation never meets a mediator without its
\* route, as long as the mediator runs: createRoute is awaited before the request.
\* Of createConnection, which does not await it, this is not true.
AcceptedKeyHasRoute ==
  \A k \in disclosed : keys[k].awaited => routes[k] # None

\* The mailbox of a connection, seen from outside: what waits for the agent is what it
\* has downloaded, then the answer on its way to it, then the queue.
OnItsWay(c) ==
  LET r == {q \in replies : /\ q.to.kind = "pickup" /\ q.to.conn = c
                            /\ q.to.session = agent[q.to.edge].session}
  IN IF r = {} THEN <<>> ELSE (CHOOSE q \in r : TRUE).batch

InHand(c) ==
  IF c \in DOMAIN conns /\ agent[conns[c]].inbound = c THEN poll[conns[c]].batch ELSE <<>>

Waiting == [c \in Conns |-> InHand(c) \o OnItsWay(c) \o queue[c]]

SureMailbox == INSTANCE Mailbox WITH
  Boxes <- Conns, Messages <- Message, Lossy <- FALSE,
  waiting <- Waiting, collected <- handled

LossyMailbox == INSTANCE Mailbox WITH
  Boxes <- Conns, Messages <- Message, Lossy <- TRUE,
  waiting <- Waiting, collected <- handled

\* While nothing fails an agent handles all that was accepted for it, once and in the
\* order of acceptance, also if it is stopped and started between two polls.
HandledInOrder == SureMailbox!Spec

\* Whatever fails, no message is handled twice and none overtakes an earlier one.
HandledOnce == LossyMailbox!Spec

Handled(m) == \E c \in Conns : \E i \in DOMAIN handled[c] : handled[c][i] = m

Accepted(m) ==
  \/ \E f \in packing : f.message = m
  \/ \E c \in Conns : \E i \in DOMAIN queue[c] : queue[c][i] = m

\* "Edge Agent can go offline and still receive its messages when it goes back to
\* online" (README.md:45): what the mediator accepted is eventually handled.  True of
\* an agent that is stopped, false of one that goes while an answer is on its way.
StillReceives ==
  \A i \in 1..MaxMessages, k \in Keys :
    LET m == [id |-> i, to |-> k] IN Accepted(m) ~> Handled(m)
=============================================================================
