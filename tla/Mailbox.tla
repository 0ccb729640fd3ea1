------------------------------ MODULE Mailbox ------------------------------
(***************************************************************************)
(* What a mediator promises an agent: what was accepted for it waits until *)
(* the agent collects it, each message once and in the order of            *)
(* acceptance.  A lossy mailbox may forget a stretch at either end.        *)
(***************************************************************************)
EXTENDS Naturals, Sequences

CONSTANTS
  Boxes,      \* one for each connection with the mediator
  Messages,
  Lossy       \* may messages be forgotten

VARIABLES
  waiting,    \* for each box, the messages not yet collected
  collected   \* for each box, those that were

Init ==
  /\ waiting = [b \in Boxes |-> <<>>]
  /\ collected = [b \in Boxes |-> <<>>]

In(m, seq) == \E i \in DOMAIN seq : seq[i] = m

Deposit(b, m) ==
  /\ \A c \in Boxes : ~In(m, waiting[c]) /\ ~In(m, collected[c])
  /\ waiting' = [waiting EXCEPT ![b] = Append(@, m)]
  /\ UNCHANGED collected

Collect(b) ==
  /\ waiting[b] # <<>>
  /\ collected' = [collected EXCEPT ![b] = Append(@, Head(waiting[b]))]
  /\ waiting' = [waiting EXCEPT ![b] = Tail(@)]

\* waiting' is given value by value: TLC only ever evaluates this of a known step.
Forget ==
  /\ Lossy
  /\ DOMAIN waiting' = Boxes
  /\ \A b \in Boxes : \E first \in 1..Len(waiting[b]) + 1, last \in 0..Len(waiting[b]) :
       waiting'[b] = SubSeq(waiting[b], first, last)
  /\ UNCHANGED collected

Next ==
  \/ \E b \in Boxes : Collect(b) \/ \E m \in Messages : Deposit(b, m)
  \/ Forget

Spec == Init /\ [][Next]_<<waiting, collected>>
=============================================================================
