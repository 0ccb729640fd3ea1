------------------------- MODULE CredentialIssuance -------------------------
(***************************************************************************)
(* What modules/credentials promises, seen from outside: the issuer issues *)
(* one credential for an offer, the holder's wallet stores it once, and    *)
(* the issuer takes the exchange for done only after that.                 *)
(***************************************************************************)
EXTENDS Bags

CONSTANT Requests     \* records with a field offer, the offer they answer

VARIABLES
  issued,         \* requests a credential was issued for
  stored,         \* the credentials in the holder's wallet, a bag
  acknowledged    \* requests the issuer knows the holder has a credential for

Init ==
  /\ issued = {}
  /\ stored = EmptyBag
  /\ acknowledged = {}

Issue(q) ==
  /\ \A p \in issued : p.offer # q.offer
  /\ issued' = issued \cup {q}
  /\ UNCHANGED <<stored, acknowledged>>

Store(q) ==
  /\ q \in issued
  /\ ~BagIn(q, stored)
  /\ stored' = stored (+) SetToBag({q})
  /\ UNCHANGED <<issued, acknowledged>>

Acknowledge(q) ==
  /\ BagIn(q, stored)
  /\ q \notin acknowledged
  /\ acknowledged' = acknowledged \cup {q}
  /\ UNCHANGED <<issued, stored>>

Next == \E q \in Requests : Issue(q) \/ Store(q) \/ Acknowledge(q)

Spec == Init /\ [][Next]_<<issued, stored, acknowledged>>
=============================================================================
