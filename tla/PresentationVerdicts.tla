------------------------ MODULE PresentationVerdicts ------------------------
(***************************************************************************)
(* What modules/proofs promises, seen from outside: the verifier judges a  *)
(* request once and for good, and the prover takes the exchange for done   *)
(* only after its request was judged, whichever way.                       *)
(***************************************************************************)
CONSTANTS Requests, Unjudged, Verdicts

VARIABLES
  verdict,     \* for each request, what the verifier's record says of it
  concluded    \* the requests of the prover's records that are done

Init ==
  /\ verdict = [q \in Requests |-> Unjudged]
  /\ concluded = {}

Judge(q, v) ==
  /\ verdict[q] = Unjudged
  /\ verdict' = [verdict EXCEPT ![q] = v]
  /\ UNCHANGED concluded

Conclude(q) ==
  /\ verdict[q] # Unjudged
  /\ q \notin concluded
  /\ concluded' = concluded \cup {q}
  /\ UNCHANGED verdict

Next == \E q \in Requests : Conclude(q) \/ \E v \in Verdicts : Judge(q, v)

Spec == Init /\ [][Next]_<<verdict, concluded>>
=============================================================================
