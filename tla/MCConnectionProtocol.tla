------------------------ MODULE MCConnectionProtocol ------------------------
(* ConnectionProtocol for TLC: who accepts without being asked, and          *)
(* invitees that differ in nothing but their name.                           *)
EXTENDS ConnectionProtocol, TLC

Everyone == {Inviter} \cup Invitees

InviteeSymmetry == Permutations(Invitees)
=============================================================================
