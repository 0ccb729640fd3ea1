---------------------------- MODULE MCMediation ----------------------------
(* Mediation for TLC: the edge agents are interchangeable.                  *)
EXTENDS Mediation, TLC

EdgeSymmetry == Permutations(Edges)
=============================================================================
