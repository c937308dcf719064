------------------------------ MODULE MC_Relay ------------------------------
(* Small instances of Relay. *)
EXTENDS Relay, TLC

Symmetry == Permutations(Forwards)
=============================================================================
