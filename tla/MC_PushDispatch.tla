--------------------------- MODULE MC_PushDispatch ---------------------------
(* A small instance of PushDispatch: an iPhone and a Mac. *)
EXTENDS PushDispatch, TLC

CONSTANTS iphone, mac

MC_Platform == (iphone :> "ios") @@ (mac :> "macos")
Symmetry    == Permutations(Calls) \cup Permutations(Incidents)
=============================================================================
