----------------------------- MODULE MC_Accounts -----------------------------
(* Small instances of Accounts. *)
EXTENDS Accounts, TLC

Symmetry == Permutations(Devices) \cup Permutations(Users)
              \cup Permutations(Tokens) \cup Permutations(Incidents)
==============================================================================
