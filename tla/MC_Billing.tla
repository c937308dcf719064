------------------------------ MODULE MC_Billing ------------------------------
(* Small instances of Billing: a customer who bought and lets it lapse, and *)
(* whose account is joined into another.                                    *)
EXTENDS Billing, TLC

CONSTANTS a1, a2

Bought   == [at |-> 1, first |-> a1, named |-> {a1}, tier |-> 1]
Lapsed   == [at |-> 2, first |-> a1, named |-> {a1}, tier |-> 0]
Free     == [tier |-> 0, pack |-> FALSE]
Paid     == [tier |-> 1, pack |-> TRUE]
MC_Events == {Bought, Lapsed}
MC_Lists  == (a1 :> <<Paid, Free>>) @@ (a2 :> <<Free>>)
MC_Joins  == {<<a1, a2>>}
MC_Max    == [r \in BOOLEAN |-> IF r THEN 1 ELSE 2]
MC_Failed == [r \in BOOLEAN |-> IF r THEN 0 ELSE 1]
MC_Reads  == [r \in BOOLEAN |-> IF r THEN (a1 :> 0) @@ (a2 :> 0) ELSE (a1 :> 2) @@ (a2 :> 0)]
=============================================================================
