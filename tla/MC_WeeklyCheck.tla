---------------------------- MODULE MC_WeeklyCheck ----------------------------
(* Small instances of WeeklyCheck, in units of six hours, with a week of    *)
(* three units and two pushes a round: an iPhone (1) and an Android phone   *)
(* (2) alone until a second round has closed, and both together.            *)
EXTENDS WeeklyCheck

MC_Slot        == [d \in Devices |-> 0]
MC_Offsets     == <<0, 1>>
MC_Populations == {{1}, {2}, {1, 2}}
MC_Time        == [p \in MC_Populations |-> IF p = {1, 2} THEN 2 ELSE 5]
MC_Changes     == [p \in MC_Populations |-> IF p = {2} THEN 2 ELSE 1]
=============================================================================
