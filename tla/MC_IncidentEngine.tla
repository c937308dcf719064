-------------------------- MODULE MC_IncidentEngine --------------------------
(* A small instance of IncidentEngine. *)
EXTENDS IncidentEngine

MC_Defaults == [repeat |-> 1, maxRing |-> 2, desk |-> 1]
MC_Patched  == [repeat |-> 2, maxRing |-> 1, desk |-> 2]
MC_Patch    == {MC_Patched}
=============================================================================
