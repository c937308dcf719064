-------------------------- MODULE MC_IncidentClient --------------------------
(* A small instance of IncidentClient. *)
EXTENDS IncidentClient

MC_Defaults == [repeat |-> 1, maxRing |-> 2, desk |-> 1]
=============================================================================
