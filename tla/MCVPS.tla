------------------------------- MODULE MCVPS -------------------------------
(* Instances of VPS for TLC. *)
EXTENDS VPS, TLC

CONSTANTS a1, a2, b1

AllStages == StageNames
DomainOf == a1 :> "a.example" @@ a2 :> "a.example" @@ b1 :> "b.example"
=============================================================================
