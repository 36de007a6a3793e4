---------------------------- MODULE MCTelemetry ----------------------------
(* Values for the constants of Telemetry: card 1 is configured by the FEC     *)
(* reconciler, card 2 by the VRB reconciler and listed by both, as the device *)
(* ID 57c0 is.                                                                *)
EXTENDS Telemetry, TLC

CONSTANT none

MCKind == <<"fec", "vrb">>
MCInventory == [k \in {"fec", "vrb"} |-> IF k = "fec" THEN {1, 2} ELSE {2}]
MCOwner == (1 :> "fec" @@ 2 :> "vrb")

(* Which events come together. *)
Plan(kinds) == [k \in Fault |-> IF k \in kinds THEN 1 ELSE 0]

MCFaultPlans ==
  {Plan({"pass", "get"}), [Plan({}) EXCEPT !["pass"] = 2], Plan({"die", "cli"}),
   Plan({"pass", "cli"}), Plan({"slow", "cli"}), Plan({"slow", "pass"})}
=============================================================================
