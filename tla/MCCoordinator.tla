----------------------------- MODULE MCCoordinator -----------------------------
(* All three optional features and a budget that divides evenly.  Reading  *)
(* the backup tasks may take longer than the whole budget.                 *)
EXTENDS Coordinator

MCFeatures == <<"fan", "backup", "snapshots">>
MCLatency ==
  [f \in {"fan", "backup", "snapshots"} |->
     IF f = "backup" THEN {1, 9} ELSE {1}]
=============================================================================
