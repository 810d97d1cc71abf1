------------------------- MODULE MCMaintenanceRuns --------------------------
(* The instance of MaintenanceRuns for TLC: two runs of one job, one writer. *)
EXTENDS MaintenanceRuns, TLC

CONSTANTS r1, r2, w1

Jobs       == {"refresh"}
TwoRuns    == {r1, r2}
TwoRunJobs == (r1 :> "refresh") @@ (r2 :> "refresh")
=============================================================================
