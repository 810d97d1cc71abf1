----------------------- MODULE MCMaintenanceScheduler -----------------------
(* Instances of MaintenanceScheduler for TLC: two jobs, days of two ticks. *)
EXTENDS MaintenanceScheduler

CONSTANTS a, b

TwoJobs == {a, b}
InOrder == <<a, b>>
=============================================================================
