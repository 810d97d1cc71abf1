---------------------------- MODULE MCEmailDigest ---------------------------
(* The instance of EmailDigest for TLC: two jobs, days of two ticks.       *)
EXTENDS EmailDigest

CONSTANTS j1, j2

TwoJobs == {j1, j2}
=============================================================================
