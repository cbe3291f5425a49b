--------------------------- MODULE MCJobRegistry ---------------------------
(* JobRegistry for two jobs and a few overlapping runs.                     *)
EXTENDS JobRegistry

CONSTANTS j1, j2, r1, r2, r3

TwoJobs == {j1, j2}
ThreeRuns == {r1, r2, r3}
=============================================================================
