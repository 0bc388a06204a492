------------------------------- MODULE JobsMC -------------------------------
(* Two jobs in a store of one, with a download and a delete in flight.        *)
EXTENDS Jobs, TLC
CONSTANTS j1, j2, x1, d1
TwoJobs == {j1, j2}
OneDownload == {x1}
OneDelete == {d1}
=============================================================================
