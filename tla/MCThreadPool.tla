---------------------------- MODULE MCThreadPool ----------------------------
(* Two runs; a job of one of them waits for its run's slot, and the        *)
(* container of the other run prints.                                      *)
EXTENDS ThreadPool

ThreeJobs == {"build", "lint", "scan"}
TwoRuns   == {"red", "blue"}
RunOfJobs == [build |-> "red", lint |-> "red", scan |-> "blue"]
OnePrints == {"scan"}
=============================================================================
