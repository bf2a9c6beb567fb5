------------------------------ MODULE MCRunner ------------------------------
(***************************************************************************)
(* Small instances of Runner: a wide first group that the semaphore        *)
(* throttles, and a second group that needs part of it.                    *)
(***************************************************************************)
EXTENDS Runner

JobsFour  == {"build", "lint", "unit", "deploy"}
NeedsFour == [build |-> {}, lint |-> {}, unit |-> {}, deploy |-> {"build", "unit"}]
GroupsFour == <<{"build", "lint", "unit"}, {"deploy"}>>

JobsThree   == {"build", "lint", "deploy"}
NeedsThree  == [build |-> {}, lint |-> {}, deploy |-> {"build"}]
GroupsThree == <<{"build", "lint"}, {"deploy"}>>

(* What goes wrong outside the engine while docker still does what it is   *)
(* told, and everything.                                                   *)
Benign    == {"registry", "tamper", "launch", "eof", "reload"}
AllFaults == FaultKinds
=============================================================================
