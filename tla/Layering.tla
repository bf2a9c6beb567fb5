------------------------------ MODULE Layering ------------------------------
(***************************************************************************)
(* What the scheduler promises about the execution groups it hands to the  *)
(* runner.  Scheduler.tla is checked and proved to produce such groups;    *)
(* Runner.tla assumes them of its constant Groups.                         *)
(***************************************************************************)
EXTENDS Naturals, Sequences

(* The jobs that come before position i of groups.                         *)
Before(groups, i) == UNION {groups[k] : k \in 1 .. (i - 1)}

(* groups partitions jobs, and every job comes after all that it needs.    *)
IsLayering(jobs, needs, groups) ==
  /\ groups \in Seq(SUBSET jobs)
  /\ \A j \in jobs : \E i \in 1 .. Len(groups) : j \in groups[i]
  /\ \A i, k \in 1 .. Len(groups) : i # k => groups[i] \cap groups[k] = {}
  /\ \A i \in 1 .. Len(groups) : \A j \in groups[i] : needs[j] \subseteq Before(groups, i)
=============================================================================
