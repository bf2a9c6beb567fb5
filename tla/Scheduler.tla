----------------------------- MODULE Scheduler -----------------------------
(***************************************************************************)
(* What create_run does with the jobs of a pipeline before a run exists:   *)
(* build_dag, detect_cycles (a depth-first search in three colours) and    *)
(* get_parallel_groups, one action per call or per turn of a loop.         *)
(*                                                                         *)
(* The needs of a job are a set: the order in which a loop takes them is   *)
(* the order of a YAML list, of a dict or of a set, and is left open.      *)
(***************************************************************************)
EXTENDS Naturals, Sequences, FiniteSets, Layering

CONSTANTS Jobs,   \* the jobs of the pipeline
          Names   \* every name a "needs" may hold, jobs and others

ASSUME NamesAssumption == Jobs \subseteq Names

VARIABLES
  dag,        \* the needs of each job, as the request gives them
  phase,      \* where create_run is, or the verdict it has reached
  state,      \* 0 unvisited, 1 on the search path, 2 done
  path,       \* jobs being visited, outermost first
  left,       \* the needs of each visited job that the search has yet to look at
  cycle,      \* what a cycle error names
  remaining,  \* jobs in no group yet
  groups      \* the groups so far

searchVars == <<state, path, left>>
groupVars  == <<remaining, groups>>
vars       == <<dag, phase, searchVars, cycle, groupVars>>

Verdicts == {"missing", "cycle", "stuck", "accepted"}
Phases   == {"building", "searching", "grouping"} \cup Verdicts

Init ==
  /\ dag \in [Jobs -> SUBSET Names]
  /\ phase = "building"
  /\ state = [j \in Jobs |-> 0] /\ path = <<>> /\ left = [j \in Jobs |-> {}]
  /\ cycle = <<>>
  /\ remaining = Jobs /\ groups = <<>>

-----------------------------------------------------------------------------

BuildDag ==
  /\ phase = "building"
  /\ phase' = IF \E j \in Jobs : dag[j] \ Jobs # {} THEN "missing" ELSE "searching"
  /\ UNCHANGED <<dag, searchVars, cycle, groupVars>>

Top == path[Len(path)]

(* Entering dfs(j), from the outer loop or from the job that needs j.      *)
Visit(j) ==
  /\ state' = [state EXCEPT ![j] = 1]
  /\ path' = Append(path, j)

VisitRoot(j) ==
  /\ phase = "searching" /\ path = <<>> /\ state[j] = 0
  /\ Visit(j)
  /\ left' = [left EXCEPT ![j] = dag[j]]
  /\ UNCHANGED <<dag, phase, cycle, groupVars>>

VisitNeed(d) ==
  /\ phase = "searching" /\ path # <<>> /\ d \in left[Top] /\ state[d] = 0
  /\ Visit(d)
  /\ left' = [left EXCEPT ![Top] = @ \ {d}, ![d] = dag[d]]
  /\ UNCHANGED <<dag, phase, cycle, groupVars>>

(* Mutant: an edge back into the path is taken for one already explored.   *)
ExploredUnlessWhite(d) == state[d] \in {1, 2}

Explored(d) == state[d] = 2

PassNeed(d) ==
  /\ phase = "searching" /\ path # <<>> /\ d \in left[Top] /\ Explored(d)
  /\ left' = [left EXCEPT ![Top] = @ \ {d}]
  /\ UNCHANGED <<dag, phase, state, path, cycle, groupVars>>

OnPath(d) == state[d] = 1

(* Mutant: the whole path is reported.                                     *)
WholePath(d) == Append(path, d)

CyclePath(d) ==
  LET start == CHOOSE i \in 1 .. Len(path) : path[i] = d
  IN  Append(SubSeq(path, start, Len(path)), d)

(* path.index(d) cannot fail: a job in state 1 is on the path.             *)
FindCycle(d) ==
  /\ phase = "searching" /\ path # <<>> /\ d \in left[Top] /\ OnPath(d)
  /\ \E i \in 1 .. Len(path) : path[i] = d
  /\ cycle' = CyclePath(d)
  /\ phase' = "cycle"
  /\ UNCHANGED <<dag, searchVars, groupVars>>

(* Mutant: a job that is left is not marked.                               *)
LeaveUnmarked ==
  /\ phase = "searching" /\ path # <<>> /\ left[Top] = {}
  /\ state' = [state EXCEPT ![Top] = 0]
  /\ path' = SubSeq(path, 1, Len(path) - 1)
  /\ UNCHANGED <<dag, phase, left, cycle, groupVars>>

Leave ==
  /\ phase = "searching" /\ path # <<>> /\ left[Top] = {}
  /\ state' = [state EXCEPT ![Top] = 2]
  /\ path' = SubSeq(path, 1, Len(path) - 1)
  /\ UNCHANGED <<dag, phase, left, cycle, groupVars>>

SearchDone ==
  /\ phase = "searching" /\ path = <<>> /\ \A j \in Jobs : state[j] # 0
  /\ phase' = "grouping"
  /\ UNCHANGED <<dag, searchVars, cycle, groupVars>>

Completed == Jobs \ remaining

(* Mutants: a job is ready when one of its needs has completed; groups of  *)
(* one job.                                                                *)
ReadyEarly == {j \in remaining : dag[j] = {} \/ dag[j] \cap Completed # {}}
ReadyOne   ==
  LET ready == {j \in remaining : dag[j] \subseteq Completed}
  IN  IF ready = {} THEN {} ELSE {CHOOSE j \in ready : TRUE}

Ready == {j \in remaining : dag[j] \subseteq Completed}

(* A turn of the loop; with no job ready it gives up.                      *)
NextGroup ==
  /\ phase = "grouping" /\ remaining # {}
  /\ IF Ready = {} THEN phase' = "stuck" /\ UNCHANGED groupVars
                   ELSE /\ groups' = Append(groups, Ready)
                        /\ remaining' = remaining \ Ready
                        /\ UNCHANGED phase
  /\ UNCHANGED <<dag, searchVars, cycle>>

Accept ==
  /\ phase = "grouping" /\ remaining = {}
  /\ phase' = "accepted"
  /\ UNCHANGED <<dag, searchVars, cycle, groupVars>>

Answered == phase \in Verdicts /\ UNCHANGED vars

Step ==
  \/ BuildDag \/ Leave \/ SearchDone \/ NextGroup \/ Accept
  \/ \E j \in Jobs : VisitRoot(j) \/ VisitNeed(j) \/ PassNeed(j) \/ FindCycle(j)

Next == Step \/ Answered

Spec == Init /\ [][Next]_vars

-----------------------------------------------------------------------------
(* Properties.                                                             *)

TypeOK ==
  /\ dag \in [Jobs -> SUBSET Names] /\ phase \in Phases
  /\ state \in [Jobs -> 0 .. 2] /\ path \in Seq(Jobs) /\ left \in [Jobs -> SUBSET Names]
  /\ cycle \in Seq(Jobs)
  /\ remaining \in SUBSET Jobs /\ groups \in Seq(SUBSET Jobs)

(* A pipeline that is accepted gets groups the runner can execute in order: *)
(* every job in one group, after everything it needs.                      *)
AcceptedIsLayering == phase = "accepted" => IsLayering(Jobs, dag, groups)

(* After detect_cycles, get_parallel_groups always finds a job to run.     *)
NeverStuck == phase # "stuck"

(* A cycle that is reported exists: each job named needs the next, and the *)
(* last is the first.                                                      *)
CycleIsReal ==
  phase = "cycle" =>
    /\ Len(cycle) > 1 /\ cycle[1] = cycle[Len(cycle)]
    /\ \A i \in 1 .. (Len(cycle) - 1) : cycle[i + 1] \in dag[cycle[i]]

(* Every job runs as early as the layers allow: it needs something of the  *)
(* group just before its own.                                              *)
GroupsAreEarliest ==
  \A i \in 2 .. Len(groups) : \A j \in groups[i] : dag[j] \cap groups[i - 1] # {}

(* Some jobs all wait for one another.                                     *)
HasCycle(jobs) == \E S \in SUBSET jobs : S # {} /\ \A j \in S : dag[j] \cap S # {}

(* The search finds a cycle exactly when there is one.                     *)
CyclesAreFound ==
  /\ phase = "cycle" => HasCycle(Jobs)
  /\ phase \in {"grouping", "accepted"} => ~ HasCycle(Jobs)

(* dfs looks up jobs only (no KeyError), path.index finds the job that an  *)
(* edge leads back to (no ValueError), and dfs is nested no deeper than    *)
(* there are jobs.                                                         *)
LookupsSucceed ==
  phase = "searching" /\ path # <<>> =>
    \A d \in left[Top] : d \in Jobs /\ (OnPath(d) => \E i \in 1 .. Len(path) : path[i] = d)

DepthBounded == Len(path) <= Cardinality(Jobs)

(* What create_run has yet to do: phases, jobs to enter, edges to look at, *)
(* calls of dfs to leave, jobs to put into groups.  Every step brings the  *)
(* first of these that it changes down.                                    *)
ToEnter  == {j \in Jobs : state[j] = 0}
ToLookAt == {e \in Jobs \X Jobs : e[2] \in left[e[1]]}
Rank     == IF phase = "building" THEN 3 ELSE IF phase = "searching" THEN 2
            ELSE IF phase = "grouping" THEN 1 ELSE 0
Work     == <<Rank, Cardinality(ToEnter), Cardinality(ToLookAt), Len(path), Cardinality(remaining)>>

Less(v, w) == \E i \in 1 .. 5 : v[i] < w[i] /\ \A k \in 1 .. (i - 1) : v[k] = w[k]

WorkShrinks == [][Step => Less(Work', Work)]_vars

-----------------------------------------------------------------------------
(* What they rest on.                                                      *)

Black == {j \in Jobs : state[j] = 2}

(* The path is the jobs in state 1, each needing the next one; what a job  *)
(* on the path has looked at is done or next on the path; what is done     *)
(* needs only what is done and holds no cycle.                             *)
SearchInv ==
  /\ phase \notin {"building", "missing"} => \A j \in Jobs : dag[j] \subseteq Jobs
  /\ phase = "building" => path = <<>> /\ Black = {}
  /\ \A j \in Jobs : state[j] = 1 <=> \E i \in 1 .. Len(path) : path[i] = j
  /\ \A i, k \in 1 .. Len(path) : path[i] = path[k] => i = k
  /\ \A i \in 1 .. Len(path) :
       /\ left[path[i]] \subseteq dag[path[i]]
       /\ i < Len(path) => path[i + 1] \in dag[path[i]]
       /\ \A d \in dag[path[i]] \ left[path[i]] :
            d \in Black \/ (i < Len(path) /\ d = path[i + 1])
  /\ \A j \in Black : dag[j] \subseteq Black
  /\ ~ HasCycle(Black)
  /\ phase \in {"grouping", "stuck", "accepted"} => Black = Jobs

(* The groups so far are a layering of the jobs they hold.                 *)
GroupInv ==
  /\ phase \in {"building", "searching"} => groups = <<>> /\ remaining = Jobs
  /\ phase = "accepted" => remaining = {}
  /\ Completed = UNION {groups[i] : i \in 1 .. Len(groups)}
  /\ \A i, k \in 1 .. Len(groups) : i # k => groups[i] \cap groups[k] = {}
  /\ \A i \in 1 .. Len(groups) : \A j \in groups[i] : dag[j] \subseteq Before(groups, i)
=============================================================================
