---------------------------- MODULE PipelineRun ----------------------------
(***************************************************************************)
(* What a run promises to whoever polls GET /runs/{run_id}: the life of    *)
(* the run's status and of the status of each job, with no coroutine, no   *)
(* docker and no registry.  Runner.tla implements it.                      *)
(***************************************************************************)
CONSTANTS Jobs, Needs

VARIABLES status, jobStatus

vars == <<status, jobStatus>>

Failures == {"failed", "conflict_failure", "cycle_failure", "integrity_failure"}

With(s)    == {j \in Jobs : jobStatus[j] = s}
Set(j, s)  == jobStatus' = [jobStatus EXCEPT ![j] = s]

Init == status = "queued" /\ jobStatus = [j \in Jobs |-> "queued"]

Begin ==
  /\ status = "queued"
  /\ status' = "running"
  /\ UNCHANGED jobStatus

(* A job starts once, when all that it needs has succeeded, and never      *)
(* after the run has begun to skip jobs.                                   *)
StartJob(j) ==
  /\ status = "running" /\ jobStatus[j] = "queued"
  /\ \A n \in Needs[j] : jobStatus[n] = "succeeded"
  /\ With("skipped") = {}
  /\ Set(j, "running")
  /\ UNCHANGED status

EndJob(j) ==
  /\ status = "running" /\ jobStatus[j] = "running"
  /\ \E s \in {"succeeded", "failed"} : Set(j, s)
  /\ UNCHANGED status

(* Jobs are skipped because another failed, when none is running any more. *)
SkipJob(j) ==
  /\ status = "running" /\ jobStatus[j] = "queued"
  /\ With("failed") # {} /\ With("running") = {}
  /\ Set(j, "skipped")
  /\ UNCHANGED status

(* A run that fails leaves no job running and, if a job failed, none       *)
(* queued; a failure to resolve or verify comes before any job.            *)
FailRun ==
  /\ status = "running" /\ With("running") = {}
  /\ With("failed") # {} => With("queued") = {}
  /\ status' \in Failures
  /\ status' # "failed" => With("queued") = Jobs
  /\ UNCHANGED jobStatus

SucceedRun ==
  /\ status = "running" /\ With("succeeded") = Jobs
  /\ status' = "succeeded"
  /\ UNCHANGED jobStatus

Next ==
  \/ Begin \/ FailRun \/ SucceedRun
  \/ \E j \in Jobs : StartJob(j) \/ EndJob(j) \/ SkipJob(j)

Spec == Init /\ [][Next]_vars
=============================================================================
