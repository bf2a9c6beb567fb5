------------------------ MODULE RunnerPromiseProofs ------------------------
(***************************************************************************)
(* What clients of a run see.  Runner implements PipelineRun as long as    *)
(* the log can be written and every job's exception is raised inside its   *)
(* try block; verdicts, alerts and skipped jobs need less.                 *)
(***************************************************************************)
EXTENDS RunnerProofs

USE DEF Finished

LEMMA LifecycleRun ==
  ASSUME Faults \cap {"log", "prepare"} = {}, TypeOK, Barrier, Lifecycle, RunStep
  PROVE  Lifecycle'
<1> USE DEF runVars, dataVars, dockerVars, jobVars, Goto, End, Fail
<1>1. CASE Begin
  BY <1>1 DEF Begin, Lifecycle, Barrier
<1>2. CASE ResolveDependencies
  BY <1>2 DEF ResolveDependencies, Lifecycle, Barrier
<1>3. CASE StartPulling
  BY <1>3 DEF StartPulling, Lifecycle
<1>4. CASE RejectRun
  BY <1>4 DEF RejectRun, Lifecycle
<1>5. CASE MakeDirsFails
  BY <1>5 DEF MakeDirsFails
<1>6. CASE \E p \in Packages : PullAndVerify(p)
  BY <1>6 DEF PullAndVerify, Lifecycle, Barrier
<1>7. CASE IntegrityFailure
  BY <1>7 DEF IntegrityFailure, Lifecycle
<1>8. CASE EnterGroups
  BY <1>8 DEF EnterGroups, Lifecycle
<1>9. CASE StartGroup
  <2>1. \A j \in Current : task[j] = "none" /\ jobStatus[j] \in {"queued", "skipped"}
    BY <1>9, Position DEF StartGroup, Barrier, Lifecycle
  <2>2. \A j \in Jobs : task'[j] = IF j \in Current THEN "waiting" ELSE task[j]
    BY <1>9 DEF StartGroup, Current
  <2> QED
    BY <1>9, <2>1, <2>2, Position DEF StartGroup, Lifecycle
<1>10. CASE GatherReturns
  <2>1. \A j \in Current : Finished(j)
    BY <1>10, Position DEF GatherReturns, GatherDone, Current
  <2>2. GroupFailed => FailingJobs # {}
    BY <1>10, Position DEF GroupFailed, FailingJobs, Lifecycle, Current
  <2>3. UNCHANGED <<status, jobStatus, task>> /\ pc = "gathering"
    BY <1>10 DEF GatherReturns
  <2>4. CASE pc' = "skipping" /\ group' = group /\ GroupFailed
    <3>1. Current' = Current /\ FailingJobs' = FailingJobs
      BY <2>3, <2>4 DEF Current, FailingJobs
    <3> QED
      BY <2>1, <2>2, <2>3, <2>4, <3>1 DEF Lifecycle
  <2>5. CASE pc' \in {"grouping", "publishing"}
    BY <2>3, <2>5 DEF Lifecycle
  <2> QED
    BY <1>10, <2>4, <2>5 DEF GatherReturns
<1>11. CASE \E j \in Jobs : Skip(j)
  <2> PICK j \in Jobs : Skip(j)
    BY <1>11
  <2>1. Current' = Current
    BY DEF Skip, Current
  <2>2. \A k \in Jobs : k # j => jobStatus'[k] = jobStatus[k]
    BY DEF Skip, TypeOK
  <2>3. jobStatus[j] = "queued" /\ jobStatus'[j] = "skipped"
    BY DEF Skip, TypeOK, GetRemainingJobs
  <2>4. FailingJobs' = FailingJobs
    BY <2>2, <2>3 DEF FailingJobs
  <2> QED
    BY <2>1, <2>2, <2>3, <2>4 DEF Skip, Lifecycle
<1>12. CASE FailRun
  BY <1>12 DEF FailRun, Lifecycle
<1>13. CASE \E a \in Artifacts : PublishArtifact(a)
  BY <1>13 DEF PublishArtifact, Lifecycle, Barrier
<1>14. CASE PublishFailed
  BY <1>14 DEF PublishFailed, Lifecycle
<1>15. CASE SucceedRun
  BY <1>15 DEF SucceedRun, Lifecycle
<1>16. CASE FinishRun
  BY <1>16 DEF FinishRun, Lifecycle
<1>17. CASE UnexpectedError
  BY <1>17 DEF UnexpectedError, Lifecycle
<1>18. CASE LogFails
  BY <1>18 DEF LogFails
<1> QED
  BY <1>1, <1>2, <1>3, <1>4, <1>5, <1>6, <1>7, <1>8, <1>9, <1>10, <1>11, <1>12, <1>13, <1>14,
     <1>15, <1>16, <1>17, <1>18 DEF RunStep

(* What a task's step does to the status of its job.                       *)
LEMMA JobTransition ==
  ASSUME Faults \cap {"log", "prepare"} = {}, TypeOK, Lifecycle, NEW j \in Jobs, JobStep(j)
  PROVE  /\ jobStatus' = [jobStatus EXCEPT ![j] = jobStatus'[j]]
         /\ \/ task[j] = "waiting" /\ task'[j] = "preparing" /\ jobStatus'[j] = "running"
            \/ /\ task[j] # "waiting" /\ jobStatus[j] = "running"
               /\ \/ task'[j] \in {"launched", "streaming", "oom"} /\ jobStatus'[j] = "running"
                  \/ task'[j] = "passed" /\ jobStatus'[j] = "succeeded"
                  \/ task'[j] = "raising" /\ jobStatus'[j] = "failed"
            \/ /\ jobStatus'[j] = jobStatus[j]
               /\ \/ task[j] = "passed" /\ task'[j] = "returned"
                  \/ task[j] = "raising" /\ task'[j] = "raised"
<1> USE DEF TypeOK, TaskGoto, SetJob, JobFails, dockerVars, jobVars
<1>1. CASE Acquire(j)
  BY <1>1 DEF Acquire
<1>2. CASE Escape(j)
  BY <1>2 DEF Escape
<1>3. CASE Launch(j) \/ LaunchFails(j) \/ StartFails(j)
  BY <1>3 DEF Launch, LaunchFails, StartFails, Lifecycle
<1>4. CASE StartStreaming(j)
  BY <1>4 DEF StartStreaming, Lifecycle
<1>5. CASE StreamEnds(j)
  BY <1>5 DEF StreamEnds, Lifecycle
<1>6. CASE StreamBreaks(j) \/ ReportOOM(j) \/ PassedLogFails(j)
  BY <1>6 DEF StreamBreaks, ReportOOM, PassedLogFails, Lifecycle
<1>7. CASE Cleanup(j)
  BY <1>7 DEF Cleanup
<1> QED
  BY <1>1, <1>2, <1>3, <1>4, <1>5, <1>6, <1>7 DEF JobStep

LEMMA LifecycleTask ==
  ASSUME Faults \cap {"log", "prepare"} = {}, TypeOK, Barrier, Lifecycle,
         NEW j \in Jobs, JobStep(j)
  PROVE  Lifecycle'
<1>1. pc = "gathering" /\ UNCHANGED runVars
  BY TaskFrame DEF Barrier
<1>2. \A k \in Jobs : k # j => task'[k] = task[k] /\ jobStatus'[k] = jobStatus[k]
  BY TaskFrame
<1>3. task[j] = "waiting" => jobStatus[j] = "queued"
  BY <1>1 DEF Lifecycle
<1> QED
  BY <1>1, <1>2, <1>3, JobTransition DEF Lifecycle, runVars

LEMMA LifecycleStep ==
  ASSUME Faults \cap {"log", "prepare"} = {}, TypeOK, Barrier, Lifecycle, [Next]_vars
  PROVE  Lifecycle'
<1>1. CASE UNCHANGED <<runVars, dataVars, jobVars>>
  BY <1>1 DEF Lifecycle, Current, FailingJobs, runVars, dataVars, jobVars
<1> QED
  BY <1>1, LifecycleRun, LifecycleTask
  DEF Next, Terminated, TimerStep, TimerFires, Kill, Exit, vars

(* The statuses clients see follow from where the coroutines are.          *)
THEOREM LifecycleHolds ==
  ASSUME Faults \cap {"log", "prepare"} = {}
  PROVE  Spec => []Lifecycle
<1>1. Init => Lifecycle
  BY DEF Init, Lifecycle
<1>2. TypeOK /\ Barrier /\ Lifecycle /\ [Next]_vars => Lifecycle'
  BY LifecycleStep
<1> QED
  BY <1>1, <1>2, TypeCorrect, BarrierHolds, PTL DEF Spec

-----------------------------------------------------------------------------
(* A step of execute_pipeline is a step of PipelineRun or stutters.        *)
LEMMA RunStepKeepsPromise ==
  ASSUME Faults \cap {"log", "prepare"} = {}, TypeOK, Barrier, Lifecycle, RunStep
  PROVE  [Promise!Next]_(Promise!vars)
<1> USE DEF Promise!Next, Promise!vars, Promise!With, Promise!Set, runVars, dataVars, dockerVars,
            jobVars, Goto, End, Fail
<1>1. CASE Begin
  BY <1>1 DEF Begin, Lifecycle, Promise!Begin
<1>2. CASE UNCHANGED <<status, jobStatus>>
  BY <1>2
<1>3. CASE RejectRun \/ IntegrityFailure
  <2>1. \A j \in Jobs : jobStatus[j] = "queued"
    <3>1. pc \in {"conflict", "cycle", "unresolved", "integrity"}
      BY <1>3 DEF RejectRun, IntegrityFailure
    <3> QED
      BY <3>1 DEF Lifecycle
  <2>2. status = "running" /\ UNCHANGED jobStatus
    BY <1>3 DEF RejectRun, IntegrityFailure, Lifecycle
  <2>3. status' \in {"failed", "conflict_failure", "cycle_failure", "integrity_failure"}
    BY <1>3 DEF RejectRun, IntegrityFailure
  <2>4. Promise!FailRun
    BY <2>1, <2>2, <2>3 DEF Promise!FailRun, Promise!Failures
  <2> QED
    BY <2>4
<1>4. CASE \E j \in Jobs : Skip(j)
  <2> PICK j \in Jobs : Skip(j)
    BY <1>4
  <2>1. status = "running" /\ UNCHANGED status /\ jobStatus[j] = "queued"
    BY DEF Skip, Lifecycle, GetRemainingJobs
  <2>2. \A k \in Jobs : jobStatus[k] # "running"
    BY DEF Skip, Lifecycle, Barrier, TypeOK, TaskState, ActiveTask
  <2>3. \E k \in Jobs : jobStatus[k] = "failed"
    BY DEF Skip, Lifecycle, FailingJobs
  <2>4. Promise!SkipJob(j)
    BY <2>1, <2>2, <2>3 DEF Skip, Promise!SkipJob
  <2> QED
    BY <2>4
<1>5. CASE FailRun \/ PublishFailed \/ UnexpectedError
  <2>1. status = "running" /\ status' = "failed" /\ UNCHANGED jobStatus
    BY <1>5 DEF FailRun, PublishFailed, UnexpectedError, Lifecycle
  <2>2. pc \in {"skipping", "unpublished", "handler"}
    BY <1>5 DEF FailRun, PublishFailed, UnexpectedError
  <2>3. \A k \in Jobs : jobStatus[k] # "running"
    BY <2>2 DEF Lifecycle, Barrier, TypeOK, TaskState, ActiveTask
  <2>4. (\E k \in Jobs : jobStatus[k] = "failed") => \A k \in Jobs : jobStatus[k] # "queued"
    <3>1. CASE FailRun
      <4>1. \A k \in Jobs : task[k] \in {"returned", "raised"} => jobStatus[k] # "queued"
        BY DEF Lifecycle, Barrier
      <4>2. \A k \in Current : jobStatus[k] # "queued"
        BY <3>1, <4>1, Position DEF FailRun, Lifecycle
      <4> QED
        BY <3>1, <4>2 DEF FailRun, GetRemainingJobs, Current
    <3>2. CASE pc = "unpublished"
      BY <3>2 DEF Lifecycle, Barrier
    <3>3. CASE pc = "handler"
      BY <3>3 DEF Lifecycle
    <3> QED
      BY <1>5, <3>1, <3>2, <3>3 DEF PublishFailed, UnexpectedError
  <2>5. Promise!FailRun
    BY <2>1, <2>3, <2>4 DEF Promise!FailRun, Promise!Failures
  <2> QED
    BY <2>5
<1>6. CASE SucceedRun
  <2>1. Promise!SucceedRun
    BY <1>6 DEF SucceedRun, Lifecycle, Barrier, Promise!SucceedRun
  <2> QED
    BY <2>1
<1>7. CASE FinishRun
  BY <1>7 DEF FinishRun, Barrier
<1> QED
  BY <1>1, <1>2, <1>3, <1>4, <1>5, <1>6, <1>7
  DEF RunStep, ResolveDependencies, StartPulling, MakeDirsFails, PullAndVerify, EnterGroups,
      StartGroup, GatherReturns, PublishArtifact, LogFails

(* So is a step of a job's task.                                           *)
LEMMA TaskKeepsPromise ==
  ASSUME Faults \cap {"log", "prepare"} = {}, TypeOK, Barrier, Lifecycle,
         NEW j \in Jobs, JobStep(j)
  PROVE  [Promise!Next]_(Promise!vars)
<1>1. pc = "gathering" /\ status = "running" /\ UNCHANGED status
  BY TaskFrame DEF Barrier, Lifecycle, runVars
<1>2. jobStatus' = [jobStatus EXCEPT ![j] = jobStatus'[j]]
  BY JobTransition
<1>3. CASE task[j] = "waiting" /\ task'[j] = "preparing" /\ jobStatus'[j] = "running"
  <2>1. jobStatus[j] = "queued" /\ \A k \in Jobs : jobStatus[k] # "skipped"
    BY <1>1, <1>3 DEF Lifecycle
  <2>2. Needs[j] \subseteq Past
    BY <1>3, Position DEF Barrier
  <2>3. \A n \in Needs[j] : jobStatus[n] = "succeeded"
    BY <2>2, Position DEF Barrier
  <2>4. Promise!StartJob(j)
    BY <1>1, <1>2, <1>3, <2>1, <2>3 DEF Promise!StartJob, Promise!With, Promise!Set
  <2> QED
    BY <2>4 DEF Promise!Next
<1>4. CASE jobStatus[j] = "running" /\ jobStatus'[j] \in {"succeeded", "failed"}
  <2>1. Promise!EndJob(j)
    BY <1>1, <1>2, <1>4 DEF Promise!EndJob, Promise!Set
  <2> QED
    BY <2>1 DEF Promise!Next
<1>5. CASE jobStatus'[j] = jobStatus[j]
  <2>1. UNCHANGED jobStatus
    BY <1>2, <1>5 DEF TypeOK
  <2> QED
    BY <1>1, <2>1 DEF Promise!vars
<1> QED
  BY <1>3, <1>4, <1>5, JobTransition

(* The runner implements the promise of PipelineRun.                       *)
THEOREM PromiseKept ==
  ASSUME Faults \cap {"log", "prepare"} = {}
  PROVE  Spec => ImplementsPipelineRun
<1>1. Init => Promise!Init
  BY DEF Init, Promise!Init
<1>2. TypeOK /\ Barrier /\ Lifecycle /\ [Next]_vars => [Promise!Next]_(Promise!vars)
  <2> SUFFICES ASSUME TypeOK, Barrier, Lifecycle, [Next]_vars
               PROVE  [Promise!Next]_(Promise!vars)
    OBVIOUS
  <2>1. CASE UNCHANGED <<status, jobStatus>>
    BY <2>1 DEF Promise!vars
  <2> QED
    BY <2>1, RunStepKeepsPromise, TaskKeepsPromise
    DEF Next, Terminated, TimerStep, TimerFires, Kill, Exit, vars, runVars, jobVars
<1> QED
  BY <1>1, <1>2, TypeCorrect, BarrierHolds, LifecycleHolds, PTL
  DEF Spec, ImplementsPipelineRun, Promise!Spec

-----------------------------------------------------------------------------
(* What clients and alerts are told.  Without assumptions on Faults: jobs  *)
(* are skipped behind a group that broke, and have not been touched.       *)

Broken == \E k \in Current : task[k] = "raised"

SkipInv ==
  /\ \A j \in Jobs : task[j] \in {"none", "waiting"} => container[j] = "none"
  /\ pc = "skipping" => Broken
  /\ \A j \in Jobs : jobStatus[j] = "skipped" =>
       pc \in {"skipping", "handler", "done", "dead"} /\ task[j] = "none" /\ Broken

LEMMA SkipRun == ASSUME TypeOK, Barrier, SkipInv, RunStep PROVE SkipInv'
<1> USE DEF runVars, dataVars, dockerVars, jobVars, Goto, End, Fail
<1>1. CASE StartGroup
  <2>1. \A j \in Jobs : task'[j] = IF j \in Current THEN "waiting" ELSE task[j]
    BY <1>1 DEF StartGroup, Current
  <2>2. \A j \in Current : task[j] = "none"
    BY <1>1 DEF StartGroup, Barrier
  <2>3. pc = "grouping" /\ pc' = "gathering" /\ UNCHANGED <<container, jobStatus>>
    BY <1>1 DEF StartGroup
  <2> QED  BY <2>1, <2>2, <2>3 DEF SkipInv
<1>2. CASE GatherReturns
  <2>1. pc = "gathering" /\ UNCHANGED <<task, container, jobStatus>>
    BY <1>2 DEF GatherReturns
  <2>2. CASE GroupFailed /\ pc' = "skipping" /\ group' = group
    <3>1. PICK k \in Current : task[k] = "raised" \/ jobStatus[k] = "failed"
      BY <2>2 DEF GroupFailed, Current
    <3>2. task[k] \in {"returned", "raised"}
      BY <1>2 DEF GatherReturns, GatherDone, Current
    <3>3. k \in Jobs
      BY Position
    <3>4. task[k] = "raised"
      BY <3>1, <3>2, <3>3 DEF Barrier
    <3> QED  BY <2>1, <2>2, <3>4 DEF SkipInv, Broken, Current
  <2>3. CASE pc' \in {"grouping", "publishing"}
    BY <2>1, <2>3 DEF SkipInv
  <2> QED  BY <1>2, <2>2, <2>3 DEF GatherReturns
<1>3. CASE \E j \in Jobs : Skip(j)
  <2> PICK j \in Jobs : Skip(j)
    BY <1>3
  <2>1. /\ pc = "skipping" /\ pc' = pc /\ UNCHANGED <<task, container, group>>
        /\ jobStatus[j] = "queued" /\ j \notin Current
        /\ jobStatus' = [jobStatus EXCEPT ![j] = "skipped"]
    BY DEF Skip, GetRemainingJobs, Current
  <2>2. task[j] = "none"
    <3>1. task[j] # "returned"
      BY <2>1 DEF Barrier
    <3> QED  BY <2>1, <3>1 DEF Barrier
  <2>3. Broken /\ Broken'
    BY <2>1 DEF SkipInv, Broken, Current
  <2> QED  BY <2>1, <2>2, <2>3 DEF SkipInv, TypeOK
<1>4. CASE /\ UNCHANGED <<task, container, jobStatus, group>>
           /\ pc \in {"skipping", "handler", "done", "dead"} => pc' \in {"skipping", "handler", "done", "dead"}
           /\ pc' # "skipping"
  BY <1>4 DEF SkipInv, Broken, Current
<1>5. CASE Begin \/ ResolveDependencies \/ StartPulling \/ RejectRun \/ MakeDirsFails
  BY <1>4, <1>5 DEF Begin, ResolveDependencies, StartPulling, RejectRun, MakeDirsFails
<1>6. CASE \E p \in Packages : PullAndVerify(p)
  BY <1>4, <1>6 DEF PullAndVerify
<1>7. CASE IntegrityFailure \/ EnterGroups \/ FailRun \/ PublishFailed
  BY <1>4, <1>7 DEF IntegrityFailure, EnterGroups, FailRun, PublishFailed
<1>8. CASE \E a \in Artifacts : PublishArtifact(a)
  BY <1>4, <1>8 DEF PublishArtifact
<1>9. CASE SucceedRun \/ FinishRun \/ UnexpectedError
  BY <1>4, <1>9 DEF SucceedRun, FinishRun, UnexpectedError
<1>10. CASE LogFails
  BY <1>4, <1>10 DEF LogFails, Unhandled, Handled, Rejections
<1> QED
  BY <1>1, <1>2, <1>3, <1>5, <1>6, <1>7, <1>8, <1>9, <1>10 DEF RunStep

LEMMA SkipTask ==
  ASSUME TypeOK, Barrier, SkipInv, NEW j \in Jobs, JobStep(j)
  PROVE  SkipInv'
<1>1. /\ pc = "gathering" /\ pc' = pc
      /\ \A k \in Jobs \ {j} : /\ task'[k] = task[k] /\ jobStatus'[k] = jobStatus[k]
                               /\ container'[k] = container[k]
      /\ task'[j] \notin {"none", "waiting"}
  BY TaskFrame DEF Barrier, runVars
<1>2. jobStatus'[j] # "skipped"
  <2>1. jobStatus[j] # "skipped"
    BY <1>1 DEF SkipInv
  <2> USE DEF TypeOK, SetJob, JobFails, jobVars, dockerVars
  <2>2. CASE Acquire(j) \/ Escape(j) \/ Launch(j) \/ LaunchFails(j) \/ StartFails(j)
    BY <2>1, <2>2 DEF Acquire, Escape, Launch, LaunchFails, StartFails
  <2>3. CASE StartStreaming(j) \/ StreamEnds(j) \/ StreamBreaks(j) \/ ReportOOM(j)
             \/ PassedLogFails(j) \/ Cleanup(j)
    BY <2>1, <2>3 DEF StartStreaming, StreamEnds, StreamBreaks, ReportOOM, PassedLogFails, Cleanup
  <2> QED  BY <2>2, <2>3 DEF JobStep
<1> QED  BY <1>1, <1>2 DEF SkipInv

LEMMA SkipStep == ASSUME TypeOK, Barrier, SkipInv, [Next]_vars PROVE SkipInv'
<1>1. ASSUME NEW j \in Jobs, TimerStep(j) \/ Exit(j) PROVE SkipInv'
  <2>1. UNCHANGED <<runVars, dataVars, jobVars>>
    BY <1>1 DEF TimerStep, TimerFires, Kill, Exit
  <2>2. \A k \in Jobs : container[k] = "none" => container'[k] = "none"
    BY <1>1 DEF TimerStep, TimerFires, Kill, Killed, Exit, TypeOK
  <2> QED  BY <2>1, <2>2 DEF SkipInv, Broken, Current, runVars, dataVars, jobVars
<1>2. CASE UNCHANGED vars
  BY <1>2 DEF SkipInv, Broken, Current, vars, runVars, dataVars, dockerVars, jobVars
<1> QED  BY <1>1, <1>2, SkipRun, SkipTask DEF Next, Terminated

(* With every fault, jobs are skipped only behind a group that broke       *)
(* (runner.py:98-111), and a skipped job has no task.                      *)
THEOREM SkipInvHolds == Spec => []SkipInv
<1>1. Init => SkipInv
  BY DEF Init, SkipInv
<1>2. TypeOK /\ Barrier /\ SkipInv /\ [Next]_vars => SkipInv'
  BY SkipStep
<1> QED  BY <1>1, <1>2, TypeCorrect, BarrierHolds, PTL DEF Spec

(* A skipped job has never had a task or a container, and a job of the     *)
(* group before it broke.                                                  *)
THEOREM SkippedNeverRanHolds == Spec => []SkippedNeverRan
<1>1. TypeOK /\ SkipInv => SkippedNeverRan
  BY Position DEF SkipInv, SkippedNeverRan, Broken, Current
<1> QED  BY <1>1, TypeCorrect, SkipInvHolds, PTL

-----------------------------------------------------------------------------
(* Alerts of an outcome are created with the run's last step.              *)

AlertInv ==
  /\ "succeeded" \in alerts => pc = "done" /\ status = "succeeded"
  /\ "failed" \in alerts => pc = "done" /\ status = "failed"
  /\ "integrity" \in alerts => pc = "done" /\ status = "integrity_failure"
  /\ blamed \in Jobs => pc = "done" /\ jobStatus[blamed] = "failed"

LEMMA AlertStep ==
  ASSUME Jobs \cap {"nobody", "artifact-publish", "exception"} = {},
         TypeOK, Barrier, AlertInv, [Next]_vars
  PROVE  AlertInv'
<1> USE DEF runVars, dataVars, dockerVars, jobVars, Goto, End, Fail
<1>1. CASE Begin \/ RejectRun \/ IntegrityFailure
  BY <1>1 DEF Begin, RejectRun, IntegrityFailure, AlertInv
<1>2. CASE FailRun
  BY <1>2 DEF FailRun, FailingJobs, AlertInv
<1>3. CASE PublishFailed \/ UnexpectedError
  BY <1>3 DEF PublishFailed, UnexpectedError, AlertInv
<1>4. CASE SucceedRun
  BY <1>4 DEF SucceedRun, AlertInv
<1>5. CASE FinishRun
  BY <1>5 DEF FinishRun, AlertInv, Barrier
<1>6. CASE pc # "done" /\ UNCHANGED <<alerts, blamed>>
  BY <1>6 DEF AlertInv
<1>7. CASE UNCHANGED <<status, pc, alerts, blamed, jobStatus>>
  BY <1>7 DEF AlertInv
<1>8. CASE ResolveDependencies \/ StartPulling \/ MakeDirsFails
  BY <1>6, <1>8 DEF ResolveDependencies, StartPulling, MakeDirsFails
<1>9. CASE \E p \in Packages : PullAndVerify(p)
  BY <1>6, <1>9 DEF PullAndVerify
<1>10. CASE EnterGroups \/ StartGroup \/ GatherReturns
  BY <1>6, <1>10 DEF EnterGroups, StartGroup, GatherReturns
<1>11. CASE \E j \in Jobs : Skip(j)
  BY <1>6, <1>11 DEF Skip
<1>12. CASE \E a \in Artifacts : PublishArtifact(a)
  BY <1>6, <1>12 DEF PublishArtifact
<1>13. CASE LogFails
  BY <1>6, <1>13 DEF LogFails, Unhandled, Handled, Rejections
<1>14. CASE RunStep
  BY <1>1, <1>2, <1>3, <1>4, <1>5, <1>8, <1>9, <1>10, <1>11, <1>12, <1>13, <1>14 DEF RunStep
<1>15. ASSUME NEW j \in Jobs, JobStep(j) PROVE AlertInv'
  <2>1. pc = "gathering" /\ UNCHANGED <<alerts, blamed>>
    BY <1>15, TaskFrame DEF Barrier
  <2> QED  BY <1>6, <2>1
<1>16. CASE \E j \in Jobs : TimerStep(j) \/ Exit(j)
  BY <1>7, <1>16 DEF TimerStep, TimerFires, Kill, Exit
<1> QED  BY <1>7, <1>14, <1>15, <1>16 DEF Next, Terminated, vars

(* No alert speaks of an outcome the run does not have, and none blames a  *)
(* job that did not fail, unless a job has the name of a placeholder.      *)
THEOREM AlertsTruthfulHolds ==
  ASSUME Jobs \cap {"nobody", "artifact-publish", "exception"} = {}
  PROVE  Spec => []AlertsTruthful
<1>1. Init => AlertInv
  BY DEF Init, AlertInv
<1>2. TypeOK /\ Barrier /\ AlertInv /\ [Next]_vars => AlertInv'
  BY AlertStep
<1>3. AlertInv => AlertsTruthful
  BY DEF AlertInv, AlertsTruthful
<1> QED  BY <1>1, <1>2, <1>3, TypeCorrect, BarrierHolds, PTL DEF Spec

-----------------------------------------------------------------------------
(* A run has its verdict on its last two steps only, and a task that may   *)
(* still fail its job has a job without one.                               *)

VerdictInv ==
  /\ status \in Terminal => pc \in {"succeeding", "done"}
  /\ \A j \in Jobs : task[j] \in {"preparing", "launched", "streaming", "oom"} =>
       jobStatus[j] = "running"

LEMMA VerdictRun ==
  ASSUME "log" \notin Faults, TypeOK, Barrier, VerdictInv, RunStep
  PROVE  /\ VerdictInv'
         /\ status \in Terminal => status' = status
         /\ \A j \in Jobs : jobStatus[j] \in Settled => jobStatus'[j] = jobStatus[j]
<1> USE DEF runVars, dataVars, dockerVars, jobVars, Goto, End, Fail, VerdictInv, Terminal
<1>1. CASE Begin \/ ResolveDependencies \/ StartPulling \/ RejectRun \/ MakeDirsFails
  BY <1>1 DEF Begin, ResolveDependencies, StartPulling, RejectRun, MakeDirsFails
<1>2. CASE \E p \in Packages : PullAndVerify(p)
  BY <1>2 DEF PullAndVerify
<1>3. CASE IntegrityFailure \/ EnterGroups \/ FailRun \/ PublishFailed
  BY <1>3 DEF IntegrityFailure, EnterGroups, FailRun, PublishFailed
<1>4. CASE StartGroup
  <2>1. \A j \in Jobs : task'[j] = "waiting" \/ task'[j] = task[j]
    BY <1>4 DEF StartGroup
  <2> QED  BY <1>4, <2>1 DEF StartGroup
<1>5. CASE GatherReturns
  BY <1>5 DEF GatherReturns
<1>6. CASE \E j \in Jobs : Skip(j)
  <2> PICK j \in Jobs : Skip(j)
    BY <1>6
  <2>1. /\ pc = "skipping" /\ UNCHANGED <<pc, status, task>> /\ jobStatus[j] = "queued"
        /\ jobStatus' = [jobStatus EXCEPT ![j] = "skipped"]
    BY DEF Skip, GetRemainingJobs
  <2>2. task[j] \notin {"preparing", "launched", "streaming", "oom"}
    BY <2>1
  <2> QED  BY <2>1, <2>2 DEF TypeOK, Settled
<1>7. CASE \E a \in Artifacts : PublishArtifact(a)
  BY <1>7 DEF PublishArtifact
<1>8. CASE SucceedRun \/ UnexpectedError
  BY <1>8 DEF SucceedRun, UnexpectedError
<1>9. CASE FinishRun
  BY <1>9 DEF FinishRun, Barrier
<1> QED
  BY <1>1, <1>2, <1>3, <1>4, <1>5, <1>6, <1>7, <1>8, <1>9 DEF RunStep, LogFails

LEMMA VerdictTask ==
  ASSUME "log" \notin Faults, TypeOK, Barrier, SkipInv, VerdictInv, NEW j \in Jobs, JobStep(j)
  PROVE  /\ VerdictInv'
         /\ \A k \in Jobs : jobStatus[k] \in Settled => jobStatus'[k] = jobStatus[k]
<1>1. /\ UNCHANGED runVars
      /\ \A k \in Jobs \ {j} : task'[k] = task[k] /\ jobStatus'[k] = jobStatus[k]
  BY TaskFrame
<1>2. /\ task'[j] \in {"preparing", "launched", "streaming", "oom"} => jobStatus'[j] = "running"
      /\ jobStatus[j] \in Settled => jobStatus'[j] = jobStatus[j]
  <2> USE DEF TypeOK, TaskGoto, SetJob, JobFails, jobVars, dockerVars, VerdictInv, Settled
  <2>1. CASE Acquire(j)
    BY <2>1 DEF Acquire, Barrier, SkipInv
  <2>2. CASE Escape(j)
    BY <2>2 DEF Escape
  <2>3. CASE Launch(j) \/ LaunchFails(j) \/ StartFails(j)
    BY <2>3 DEF Launch, LaunchFails, StartFails
  <2>4. CASE StartStreaming(j)
    BY <2>4 DEF StartStreaming
  <2>5. CASE StreamEnds(j)
    BY <2>5 DEF StreamEnds
  <2>6. CASE StreamBreaks(j) \/ ReportOOM(j)
    BY <2>6 DEF StreamBreaks, ReportOOM
  <2>7. CASE Cleanup(j)
    BY <2>7 DEF Cleanup
  <2> QED  BY <2>1, <2>2, <2>3, <2>4, <2>5, <2>6, <2>7 DEF JobStep, PassedLogFails
<1> QED  BY <1>1, <1>2 DEF VerdictInv, runVars

(* While the log can be written, no verdict is taken back.                 *)
THEOREM VerdictsAreFinalHolds ==
  ASSUME "log" \notin Faults
  PROVE  Spec => VerdictsAreFinal
<1> DEFINE Keeps == /\ status \in Terminal => status' = status
                    /\ \A j \in Jobs : jobStatus[j] \in Settled => jobStatus'[j] = jobStatus[j]
<1>1. Init => VerdictInv
  BY DEF Init, VerdictInv, Terminal
<1>2. TypeOK /\ Barrier /\ SkipInv /\ VerdictInv /\ [Next]_vars => VerdictInv' /\ [Keeps]_vars
  <2> SUFFICES ASSUME TypeOK, Barrier, SkipInv, VerdictInv, [Next]_vars
               PROVE  VerdictInv' /\ Keeps
    OBVIOUS
  <2>1. CASE RunStep
    BY <2>1, VerdictRun
  <2>2. ASSUME NEW j \in Jobs, JobStep(j) PROVE VerdictInv' /\ Keeps
    BY <2>2, VerdictTask, TaskFrame DEF runVars
  <2>3. CASE UNCHANGED <<runVars, jobVars>>
    BY <2>3 DEF VerdictInv, runVars, jobVars
  <2> QED
    BY <2>1, <2>2, <2>3 DEF Next, Terminated, TimerStep, TimerFires, Kill, Exit, vars
<1> QED
  BY <1>1, <1>2, TypeCorrect, BarrierHolds, SkipInvHolds, PTL DEF Spec, VerdictsAreFinal
=============================================================================
