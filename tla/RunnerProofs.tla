---------------------------- MODULE RunnerProofs ----------------------------
(***************************************************************************)
(* Proofs about Runner, for every set of jobs, every layering of them,     *)
(* every concurrency limit and, unless a theorem says otherwise, every set *)
(* of faults.                                                              *)
(***************************************************************************)
EXTENDS Runner, TLAPS, FiniteSetTheorems

USE DEF Finished, HoldsSlot

(* There is at least one group, and groups are sets of jobs.               *)
LEMMA GroupsNonEmpty == Len(Groups) \in Nat \ {0} /\ \A i \in 1 .. Len(Groups) : Groups[i] \subseteq Jobs
<1>1. Groups \in Seq(SUBSET Jobs)
  BY GroupsAssumption DEF IsLayering
<1>2. PICK j \in Jobs : TRUE
  BY JobsAssumption
<1>3. PICK i \in 1 .. Len(Groups) : j \in Groups[i]
  BY <1>2, GroupsAssumption DEF IsLayering
<1>4. Len(Groups) \in Nat
  BY <1>1
<1>5. Len(Groups) # 0
  BY <1>3, <1>4
<1>6. \A k \in 1 .. Len(Groups) : Groups[k] \subseteq Jobs
  BY <1>1
<1> QED
  BY <1>4, <1>5, <1>6

-----------------------------------------------------------------------------
(* Every step of execute_pipeline keeps the types.                         *)
LEMMA RunStepTypeOK == TypeOK /\ RunStep => TypeOK'
<1> SUFFICES ASSUME TypeOK, RunStep PROVE TypeOK'
  OBVIOUS
<1> USE DEF TypeOK, runVars, dataVars, dockerVars, jobVars, Goto, End, RunStatus, Terminal, PC,
            Rejections, Blame
<1>1. CASE Begin
  BY <1>1 DEF Begin
<1>2. CASE ResolveDependencies
  BY <1>2 DEF ResolveDependencies
<1>3. CASE StartPulling
  BY <1>3 DEF StartPulling
<1>4. CASE RejectRun
  BY <1>4 DEF RejectRun
<1>5. CASE MakeDirsFails
  BY <1>5 DEF MakeDirsFails
<1>6. CASE \E p \in Packages : PullAndVerify(p)
  BY <1>6 DEF PullAndVerify
<1>7. CASE IntegrityFailure
  BY <1>7 DEF IntegrityFailure
<1>8. CASE EnterGroups
  BY <1>8 DEF EnterGroups
<1>9. CASE StartGroup
  BY <1>9 DEF StartGroup, TaskState
<1>10. CASE GatherReturns
  <2>1. group' \in 1 .. Len(Groups)
    BY <1>10, GroupsNonEmpty DEF GatherReturns, MoreGroups
  <2> QED
    BY <1>10, <2>1 DEF GatherReturns
<1>11. CASE \E j \in Jobs : Skip(j)
  BY <1>11 DEF Skip, JobStatus
<1>12. CASE FailRun
  BY <1>12 DEF FailRun, Fail, FailingJobs
<1>13. CASE \E a \in Artifacts : PublishArtifact(a)
  BY <1>13 DEF PublishArtifact
<1>14. CASE PublishFailed
  BY <1>14 DEF PublishFailed, Fail
<1>15. CASE SucceedRun
  BY <1>15 DEF SucceedRun
<1>16. CASE FinishRun
  BY <1>16 DEF FinishRun
<1>17. CASE UnexpectedError
  BY <1>17 DEF UnexpectedError, Fail
<1>18. CASE LogFails
  BY <1>18 DEF LogFails
<1> QED
  BY <1>1, <1>2, <1>3, <1>4, <1>5, <1>6, <1>7, <1>8, <1>9, <1>10, <1>11, <1>12, <1>13, <1>14,
     <1>15, <1>16, <1>17, <1>18 DEF RunStep

(* So does every step of run_job, of its timeout and of its container.     *)
LEMMA JobTypeOK ==
  ASSUME TypeOK, NEW j \in Jobs, JobStep(j) \/ TimerStep(j) \/ Exit(j)
  PROVE  TypeOK'
<1> USE DEF TypeOK, runVars, dataVars, dockerVars, jobVars, TaskGoto, SetJob, JobFails,
            CancelTimer, TaskState, ActiveTask, JobStatus, Container, Exited, Network, Timer
<1>1. CASE Acquire(j)
  BY <1>1 DEF Acquire
<1>2. CASE Escape(j)
  BY <1>2 DEF Escape
<1>3. CASE Launch(j)
  BY <1>3 DEF Launch
<1>4. CASE LaunchFails(j)
  BY <1>4 DEF LaunchFails
<1>5. CASE StartFails(j)
  BY <1>5 DEF StartFails
<1>6. CASE StartStreaming(j)
  BY <1>6 DEF StartStreaming
<1>7. CASE StreamEnds(j)
  BY <1>7 DEF StreamEnds
<1>8. CASE StreamBreaks(j)
  BY <1>8 DEF StreamBreaks
<1>9. CASE ReportOOM(j)
  BY <1>9 DEF ReportOOM
<1>10. CASE PassedLogFails(j)
  BY <1>10 DEF PassedLogFails
<1>11. CASE Cleanup(j)
  BY <1>11 DEF Cleanup, AfterRemove, AfterDisconnect
<1>12. CASE TimerFires(j)
  BY <1>12 DEF TimerFires
<1>13. CASE Kill(j)
  BY <1>13 DEF Kill, Killed
<1>14. CASE Exit(j)
  BY <1>14 DEF Exit
<1> QED
  BY <1>1, <1>2, <1>3, <1>4, <1>5, <1>6, <1>7, <1>8, <1>9, <1>10, <1>11, <1>12, <1>13, <1>14
  DEF JobStep, TimerStep

(* Type correctness of the runner.                                         *)
THEOREM TypeCorrect == Spec => []TypeOK
<1>1. Init => TypeOK
  BY GroupsNonEmpty DEF Init, TypeOK, RunStatus, PC, Blame, JobStatus, TaskState, Container,
     Network, Timer
<1>2. TypeOK /\ [Next]_vars => TypeOK'
  <2> SUFFICES ASSUME TypeOK, [Next]_vars PROVE TypeOK'
    OBVIOUS
  <2>1. CASE RunStep
    BY <2>1, RunStepTypeOK
  <2>2. CASE \E j \in Jobs : JobStep(j) \/ TimerStep(j) \/ Exit(j)
    BY <2>2, JobTypeOK
  <2>3. CASE UNCHANGED vars
    BY <2>3 DEF TypeOK, vars, runVars, dataVars, dockerVars, jobVars
  <2> QED
    BY <2>1, <2>2, <2>3 DEF Next, Terminated
<1> QED
  BY <1>1, <1>2, PTL DEF Spec

-----------------------------------------------------------------------------
(* Facts about the layering the scheduler hands over.                      *)

LEMMA BeforeNext ==
  ASSUME NEW i \in 1 .. Len(Groups)
  PROVE  Before(Groups, i + 1) = Before(Groups, i) \cup Groups[i]
<1>1. 1 .. ((i + 1) - 1) = (1 .. (i - 1)) \cup {i}
  BY GroupsNonEmpty
<1> QED
  BY <1>1 DEF Before

LEMMA BeforeDisjoint ==
  ASSUME NEW i \in 1 .. Len(Groups)
  PROVE  Before(Groups, i) \cap Groups[i] = {} /\ Before(Groups, i) \subseteq Jobs
<1>1. \A k \in 1 .. (i - 1) : k \in 1 .. Len(Groups) /\ k # i
  BY GroupsNonEmpty
<1> QED
  BY <1>1, GroupsAssumption, GroupsNonEmpty DEF Before, IsLayering

LEMMA NeedsBefore ==
  ASSUME NEW i \in 1 .. Len(Groups), NEW j \in Before(Groups, i) \cup Groups[i]
  PROVE  Needs[j] \subseteq Before(Groups, i)
<1>1. CASE j \in Groups[i]
  BY <1>1, GroupsAssumption DEF IsLayering
<1>2. CASE j \in Before(Groups, i)
  <2>1. PICK k \in 1 .. (i - 1) : j \in Groups[k]
    BY <1>2 DEF Before
  <2>2. k \in 1 .. Len(Groups) /\ \A m \in 1 .. (k - 1) : m \in 1 .. (i - 1)
    BY GroupsNonEmpty
  <2>3. Needs[j] \subseteq Before(Groups, k)
    BY <2>1, <2>2, GroupsAssumption DEF IsLayering
  <2> QED
    BY <2>2, <2>3 DEF Before
<1> QED
  BY <1>1, <1>2

LEMMA LastGroup == Before(Groups, Len(Groups)) \cup Groups[Len(Groups)] = Jobs
<1>1. \A i \in 1 .. Len(Groups) : i = Len(Groups) \/ i \in 1 .. (Len(Groups) - 1)
  BY GroupsNonEmpty
<1>2. Len(Groups) \in 1 .. Len(Groups)
  BY GroupsNonEmpty
<1> QED
  BY <1>1, <1>2, GroupsAssumption, GroupsNonEmpty, BeforeDisjoint DEF Before, IsLayering

(* The same facts about the group loop's present position.                 *)
LEMMA Position ==
  ASSUME TypeOK
  PROVE  /\ Past \subseteq Jobs /\ Current \subseteq Jobs /\ Past \cap Current = {}
         /\ \A j \in Past \cup Current : Needs[j] \subseteq Past
<1>1. group \in 1 .. Len(Groups)
  BY DEF TypeOK
<1>2. Current \subseteq Jobs
  BY <1>1, GroupsNonEmpty DEF Current
<1>3. Past \subseteq Jobs /\ Past \cap Current = {}
  BY <1>1, BeforeDisjoint DEF Past, Current
<1>4. \A j \in Past \cup Current : Needs[j] \subseteq Past
  BY <1>1, NeedsBefore DEF Past, Current
<1> QED
  BY <1>2, <1>3, <1>4

-----------------------------------------------------------------------------
(* The barrier invariant.                                                  *)

LEMMA BarrierInit == Init => Barrier
<1> SUFFICES ASSUME Init PROVE Barrier
  OBVIOUS
<1>1. Past = {}
  BY DEF Init, Past, Before
<1> QED
  BY <1>1, GroupsNonEmpty DEF Init, Barrier, ActiveTask, Current

(* The group loop moves on only when every task of the group returned.     *)
LEMMA BarrierGather == TypeOK /\ Barrier /\ GatherReturns => Barrier'
<1> SUFFICES ASSUME TypeOK, Barrier, GatherReturns PROVE Barrier'
  OBVIOUS
<1> USE DEF GatherReturns, runVars, dataVars, dockerVars, jobVars, Goto
<1>1. CASE GroupFailed /\ Goto("skipping") /\ UNCHANGED group
  <2>1. Past' = Past /\ Current' = Current
    BY <1>1 DEF Past, Current
  <2>2. \A j \in Jobs : task[j] \notin ActiveTask \cup {"waiting"}
    BY Position DEF Barrier, GatherDone, Current, ActiveTask
  <2> QED
    BY <1>1, <2>1, <2>2 DEF Barrier
<1>2. ASSUME ~ GroupFailed PROVE \A j \in Current : task[j] = "returned" /\ jobStatus[j] = "succeeded"
  BY <1>2, Position DEF Barrier, GroupFailed, GatherDone, Current
<1>3. CASE ~ GroupFailed /\ MoreGroups /\ Goto("grouping") /\ group' = group + 1
  <2>1. group \in 1 .. Len(Groups) /\ group + 1 \in 1 .. Len(Groups)
    BY <1>3, GroupsNonEmpty DEF TypeOK, MoreGroups
  <2>2. Past' = Past \cup Current
    BY <1>3, <2>1, BeforeNext DEF Past, Current
  <2>3. Past' \cap Current' = {} /\ Current' \subseteq Jobs
    BY <1>3, <2>1, BeforeDisjoint, GroupsNonEmpty DEF Past, Current
  <2>4. \A j \in Jobs : task[j] \notin ActiveTask \cup {"waiting"}
    BY <1>2, <1>3, Position DEF Barrier, ActiveTask
  <2>5. \A j \in Past' : task[j] = "returned"
    BY <1>2, <1>3, <2>2 DEF Barrier
  <2>6. \A j \in Current' : task[j] = "none"
    BY <2>2, <2>3 DEF Barrier
  <2>7. status # "succeeded" /\ pulled = Packages
    BY DEF Barrier
  <2>8. UNCHANGED <<status, task, jobStatus, pulled>> /\ pc' = "grouping"
    BY <1>3
  <2> QED
    BY <2>2, <2>4, <2>5, <2>6, <2>7, <2>8 DEF Barrier
<1>4. CASE ~ GroupFailed /\ ~ MoreGroups /\ Goto("publishing") /\ UNCHANGED group
  <2>1. Past' = Past /\ Current' = Current
    BY <1>4 DEF Past, Current
  <2>2. Past \cup Current = Jobs
    BY <1>4, LastGroup, GroupsNonEmpty DEF Past, Current, MoreGroups, TypeOK
  <2>3. \A j \in Jobs : task[j] = "returned"
    BY <1>2, <1>4, <2>2 DEF Barrier
  <2>4. status # "succeeded" /\ pulled = Packages
    BY DEF Barrier
  <2>5. \A j \in Jobs : jobStatus[j] = "succeeded"
    BY <2>3 DEF Barrier
  <2>6. UNCHANGED <<status, task, jobStatus, pulled>> /\ pc' = "publishing"
    BY <1>4
  <2> QED
    BY <2>1, <2>2, <2>3, <2>4, <2>5, <2>6, Position DEF Barrier, ActiveTask
<1> QED
  BY <1>1, <1>3, <1>4

(* Steps of execute_pipeline that leave the jobs and the position alone.   *)
LEMMA BarrierQuiet ==
  ASSUME TypeOK, Barrier, UNCHANGED <<group, jobVars>>,
         pc' \notin {"grouping", "gathering", "publishing", "succeeding"},
         pc \in {"created", "resolving", "resolved", "pulling"}
            \/ pc' \notin {"created", "resolving", "resolved", "pulling"},
         pc # "gathering",
         status' = "succeeded" =>
           /\ status = "succeeded" \/ pc \in {"publishing", "succeeding"}
           /\ published' = Artifacts /\ pc' \in {"succeeding", "handler", "done", "dead"},
         pulled' = pulled \/ pc = "pulling"
  PROVE  Barrier'
<1>1. Past' = Past /\ Current' = Current
  BY DEF Past, Current
<1> QED
  BY <1>1, Position DEF Barrier, jobVars, ActiveTask

LEMMA BarrierRunStep == TypeOK /\ Barrier /\ RunStep => Barrier'
<1> SUFFICES ASSUME TypeOK, Barrier, RunStep PROVE Barrier'
  OBVIOUS
<1> USE DEF runVars, dataVars, dockerVars, jobVars, Goto, End
<1>1. CASE Begin
  BY <1>1, BarrierQuiet DEF Begin, Barrier
<1>2. CASE ResolveDependencies
  BY <1>2, BarrierQuiet DEF ResolveDependencies, Barrier
<1>3. CASE StartPulling
  BY <1>3, BarrierQuiet DEF StartPulling, Barrier
<1>4. CASE RejectRun
  BY <1>4, BarrierQuiet DEF RejectRun, Barrier
<1>5. CASE MakeDirsFails
  BY <1>5, BarrierQuiet DEF MakeDirsFails, Barrier
<1>6. CASE \E p \in Packages : PullAndVerify(p)
  BY <1>6, BarrierQuiet DEF PullAndVerify, Barrier
<1>7. CASE IntegrityFailure
  BY <1>7, BarrierQuiet DEF IntegrityFailure, Barrier
<1>8. CASE EnterGroups
  <2>1. Past' = Past /\ Current' = Current
    BY <1>8 DEF EnterGroups, Past, Current
  <2> QED
    BY <1>8, <2>1, Position DEF EnterGroups, Barrier
<1>9. CASE StartGroup
  <2>1. Past' = Past /\ Current' = Current
    BY <1>9 DEF StartGroup, Past, Current
  <2>2. \A j \in Jobs : task'[j] = IF j \in Current THEN "waiting" ELSE task[j]
    BY <1>9 DEF StartGroup, Current
  <2>3. \A j \in Current : jobStatus[j] \notin {"running", "succeeded", "failed"}
    BY <1>9, Position DEF StartGroup, Barrier
  <2>4. status # "succeeded"
    BY <1>9 DEF StartGroup, Barrier
  <2> QED
    BY <1>9, <2>1, <2>2, <2>3, <2>4, Position DEF StartGroup, Barrier, ActiveTask
<1>10. CASE GatherReturns
  BY <1>10, BarrierGather
<1>11. CASE \E j \in Jobs : Skip(j)
  <2> PICK j \in Jobs : Skip(j)
    BY <1>11
  <2>1. Past' = Past /\ Current' = Current
    BY DEF Skip, Past, Current
  <2>2. \A k \in Jobs : k # j => jobStatus'[k] = jobStatus[k]
    BY DEF Skip, TypeOK
  <2>3. jobStatus[j] = "queued" /\ jobStatus'[j] = "skipped"
    BY DEF Skip, TypeOK, GetRemainingJobs
  <2> QED
    BY <2>1, <2>2, <2>3, Position DEF Skip, Barrier, TypeOK
<1>12. CASE FailRun
  BY <1>12, BarrierQuiet DEF FailRun, Fail, Barrier
<1>13. CASE \E a \in Artifacts : PublishArtifact(a)
  <2> PICK a \in Artifacts : PublishArtifact(a)
    BY <1>13
  <2>1. Past' = Past /\ Current' = Current
    BY DEF PublishArtifact, Past, Current
  <2>2. status # "succeeded"
    BY DEF PublishArtifact, Barrier
  <2> QED
    BY <2>1, <2>2, Position DEF PublishArtifact, Barrier, ActiveTask
<1>14. CASE PublishFailed
  BY <1>14, BarrierQuiet DEF PublishFailed, Fail, Barrier
<1>15. CASE SucceedRun
  <2>1. Past' = Past /\ Current' = Current
    BY <1>15 DEF SucceedRun, Past, Current
  <2> QED
    BY <1>15, <2>1, Position DEF SucceedRun, Barrier, ActiveTask
<1>16. CASE FinishRun
  BY <1>16, BarrierQuiet DEF FinishRun, Barrier
<1>17. CASE UnexpectedError
  BY <1>17, BarrierQuiet DEF UnexpectedError, Fail, Barrier
<1>18. CASE LogFails
  <2>1. pc' \in {"dead", "unresolved", "handler"} /\ pc # "gathering"
    BY <1>18 DEF LogFails, Unhandled, Handled, Rejections
  <2>2. UNCHANGED <<status, dataVars, jobVars>>
    BY <1>18 DEF LogFails
  <2>3. status = "succeeded" => published = Artifacts /\ pc' \in {"handler", "dead"}
    BY <1>18 DEF LogFails, Barrier, Unhandled, Handled, Rejections
  <2> QED
    BY <2>1, <2>2, <2>3, BarrierQuiet
<1> QED
  BY <1>1, <1>2, <1>3, <1>4, <1>5, <1>6, <1>7, <1>8, <1>9, <1>10, <1>11, <1>12, <1>13, <1>14,
     <1>15, <1>16, <1>17, <1>18 DEF RunStep

(* A step of a job's task disturbs no other job, and is not behind the     *)
(* barrier; "returned" means "succeeded".                                  *)
LEMMA BarrierTask ==
  ASSUME TypeOK, Barrier, NEW j \in Jobs,
         UNCHANGED <<runVars, dataVars>>, task[j] \in ActiveTask \cup {"waiting"},
         \A k \in Jobs \ {j} : task'[k] = task[k] /\ jobStatus'[k] = jobStatus[k],
         task'[j] \notin {"none", "waiting"},
         task'[j] \in {"passed", "returned"} => jobStatus'[j] = "succeeded"
  PROVE  Barrier'
<1>1. Past' = Past /\ Current' = Current
  BY DEF Past, Current, dataVars
<1>2. pc = "gathering" /\ j \notin Past /\ j \in Current
  BY DEF Barrier, ActiveTask
<1>3. status # "succeeded" /\ pulled = Packages
  BY <1>2 DEF Barrier
<1> QED
  BY <1>1, <1>2, <1>3, Position DEF Barrier, runVars, dataVars

(* The shape of every step of a task, for the lemmas below.                *)
LEMMA TaskFrame ==
  ASSUME TypeOK, NEW j \in Jobs, JobStep(j)
  PROVE  /\ UNCHANGED <<runVars, dataVars>>
         /\ \A k \in Jobs \ {j} : /\ task'[k] = task[k] /\ jobStatus'[k] = jobStatus[k]
                                  /\ container'[k] = container[k] /\ network'[k] = network[k]
         /\ task[j] \in ActiveTask \cup {"waiting"}
         /\ task'[j] \notin {"none", "waiting"}
<1> USE DEF TypeOK, TaskGoto, SetJob, JobFails, ActiveTask, dockerVars, jobVars
<1>1. CASE Acquire(j)
  BY <1>1 DEF Acquire
<1>2. CASE Escape(j)
  BY <1>2 DEF Escape
<1>3. CASE Launch(j) \/ LaunchFails(j) \/ StartFails(j)
  BY <1>3 DEF Launch, LaunchFails, StartFails
<1>4. CASE StartStreaming(j)
  BY <1>4 DEF StartStreaming
<1>5. CASE StreamEnds(j)
  BY <1>5 DEF StreamEnds
<1>6. CASE StreamBreaks(j) \/ ReportOOM(j) \/ PassedLogFails(j)
  BY <1>6 DEF StreamBreaks, ReportOOM, PassedLogFails
<1>7. CASE Cleanup(j)
  BY <1>7 DEF Cleanup
<1> QED
  BY <1>1, <1>2, <1>3, <1>4, <1>5, <1>6, <1>7 DEF JobStep

LEMMA BarrierJobStep ==
  ASSUME TypeOK, Barrier, NEW j \in Jobs, JobStep(j)
  PROVE  Barrier'
<1>1. task'[j] \in {"passed", "returned"} => jobStatus'[j] = "succeeded"
  <2> USE DEF TypeOK, TaskGoto, SetJob, JobFails, ActiveTask, dockerVars, jobVars
  <2>1. CASE Cleanup(j)
    BY <2>1 DEF Cleanup, Barrier
  <2>2. CASE StreamEnds(j)
    BY <2>2 DEF StreamEnds
  <2>3. CASE ~ Cleanup(j) /\ ~ StreamEnds(j)
    BY <2>3 DEF JobStep, Acquire, Escape, Launch, LaunchFails, StartFails, StartStreaming,
                StreamBreaks, ReportOOM, PassedLogFails
  <2> QED
    BY <2>1, <2>2, <2>3
<1> QED
  BY <1>1, TaskFrame, BarrierTask

LEMMA BarrierEnvironment ==
  ASSUME TypeOK, Barrier, UNCHANGED <<runVars, dataVars, jobVars>>
  PROVE  Barrier'
<1>1. Past' = Past /\ Current' = Current
  BY DEF Past, Current, dataVars
<1> QED
  BY <1>1 DEF Barrier, runVars, dataVars, jobVars

(* gather() is a barrier, whatever goes wrong.                             *)
THEOREM BarrierHolds == Spec => []Barrier
<1>1. TypeOK /\ Barrier /\ [Next]_vars => Barrier'
  <2> SUFFICES ASSUME TypeOK, Barrier, [Next]_vars PROVE Barrier'
    OBVIOUS
  <2>1. CASE RunStep
    BY <2>1, BarrierRunStep
  <2>2. CASE \E j \in Jobs : JobStep(j)
    BY <2>2, BarrierJobStep
  <2>3. CASE \E j \in Jobs : TimerStep(j) \/ Exit(j)
    BY <2>3, BarrierEnvironment DEF TimerStep, TimerFires, Kill, Exit
  <2>4. CASE UNCHANGED vars
    BY <2>4, BarrierEnvironment DEF vars
  <2> QED
    BY <2>1, <2>2, <2>3, <2>4 DEF Next, Terminated
<1> QED
  BY <1>1, BarrierInit, TypeCorrect, PTL DEF Spec

LEMMA BarrierImpliesNeeds == TypeOK /\ Barrier => NeedsSucceeded
<1> SUFFICES ASSUME TypeOK, Barrier, NEW j \in Jobs,
                    jobStatus[j] \in {"running", "succeeded", "failed"}
             PROVE  (\A n \in Needs[j] : jobStatus[n] = "succeeded") /\ pulled = Packages
  BY DEF NeedsSucceeded
<1>1. task[j] # "none"
  BY DEF Barrier
<1>2. Needs[j] \subseteq Past
  BY <1>1, Position DEF Barrier
<1>3. \A n \in Past : jobStatus[n] = "succeeded"
  BY Position DEF Barrier
<1> QED
  BY <1>1, <1>2, <1>3 DEF Barrier

(* A job runs only when all it needs has succeeded and every package of    *)
(* the lockfile is verified: the barrier and the layering together.        *)
THEOREM NeedsSucceededHolds == Spec => []NeedsSucceeded
  BY TypeCorrect, BarrierHolds, BarrierImpliesNeeds, PTL

(* A run that succeeded has run every job and published every artifact.    *)
THEOREM SuccessMeansAllHolds == Spec => []SuccessMeansAll
<1>1. TypeOK /\ Barrier => SuccessMeansAll
  BY DEF Barrier, SuccessMeansAll
<1> QED
  BY <1>1, TypeCorrect, BarrierHolds, PTL

-----------------------------------------------------------------------------
(* The semaphore and what its holders hold.                                *)

LEMMA SlotsFinite == \A S \in SUBSET Jobs : IsFiniteSet(S) /\ Cardinality(S) \in Nat
  BY JobsAssumption, FS_Subset, FS_CardinalityType

LEMMA SlotBoundTask ==
  ASSUME TypeOK, SlotBound, NEW j \in Jobs, JobStep(j)
  PROVE  SlotBound'
<1> DEFINE S == {k \in Jobs : HoldsSlot(k)}
           T == {k \in Jobs : HoldsSlot(k)'}
<1>1. T \subseteq S \cup {j}
  BY TaskFrame
<1>2. CASE j \in S
  <2>1. T \subseteq S
    BY <1>1, <1>2
  <2> QED
    BY <2>1, SlotsFinite, FS_Subset, ConcurrencyAssumption DEF SlotBound
<1>3. CASE j \notin S
  <2>1. SlotFree
    BY <1>3 DEF JobStep, Acquire, Escape, Launch, LaunchFails, StartFails, StartStreaming,
                StreamEnds, StreamBreaks, ReportOOM, PassedLogFails, Cleanup, ActiveTask
  <2>2. IsFiniteSet(S) /\ Cardinality(S) \in Nat /\ Cardinality(S) < MaxConcurrency
    BY <2>1, SlotsFinite DEF SlotFree
  <2>3. IsFiniteSet(S \cup {j}) /\ Cardinality(S \cup {j}) = Cardinality(S) + 1
    BY <1>3, <2>2, FS_AddElement
  <2>4. Cardinality(T) <= Cardinality(S \cup {j}) /\ Cardinality(T) \in Nat
    BY <1>1, <2>3, FS_Subset, SlotsFinite
  <2> QED
    BY <2>2, <2>3, <2>4, ConcurrencyAssumption DEF SlotBound
<1> QED
  BY <1>2, <1>3

LEMMA SlotBoundRun ==
  ASSUME TypeOK, SlotBound, RunStep
  PROVE  SlotBound'
<1>1. \A k \in Jobs : HoldsSlot(k)' => HoldsSlot(k)
  <2>1. CASE StartGroup
    BY <2>1 DEF StartGroup, ActiveTask
  <2>2. CASE ~ StartGroup
    BY <2>2 DEF RunStep, jobVars, runVars, Begin, ResolveDependencies, StartPulling, RejectRun,
                MakeDirsFails, PullAndVerify, IntegrityFailure, EnterGroups, GatherReturns,
                Skip, FailRun, PublishArtifact, PublishFailed, SucceedRun, FinishRun,
                UnexpectedError, LogFails
  <2> QED
    BY <2>1, <2>2
<1>2. {k \in Jobs : HoldsSlot(k)'} \subseteq {k \in Jobs : HoldsSlot(k)}
  BY <1>1
<1> QED
  BY <1>2, SlotsFinite, FS_Subset, ConcurrencyAssumption DEF SlotBound

(* At most MaxConcurrency tasks are inside the semaphore.                  *)
THEOREM SlotBoundHolds == Spec => []SlotBound
<1>1. Init => SlotBound
  <2> SUFFICES ASSUME Init PROVE SlotBound
    OBVIOUS
  <2>1. {j \in Jobs : HoldsSlot(j)} = {}
    BY DEF Init, ActiveTask
  <2> QED
    BY <2>1, FS_EmptySet, ConcurrencyAssumption DEF SlotBound
<1>2. TypeOK /\ SlotBound /\ [Next]_vars => SlotBound'
  <2> SUFFICES ASSUME TypeOK, SlotBound, [Next]_vars PROVE SlotBound'
    OBVIOUS
  <2>1. CASE RunStep
    BY <2>1, SlotBoundRun
  <2>2. CASE \E j \in Jobs : JobStep(j)
    BY <2>2, SlotBoundTask
  <2>3. CASE UNCHANGED task
    BY <2>3 DEF SlotBound
  <2> QED
    BY <2>1, <2>2, <2>3 DEF Next, Terminated, TimerStep, TimerFires, Kill, Exit, vars, jobVars
<1> QED
  BY <1>1, <1>2, TypeCorrect, PTL DEF Spec

(* The statement of Held for one job, under the state of that job alone.   *)
HeldBy(j) ==
  /\ "cleanup" \notin Faults => (HasHandle(j) => task[j] \in InHand)
  /\ Faults \cap {"cleanup", "start"} = {} => (~ Reclaimed(j) => task[j] \in InHand)
  /\ "start" \notin Faults => container[j] # "created"

LEMMA HeldPointwise == Held <=> \A j \in Jobs : HeldBy(j)
  BY DEF Held, HeldBy

LEMMA HeldTask ==
  ASSUME TypeOK, NEW j \in Jobs, HeldBy(j), JobStep(j)
  PROVE  HeldBy(j)'
<1> USE DEF TypeOK, HeldBy, HasHandle, Reclaimed, InHand, ActiveTask, Exited, TaskGoto, SetJob,
            JobFails, CancelTimer, dockerVars, jobVars
<1>1. CASE Acquire(j)
  BY <1>1 DEF Acquire
<1>2. CASE Escape(j)
  BY <1>2 DEF Escape
<1>3. CASE Launch(j)
  BY <1>3 DEF Launch
<1>4. CASE LaunchFails(j)
  BY <1>4 DEF LaunchFails
<1>5. CASE StartFails(j)
  BY <1>5 DEF StartFails
<1>6. CASE StartStreaming(j)
  BY <1>6 DEF StartStreaming
<1>7. CASE StreamEnds(j)
  BY <1>7 DEF StreamEnds
<1>8. CASE StreamBreaks(j) \/ ReportOOM(j) \/ PassedLogFails(j)
  BY <1>8 DEF StreamBreaks, ReportOOM, PassedLogFails
<1>9. CASE Cleanup(j)
  BY <1>9 DEF Cleanup, AfterRemove, AfterDisconnect, Container
<1> QED
  BY <1>1, <1>2, <1>3, <1>4, <1>5, <1>6, <1>7, <1>8, <1>9 DEF JobStep

LEMMA HeldNext ==
  ASSUME TypeOK, Barrier, Held, [Next]_vars, NEW k \in Jobs
  PROVE  HeldBy(k)'
<1> USE HeldPointwise
<1>1. CASE RunStep
  <2>1. UNCHANGED <<container, network>>
    BY <1>1 DEF RunStep, dockerVars, runVars, Begin, ResolveDependencies, StartPulling,
                RejectRun, MakeDirsFails, PullAndVerify, IntegrityFailure, EnterGroups,
                StartGroup, GatherReturns, Skip, FailRun, PublishArtifact, PublishFailed,
                SucceedRun, FinishRun, UnexpectedError, LogFails
  <2>2. task[k] \in InHand => task'[k] = task[k]
    <3>1. CASE StartGroup
      BY <3>1 DEF StartGroup, Barrier, Current, InHand, ActiveTask, Goto
    <3>2. CASE ~ StartGroup
      BY <1>1, <3>2
         DEF RunStep, jobVars, runVars, Begin, ResolveDependencies, StartPulling, RejectRun,
             MakeDirsFails, PullAndVerify, IntegrityFailure, EnterGroups, GatherReturns, Skip,
             FailRun, PublishArtifact, PublishFailed, SucceedRun, FinishRun, UnexpectedError,
             LogFails
    <3> QED
      BY <3>1, <3>2
  <2> QED
    BY <2>1, <2>2 DEF HeldBy, HasHandle, Reclaimed
<1>2. CASE \E j \in Jobs : JobStep(j)
  <2> PICK j \in Jobs : JobStep(j)
    BY <1>2
  <2>1. CASE k = j
    BY <2>1, HeldTask
  <2>2. CASE k # j
    BY <2>2, TaskFrame DEF HeldBy, HasHandle, Reclaimed
  <2> QED
    BY <2>1, <2>2
<1>3. CASE \E j \in Jobs : TimerStep(j) \/ Exit(j)
  BY <1>3 DEF TimerStep, TimerFires, Kill, Killed, Exit, HeldBy, HasHandle, Reclaimed, Exited,
              TypeOK, jobVars
<1>4. CASE UNCHANGED vars
  BY <1>4 DEF vars, dockerVars, jobVars, HeldBy, HasHandle, Reclaimed
<1> QED
  BY <1>1, <1>2, <1>3, <1>4 DEF Next, Terminated

(* Only a task past its preparations holds a container or a network.       *)
THEOREM HeldHolds == Spec => []Held
<1>1. Init => Held
  BY HeldPointwise DEF Init, HeldBy, HasHandle, Reclaimed, Exited
<1>2. TypeOK /\ Barrier /\ Held /\ [Next]_vars => Held'
  BY HeldNext DEF Held, HeldBy
<1> QED
  BY <1>1, <1>2, TypeCorrect, BarrierHolds, PTL DEF Spec

(* Unless docker refuses to remove one, no more than MaxConcurrency        *)
(* containers of a run are running.                                        *)
THEOREM ConcurrencyBoundHolds ==
  ASSUME "cleanup" \notin Faults
  PROVE  Spec => []ConcurrencyBound
<1>1. TypeOK /\ SlotBound /\ Held => ConcurrencyBound
  <2> SUFFICES ASSUME TypeOK, SlotBound, Held PROVE ConcurrencyBound
    OBVIOUS
  <2>1. Running \subseteq {j \in Jobs : HoldsSlot(j)}
    BY DEF Held, Running, HasHandle, InHand
  <2>2. Cardinality(Running) <= Cardinality({j \in Jobs : HoldsSlot(j)})
    BY <2>1, SlotsFinite, FS_Subset
  <2> QED
    BY <2>1, <2>2, SlotsFinite, ConcurrencyAssumption DEF SlotBound, ConcurrencyBound
<1> QED
  BY <1>1, TypeCorrect, SlotBoundHolds, HeldHolds, PTL

(* Containers of two groups never share the workspace of the run.          *)
THEOREM OneGroupRunsHolds ==
  ASSUME "cleanup" \notin Faults
  PROVE  Spec => []OneGroupRuns
<1>1. TypeOK /\ Barrier /\ Held => OneGroupRuns
  BY Position DEF OneGroupRuns, Barrier, Held, Running, HasHandle, InHand, ActiveTask, Current
<1> QED
  BY <1>1, TypeCorrect, BarrierHolds, HeldHolds, PTL

(* Unless docker fails to start a container it created, or to remove one,  *)
(* a run that is over has left nothing on the host.                        *)
THEOREM NothingLeaksHolds ==
  ASSUME Faults \cap {"cleanup", "start"} = {}
  PROVE  Spec => []NothingLeaks
<1>1. Barrier /\ Held => NothingLeaks
  BY DEF NothingLeaks, Ended, Barrier, Held, InHand, ActiveTask
<1> QED
  BY <1>1, BarrierHolds, HeldHolds, PTL

-----------------------------------------------------------------------------
(* A run comes to an end.                                                  *)

(* While gather() waits, each job of the group has its task.               *)
Gathered == pc = "gathering" => \A j \in Groups[group] : task[j] # "none"

LEMMA EarlyTask ==
  ASSUME TypeOK, NothingEarly, StreamsAreGuarded, NEW j \in Jobs, JobStep(j)
  PROVE  NothingEarly' /\ StreamsAreGuarded'
<1> USE DEF TypeOK, TaskGoto, SetJob, JobFails, CancelTimer, Unarmed, Exited, dockerVars, jobVars
<1>1. \A k \in Jobs \ {j} : task'[k] = task[k] /\ container'[k] = container[k] /\ timer'[k] = timer[k]
  BY DEF JobStep, Acquire, Escape, Launch, LaunchFails, StartFails, StartStreaming, StreamEnds,
         StreamBreaks, ReportOOM, PassedLogFails, Cleanup
<1>2. /\ task'[j] \in {"none", "waiting", "preparing"} => container'[j] = "none"
      /\ task'[j] \in Unarmed => timer'[j] = "off"
      /\ task'[j] \in {"launched", "streaming"} => container'[j] \in {"running"} \cup Exited
      /\ task'[j] = "streaming" => timer'[j] = "armed"
  <2>1. CASE Acquire(j) \/ Escape(j)
    BY <2>1 DEF NothingEarly, Acquire, Escape
  <2>2. CASE Launch(j) \/ LaunchFails(j) \/ StartFails(j)
    BY <2>2 DEF NothingEarly, Launch, LaunchFails, StartFails
  <2>3. CASE StartStreaming(j)
    BY <2>3 DEF NothingEarly, StartStreaming
  <2>4. CASE StreamEnds(j) \/ StreamBreaks(j) \/ ReportOOM(j) \/ PassedLogFails(j)
    BY <2>4 DEF StreamEnds, StreamBreaks, ReportOOM, PassedLogFails
  <2>5. CASE Cleanup(j)
    BY <2>5 DEF Cleanup
  <2> QED  BY <2>1, <2>2, <2>3, <2>4, <2>5 DEF JobStep
<1> QED  BY <1>1, <1>2 DEF NothingEarly, StreamsAreGuarded

LEMMA EarlyEnvironment ==
  ASSUME TypeOK, NothingEarly, StreamsAreGuarded, NEW j \in Jobs, TimerStep(j) \/ Exit(j)
  PROVE  NothingEarly' /\ StreamsAreGuarded'
<1> USE DEF TypeOK, CancelTimer, Unarmed, Exited, jobVars
<1>1. CASE TimerFires(j)
  BY <1>1 DEF NothingEarly, StreamsAreGuarded, TimerFires
<1>2. CASE Kill(j)
  <2>1. /\ task' = task /\ timer' = [timer EXCEPT ![j] = "off"] /\ timer[j] = "firing"
        /\ container' = container \/ container' = [container EXCEPT ![j] = Killed(@)]
        /\ Faults \cap {"kill", "log"} = {} => container' = [container EXCEPT ![j] = Killed(@)]
    BY <1>2 DEF Kill
  <2>2. task[j] \notin Unarmed
    BY <2>1 DEF NothingEarly
  <2> QED  BY <2>1, <2>2 DEF NothingEarly, StreamsAreGuarded, Killed
<1>3. CASE Exit(j)
  BY <1>3 DEF NothingEarly, StreamsAreGuarded, Exit
<1> QED  BY <1>1, <1>2, <1>3 DEF TimerStep

LEMMA EarlyRun ==
  ASSUME TypeOK, Barrier, NothingEarly, StreamsAreGuarded, RunStep
  PROVE  NothingEarly' /\ StreamsAreGuarded'
<1>1. UNCHANGED dockerVars /\ \A j \in Jobs : 
                              task'[j] # task[j] => task[j] = "none" /\ task'[j] = "waiting"
  <2>1. CASE StartGroup
    BY <2>1, Position DEF StartGroup, Barrier, Current, TypeOK
  <2>2. CASE ~ StartGroup
    BY <2>2 DEF RunStep, jobVars, runVars, Begin, ResolveDependencies, StartPulling, RejectRun,
                MakeDirsFails, PullAndVerify, IntegrityFailure, EnterGroups, GatherReturns,
                Skip, FailRun, PublishArtifact, PublishFailed, SucceedRun, FinishRun,
                UnexpectedError, LogFails
  <2> QED  BY <2>1, <2>2
<1> QED  BY <1>1 DEF NothingEarly, StreamsAreGuarded, dockerVars, Unarmed, TypeOK

(* Nothing of a job is there before its task has made it, and a timeout    *)
(* watches each container that runs while its log is read                  *)
(* (runner.py:249-254, 318).                                               *)
THEOREM StreamsAreGuardedHolds == Spec => [](NothingEarly /\ StreamsAreGuarded)
<1>1. Init => NothingEarly /\ StreamsAreGuarded
  BY DEF Init, NothingEarly, StreamsAreGuarded
<1>2. TypeOK /\ Barrier /\ NothingEarly /\ StreamsAreGuarded /\ [Next]_vars
        => NothingEarly' /\ StreamsAreGuarded'
  <2> SUFFICES ASSUME TypeOK, Barrier, NothingEarly, StreamsAreGuarded, [Next]_vars
               PROVE  NothingEarly' /\ StreamsAreGuarded'
    OBVIOUS
  <2>1. CASE UNCHANGED vars
    BY <2>1 DEF vars, dockerVars, jobVars, NothingEarly, StreamsAreGuarded
  <2> QED  BY <2>1, EarlyRun, EarlyTask, EarlyEnvironment DEF Next, Terminated
<1> QED  BY <1>1, <1>2, TypeCorrect, BarrierHolds, PTL DEF Spec

LEMMA GatheredStep == ASSUME TypeOK, Gathered, [Next]_vars PROVE Gathered'
<1>1. CASE StartGroup
  BY <1>1, GroupsNonEmpty DEF StartGroup, Gathered, dataVars, Goto, TypeOK
<1>2. CASE RunStep /\ ~ StartGroup
  BY <1>2 DEF RunStep, Gathered, Goto, End, Fail, jobVars, runVars, dataVars, Begin,
              ResolveDependencies, StartPulling, RejectRun, MakeDirsFails, PullAndVerify,
              IntegrityFailure, EnterGroups, GatherReturns, Skip, FailRun, PublishArtifact,
              PublishFailed, SucceedRun, FinishRun, UnexpectedError, LogFails
<1>3. ASSUME NEW j \in Jobs, JobStep(j) PROVE Gathered'
  <2>1. pc' = pc /\ group' = group /\ \A k \in Jobs \ {j} : task'[k] = task[k]
    BY <1>3, TaskFrame DEF runVars, dataVars
  <2>2. task'[j] # "none"
    BY <1>3, TaskFrame
  <2>3. Groups[group] \subseteq Jobs
    BY GroupsNonEmpty DEF TypeOK
  <2> QED  BY <2>1, <2>2, <2>3 DEF Gathered
<1>4. CASE (\E j \in Jobs : TimerStep(j) \/ Exit(j)) \/ UNCHANGED vars
  BY <1>4 DEF Gathered, TimerStep, TimerFires, Kill, Exit, vars, runVars, dataVars, jobVars
<1> QED  BY <1>1, <1>2, <1>3, <1>4 DEF Next, Terminated

(* The semaphore and gather() never leave a group with nobody who can go   *)
(* on (runner.py:89-99).                                                   *)
THEOREM GatherGoesOnHolds == Spec => []GatherGoesOn
<1>1. Init => Gathered
  BY DEF Init, Gathered
<1>2. TypeOK /\ Gathered /\ [Next]_vars => Gathered'
  BY GatheredStep
<1>3. TypeOK /\ Barrier /\ NothingEarly /\ Gathered => GatherGoesOn
  <2> SUFFICES ASSUME TypeOK, Barrier, NothingEarly, Gathered, pc = "gathering",
                      NEW j \in Groups[group], ~ Finished(j)
               PROVE  \E k \in Groups[group] : CanGoOn(k)
    BY DEF GatherGoesOn, GatherDone
  <2>1. j \in Jobs /\ task[j] \in ActiveTask \cup {"waiting"}
    BY GroupsNonEmpty DEF TypeOK, Gathered, TaskState
  <2>2. \A k \in Jobs : task[k] \in ActiveTask => CanGoOn(k)
    BY DEF CanGoOn, NothingEarly
  <2>3. CASE task[j] = "waiting" /\ ~ SlotFree
    <3> DEFINE S == {k \in Jobs : HoldsSlot(k)}
    <3>1. S # {}
      <4> SUFFICES ASSUME S = {} PROVE FALSE
        OBVIOUS
      <4>1. Cardinality(S) = 0
        BY FS_EmptySet
      <4> QED  BY <2>3, <4>1, ConcurrencyAssumption DEF SlotFree
    <3>2. PICK k \in Jobs : task[k] \in ActiveTask
      BY <3>1
    <3>3. k \in Groups[group]
      BY <3>2 DEF Barrier, Current, ActiveTask
    <3> QED  BY <2>2, <3>2, <3>3
  <2>4. CASE task[j] = "waiting" /\ SlotFree
    BY <2>4 DEF CanGoOn
  <2> QED  BY <2>1, <2>2, <2>3, <2>4
<1> QED
  BY <1>1, <1>2, <1>3, TypeCorrect, BarrierHolds, StreamsAreGuardedHolds, PTL DEF Spec

LEMMA StepsType ==
  ASSUME IsFiniteSet(Packages), IsFiniteSet(Artifacts), TypeOK
  PROVE  /\ PhasesLeft \in Nat
         /\ IsFiniteSet(Packages \ pulled) /\ Cardinality(Packages \ pulled) \in Nat
         /\ IsFiniteSet(Artifacts \ published) /\ Cardinality(Artifacts \ published) \in Nat
         /\ IsFiniteSet(QueuedJobs) /\ Cardinality(QueuedJobs) \in Nat
         /\ IsFiniteSet(TasksLeft) /\ Cardinality(TasksLeft) \in Nat
         /\ IsFiniteSet(TimersLeft) /\ Cardinality(TimersLeft) \in Nat
         /\ IsFiniteSet(ContainersLeft) /\ Cardinality(ContainersLeft) \in Nat
<1>1. PhasesLeft \in Nat
  <2>1. 2 * (Len(Groups) - group) \in Nat
    BY GroupsNonEmpty DEF TypeOK
  <2> QED  BY <2>1 DEF PhasesLeft, TypeOK, PC, Rejections
<1>2. IsFiniteSet(Jobs) /\ IsFiniteSet(1 .. 7) /\ IsFiniteSet({"armed", "firing"})
  <2>1. IsFiniteSet({"armed"} \cup {"firing"})
    BY FS_Singleton, FS_AddElement
  <2>2. {"armed", "firing"} = {"armed"} \cup {"firing"}
    OBVIOUS
  <2>3. IsFiniteSet(1 .. 7)
    <3>1. 1 \in Int /\ 7 \in Int
      OBVIOUS
    <3> QED  BY <3>1, FS_Interval
  <2> QED  BY <2>1, <2>2, <2>3, JobsAssumption
<1>3. IsFiniteSet(Jobs \X (1 .. 7)) /\ IsFiniteSet(Jobs \X {"armed", "firing"})
  BY <1>2, FS_Product
<1>4. /\ Packages \ pulled \in SUBSET Packages /\ Artifacts \ published \in SUBSET Artifacts
      /\ QueuedJobs \in SUBSET Jobs /\ TasksLeft \in SUBSET (Jobs \X (1 .. 7))
      /\ TimersLeft \in SUBSET (Jobs \X {"armed", "firing"}) /\ ContainersLeft \in SUBSET Jobs
  BY DEF QueuedJobs, TasksLeft, TimersLeft, ContainersLeft
<1>5. /\ IsFiniteSet(Packages \ pulled) /\ IsFiniteSet(Artifacts \ published)
      /\ IsFiniteSet(QueuedJobs) /\ IsFiniteSet(TasksLeft) /\ IsFiniteSet(TimersLeft)
      /\ IsFiniteSet(ContainersLeft)
  BY <1>2, <1>3, <1>4, FS_Subset
<1> QED  BY <1>1, <1>5, FS_CardinalityType

(* Less is left when nothing grows and something shrinks.                  *)
LEMMA FewerSteps ==
  ASSUME IsFiniteSet(Packages), IsFiniteSet(Artifacts), TypeOK, TypeOK',
         PhasesLeft' <= PhasesLeft,
         Packages \ pulled' \subseteq Packages \ pulled,
         Artifacts \ published' \subseteq Artifacts \ published,
         QueuedJobs' \subseteq QueuedJobs, TasksLeft' \subseteq TasksLeft,
         TimersLeft' \subseteq TimersLeft, ContainersLeft' \subseteq ContainersLeft,
         \/ PhasesLeft' # PhasesLeft
         \/ Packages \ pulled' # Packages \ pulled
         \/ Artifacts \ published' # Artifacts \ published \/ QueuedJobs' # QueuedJobs
         \/ TasksLeft' # TasksLeft \/ TimersLeft' # TimersLeft \/ ContainersLeft' # ContainersLeft
  PROVE  StepsLeft' < StepsLeft
<1>1. ASSUME NEW S, IsFiniteSet(S), NEW T \in SUBSET S
      PROVE  /\ Cardinality(T) \in Nat /\ Cardinality(T) <= Cardinality(S)
             /\ T # S => Cardinality(T) # Cardinality(S)
  BY <1>1, FS_Subset, FS_CardinalityType
<1>0. PhasesLeft' \in Nat
  <2>1. group' \in 1 .. Len(Groups) /\ pc' \in PC
    BY DEF TypeOK
  <2>2. 2 * (Len(Groups) - group') \in Nat
    BY <2>1, GroupsNonEmpty
  <2>3. CASE pc' \in {"created", "resolving", "resolved", "pulling", "grouping", "gathering"}
    BY <2>2, <2>3 DEF PhasesLeft
  <2>4. CASE pc' \notin {"created", "resolving", "resolved", "pulling", "grouping", "gathering"}
    <3>1. pc' \in Rejections \cup {"integrity", "skipping", "publishing", "unpublished",
                                  "succeeding", "handler", "done", "dead"}
      BY <2>1, <2>4 DEF PC
    <3> QED  BY <3>1 DEF PhasesLeft, Rejections
  <2> QED  BY <2>3, <2>4
<1> DEFINE a == Cardinality(Packages \ pulled)       a1 == Cardinality(Packages \ pulled')
           b == Cardinality(Artifacts \ published)   b1 == Cardinality(Artifacts \ published')
           c == Cardinality(QueuedJobs)              c1 == Cardinality(QueuedJobs')
           d == Cardinality(TasksLeft)               d1 == Cardinality(TasksLeft')
           e == Cardinality(TimersLeft)              e1 == Cardinality(TimersLeft')
           f == Cardinality(ContainersLeft)          f1 == Cardinality(ContainersLeft')
           p == PhasesLeft                           p1 == PhasesLeft'
<1>2. /\ p \in Nat /\ a \in Nat /\ b \in Nat /\ c \in Nat /\ d \in Nat /\ e \in Nat /\ f \in Nat
      /\ a1 \in Nat /\ b1 \in Nat /\ c1 \in Nat /\ d1 \in Nat /\ e1 \in Nat /\ f1 \in Nat
      /\ a1 <= a /\ b1 <= b /\ c1 <= c /\ d1 <= d /\ e1 <= e /\ f1 <= f
  BY <1>1, StepsType
<1>3. /\ Packages \ pulled' # Packages \ pulled => a1 # a
      /\ Artifacts \ published' # Artifacts \ published => b1 # b
      /\ QueuedJobs' # QueuedJobs => c1 # c
      /\ TasksLeft' # TasksLeft => d1 # d
      /\ TimersLeft' # TimersLeft => e1 # e
      /\ ContainersLeft' # ContainersLeft => f1 # f
  BY <1>1, StepsType
<1>4. p1 # p \/ a1 # a \/ b1 # b \/ c1 # c \/ d1 # d \/ e1 # e \/ f1 # f
  BY <1>3
<1>5. p1 \in Nat /\ p1 <= p
  BY <1>0
<1>6. StepsLeft = p + a + b + c + d + e + f /\ StepsLeft' = p1 + a1 + b1 + c1 + d1 + e1 + f1
  BY DEF StepsLeft
<1> HIDE DEF a, b, c, d, e, f, p, a1, b1, c1, d1, e1, f1, p1
<1> QED  BY <1>2, <1>4, <1>5, <1>6

(* When the docker side and the counters of the jobs stay, the coroutine   *)
(* itself has moved on.                                                    *)
LEMMA PhasesFall ==
  ASSUME TypeOK, TypeOK', RunStep, ~ (\E j \in Jobs : Skip(j))
  PROVE  /\ PhasesLeft' <= PhasesLeft
         /\ pulled \subseteq pulled' /\ published \subseteq published'
         /\ PhasesLeft' = PhasesLeft => pulled' # pulled \/ published' # published
<1>1. Len(Groups) \in Nat /\ group \in 1 .. Len(Groups) /\ group' \in 1 .. Len(Groups)
  BY GroupsNonEmpty DEF TypeOK
<1> DEFINE rest == 2 * (Len(Groups) - group)
<1>2. rest \in Nat
  BY <1>1
<1> USE DEF Goto, End, Fail, runVars, dataVars
<1>3. CASE Begin \/ ResolveDependencies \/ StartPulling \/ RejectRun \/ MakeDirsFails
           \/ IntegrityFailure \/ EnterGroups \/ StartGroup
  BY <1>2, <1>3 DEF PhasesLeft, Rejections, Begin, ResolveDependencies, StartPulling,
                    RejectRun, MakeDirsFails, IntegrityFailure, EnterGroups, StartGroup
<1>4. CASE FailRun \/ PublishFailed \/ SucceedRun \/ FinishRun \/ UnexpectedError
  BY <1>2, <1>4 DEF PhasesLeft, Rejections, FailRun, PublishFailed, SucceedRun, FinishRun,
                    UnexpectedError
<1>5. CASE GatherReturns
  BY <1>1, <1>2, <1>5 DEF PhasesLeft, Rejections, GatherReturns, MoreGroups
<1>6. CASE \E p \in Packages : PullAndVerify(p)
  BY <1>2, <1>6 DEF PhasesLeft, Rejections, PullAndVerify
<1>7. CASE \E a \in Artifacts : PublishArtifact(a)
  BY <1>2, <1>7 DEF PhasesLeft, Rejections, PublishArtifact
<1>8. CASE LogFails
  BY <1>2, <1>8 DEF PhasesLeft, Rejections, LogFails, Unhandled, Handled
<1> QED  BY <1>3, <1>4, <1>5, <1>6, <1>7, <1>8 DEF RunStep

LEMMA RunStepCounts ==
  ASSUME IsFiniteSet(Packages), IsFiniteSet(Artifacts), TypeOK, TypeOK', Barrier, RunStep
  PROVE  StepsLeft' < StepsLeft
<1>1. UNCHANGED dockerVars /\ \A j \in Jobs :
                              task'[j] # task[j] => task[j] = "none" /\ task'[j] = "waiting"
  <2>1. CASE StartGroup
    BY <2>1, Position DEF StartGroup, Barrier, Current, TypeOK
  <2>2. CASE ~ StartGroup
    BY <2>2 DEF RunStep, jobVars, runVars, Begin, ResolveDependencies, StartPulling, RejectRun,
                MakeDirsFails, PullAndVerify, IntegrityFailure, EnterGroups, GatherReturns,
                Skip, FailRun, PublishArtifact, PublishFailed, SucceedRun, FinishRun,
                UnexpectedError, LogFails
  <2> QED  BY <2>1, <2>2
<1>2. ContainersLeft' = ContainersLeft
  BY <1>1 DEF dockerVars, ContainersLeft
<1>3. TimersLeft' \subseteq TimersLeft
  BY <1>1 DEF dockerVars, TimersLeft, Unarmed
<1>4. TasksLeft' \subseteq TasksLeft
  <2>1. ASSUME NEW j \in Jobs, NEW n \in 1 .. 7, n <= TaskRank(j)' PROVE n <= TaskRank(j)
    <3>1. CASE task'[j] = task[j]
      <4>1. TaskRank(j)' = TaskRank(j)
        BY <3>1 DEF TaskRank
      <4> QED  BY <2>1, <4>1
    <3>2. CASE task[j] = "none"
      <4>1. TaskRank(j) = 7
        BY <3>2 DEF TaskRank
      <4> QED  BY <4>1
    <3> QED  BY <3>1, <3>2, <1>1
  <2> QED  BY <2>1 DEF TasksLeft
<1>5. CASE \E j \in Jobs : Skip(j)
  <2> PICK j \in Jobs : Skip(j)
    BY <1>5
  <2>1. /\ UNCHANGED <<runVars, dataVars>> /\ jobStatus[j] = "queued"
        /\ jobStatus' = [jobStatus EXCEPT ![j] = "skipped"]
    BY DEF Skip, GetRemainingJobs
  <2>2. QueuedJobs' \subseteq QueuedJobs /\ j \in QueuedJobs /\ j \notin QueuedJobs'
    BY <2>1 DEF QueuedJobs, TypeOK
  <2>3. PhasesLeft' = PhasesLeft /\ pulled' = pulled /\ published' = published
    BY <2>1 DEF PhasesLeft, runVars, dataVars
  <2>4. PhasesLeft' <= PhasesLeft
    BY <2>3, StepsType
  <2> QED  BY <1>2, <1>3, <1>4, <2>2, <2>3, <2>4, FewerSteps
<1>6. CASE ~ (\E j \in Jobs : Skip(j))
  <2>1. QueuedJobs' = QueuedJobs
    BY <1>6 DEF QueuedJobs, RunStep, jobVars, runVars, Begin, ResolveDependencies,
                StartPulling, RejectRun, MakeDirsFails, PullAndVerify, IntegrityFailure,
                EnterGroups, StartGroup, GatherReturns, FailRun, PublishArtifact,
                PublishFailed, SucceedRun, FinishRun, UnexpectedError, LogFails
  <2>2. /\ PhasesLeft' <= PhasesLeft
        /\ pulled \subseteq pulled' /\ published \subseteq published'
        /\ PhasesLeft' = PhasesLeft => pulled' # pulled \/ published' # published
    BY <1>6, PhasesFall
  <2>3. /\ Packages \ pulled' \subseteq Packages \ pulled
        /\ Artifacts \ published' \subseteq Artifacts \ published
        /\ pulled' # pulled => Packages \ pulled' # Packages \ pulled
        /\ published' # published => Artifacts \ published' # Artifacts \ published
    BY <2>2 DEF TypeOK
  <2> QED  BY <1>2, <1>3, <1>4, <2>1, <2>2, <2>3, FewerSteps
<1> QED  BY <1>5, <1>6

(* What a step of a task, a timeout or a container leaves of the rest.     *)
LEMMA RestStays ==
  ASSUME TypeOK, UNCHANGED <<runVars, dataVars>>
  PROVE  /\ PhasesLeft' = PhasesLeft /\ PhasesLeft' <= PhasesLeft
         /\ Packages \ pulled' = Packages \ pulled
         /\ Artifacts \ published' = Artifacts \ published
<1>1. 2 * (Len(Groups) - group) \in Nat
  BY GroupsNonEmpty DEF TypeOK
<1>2. PhasesLeft \in Nat
  BY <1>1 DEF PhasesLeft, TypeOK, PC, Rejections
<1>3. pc' = pc /\ group' = group /\ pulled' = pulled /\ published' = published
  BY DEF runVars, dataVars
<1>4. PhasesLeft' = PhasesLeft
  BY <1>3, Zenon DEF PhasesLeft
<1> QED  BY <1>2, <1>3, <1>4

LEMMA JobStepCounts ==
  ASSUME IsFiniteSet(Packages), IsFiniteSet(Artifacts), TypeOK, TypeOK', NothingEarly,
         NothingEarly', NEW j \in Jobs, JobStep(j)
  PROVE  StepsLeft' < StepsLeft
<1> USE DEF TaskGoto, SetJob, JobFails, CancelTimer, Exited, dockerVars, jobVars
<1>1. UNCHANGED <<runVars, dataVars>>
  BY TaskFrame
<1>2. \A k \in Jobs \ {j} : /\ task'[k] = task[k] /\ container'[k] = container[k]
                            /\ timer'[k] = timer[k] /\ jobStatus'[k] = jobStatus[k]
  BY DEF JobStep, Acquire, Escape, Launch, LaunchFails, StartFails, StartStreaming, StreamEnds,
         StreamBreaks, ReportOOM, PassedLogFails, Cleanup, TypeOK
<1>3. /\ TaskRank(j) \in 1 .. 7 /\ TaskRank(j)' \in 0 .. 7 /\ TaskRank(j)' < TaskRank(j)
      /\ task[j] # "none" /\ task'[j] \notin {"none", "waiting"}
      /\ task'[j] \in Unarmed => task[j] \in Unarmed
      /\ task[j] \notin Unarmed => timer'[j] \in {timer[j], "off"}
      /\ container[j] \in {"gone"} \cup Exited =>
           container'[j] \in {"gone"} \cup Exited
      /\ jobStatus'[j] = "queued" => jobStatus[j] = "queued"
  <2> USE DEF TypeOK, TaskRank, Unarmed
  <2>1. CASE Acquire(j) \/ Escape(j)
    BY <2>1 DEF Acquire, Escape
  <2>2. CASE Launch(j) \/ LaunchFails(j) \/ StartFails(j)
    BY <2>2 DEF NothingEarly, Launch, LaunchFails, StartFails
  <2>3. CASE StartStreaming(j)
    BY <2>3 DEF StartStreaming
  <2>4. CASE StreamEnds(j)
    BY <2>4 DEF StreamEnds
  <2>5. CASE StreamBreaks(j) \/ ReportOOM(j) \/ PassedLogFails(j)
    BY <2>5 DEF StreamBreaks, ReportOOM, PassedLogFails
  <2>6. CASE Cleanup(j)
    BY <2>6 DEF Cleanup, AfterRemove
  <2> QED  BY <2>1, <2>2, <2>3, <2>4, <2>5, <2>6 DEF JobStep
<1>4. TasksLeft' \subseteq TasksLeft
  <2>1. ASSUME NEW k \in Jobs, NEW n \in 1 .. 7, n <= TaskRank(k)' PROVE n <= TaskRank(k)
    <3>1. CASE k = j
      BY <2>1, <3>1, <1>3
    <3>2. CASE k # j
      BY <2>1, <3>2, <1>2 DEF TaskRank
    <3> QED  BY <3>1, <3>2
  <2> QED  BY <2>1 DEF TasksLeft
<1>5. TasksLeft' # TasksLeft
  <2>1. PICK n \in 1 .. 7 : n = TaskRank(j)
    BY <1>3
  <2>2. ~ (n <= TaskRank(j)')
    BY <1>3, <2>1
  <2>3. <<j, n>> \in TasksLeft
    BY <2>1 DEF TasksLeft
  <2>4. <<j, n>> \notin TasksLeft'
    BY <2>2 DEF TasksLeft
  <2> QED  BY <2>3, <2>4
<1>6. TimersLeft' \subseteq TimersLeft
  <2>1. ASSUME NEW k \in Jobs, NEW w \in {"armed", "firing"},
               task'[k] \in Unarmed \/ timer'[k] \in {"armed", w}
        PROVE  task[k] \in Unarmed \/ timer[k] \in {"armed", w}
    BY <2>1, <1>2, <1>3
  <2> QED  BY <2>1 DEF TimersLeft
<1>7. ContainersLeft' \subseteq ContainersLeft
  BY <1>2, <1>3 DEF ContainersLeft, TypeOK, Container
<1>8. QueuedJobs' \subseteq QueuedJobs
  BY <1>2, <1>3 DEF QueuedJobs
<1> QED  BY <1>1, <1>4, <1>5, <1>6, <1>7, <1>8, RestStays, FewerSteps

LEMMA EnvironmentCounts ==
  ASSUME IsFiniteSet(Packages), IsFiniteSet(Artifacts), TypeOK, TypeOK', NothingEarly,
         NEW j \in Jobs, TimerStep(j) \/ Exit(j)
  PROVE  StepsLeft' < StepsLeft
<1>1. UNCHANGED <<runVars, dataVars, jobVars>>
  BY DEF TimerStep, TimerFires, Kill, Exit
<1>2. QueuedJobs' = QueuedJobs /\ TasksLeft' = TasksLeft
  BY <1>1 DEF QueuedJobs, TasksLeft, TaskRank, jobVars
<1>3. CASE TimerFires(j)
  <2>1. /\ container' = container /\ timer[j] = "armed" /\ task[j] \notin Unarmed
        /\ timer' = [timer EXCEPT ![j] = "firing"] /\ task' = task
    BY <1>3 DEF TimerFires, NothingEarly, jobVars
  <2>2. TimersLeft' \subseteq TimersLeft
    BY <2>1 DEF TimersLeft, TypeOK
  <2>3. <<j, "armed">> \in TimersLeft /\ <<j, "armed">> \notin TimersLeft'
    BY <2>1 DEF TimersLeft, TypeOK
  <2>4. ContainersLeft' = ContainersLeft
    BY <2>1 DEF ContainersLeft
  <2> QED  BY <1>1, <1>2, <2>2, <2>3, <2>4, RestStays, FewerSteps
<1>4. CASE Kill(j)
  <2>1. /\ timer[j] = "firing" /\ task[j] \notin Unarmed
        /\ timer' = [timer EXCEPT ![j] = "off"] /\ task' = task
        /\ container' = container \/ container' = [container EXCEPT ![j] = Killed(@)]
    BY <1>4 DEF Kill, CancelTimer, NothingEarly, jobVars
  <2>2. TimersLeft' \subseteq TimersLeft
    BY <2>1 DEF TimersLeft, TypeOK
  <2>3. <<j, "firing">> \in TimersLeft /\ <<j, "firing">> \notin TimersLeft'
    BY <2>1 DEF TimersLeft, TypeOK
  <2>4. ContainersLeft' \subseteq ContainersLeft
    BY <2>1 DEF ContainersLeft, Killed, TypeOK
  <2> QED  BY <1>1, <1>2, <2>2, <2>3, <2>4, RestStays, FewerSteps
<1>5. CASE Exit(j)
  <2>1. TimersLeft' = TimersLeft
    BY <1>5 DEF Exit, TimersLeft, jobVars
  <2>2. ContainersLeft' \subseteq ContainersLeft /\ j \in ContainersLeft /\ j \notin ContainersLeft'
    BY <1>5 DEF Exit, ContainersLeft, Exited, TypeOK
  <2> QED  BY <1>1, <1>2, <2>1, <2>2, RestStays, FewerSteps
<1> QED  BY <1>3, <1>4, <1>5 DEF TimerStep

(* Whatever fails, a run repeats no step: each one leaves fewer to take,   *)
(* so a run comes to rest after a bounded number of them (execute_pipeline, *)
(* run_job and _timeout_container: runner.py:33-167, 174-290, 318-324).     *)
THEOREM EveryStepCountsHolds ==
  ASSUME IsFiniteSet(Packages), IsFiniteSet(Artifacts)
  PROVE  Spec => [](StepsLeft \in Nat) /\ EveryStepCounts
<1>1. TypeOK => StepsLeft \in Nat
  <2> SUFFICES ASSUME TypeOK PROVE StepsLeft \in Nat
    OBVIOUS
  <2> QED  BY StepsType DEF StepsLeft
<1>2. TypeOK /\ TypeOK' /\ Barrier /\ NothingEarly /\ NothingEarly' /\ [Next]_vars
        => [StepsLeft' < StepsLeft]_vars
  <2> SUFFICES ASSUME TypeOK, TypeOK', Barrier, NothingEarly, NothingEarly', Next,
                      ~ UNCHANGED vars
               PROVE  StepsLeft' < StepsLeft
    OBVIOUS
  <2> QED  BY RunStepCounts, JobStepCounts, EnvironmentCounts DEF Next, Terminated
<1> QED
  BY <1>1, <1>2, TypeCorrect, BarrierHolds, StreamsAreGuardedHolds, PTL
     DEF Spec, EveryStepCounts
=============================================================================
