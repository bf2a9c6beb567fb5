------------------------------- MODULE Runner -------------------------------
(***************************************************************************)
(* One pipeline run: the coroutine execute_pipeline, the run_job task it   *)
(* gathers for every job of a group, the timeout task each job arms, and   *)
(* the docker daemon as far as the runner uses it.                         *)
(*                                                                         *)
(* The engine is one asyncio event loop, so an action is what happens      *)
(* between two awaits.  Awaits with nothing but an await between them are  *)
(* one; a program counter names what the coroutine is waiting for.         *)
(*                                                                         *)
(* A step that can raise does so when its kind is in Faults:               *)
(*   log       the run's log file cannot be appended to                    *)
(*   registry  the registry is unreachable, late, or answers with an error *)
(*   tamper    the registry returns bytes the lockfile does not expect     *)
(*   prepare   directories, script, cpu limit or docker client (no try)    *)
(*   launch    the network or the container cannot be created              *)
(*   start     the container is created and then does not start            *)
(*   stream    reading the container's log raises                          *)
(*   eof       the log stream ends while the container still runs          *)
(*   reload    the container cannot be inspected                           *)
(*   kill      docker refuses to kill                                      *)
(*   cleanup   docker refuses to remove or disconnect                      *)
(***************************************************************************)
EXTENDS Naturals, Sequences, FiniteSets, Layering

CONSTANTS
  Jobs,            \* run["jobs"]
  Needs,           \* run["dag"]
  Groups,          \* run["groups"], each group as a set
  MaxConcurrency,  \* engine.max_concurrency
  Packages,        \* the packages of the lockfile; {} when there is nothing to resolve
  Artifacts,       \* pipeline["artifacts"]
  Faults           \* what may go wrong

FaultKinds == {"log", "registry", "tamper", "prepare", "launch", "start",
               "stream", "eof", "reload", "kill", "cleanup"}

ASSUME JobsAssumption        == IsFiniteSet(Jobs) /\ Jobs # {} /\ Needs \in [Jobs -> SUBSET Jobs]
ASSUME GroupsAssumption      == IsLayering(Jobs, Needs, Groups)
ASSUME ConcurrencyAssumption == MaxConcurrency \in Nat \ {0}
ASSUME FaultsAssumption      == Faults \subseteq FaultKinds

VARIABLES
  status,      \* run["status"]
  jobStatus,   \* run["jobs"][j]["status"]
  lockfile,    \* run["lockfile"]
  pc,          \* what execute_pipeline waits for
  group,       \* position of the group loop
  pulled,      \* packages downloaded and verified
  published,   \* artifacts the registry has stored
  alerts,      \* alert tasks created
  blamed,      \* failing_job of the "failed" alert
  task,        \* what the run_job task of a job waits for
  container,   \* the job's container, as docker sees it
  network,     \* the job's network
  timer        \* the job's timeout task

runVars    == <<status, pc, alerts, blamed>>
dataVars   == <<lockfile, group, pulled, published>>
dockerVars == <<container, network, timer>>
jobVars    == <<jobStatus, task>>
vars       == <<runVars, dataVars, dockerVars, jobVars>>

Terminal    == {"succeeded", "failed", "conflict_failure", "cycle_failure", "integrity_failure"}
RunStatus   == {"queued", "running"} \cup Terminal
JobStatus   == {"queued", "running", "succeeded", "failed", "skipped"}
Rejections  == {"conflict", "cycle", "unresolved"}
PC          == {"created", "resolving", "resolved", "pulling", "integrity", "grouping",
                "gathering", "skipping", "publishing", "unpublished", "succeeding",
                "handler", "done", "dead"} \cup Rejections
ActiveTask  == {"preparing", "launched", "streaming", "oom", "passed", "raising"}
TaskState   == {"none", "waiting", "returned", "raised"} \cup ActiveTask
Exited      == {"exited_ok", "exited_err"}
Container   == {"none", "created", "running", "gone"} \cup Exited
Network     == {"none", "bare", "joined"}
Timer       == {"off", "armed", "firing"}
Blame       == Jobs \cup {"nobody", "artifact-publish", "exception"}

Init ==
  /\ status = "queued" /\ pc = "created" /\ alerts = {} /\ blamed = "nobody"
  /\ lockfile = "none" /\ group = 1 /\ pulled = {} /\ published = {}
  /\ jobStatus = [j \in Jobs |-> "queued"]
  /\ task      = [j \in Jobs |-> "none"]
  /\ container = [j \in Jobs |-> "none"]
  /\ network   = [j \in Jobs |-> "none"]
  /\ timer     = [j \in Jobs |-> "off"]

-----------------------------------------------------------------------------
(* How execute_pipeline ends, or goes to wait for something else.          *)

Goto(label) == pc' = label /\ UNCHANGED <<status, alerts, blamed>>

(* The run gets an outcome, the alert task is created, and it returns.     *)
End(outcome, event) ==
  /\ status' = outcome
  /\ alerts' = alerts \cup {event}
  /\ pc' = "done"

Fail(who) == End("failed", "failed") /\ blamed' = who

(***************************************************************************)
(* Dependencies.  This part runs before the try block of execute_pipeline. *)
(***************************************************************************)

Begin ==
  /\ pc = "created"
  /\ status' = "running"
  /\ alerts' = alerts \cup {"running"}
  /\ IF Packages = {} THEN pc' = "pulling" /\ lockfile' = "locked"
                      ELSE pc' = "resolving" /\ UNCHANGED lockfile
  /\ UNCHANGED <<blamed, group, pulled, published, dockerVars, jobVars>>

(* POST /resolve.  A 400 that says "cycle" is reported as a cycle unless   *)
(* its text also holds "conflict" (a package name can).                    *)
ResolveDependencies ==
  /\ pc = "resolving"
  /\ \/ Goto("resolved") /\ lockfile' = "locked"
     \/ \E refusal \in {"conflict", "cycle"} : Goto(refusal) /\ UNCHANGED lockfile
     \/ "registry" \in Faults /\ Goto("unresolved") /\ UNCHANGED lockfile
  /\ UNCHANGED <<group, pulled, published, dockerVars, jobVars>>

StartPulling ==
  /\ pc = "resolved"
  /\ Goto("pulling")
  /\ UNCHANGED <<dataVars, dockerVars, jobVars>>

(* The except clauses of resolution.  A failure that is neither a conflict *)
(* nor a cycle fails the run and creates no alert.                         *)
RejectRun ==
  /\ \/ pc = "conflict" /\ End("conflict_failure", "resolution")
     \/ pc = "cycle" /\ End("cycle_failure", "resolution")
     \/ pc = "unresolved" /\ status' = "failed" /\ pc' = "done" /\ UNCHANGED alerts
  /\ UNCHANGED <<blamed, dataVars, dockerVars, jobVars>>

(* From here on every exception reaches the last except clause.            *)
MakeDirsFails ==
  /\ pc = "pulling" /\ pulled = {}
  /\ "prepare" \in Faults
  /\ Goto("handler")
  /\ UNCHANGED <<dataVars, dockerVars, jobVars>>

PullAndVerify(p) ==
  /\ pc = "pulling" /\ p \notin pulled
  /\ \/ UNCHANGED runVars /\ pulled' = pulled \cup {p}
     \/ "tamper" \in Faults /\ Goto("integrity") /\ UNCHANGED pulled
     \/ "registry" \in Faults /\ Goto("handler") /\ UNCHANGED pulled
  /\ UNCHANGED <<lockfile, group, published, dockerVars, jobVars>>

(* Mutant: the integrity error is reported and the pull loop goes on.      *)
IntegrityFailureContinues ==
  /\ pc = "integrity"
  /\ status' = "integrity_failure" /\ alerts' = alerts \cup {"integrity"} /\ pc' = "pulling"
  /\ UNCHANGED <<blamed, dataVars, dockerVars, jobVars>>

IntegrityFailure ==
  /\ pc = "integrity"
  /\ End("integrity_failure", "integrity")
  /\ UNCHANGED <<blamed, dataVars, dockerVars, jobVars>>

EnterGroups ==
  /\ pc = "pulling" /\ pulled = Packages
  /\ Goto("grouping")
  /\ UNCHANGED <<dataVars, dockerVars, jobVars>>

(***************************************************************************)
(* The group loop.                                                         *)
(***************************************************************************)

(* gather() creates the tasks of the group; they queue at the semaphore.   *)
StartGroup ==
  /\ pc = "grouping"
  /\ Goto("gathering")
  /\ task' = [j \in Jobs |-> IF j \in Groups[group] THEN "waiting" ELSE task[j]]
  /\ UNCHANGED <<jobStatus, dataVars, dockerVars>>

Finished(j) == task[j] \in {"returned", "raised"}

(* Mutants: the first task to finish ends the wait; only a group in which  *)
(* every job broke has failed.                                             *)
GatherFirst    == \E j \in Groups[group] : Finished(j)
WholeGroupDown == \A j \in Groups[group] : task[j] = "raised"

GatherDone  == \A j \in Groups[group] : Finished(j)
GroupFailed == \E j \in Groups[group] : task[j] = "raised" \/ jobStatus[j] = "failed"
MoreGroups  == group < Len(Groups)

GatherReturns ==
  /\ pc = "gathering" /\ GatherDone
  /\ \/ GroupFailed /\ Goto("skipping") /\ UNCHANGED group
     \/ ~ GroupFailed /\ MoreGroups /\ Goto("grouping") /\ group' = group + 1
     \/ ~ GroupFailed /\ ~ MoreGroups /\ Goto("publishing") /\ UNCHANGED group
  /\ UNCHANGED <<lockfile, pulled, published, dockerVars, jobVars>>

(* Mutants: jobs of earlier groups count as remaining; a job that did not  *)
(* succeed counts as failing.                                              *)
AllOtherJobs  == {j \in Jobs : j \notin Groups[group]}
UnfinishedJobs == {j \in Jobs : jobStatus[j] # "succeeded"}

GetRemainingJobs == {j \in Jobs : jobStatus[j] = "queued" /\ j \notin Groups[group]}

Skip(j) ==
  /\ pc = "skipping" /\ j \in GetRemainingJobs
  /\ jobStatus' = [jobStatus EXCEPT ![j] = "skipped"]
  /\ UNCHANGED <<task, runVars, dataVars, dockerVars>>

FailingJobs == {j \in Jobs : jobStatus[j] = "failed"}

FailRun ==
  /\ pc = "skipping" /\ GetRemainingJobs = {}
  /\ \E who \in (IF FailingJobs = {} THEN {"nobody"} ELSE FailingJobs) : Fail(who)
  /\ UNCHANGED <<dataVars, dockerVars, jobVars>>

(***************************************************************************)
(* Publishing.  The file a job should have produced may be missing, and    *)
(* the registry may refuse (409); an answer or a log line that is lost     *)
(* after the registry stored the artifact looks like a refusal.            *)
(***************************************************************************)
PublishArtifact(a) ==
  /\ pc = "publishing" /\ a \notin published
  /\ \/ UNCHANGED runVars /\ published' = published \cup {a}
     \/ Goto("unpublished") /\ UNCHANGED published
     \/ /\ Faults \cap {"registry", "log"} # {}
        /\ Goto("unpublished") /\ published' = published \cup {a}
  /\ UNCHANGED <<lockfile, group, pulled, dockerVars, jobVars>>

PublishFailed ==
  /\ pc = "unpublished"
  /\ Fail("artifact-publish")
  /\ UNCHANGED <<dataVars, dockerVars, jobVars>>

(* The status is set before the last log line is written.                  *)
SucceedRun ==
  /\ pc = "publishing" /\ published = Artifacts
  /\ status' = "succeeded" /\ pc' = "succeeding"
  /\ UNCHANGED <<alerts, blamed, dataVars, dockerVars, jobVars>>

FinishRun ==
  /\ pc = "succeeding"
  /\ End("succeeded", "succeeded")
  /\ UNCHANGED <<blamed, dataVars, dockerVars, jobVars>>

UnexpectedError ==
  /\ pc = "handler"
  /\ Fail("exception")
  /\ UNCHANGED <<dataVars, dockerVars, jobVars>>

(* An exception of the awaited log line ends the coroutine before the try  *)
(* block and in its handler (nobody retrieves it: the run stays as it is), *)
(* and goes to the handler in between.                                     *)
Unhandled == {"created", "resolving", "handler"} \cup Rejections
Handled   == {"pulling", "integrity", "grouping", "skipping", "publishing", "unpublished",
              "succeeding"}

LogFails ==
  /\ "log" \in Faults
  /\ \/ pc \in Unhandled /\ Goto("dead")
     \/ pc = "resolved" /\ Goto("unresolved")
     \/ pc \in Handled /\ Goto("handler")
  /\ pc = "pulling" => pulled # Packages
  /\ pc = "publishing" => published # Artifacts
  /\ UNCHANGED <<dataVars, dockerVars, jobVars>>

RunStep ==
  \/ Begin \/ ResolveDependencies \/ StartPulling \/ RejectRun
  \/ MakeDirsFails \/ (\E p \in Packages : PullAndVerify(p)) \/ IntegrityFailure
  \/ EnterGroups \/ StartGroup \/ GatherReturns \/ (\E j \in Jobs : Skip(j)) \/ FailRun
  \/ (\E a \in Artifacts : PublishArtifact(a)) \/ PublishFailed
  \/ SucceedRun \/ FinishRun \/ UnexpectedError \/ LogFails

-----------------------------------------------------------------------------
(***************************************************************************)
(* run_job: one task per job of the group, at most MaxConcurrency of them  *)
(* inside the semaphore.                                                   *)
(***************************************************************************)

TaskGoto(j, label) == task' = [task EXCEPT ![j] = label]
SetJob(j, outcome) == jobStatus' = [jobStatus EXCEPT ![j] = outcome]

(* The except clause: the job is failed, and its error is being logged.    *)
JobFails(j) == SetJob(j, "failed") /\ TaskGoto(j, "raising")

HoldsSlot(j) == task[j] \in ActiveTask

(* Mutant: one slot too many.                                              *)
SlotFreePlusOne == Cardinality({j \in Jobs : HoldsSlot(j)}) <= MaxConcurrency

SlotFree == Cardinality({j \in Jobs : HoldsSlot(j)}) < MaxConcurrency

Acquire(j) ==
  /\ task[j] = "waiting" /\ SlotFree
  /\ SetJob(j, "running")
  /\ TaskGoto(j, "preparing")
  /\ UNCHANGED <<runVars, dataVars, dockerVars>>

(* Everything before the try block of run_job: the exception leaves the    *)
(* task at once and the job's status stays "running".                      *)
Escape(j) ==
  /\ task[j] = "preparing"
  /\ Faults \cap {"prepare", "log"} # {}
  /\ TaskGoto(j, "raised")
  /\ UNCHANGED <<jobStatus, runVars, dataVars, dockerVars>>

(* Network, registry attachment (when docker lists a registry), container. *)
Launch(j) ==
  /\ task[j] = "preparing"
  /\ \E n \in {"bare", "joined"} : network' = [network EXCEPT ![j] = n]
  /\ container' = [container EXCEPT ![j] = "running"]
  /\ TaskGoto(j, "launched")
  /\ UNCHANGED <<jobStatus, timer, runVars, dataVars>>

LaunchFails(j) ==
  /\ task[j] = "preparing" /\ "launch" \in Faults
  /\ \E n \in Network : network' = [network EXCEPT ![j] = n]
  /\ JobFails(j)
  /\ UNCHANGED <<container, timer, runVars, dataVars>>

(* containers.run() creates, then starts: when starting raises, the caller *)
(* never gets a handle of the container that was created.                  *)
StartFails(j) ==
  /\ task[j] = "preparing" /\ "start" \in Faults
  /\ \E n \in {"bare", "joined"} : network' = [network EXCEPT ![j] = n]
  /\ container' = [container EXCEPT ![j] = "created"]
  /\ JobFails(j)
  /\ UNCHANGED <<timer, runVars, dataVars>>

StartStreaming(j) ==
  /\ task[j] = "launched"
  /\ \/ TaskGoto(j, "streaming") /\ timer' = [timer EXCEPT ![j] = "armed"] /\ UNCHANGED jobStatus
     \/ "log" \in Faults /\ JobFails(j) /\ UNCHANGED timer
  /\ UNCHANGED <<container, network, runVars, dataVars>>

CancelTimer(j) == timer' = [timer EXCEPT ![j] = "off"]

(* The log stream reaches its end, the timeout is cancelled and the exit   *)
(* code is read: that of a container still running reads as 0.             *)
StreamEnds(j) ==
  /\ task[j] = "streaming"
  /\ container[j] \in Exited \/ "eof" \in Faults
  /\ CancelTimer(j)
  /\ \/ container[j] # "exited_err" /\ SetJob(j, "succeeded") /\ TaskGoto(j, "passed")
     \/ container[j] = "exited_err" /\ JobFails(j)
     \/ container[j] = "exited_err" /\ TaskGoto(j, "oom") /\ UNCHANGED jobStatus
     \/ "reload" \in Faults /\ JobFails(j)
  /\ UNCHANGED <<container, network, runVars, dataVars>>

(* The stream raises: the timeout task is not cancelled.                   *)
StreamBreaks(j) ==
  /\ task[j] = "streaming" /\ "stream" \in Faults
  /\ JobFails(j)
  /\ UNCHANGED <<dockerVars, runVars, dataVars>>

ReportOOM(j) ==
  /\ task[j] = "oom"
  /\ JobFails(j)
  /\ UNCHANGED <<dockerVars, runVars, dataVars>>

(* The line "Job succeeded" cannot be logged: the except clause fails it.  *)
PassedLogFails(j) ==
  /\ task[j] = "passed" /\ "log" \in Faults
  /\ JobFails(j)
  /\ UNCHANGED <<dockerVars, runVars, dataVars>>

(* What the finally block leaves of a container and of a network.  Every   *)
(* docker error is swallowed, and the next call is made; docker keeps a    *)
(* network in use.                                                         *)
HasHandle(j) == container[j] \in {"running"} \cup Exited

(* Mutant: the container is removed on the way to success only.            *)
RemoveOnSuccess(j) == IF HasHandle(j) /\ task[j] = "passed" THEN {"gone"} ELSE {container[j]}

AfterRemove(j) ==
  IF HasHandle(j) THEN {"gone"} \cup (IF "cleanup" \in Faults THEN {container[j]} ELSE {})
                  ELSE {container[j]}
AfterDisconnect(j) ==
  {"none"} \cup (IF "cleanup" \notin Faults THEN {}
                 ELSE IF network[j] = "joined" THEN {"joined", "bare"} ELSE {network[j]})

Cleanup(j) ==
  /\ task[j] \in {"passed", "raising"}
  /\ \E c \in AfterRemove(j), n \in AfterDisconnect(j) :
       /\ c = "running" => n # "none"
       /\ container' = [container EXCEPT ![j] = c]
       /\ network' = [network EXCEPT ![j] = n]
  /\ TaskGoto(j, IF task[j] = "passed" THEN "returned" ELSE "raised")
  /\ UNCHANGED <<jobStatus, timer, runVars, dataVars>>

JobStep(j) ==
  \/ Acquire(j) \/ Escape(j) \/ Launch(j) \/ LaunchFails(j) \/ StartFails(j)
  \/ StartStreaming(j) \/ StreamEnds(j) \/ StreamBreaks(j) \/ ReportOOM(j)
  \/ PassedLogFails(j) \/ Cleanup(j)

-----------------------------------------------------------------------------
(* _timeout_container, and the container itself.                           *)

TimerFires(j) ==
  /\ timer[j] = "armed"
  /\ timer' = [timer EXCEPT ![j] = "firing"]
  /\ UNCHANGED <<container, network, runVars, dataVars, jobVars>>

(* Mutant: the timeout is logged and nothing is killed.                    *)
NotKilled(c) == c

Killed(c) == IF c = "running" THEN "exited_err" ELSE c

Kill(j) ==
  /\ timer[j] = "firing"
  /\ CancelTimer(j)
  /\ \/ container' = [container EXCEPT ![j] = Killed(@)]
     \/ Faults \cap {"kill", "log"} # {} /\ UNCHANGED container
  /\ UNCHANGED <<network, runVars, dataVars, jobVars>>

TimerStep(j) == TimerFires(j) \/ Kill(j)

Exit(j) ==
  /\ container[j] = "running"
  /\ \E c \in Exited : container' = [container EXCEPT ![j] = c]
  /\ UNCHANGED <<network, timer, runVars, dataVars, jobVars>>

Terminated == pc \in {"done", "dead"} /\ UNCHANGED vars

Next == RunStep \/ (\E j \in Jobs : JobStep(j) \/ TimerStep(j) \/ Exit(j)) \/ Terminated

Spec == Init /\ [][Next]_vars

(* The event loop runs every task that can proceed, and sleep() returns.   *)
(* Nothing makes a container exit by itself, nor the log of one that still *)
(* runs end or break.                                                      *)
CanProceed(j) == task[j] = "streaming" => container[j] \in Exited

Fairness ==
  /\ WF_vars(RunStep)
  /\ \A j \in Jobs : WF_vars(CanProceed(j) /\ JobStep(j)) /\ WF_vars(TimerStep(j))

FairSpec == Spec /\ Fairness

-----------------------------------------------------------------------------
(* Properties.                                                             *)

(* Every variable keeps its type.                                          *)
TypeOK ==
  /\ status \in RunStatus /\ pc \in PC /\ blamed \in Blame
  /\ alerts \subseteq {"running", "succeeded", "failed", "resolution", "integrity"}
  /\ lockfile \in {"none", "locked"} /\ group \in 1 .. Len(Groups)
  /\ pulled \subseteq Packages /\ published \subseteq Artifacts
  /\ jobStatus \in [Jobs -> JobStatus]
  /\ task \in [Jobs -> TaskState]
  /\ container \in [Jobs -> Container]
  /\ network \in [Jobs -> Network]
  /\ timer \in [Jobs -> Timer]

Ended == pc \in {"done", "dead"}

(* A job runs only when the jobs it needs have succeeded, and with every   *)
(* package of the lockfile downloaded and verified.                        *)
NeedsSucceeded ==
  \A j \in Jobs : jobStatus[j] \in {"running", "succeeded", "failed"} =>
    /\ \A n \in Needs[j] : jobStatus[n] = "succeeded"
    /\ pulled = Packages

(* A run starts at most MaxConcurrency containers at a time.               *)
Running == {j \in Jobs : container[j] = "running"}
ConcurrencyBound == Cardinality(Running) <= MaxConcurrency

(* All jobs of a run write to one workspace directory, so two containers   *)
(* run at once only when neither job could need the other: they belong to  *)
(* one group, the one being gathered.                                      *)
OneGroupRuns == \A j \in Running : pc = "gathering" /\ j \in Groups[group]

(* A run that succeeded has run every job and published every artifact.    *)
SuccessMeansAll ==
  status = "succeeded" =>
    /\ \A j \in Jobs : jobStatus[j] = "succeeded"
    /\ published = Artifacts

(* When the coroutine is over, no container and no network of the run is   *)
(* left on the host: what the finally block of run_job is for.             *)
Reclaimed(j) == container[j] \in {"none", "gone"} /\ network[j] = "none"
NothingLeaks == Ended => \A j \in Jobs : Reclaimed(j)

(* "skipped" is for jobs that never ran, downstream of a group that broke. *)
SkippedNeverRan ==
  \A j \in Jobs : jobStatus[j] = "skipped" =>
    /\ task[j] = "none" /\ container[j] = "none"
    /\ \E k \in Jobs : task[k] = "raised" /\ k \in Groups[group]

(* The alert of an outcome is sent once the run has that outcome, and a    *)
(* "failed" alert blames a job only if that job is failed.                 *)
AlertsTruthful ==
  /\ "succeeded" \in alerts => status = "succeeded"
  /\ "failed" \in alerts => status = "failed"
  /\ "integrity" \in alerts => status = "integrity_failure"
  /\ blamed \in Jobs => jobStatus[blamed] = "failed"

(* A verdict is never taken back, neither of the run nor of a job: a       *)
(* client that polls the run may stop at the first one it sees.            *)
Settled == {"succeeded", "failed", "skipped"}
VerdictsAreFinal ==
  [][/\ status \in Terminal => status' = status
     /\ \A j \in Jobs : jobStatus[j] \in Settled => jobStatus'[j] = jobStatus[j]]_vars

(* Every run ends: the timeout ends each container that does not exit.     *)
RunEnds == <>(pc = "done")

(* Every container and network is reclaimed, whatever the container does.  *)
EverythingReclaimed == \A j \in Jobs : [](container[j] = "running" ~> Reclaimed(j))

(* The run as its clients see it.                                          *)
Promise == INSTANCE PipelineRun
ImplementsPipelineRun == Promise!Spec
-----------------------------------------------------------------------------
(* Why a run comes to an end.                                              *)

(* How many steps a run still takes at most: of its coroutine, of each     *)
(* task, of each timeout and of each container.                            *)
PhasesLeft ==
  LET rest == 2 * (Len(Groups) - group)
  IN CASE pc = "created"   -> rest + 9
       [] pc = "resolving" -> rest + 8
       [] pc = "resolved"  -> rest + 7
       [] pc = "pulling"   -> rest + 6
       [] pc = "grouping"  -> rest + 5
       [] pc = "gathering" -> rest + 4
       [] pc \in Rejections \cup {"integrity", "skipping", "publishing"} -> 3
       [] pc \in {"unpublished", "succeeding"} -> 2
       [] pc = "handler"   -> 1
       [] pc \in {"done", "dead"} -> 0

TaskRank(j) ==
  CASE task[j] = "none" -> 7
    [] task[j] = "waiting" -> 6
    [] task[j] = "preparing" -> 5
    [] task[j] = "launched" -> 4
    [] task[j] = "streaming" -> 3
    [] task[j] \in {"oom", "passed"} -> 2
    [] task[j] = "raising" -> 1
    [] task[j] \in {"returned", "raised"} -> 0

Unarmed == {"none", "waiting", "preparing", "launched"}

TasksLeft      == {s \in Jobs \X (1 .. 7) : s[2] <= TaskRank(s[1])}
TimersLeft     == {s \in Jobs \X {"armed", "firing"} :
                     task[s[1]] \in Unarmed \/ timer[s[1]] \in {"armed", s[2]}}
ContainersLeft == {j \in Jobs : container[j] \in {"none", "created", "running"}}
QueuedJobs     == {j \in Jobs : jobStatus[j] = "queued"}

StepsLeft ==
  PhasesLeft + Cardinality(Packages \ pulled) + Cardinality(Artifacts \ published)
  + Cardinality(QueuedJobs) + Cardinality(TasksLeft) + Cardinality(TimersLeft)
  + Cardinality(ContainersLeft)

(* Whatever fails, no step of a run is ever repeated: each one leaves      *)
(* fewer to take.                                                          *)
EveryStepCounts == [][StepsLeft' < StepsLeft]_vars

(* While gather() waits, one of its tasks can go on: whoever queues at the *)
(* semaphore gets a slot sooner or later, and whoever streams waits for a  *)
(* container that runs or has exited.                                      *)
CanGoOn(j) ==
  \/ task[j] = "waiting" /\ SlotFree
  \/ task[j] \in ActiveTask \ {"streaming"}
  \/ task[j] = "streaming" /\ container[j] \in {"running"} \cup Exited
GatherGoesOn == pc = "gathering" => GatherDone \/ \E j \in Groups[group] : CanGoOn(j)

(* A container whose log a job reads is watched by a timeout that has not  *)
(* been spent, unless docker refused to kill or the line could not be      *)
(* logged.                                                                 *)
StreamsAreGuarded ==
  Faults \cap {"kill", "log"} = {} =>
    \A j \in Jobs : task[j] = "streaming" /\ container[j] = "running" =>
      timer[j] \in {"armed", "firing"}

(* Nothing of a job is there before its task has made it.                  *)
NothingEarly ==
  \A j \in Jobs :
    /\ task[j] \in {"none", "waiting", "preparing"} => container[j] = "none"
    /\ task[j] \in Unarmed => timer[j] = "off"
    /\ task[j] \in {"launched", "streaming"} => container[j] \in {"running"} \cup Exited

-----------------------------------------------------------------------------
(* What the safety properties rest on.                                     *)

Past    == Before(Groups, group)
Current == Groups[group]
InHand  == ActiveTask \ {"preparing"}

(* gather() is a barrier: behind the group loop every task has returned,   *)
(* ahead of it none has been created, and tasks only run while it waits.   *)
Barrier ==
  /\ \A j \in Past : task[j] = "returned"
  /\ \A j \in Jobs : task[j] # "none" => j \in Past \cup Current
  /\ pc \in {"created", "resolving", "resolved", "pulling"} => \A j \in Jobs : task[j] = "none"
  /\ pc = "grouping" => \A j \in Current : task[j] = "none"
  /\ \A j \in Jobs : task[j] \in ActiveTask \cup {"waiting"} => pc = "gathering"
  /\ \A j \in Jobs : task[j] \in {"passed", "returned"} => jobStatus[j] = "succeeded"
  /\ \A j \in Jobs : jobStatus[j] \in {"running", "succeeded", "failed"} =>
       task[j] \notin {"none", "waiting"}
  /\ pc \in {"grouping", "gathering"} \/ (\E j \in Jobs : task[j] # "none") => pulled = Packages
  /\ pc = "succeeding" => status = "succeeded"
  /\ pc = "publishing" \/ status = "succeeded" =>
       \A j \in Jobs : task[j] = "returned"
  /\ status = "succeeded" =>
       published = Artifacts /\ pc \in {"succeeding", "handler", "done", "dead"}

(* The semaphore admits no more tasks than it has slots.                   *)
SlotBound == Cardinality({j \in Jobs : HoldsSlot(j)}) <= MaxConcurrency

(* Only a task past its preparations holds a container or a network.       *)
Held ==
  /\ "cleanup" \notin Faults =>
       \A j \in Jobs : HasHandle(j) => task[j] \in InHand
  /\ Faults \cap {"cleanup", "start"} = {} =>
       \A j \in Jobs : ~ Reclaimed(j) => task[j] \in InHand
  /\ "start" \notin Faults => \A j \in Jobs : container[j] # "created"

(* How the status of the run and of its jobs follow from the coroutines,   *)
(* unless a job's exception escapes before its try block.                  *)
Lifecycle ==
  /\ status = "queued" <=> pc = "created"
  /\ pc \notin {"created", "succeeding", "done"} => status = "running"
  /\ \A j \in Jobs : /\ task[j] \in {"none", "waiting"} => jobStatus[j] \in {"queued", "skipped"}
                     /\ task[j] \in {"preparing", "launched", "streaming", "oom"} =>
                          jobStatus[j] = "running"
                     /\ task[j] \in {"raising", "raised"} => jobStatus[j] = "failed"
                     /\ jobStatus[j] = "skipped" => pc \in {"skipping", "done"}
  /\ pc = "skipping" => /\ \A j \in Current : Finished(j)
                        /\ FailingJobs # {}
  /\ pc \in {"handler", "conflict", "cycle", "unresolved", "integrity"} =>
       \A j \in Jobs : task[j] = "none"
  /\ pc = "unpublished" => \A j \in Jobs : task[j] = "returned"
=============================================================================
