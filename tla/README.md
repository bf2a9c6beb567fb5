# A specification of Forge

Forge is a CI engine with an artifact registry. The engine takes a pipeline,
orders its jobs, runs each in a container, streams the log and publishes what
the jobs made; the registry stores artifacts under `name@version`, once and for
all, and resolves dependencies. This directory holds TLA+ models of that code,
the configurations that check them with TLC on small instances, and theorems
that TLAPS proves for instances of any size. Source paths below are relative to
the root of the repository.

## Inventory

| component | code | state it keeps | operations | what is hard |
|---|---|---|---|---|
| pipeline runner | `engine/runner.py` | the run record (status, job statuses, lockfile), a semaphore, one task per job of a group, one timeout task per container, docker's containers and networks | `execute_pipeline`, `run_job`, `_timeout_container`, `pull_and_verify`, `publish_artifact` | coroutines interleave at every `await`; jobs of a group fail while siblings run; exceptions before and after the `try` blocks; cleanup with partial handles; the timeout races the end of the log |
| scheduler | `engine/scheduler.py` | none beyond a call | `build_dag`, `detect_cycles`, `get_parallel_groups` | search and grouping must agree, or grouping is stuck |
| log streaming | `engine/logs.py`, `engine/runner.py:297`, `engine/main.py:140` | one file per run | `write_log_line`, `stream_logs` | writers that nobody awaits, readers that decide to end from a status set elsewhere |
| executor threads | asyncio's default executor, used by `runner.py:311` and by aiofiles | a queue of work, a fixed number of threads | log readers, log lines | readers block threads that the timeouts need |
| engine API, gateway | `engine/main.py` | `runs`, in memory | `create_run`, `get_run`, `get_lockfile`, `get_logs`, proxies | lost at a restart; requests and uploads outlive it on the other side |
| registry uploads | `registry/main.py`, `storage.py`, `metadata.py` | the blob directory and the `artifacts` table | `upload_artifact`, `save_blob`, `save_artifact`, downloads | file and row are separate writes; check-then-act twice; killed in between |
| dependency resolver | `registry/resolver.py` | none beyond a call | `Version`, `satisfies`, `_solve`, `resolve` | backtracking over a table that grows meanwhile, cycles, partial versions |
| authentication | `registry/auth.py`, `engine/main.py:29` | the `tokens` table | create, verify, revoke, seed | one database, two services; checked once, used later |
| pipeline parser | `engine/parser.py` | none | `parse_pipeline` | the code behind it indexes without asking |
| command line client | `cli/forge.py` | a credentials file | `run`, `publish`, `logs`, `resolve`, `ls`, `login` | stops waiting while the server goes on |
| alerts, deployment | `engine/alerts.py`, `compose.yaml` | none | | delivery of alerts is tried once |

They interact like this. A command of the client goes to the engine, which
looks up its token in a table it shares with the registry and handles it or
passes it on. `create_run` calls the parser and the scheduler and, when they accept,
creates the run record and the `execute_pipeline` task. The runner calls the
registry over HTTP (`/resolve`, downloads, uploads), docker synchronously on
the event loop, and the log writer. Clients poll `GET /runs/{id}` and follow
the log; both look at `run["status"]` at moments of their own. Everything in the
engine that touches the log goes through one thread pool.

What makes each part correct: no job runs before what it needs; a run succeeds
only with every job; verdicts are never taken back; limits hold; nothing is left
on the host; every run ends (runner). Cycles are found exactly; accepted groups
are a layering, of complete documents (parser, scheduler). Lockfiles are solutions
and refusals just (resolver). Bindings are immutable, answers true, files whole
(registry). A follower who has found the log is cut off only after the verdict
and sees why a run failed; streams end (log). What users are told is true, success means
published, a revoked token is dead (the service as a whole). Timeouts can always be carried out (threads). The
hazards, at their lines, are listed in `PROJECT.json`.

## Modules

| module | models | instances and proofs |
|---|---|---|
| `Layering` | what a correct list of execution groups is | used by `Scheduler` (proved) and `Runner` (assumed) |
| `Parser` | which documents `parse_pipeline` lets through | used by `Submission` |
| `Scheduler` | three-colour search, grouping | `SchedulerProofs` |
| `Submission` | `create_run` up to the record: `Parser`, then `Scheduler` | `MCScheduler`, `SchedulerProofs` |
| `Runner` | one run: `execute_pipeline`, `run_job` per job, timeouts, docker | `MCRunner`, `RunnerProofs` |
| `PipelineRun` | abstract: the life of a run as its clients see it | implemented by `Runner`, proved in `RunnerPromiseProofs` |
| `Semver` | versions, their order, constraints, and the ranges the documentation gives them | used by `Resolver`; `ResolverProofs` |
| `Resolver` | one `POST /resolve`: the backtracking search, with uploads during it | `MCResolver`, `ResolverProofs` |
| `Resolution` | abstract: a resolver that answers in one step, looking at all choices of rows at once | implemented by `Resolver`, proved in `ResolverProofs` |
| `Registry` | uploads: handler, blob directory, table, crashes, a failing disk | `MCRegistry`, `RegistryProofs` |
| `ArtifactStore` | abstract: write-once bindings and what publishers are told | implemented by `Registry`, proved in `RegistryProofs` |
| `LogStream` | one run's log file, its writers and its followers | `MCLogStream`, `LogStreamProofs` |
| `ThreadPool` | the executor under the log readers and timeouts of all runs | `MCThreadPool`, `ThreadPoolProofs` |
| `Forge` | the service as its users see it: commands, engine with crashes, gateway, runs' artifact loops, registry, tokens | `MCForge`, `ForgeProofs` |

`Scheduler` and `Runner` are joined by `IsLayering`: the first is proved to hand
over such groups, the second assumes them of its constant `Groups`
(`GroupsAssumption`). `Runner` assumes of the threads that a log line is written
sooner or later; `ThreadPool` says when this is so. `LogStream` looks closer at
the log lines of a run (and assumes the same), `Runner` at their failures. `Runner` takes any answer of
`/resolve` the code distinguishes; `Resolver` says which one is given. `Forge`
composes many runs with everything around them and abstracts each part that has
a module of its own: the jobs of a run are one step (`Runner`), an upload is a
check and a row (`Registry`, which `ArtifactStore` summarises).

### Runner

An action is what happens between two awaits; awaits with nothing between them
are one. `pc` says what `execute_pipeline` waits for, `task[j]` what the
`run_job` task of job `j` waits for (`"none"` before `gather` creates it,
`"waiting"` at the semaphore). `status`, `jobStatus` and `lockfile` are the run
record, `alerts` the alert tasks created, `blamed` the failing job of the
"failed" alert. `container`, `network` and `timer` are docker and the timeout
task. The whole body of each handler belongs to one action or to a chain of
them linked by `pc`: `GatherReturns`, `Skip`, `FailRun` are `runner.py:98-119`;
`Acquire` to `Cleanup` are `runner.py:174-290`.

What can go wrong is the constant `Faults`, listed at the top of the module;
each kind enables the exceptional branch of the steps it concerns. A log line
that raises before the `try` block of `execute_pipeline`, or in its handler,
ends the coroutine unseen (`pc = "dead"`); one that raises between goes to the
handler. Preparations of `run_job` before its `try` block leave the job's status
at "running" (`Escape`). The missing artifact and a 409 need no fault.

Abstracted: contents of files and lines; the order of artifacts and packages
(they are sets: any order); HTTP to one step per call; a network that cannot be
created or attached is one choice in `LaunchFails`. In the `finally` block each of
the three calls to docker can fail by itself (`AfterRemove`, `AfterDisconnect`).

### Parser, Scheduler, Submission

A document is a tagged value, as the YAML loader returns it: null, number,
string, list or mapping. `ParsePipeline` is every check of `parse_pipeline`;
line marks end up in messages and are left out, save that they make every
mapping non-empty (`Truthy`). `Submission` is `create_run`: `doc` is the upload,
`request` says how far it is. `Parse` lets the document through or refuses it
(422), then `Schedule` makes the steps of `Scheduler` on its jobs; `Unforeseen`
is the `TypeError` that `build_dag` raises on needs that are no list, string or
mapping (`Checkable`), and on an entry that is a list or a mapping and cannot be
looked up in a set (`Hashable`), which nobody catches (500). When the document has
such a need and one that names no job, either answer is allowed: the first in the
order of the document decides, and mappings have no order here. `dag` is a function of the
document. `path` and `state` are the search's; `left` holds what each visited job has yet to look at, in place of
the iterator of the `for` loop. The order of needs is left open. Whether
`path.index` can fail is not assumed away: `FindCycle` requires the job on the
path, and the invariant shows that the guard always holds.

### Semver, Resolver

A version is a record, a written term an operator and the pieces between its
dots; `Parse` and `SatisfiesTerm` are the code's, `Means` is the range of a term
of plain numbers: for the forms that `README.md:95-98` lists the documented one,
for numbers left out in a comparison or after `=` (`>0`, `<=2`, `=1.2`) the model's own
reading. Identifiers of a prerelease
are numbered in the order of strings. The regular expressions are not modelled:
terms are those that the parser takes apart, versions those it accepts. A
constraint of commas only, which has no terms and, unlike `*`, lets prereleases
in (`resolver.py:205-215`), is left out.

The recursion of `_solve` is `call`, the arguments of the innermost call, and
`stack`, the calls around it that wait in their loop over candidates with those
they have not tried. A call on an already resolved package is a tail call, so
it replaces `call`. Raising `ConflictError` pops to the nearest loop, raising
`CycleError` ends the search. `rows` is the table, which `Insert` extends at any
moment; `found` remembers the one the request came upon. A row's dependencies
are those with a name and a version, the code drops the others silently. `Malformed`
are the rows with an entry that is no mapping, which the registry takes
(`registry/main.py:90` looks at the list only): when one is the candidate, `dep.get`
raises and the request ends in a 500 (`Break`). Two more ways to a 500 are left
out: a version in a dependency that is no string, and Python's recursion limit.
`Resolution` has no queue, no stack and no path: `Lock`, `Refuse`,
`ReportCycle` and `Break` say which answers are allowed (an error only with a
malformed row in the table), `Upload` goes on meanwhile. The
mapping shows `call.resolved` as the lockfile once the answer is given.
`FramesBounded`, `LoopsGoOn` and `WorkShrinks` at the end of `Resolver`, like the
sections of that kind in `Scheduler`, `Runner` and `ThreadPool`, are what the proofs of
termination speak of.

### Registry

`loop[w]` is the upload that server process `w` has in hand and `step[w]` the
file or database operation that comes next. The handler awaits only while it
reads the request, so one process serves one upload at a time; the shipped
Dockerfile starts one process, several are checked too. `owner` is the table,
`blob[c]` the file of content `c`: absent, whole, torn, or being written by a
process. The content stands for its SHA-256. `Crash` and `WriteFails` leave a
file under write torn; SQLite's commit is atomic. A statement that raises anything
but the unique constraint (database locked, disk full) answers 500 and leaves the table
as it was (`QueryFails`).

### LogStream

Lines are numbered: the run's first, those of the container, the job's last, the
run's last. `write[l]` is how far the task that writes line `l` is: opening with
mode "a" creates the file, closing makes the line visible. Coroutines wait for
their own line; lines of the container are scheduled and forgotten, so they
overtake one another. A client's `stream_logs` looks at the end of the file and
then at the status in separate steps (`ReadLine`, `Decide`), with the run going
on in between. A client that finds no file for ten seconds is cut off without a
word (`FindFile`, `"gaveUp"`): the twenty looks are one step, which can fail as
long as no writer has opened the file. So a follower's stream ends in one of two
ways, and `EndsAtVerdictOrBeforeStart` says both: after the verdict, with all that was
in the file by then, or while the run is queued and has no file; and
`FailureIsExplained` that who follows a run that fails gets the reason or an empty stream, and
the latter only by giving up. With the threads of the pool
exhausted, a run may wait for its first line for longer than that.
`mark` is an auxiliary variable: the length of the file when the
status became terminal. Not modelled: clients that disconnect, lines longer
than the write buffer (they may be appended in pieces), several jobs.

### ThreadPool

One queue, `Threads` threads. A reader holds its thread until its container
exits. A log line is three calls, to open the file, to write and to close it, and each is queued
behind what came meanwhile; `calls` counts those that a line has still to make after the
one in the pool (`LogLine`, `NextCall`, and `Done` when the last returns). A timeout that
is cancelled before its file is open writes nothing (`Drop`); one that is
cancelled later still makes its calls here, which only adds to the queue. The containers
of `Printing` print, and their lines are in the pool one at a time, which bounds the
queue and keeps the competition for threads. The other users of the pool
(followers reading the file, name lookups of the HTTP client) give their thread
back by themselves and are left out. With more threads than all runs together
have slots there is always one to spare, which is proved for any number of runs
(`ThreadToSpareHolds`); with fewer, `pool_exhausted` shows what happens.

### Forge

Users give `Commands`, each a `forge run` or a `forge publish`; `Artifacts[c]` is
what command `c` is to upload, in order. `req` is where the request is (`sent`,
past the check of its token, passed on to the registry, `done`), `told` what the user
has been told, `run` the status in the engine's memory (`publishing` is a running
run in its artifact loop at position `next`), `post` the upload at the
registry, `owner` the table. `label` is the tokens table and `card` the token a
command carries. Every caller may stop waiting while the callee goes on
(`TimeOut`, `UploadTimesOut`); `Crash` empties the engine's memory and breaks off
its requests, `Start` brings it back and seeds its token. A log line that raises where
nothing catches it ends the run's coroutine, and the run stays queued or running
for its clients (`Die`, `"stuck"`). A command whose document breaks `build_dag` hears 500. `revoked` and `late` are
history: whose tokens were revoked, and what was sent with one afterwards.
Abstracted: the jobs of a run (one step that ends well or not), the checks of an
upload other than token and row, the order of rows with one label.

## Runs

Eight runs pass, the longest in about two minutes on two cores.

| run | instance | what it shows |
|---|---|---|
| `runner_core` | 4 jobs in 2 groups, 2 slots, 1 package, 1 artifact; faults of registry, docker's start and stream; fairness; containers need never exit | bounds, groups apart, cleanup, verdicts final; implements `PipelineRun`; every run ends with everything reclaimed |
| `runner_faults` | the same jobs and slots, every fault | order, success, skipped jobs and truthful alerts whatever fails |
| `scheduler` | documents with every graph over 3 jobs and 1 unknown name, and more than 40 that are wrong or unusual in one way; fairness | cycles are found exactly and are real; accepted groups are an earliest layering; accepted documents hold what the runner indexes; every request is answered |
| `resolver` | 5 requests, every subset of 11 rows of 3 packages, one of them malformed, 1 upload during the search; fairness | lockfiles are solutions, in the ranges of their constraints, acyclic, without strays; refusals are just, cycles real; implements `Resolution`, where the newest first dependency is promised; every search ends |
| `registry_faults` | 2 processes, 3 uploads, crashes, failing disk, fairness | true answers, rows have files, implements `ArtifactStore`; every upload is answered or cut off |
| `logs` | 1 client, 2 container lines, lost lines, fairness | a follower is cut off after the verdict, and misses nothing logged before it, or before the run has a file; who follows a failing run is told why, or nothing; lines that are awaited are there once and in order; every stream ends |
| `pool_enough` | 2 runs of 1 slot each, one with 2 jobs, one whose container prints, 3 threads, fairness | a thread to spare, timeouts kill |
| `forge` | a run of 2 artifacts, a `forge publish` of one of them, 3 tokens, 2 labels, 1 crash; fairness of runs | success is published, by oneself and no more than a prefix; users are told the truth; revocation lasts; runs whose jobs end settle |

Four runs find what a document or a comment says and the code does not do:

| run | what TLC finds |
|---|---|
| `runner_start_leak` | a container that is created and does not start is never removed (`README.md:67`) |
| `registry_torn` | a torn file is taken for whole by the next upload of the same bytes (`storage.py:51`) |
| `logs_tail` | a follower may end before the last lines of a successful run (`logs.py:39`, `:68`) |
| `pool_exhausted` | with every thread reading a log, no timeout can kill (`README.md:64`) |

More divergences are states the models reach and no run is spent on:

- queued jobs of a failing group still start and run to their end, though
  `README.md:36` has them skipped "immediately" (`Acquire` after a failure);
- a job that breaks before its `try` block (`Escape`) leaves the failed alert with
  no job to name (`README.md:160`);
- `RejectRun` with an unforeseen failure sends no alert, though `alerts.py:34`
  announces one;
- with two server processes the loser of a race gets 500, not the 409 of
  `README.md:152` (`InsertRow`); within one process the handler does not await between
  the check and the row, so the loser gets its 409;
- `needs:` left empty, or with an entry that is a list or a mapping, is a 500 of
  `create_run` (`Unforeseen`), `artifacts:` and
  `resources:` left empty fail the run, though `parser.py:35` promises a
  `ValueError` "if anything is wrong";
- a prerelease with a dot is cut in a constraint: `=1.0.0-alpha.1` means
  `1.0.0-alpha` (`Parse`, `resolver.py:108-123`), and `>= 1.0.0` with a space is two
  terms of which the first is never satisfied, though the pattern at
  `resolver.py:101` allows the space;
- a cycle below the newest candidate ends a search that an older one would have
  satisfied, though `README.md:103` says the solver tries the next candidate;
- an artifact whose dependencies hold something that is no mapping is accepted
  (`registry/main.py:90`) and turns every resolution that tries it into a 500
  (`Break`), though older versions would do;
- two builds of one version tie, and the order in which SQLite returns the rows
  decides (`Newest`), where `README.md:113` has one "highest satisfying version";
- artifacts that a pipeline publishes carry no dependencies (`runner.py:386-405`
  sends none), so the resolver never walks from them (`README.md:81`);
- an upload whose answer is lost stays bound to a failed run for good, and two
  runs that name each other's artifacts in opposite order can both fail
  (`UploadTimesOut`, `Save`);
- a follower of a run that is queued for more than ten seconds gets an empty
  stream that ends (`FindFile`), though `logs.py:39` has it wait for new lines;
- a revoked label `internal-engine` is back at the next start (`Start`).

**Bounds.** Two groups are the least in which one waits for another; three jobs
in the first group and two slots make one queue while two run. Packages and
artifacts are interchangeable in `Runner`, so one of each suffices. All graphs of three jobs
hold every shape of cycle up to that length, chains, forks and joins, jobs that
need themselves and jobs that need a name nobody has. The table of `resolver` has conflicts
that show only below the newest candidate, a cycle among the newest versions, a
prerelease, a caret at 0.0, two builds, and a row that cannot be read; its subsets give each part of it a
table where it decides, and one late upload is enough to change any list once. Three uploads, two for one
name, and two processes let a winner and a loser overlap at every step.
Two contents let blobs be shared or
not. Clients of a log only read, so one is enough; two lines of output are
enough to overtake. In the two runs of `ThreadPool` the second job of a run waits for
its slot, and one printing container is enough to put lines ahead of a timeout's
three calls; a second one adds lines of the same kind. In `forge` the second artifact of the run is the one the
other command publishes, so each may win, lose, and be cut off before, during
and after; one crash separates a life of the engine from the next; two tokens of
the user let one label have both or each its own. The proofs remove the bounds for the safety properties.

**Fairness.** The event loop runs every task that can go on, so the steps of the
run, of each job and of each timeout are weakly fair; sleeping ends. Nothing is
assumed of containers: they may run and print for ever. `runner_core` leaves
out the faults that stop the timeout or the cleanup themselves (docker refuses
to kill or remove, a log line fails, a preparation fails before the `try`
block) or leave a container or a timeout behind (a container that is created and
does not start, a log stream that raises, after which the timeout is not
cancelled), because nothing in the code retries; they are in `runner_faults`. A
log stream that ends before its container does is among its faults and is not
fair: it never has to. In `LogStream` the steps of the run include the end of
the job's stream, which the timeout provides. In `Submission` and `Resolver` the
thread that serves the request goes on, and nothing is uploaded of necessity. In
`Forge` only the steps of runs are fair. `Begin` and `JobsEnd` stand there for jobs
that end and log lines that get written or raise: `RunEnds` of `Runner` is the reason
for the first, and a pool with a free thread, which `pool_exhausted` shows not to be
given, that for the second, since a log line has no timeout. An upload has
one, so `EveryRunSettles` allows for a registry that never answers; it also allows for a run
that is forgotten or stuck. Nothing is assumed of the registry, of users or of the
engine's host. In `Registry` nothing makes a process crash or a disk fail. In
`ThreadPool` threads take work and finish it, slots are taken, timers fire.

**Deadlock** is checked in the other runs. A model that may stop says so with a
disjunct for it (`Terminated`, `Answered`, `Settled`, `Served`, `Over`, `AllDone`). Only
`forge` says `CHECK_DEADLOCK FALSE`: when its users have given their commands and
all labels are revoked, the service rests.

## Proofs

| module | theorems | rests on |
|---|---|---|
| `RunnerProofs` | `NeedsSucceeded`, `SuccessMeansAll` with every fault; `ConcurrencyBound`, `OneGroupRuns` when docker removes what it is told to; `NothingLeaks` when, besides, no container is created without starting | `Barrier`, `SlotBound`, `Held` |
| | a run comes to rest: `EveryStepCounts`, with every fault; `GatherGoesOn`; `StreamsAreGuarded` | `NothingEarly`, `Gathered`, `StepsLeft` |
| `RunnerPromiseProofs` | the runner implements `PipelineRun` when no exception escapes before a `try` block; `SkippedNeverRan` with every fault; `AlertsTruthful` when no job is named like a placeholder; `VerdictsAreFinal` while the log can be written | `Lifecycle`, `SkipInv`, `AlertInv`, `VerdictInv` |
| `SchedulerProofs` | `CyclesAreFound`, `CycleIsReal`, `NeverStuck`, `AcceptedIsLayering`, `GroupsAreEarliest`, of `Scheduler` and, by refinement, of `Submission`; `AcceptedIsComplete` of `Submission`; look-ups succeed, the recursion is no deeper than there are jobs, and every step leaves less to do (`LookupsSucceed`, `DepthBounded`, `WorkShrinks`) | `SearchInv`, `GroupInv`, `EarlyInv`, `ParsedInv` |
| `ResolverProofs` | `LockfileIsSolution`, `ChosenInRange`, `NoStrayPackages`, `LockfileAcyclic`, `CycleIsReal`, `RefusalIsJust`, `NewestFirst`; the resolver implements `Resolution`; the search comes to an end (`FramesBounded`, `LoopsGoOn`, `WorkShrinks`); the code's constraints are the ranges of `Means` (`TermsAreRanges`) and have no gaps (`ConstraintsHaveNoGaps`); versions are totally ordered up to their builds (`VersionsAreOrdered`), which no constraint looks at (`BuildsAlike`) | `SearchInv`, `HopeInv`, `TreeInv`, `NewestInv`, `NestInv` |
| `RegistryProofs` | `Immutable`, `AnswersAreTrue`, `PublishedHasFile`, the registry implements `ArtifactStore`; `PublishedIsWritten` without faults; with one process, `WholeStaysWhole` whatever fails, `NoServerError` while the disk works, `PublishedIsWhole` without faults | `RegistryInv`, `WriterInv`, `AloneInv`, `WholeInv` |
| `LogStreamProofs` | `EndsAtVerdictOrBeforeStart`, `FailureIsExplained`, `FileInOrder` | `StreamInv`, `OrderInv` |
| `ThreadPoolProofs` | `ThreadToSpare` and `PoolGoesOn` when `Threads` exceeds `MaxConcurrency` times the number of runs; `TimeoutQueues` and `TimeoutNearer` with any number | `PoolInv`, `TimerInv` |
| `ForgeProofs` | `SuccessIsPublished`, `PublishedIsPrefix`, `ToldIsTrue`, `RevocationLasts` | `Shape`, `Uploads`, `Told`, `Dead` |

The constants' assumptions are those named in the modules; a theorem that needs
less than all faults says so in its `ASSUME`.

*Runner.* `NeedsSucceeded` is not inductive: nothing in it says that a task of
group *k* exists only when the groups before are done. `Barrier` adds where
`gather` stands: tasks of earlier groups have returned, later groups have none,
tasks run only while `pc = "gathering"`, and a returned task's job succeeded.
Together with `IsLayering` it gives what a job needs. `SlotBound` is a fact
about the cardinality of the tasks between `Acquire` and `Cleanup`; `Held` says
that only those tasks hold a container or a network, and carries the bound over
to containers. `Lifecycle` ties the statuses that clients see to the
coroutines, which is what each step of the refinement needs. `SkipInv` says that
a job is skipped only behind a group that broke, before its task exists, and
that a task that waits for a slot has no container. `AlertInv` says that alerts
of an outcome come with the run's last step, so that no later step can belie
them. `VerdictInv` says that a run's final status is set on its last two steps
only, and that a task that could still set its job's status has a running job.

That a run comes to rest is shown by a number: `StepsLeft` counts the phases the
coroutine has before it, the packages, artifacts and queued jobs that are left,
and for each job the states its task, its timeout and its container have yet to
go through. Every step lowers it, whatever fails, because a task is created
once (`Barrier`) and its timeout and container come after it (`NothingEarly`).
Where it could come to rest too early is at the semaphore, and there
`GatherGoesOn` says that while `gather` waits one of its tasks can go on, at
worst because the container it reads from runs or has exited; and
`StreamsAreGuarded` that such a container is watched by a timeout.

*Scheduler.* `SearchInv` says that the jobs in state 1 are those of the path,
once each and each needing the next; that what a job on the path has looked at
is done or next on the path; and that the jobs in state 2 are closed under
needs and hold no cycle. A cycle is a non-empty set of jobs in which everyone
needs someone of the set, which spares reachability. When a job is left, a
cycle through it would have to stay among jobs in state 2, itself included, and
it does not need itself.
`GroupInv` says that the groups so far are a layering of what they hold; that
grouping is never stuck follows because the jobs left over would be a cycle.
`EarlyInv` adds that a job left over needs something outside of the groups
before the last, which puts every job in the earliest group it can be in.

That the parser stands before it changes nothing: each step of `Submission` is a
step of `Scheduler` or leaves it alone (`SubmissionIsScheduler`). `ParsedInv`
says that the scheduler moves only when the parser has let the document
through, so what it accepts has the fields the parser asked for.

`Work` is a tuple: the phase, the jobs not entered, the edges not looked at, the
calls of `dfs` not left, the jobs not grouped. Each step lowers the first place
it changes, and that order is well founded (`LessIsWellFounded`).

*Resolver.* `SearchInv` speaks of every call alike, the innermost one and those
on the stack: the dependencies of the pipeline and of each chosen row are noted
as constraints or still in the queue; what is chosen satisfies all constraints
noted on it; every set of packages that is closed under the chosen
dependencies holds what is chosen and queued; and the path of a queue entry is a
chain of chosen packages. With an empty queue, this is the lockfile's
correctness. For refusals the argument runs the other way: fix a solution of
the table the request found; as long as no answer is given, it agrees with the
innermost call or with a call on the stack that has not yet tried the
solution's candidate (`Hope`), so a conflict with an empty stack means there is none.
The quantifier over solutions is outside of the invariant of one
(`HopeInv`), which uploads do not disturb because rows are never removed.
`NewestFirst` follows at the outermost call: when it tries a candidate, a
solution there is can only be among the candidates, and the one tried is the
newest of them; every inner call keeps that choice.

`LockfileAcyclic` is less plain, since a package that is resolved already is
passed over and its dependencies are not followed again. `TreeInv` sorts the
packages that have a version: those on the path of the innermost entry are
under way, all others are finished. Finished packages need finished packages
only and hold no cycle; a package on the path needs what is finished, what is
further along the path, or what is still queued with a path at least as long.
This rests on the order of the queue: the paths of later entries are beginnings
of those of earlier ones. When the innermost path becomes shorter, the packages
that leave it are finished together, and a cycle among them would have to go
forward along the path for ever.

`ResolutionKept` puts these together: the step that gives an answer is a step of
`Resolution`, all others stutter there or are uploads. Its `Needed` and `Ring` are
worded for sets of packages where the code has a queue and paths, so a lemma
carries each over.

For the end of the search, `NestInv` says that a package some loop waits for is
resolved in every call within, so all of them differ and there are at most as
many loops as packages. `Work` has a place for each: the candidates it has left,
twice, and one more while an inner call is under way; the innermost place is the
length of the queue. Going back lowers an outer place and may raise the inner
ones, a dependency that is resolved already shortens the queue; the order is by
the first place that differs. An upload leaves `Work` as it is, since a loop
keeps the list it has read. (Python also nests a call per dependency that is
resolved already; those are no loops and nothing bounds them but the work.)

`TermsAreRanges` compares the code's cases with intervals, number by number;
`VersionsAreOrdered` looks at the first identifier in which two prereleases differ.
`ConstraintsHaveNoGaps` holds of every term the parser takes apart, `-1` for what is missing and
prereleases included, because each operator bounds the triple of numbers from
below, from above, or pins its first numbers.

*Forge.* `Shape` says where a command can be: which of `req`, `run`, `next` and
`post` go together. `Uploads` says what a command owns at each position of its
loop, which gives both publishing properties. `Told` ties the answers to the
table, through the gateway; it needs that a 409 is given only over a row, and
that rows stay. `Dead` says that a revoked token is in no row and that what was
sent with one is not past a check.

*Registry.* `RegistryInv`: an upload is in one process at a time and unanswered;
its file exists before it looks for its row; a process that has nothing in hand
stands at the first operation; and an unanswered upload that owns a row is the
one about to be told 201. The last is why a 409 is never given to the owner.

What `registry_torn` refutes holds under conditions, and TLC shows that each is
needed: with two processes and no fault at all, a row can point at a file that
another process has just truncated (`PublishedIsWhole`, `WholeStaysWhole` fail),
and the loser of a race gets 500 (`NoServerError` fails). `WriterInv` says that
a file is under write only while the process that truncated it last is about to
write it; this is enough for `PublishedIsWritten`, with any number of processes.
`AloneInv` is what one process makes sure of: nothing comes between its look at
a file and its write, or between its look at a row and its insert. The shipped
Dockerfile starts one process.

*LogStream.* `StreamInv`: coroutines go on only when the line they wait for is
in the file, a follower drains only after the verdict, and `mark` never exceeds
the file; a client that has not found the file, or gave up, has been sent nothing.
That the verdict is given once (a terminal status means `pc` is past it) is
needed, or the mark could move under a follower that has ended.
`OrderInv` says which lines have been written when a coroutine goes on, so a
line is scheduled only behind those it must follow.

*ThreadPool.* `PoolInv` says that what a task awaits is in the pool once, so a
reader that holds a thread belongs to a task that holds a slot. Numbering the
slots of each run maps the readers one to one into pairs of run and slot number,
of which there are fewer than threads.
So a queue never waits for containers only (`PoolGoesOn`: if no thread is free,
one has a log line to write). `TimeoutNearer` speaks of the three calls of a timeout's line.
A call that waits is not overtaken: each piece of work a thread takes brings it
one place forward, and between two of these the lines under way only become
fewer. A call that returns is followed by the next, which goes to the end of the queue:
that is where other work gets ahead of the line, twice at most. `TimerInv` says
that the line is in the pool once, and that its timeout is armed no more.

Type correctness, `Barrier`, `SlotBound`, `NeverStuck`, `Immutable` and `NewestFirst` are
proved, so no configuration lists them, and nor do they the measures; the other strengthenings (`Held`, `Lifecycle`,
`SearchInv`, `GroupInv`, `RegistryInv`, `StreamInv`, `HopeInv`, `TreeInv` and the others of the table) say how the
models work rather than what the code promises.

Only model-checked: everything under fairness (`RunEnds`, `EverythingReclaimed`,
`EveryRequestIsAnswered`, `EverySearchEnds`, `EveryUploadAnswered`, `EveryStreamEnds`,
`TimeoutKills`, `EveryRunSettles`): the prover has no rule for `ENABLED`, which weak
fairness speaks of, and cannot use the library's induction theorems, which take an
operator as a parameter. For four of them the
two facts that such an argument consists of are proved for any size: that a step
leaves less to do, and that one can be taken. They are `WorkShrinks` and
`NeverStuck` for `EveryRequestIsAnswered`, `WorkShrinks` and `LoopsGoOn` for
`EverySearchEnds`, `EveryStepCounts`, `GatherGoesOn` and `StreamsAreGuarded` for
`RunEnds`, `TimeoutNearer` and `PoolGoesOn` for `TimeoutKills`. Joining them is left
to TLC. Every other property of a passing run is proved, some under the
conditions named in the table.

## Not modelled

- Wording: messages, line numbers, and the word in a message by which the runner
  tells a conflict from a cycle (`runner.py:343`); `Runner` takes either.
- Operations that only read: listings, metadata, downloads through the gateway,
  `forge ls`, `logs`, `resolve`, `list_tokens`, `/health`.
- The regular expressions of versions and terms; versions that are not SemVer.
- Delivery and formatting of alerts.
- Python's limit on nested calls, in `dfs` (which `DepthBounded` keeps below the
  number of jobs) and in `_solve`; versions in dependencies that are no strings;
  constraints of commas only; a `max_concurrency` of 0.
- `topological_sort`, which nothing calls.
- What jobs write into the workspace they share (`runner.py:195`), and containers
  left behind by a run that the engine has forgotten.
- Deployment files; their process counts, restarts and thread counts are constants.

## Plan

What further work would add, in this order: a `Runner` whose engine dies, with
what its containers leave behind; the order in which alerts reach Slack; clients
of the log that disconnect. Of the proofs, that `Forge` implements `ArtifactStore`,
as `Registry` does, and measures for `Registry`, `LogStream` and the runs of `Forge`.
