----------------------------- MODULE ThreadPool -----------------------------
(***************************************************************************)
(* The thread pool of the engine's event loop, shared by every run.  A job *)
(* that streams the log of its container keeps a thread until the          *)
(* container exits (_stream_container_logs); every log line, of any job,   *)
(* needs a thread three times for a moment, to open the file, to write and *)
(* to close it (write_log_line, through aiofiles); and the timeout task    *)
(* logs a line before it kills the container.                              *)
(*                                                                         *)
(* The pool is asyncio's default executor: min(32, cpus + 4) threads that  *)
(* take work from one queue, first in first out.  The semaphore of a run   *)
(* bounds the jobs of that run only.                                       *)
(***************************************************************************)
EXTENDS Naturals, Sequences, FiniteSets

CONSTANTS
  Jobs,            \* the jobs of the groups that all runs are executing
  Runs,
  RunOf,           \* the run of each job
  Printing,        \* the jobs whose containers print lines
  MaxConcurrency,  \* engine.max_concurrency
  Threads          \* the size of the pool

ASSUME JobsAssumption    == IsFiniteSet(Jobs) /\ RunOf \in [Jobs -> Runs] /\ Printing \subseteq Jobs
ASSUME LimitsAssumption  == MaxConcurrency \in Nat \ {0} /\ Threads \in Nat \ {0}

VARIABLES
  task,       \* what the run_job task waits for
  timer,      \* its timeout task
  container,  \* its container
  queue,      \* work that no thread has taken yet
  busy,       \* work that holds a thread
  calls       \* how many calls a line has to make of the pool after this one

poolVars == <<queue, busy, calls>>
vars     == <<task, timer, container, poolVars>>

(* "start", "launched", "end": lines the task awaits; "line": a line of    *)
(* the container; "timeout": the line of the timeout; "read": the reader.  *)
Kinds == {"start", "launched", "read", "line", "timeout", "end"}
Work  == Jobs \X Kinds

Init ==
  /\ task = [j \in Jobs |-> "waiting"]
  /\ timer = [j \in Jobs |-> "off"]
  /\ container = [j \in Jobs |-> "none"]
  /\ queue = <<>> /\ busy = {} /\ calls = [w \in Work |-> 0]

-----------------------------------------------------------------------------
(* The pool.                                                               *)

Submit(w) == queue' = Append(queue, w)

(* open() is queued at once, write() and close() when it has returned.     *)
LogLine(j, kind) == Submit(<<j, kind>>) /\ calls' = [calls EXCEPT ![<<j, kind>>] = 2]

Take ==
  /\ queue # <<>> /\ Cardinality(busy) < Threads
  /\ busy' = busy \cup {Head(queue)}
  /\ queue' = Tail(queue)
  /\ UNCHANGED <<task, timer, container, calls>>

Leave(j, kind) == <<j, kind>> \in busy /\ busy' = busy \ {<<j, kind>>}

(* A thread gives up the last call of some work, and whoever awaited the   *)
(* work goes on.                                                           *)
Done(j, kind) == calls[<<j, kind>>] = 0 /\ Leave(j, kind)

(* A timeout cancelled before its file is open writes nothing.             *)
Dropped(j, kind) == kind = "timeout" /\ timer[j] = "off" /\ calls[<<j, kind>>] = 2

(* A line makes its next call, behind all that was submitted meanwhile.    *)
NextCall(j, kind) ==
  /\ calls[<<j, kind>>] > 0 /\ ~ Dropped(j, kind)
  /\ Leave(j, kind) /\ Submit(<<j, kind>>)
  /\ calls' = [calls EXCEPT ![<<j, kind>>] = @ - 1]
  /\ UNCHANGED <<task, timer, container>>

TaskGoto(j, s) == task' = [task EXCEPT ![j] = s]

-----------------------------------------------------------------------------
(* The job.                                                                *)

HasSlot(j) == task[j] \notin {"waiting", "done"}

(* Mutant: a slot is given back once the job streams.                      *)
InSlotsUntilStreaming(r) == {j \in Jobs : RunOf[j] = r /\ task[j] \in {"starting", "launched"}}

InSlots(r) == {j \in Jobs : RunOf[j] = r /\ HasSlot(j)}

Acquire(j) ==
  /\ task[j] = "waiting" /\ Cardinality(InSlots(RunOf[j])) < MaxConcurrency
  /\ TaskGoto(j, "starting")
  /\ LogLine(j, "start")
  /\ UNCHANGED <<timer, container, busy>>

(* The container starts on the event loop, which then logs that it did.    *)
Launch(j) ==
  /\ Done(j, "start")
  /\ container' = [container EXCEPT ![j] = "running"]
  /\ TaskGoto(j, "launched")
  /\ LogLine(j, "launched")
  /\ UNCHANGED timer

StartStreaming(j) ==
  /\ Done(j, "launched")
  /\ timer' = [timer EXCEPT ![j] = "armed"]
  /\ TaskGoto(j, "streaming")
  /\ Submit(<<j, "read">>)
  /\ UNCHANGED <<container, calls>>

(* The reader schedules a line; the model lets a container have one line   *)
(* in the pool at a time.                                                  *)
InPool(w) == w \in busy \/ \E i \in 1 .. Len(queue) : queue[i] = w

PrintLine(j) ==
  /\ j \in Printing /\ <<j, "read">> \in busy /\ container[j] = "running"
  /\ ~ InPool(<<j, "line">>)
  /\ LogLine(j, "line")
  /\ UNCHANGED <<task, timer, container, busy>>

LineWritten(j) ==
  /\ Done(j, "line")
  /\ UNCHANGED <<task, timer, container, queue, calls>>

CancelTimer(j) == timer' = [timer EXCEPT ![j] = "off"]

StreamEnds(j) ==
  /\ Done(j, "read") /\ container[j] = "exited"
  /\ CancelTimer(j)
  /\ TaskGoto(j, "ending")
  /\ LogLine(j, "end")
  /\ UNCHANGED container

JobEnds(j) ==
  /\ Done(j, "end")
  /\ container' = [container EXCEPT ![j] = "removed"]
  /\ TaskGoto(j, "done")
  /\ UNCHANGED <<timer, queue, calls>>

-----------------------------------------------------------------------------
(* _timeout_container: the line first, then the kill.                      *)

TimerFires(j) ==
  /\ timer[j] = "armed"
  /\ timer' = [timer EXCEPT ![j] = "logging"]
  /\ LogLine(j, "timeout")
  /\ UNCHANGED <<task, container, busy>>

(* Mutant: the line is logged and the container left alone.                *)
LetLive(j) ==
  /\ Done(j, "timeout")
  /\ CancelTimer(j)
  /\ UNCHANGED <<task, container, queue, calls>>

(* A timeout that was cancelled while it waited kills nothing.             *)
Kill(j) ==
  /\ Done(j, "timeout")
  /\ IF timer[j] = "logging" /\ container[j] = "running"
       THEN container' = [container EXCEPT ![j] = "exited"]
       ELSE UNCHANGED container
  /\ CancelTimer(j)
  /\ UNCHANGED <<task, queue, calls>>

Drop(j) ==
  /\ Dropped(j, "timeout") /\ Leave(j, "timeout")
  /\ calls' = [calls EXCEPT ![<<j, "timeout">>] = 0]
  /\ UNCHANGED <<task, timer, container, queue>>

Exit(j) ==
  /\ container[j] = "running"
  /\ container' = [container EXCEPT ![j] = "exited"]
  /\ UNCHANGED <<task, timer, poolVars>>

Step(j) ==
  \/ Acquire(j) \/ Launch(j) \/ StartStreaming(j) \/ LineWritten(j)
  \/ StreamEnds(j) \/ JobEnds(j) \/ TimerFires(j) \/ Kill(j) \/ Drop(j)
  \/ \E kind \in Kinds : NextCall(j, kind)

AllDone == (\A j \in Jobs : task[j] = "done") /\ busy = {} /\ queue = <<>> /\ UNCHANGED vars

Next == Take \/ (\E j \in Jobs : Step(j) \/ PrintLine(j) \/ Exit(j)) \/ AllDone

Spec == Init /\ [][Next]_vars

(* Threads take work and finish it, sleep() returns, a freed slot of the   *)
(* semaphore is taken.  Nothing makes a container print or exit.           *)
Fairness ==
  /\ WF_vars(Take)
  /\ \A j \in Jobs :
       /\ WF_vars(Acquire(j)) /\ WF_vars(Launch(j)) /\ WF_vars(StartStreaming(j))
       /\ WF_vars(LineWritten(j)) /\ WF_vars(StreamEnds(j)) /\ WF_vars(JobEnds(j))
       /\ WF_vars(TimerFires(j)) /\ WF_vars(Kill(j)) /\ WF_vars(Drop(j))
       /\ \A kind \in Kinds : WF_vars(NextCall(j, kind))

FairSpec == Spec /\ Fairness

-----------------------------------------------------------------------------
(* Properties.                                                             *)

TypeOK ==
  /\ task \in [Jobs -> {"waiting", "starting", "launched", "streaming", "ending", "done"}]
  /\ timer \in [Jobs -> {"off", "armed", "logging"}]
  /\ container \in [Jobs -> {"none", "running", "exited", "removed"}]
  /\ queue \in Seq(Work) /\ busy \in SUBSET Work /\ calls \in [Work -> 0 .. 2]

(* There is always a thread that no reader holds, so a log line, and the   *)
(* timeout behind it, never waits for a container to exit.                 *)
Readers == {j \in Jobs : <<j, "read">> \in busy}
ThreadToSpare == Cardinality(Readers) < Threads

(* README: "If the timeout fires, the container is forcibly killed".       *)
TimeoutKills == \A j \in Jobs : [](timer[j] = "logging" ~> container[j] # "running")

-----------------------------------------------------------------------------
(* Why a timeout that fires kills.                                         *)

(* Work that some thread can finish without waiting for a container.       *)
Chores == {w \in busy : w[2] # "read"}

(* While work queues, a thread can take it, or one has work to finish that *)
(* waits for nothing: the pool goes on though every container runs.        *)
PoolGoesOn == queue # <<>> => Cardinality(busy) < Threads \/ Chores # {}

(* Where the call of a timeout's line is: with a thread, or so far back.   *)
Place(j, i) ==
  IF i = 0 THEN <<j, "timeout">> \in busy
           ELSE i \in 1 .. Len(queue) /\ queue[i] = <<j, "timeout">>

Calls(j) == calls[<<j, "timeout">>]

(* A timeout that has fired has its line in the pool: what it waits for    *)
(* is a thread, and nothing but that.                                      *)
TimeoutQueues == \A j \in Jobs : timer[j] = "logging" => InPool(<<j, "timeout">>)

(* The line of a timeout nears its end, by calls first and by places in    *)
(* the queue then.  While one of its calls waits nobody overtakes it: a    *)
(* step moves it forward, or leaves it where it is and finishes work ahead *)
(* of it or concerns others.  A call with a thread ends the line or is     *)
(* followed by the next one, which queues behind all that is there, so     *)
(* that work that came later goes first no more than twice.                *)
TimeoutNearer ==
  [][\A j \in Jobs, i \in 0 .. Len(queue) : Place(j, i) =>
       \/ i = 0 /\ Calls(j)' = Calls(j) /\ Place(j, 0)'
       \/ i = 0 /\ ~ InPool(<<j, "timeout">>)' /\ timer'[j] = "off"
       \/ i = 0 /\ Calls(j)' = Calls(j) - 1 /\ Place(j, Len(queue))'
       \/ i > 0 /\ Calls(j)' = Calls(j) /\ Take /\ Place(j, i - 1)'
       \/ /\ i > 0 /\ Calls(j)' = Calls(j) /\ ~Take
          /\ Place(j, i)' /\ Chores' \subseteq Chores]_vars
=============================================================================
