----------------------------- MODULE LogStream -----------------------------
(***************************************************************************)
(* The log of one run: the coroutines that append lines to its file, and   *)
(* the clients that follow it over GET /runs/{run_id}/logs.                *)
(*                                                                         *)
(* The run has one job.  Its coroutines await each line they log.  The     *)
(* lines of the container do not wait for one another and nobody waits for *)
(* them: each is a task of its own that opens the file, appends and closes *)
(* it, through the thread pool.                                            *)
(*                                                                         *)
(* Faults: "disk" appending a line raises; for a line of the container     *)
(* nobody sees the exception, what it does to the others is in Runner.     *)
(***************************************************************************)
EXTENDS Naturals, Sequences

CONSTANTS Clients,   \* those who ask for the log
          Output,    \* how many lines the container may print
          Faults

ASSUME OutputAssumption == Output \in Nat

VARIABLES
  status,   \* run["status"]
  pc,       \* what the coroutines of the run and of its job wait for
  write,    \* how far the task that writes each line is
  file,     \* the lines in the file
  reader,   \* what each client's stream_logs waits for
  follow,   \* whether the client asked to follow
  sent,     \* how many lines of the file the client has been sent
  mark      \* how many lines the file held when the run got its outcome

runVars    == <<status, pc, write, file, mark>>
readerVars == <<reader, follow, sent>>
vars       == <<runVars, readerVars>>

(* The lines: "Pipeline started", those of the container, how the job      *)
(* ended, and the last line of the run.                                    *)
Started   == 0
Printed   == 1 .. Output
JobEnded  == Output + 1
RunEnded  == Output + 2
Lines     == 0 .. RunEnded

Terminal == {"succeeded", "failed"}
Status   == {"queued", "running"} \cup Terminal
PC       == {"starting", "streaming", "passing", "failing", "blaming", "last", "done"}
Write    == {"none", "scheduled", "opened", "written", "lost"}
Reader   == {"off", "waiting", "reading", "atEnd", "sleeping", "draining", "ended", "gaveUp"}

Init ==
  /\ status = "queued" /\ pc = "starting" /\ file = <<>> /\ mark = 0
  /\ write = [l \in Lines |-> IF l = Started THEN "scheduled" ELSE "none"]
  /\ reader = [c \in Clients |-> "off"]
  /\ follow \in [Clients -> BOOLEAN]
  /\ sent = [c \in Clients |-> 0]

-----------------------------------------------------------------------------
(* write_log_line.                                                         *)

Log(l) == write' = [write EXCEPT ![l] = "scheduled"]

Exists == \E l \in Lines : write[l] \in {"opened", "written"}

OpenFile(l) ==
  /\ write[l] = "scheduled"
  /\ write' = [write EXCEPT ![l] = "opened"]
  /\ UNCHANGED <<status, pc, file, mark, readerVars>>

AppendLine(l) ==
  /\ write[l] = "opened"
  /\ write' = [write EXCEPT ![l] = "written"]
  /\ file' = Append(file, l)
  /\ UNCHANGED <<status, pc, mark, readerVars>>

LoseLine(l) ==
  /\ "disk" \in Faults /\ l \in Printed /\ write[l] = "opened"
  /\ write' = [write EXCEPT ![l] = "lost"]
  /\ UNCHANGED <<status, pc, file, mark, readerVars>>

-----------------------------------------------------------------------------
(* The run and its job.                                                    *)

Verdict(s) == status' = s /\ mark' = Len(file)

(* Mutant: the first line is not awaited.                                  *)
StartAtOnce ==
  /\ pc = "starting"
  /\ status' = "running" /\ pc' = "streaming"
  /\ UNCHANGED <<write, file, mark, readerVars>>

RunStarts ==
  /\ pc = "starting" /\ write[Started] = "written"
  /\ status' = "running" /\ pc' = "streaming"
  /\ UNCHANGED <<write, file, mark, readerVars>>

(* The reader thread schedules a line and reads on.                        *)
Emit ==
  /\ pc = "streaming"
  /\ \E l \in Printed :
       /\ write[l] = "none" /\ \A k \in 1 .. (l - 1) : write[k] # "none"
       /\ Log(l)
  /\ UNCHANGED <<status, pc, file, mark, readerVars>>

(* The container's log ends; its lines may still be on their way.          *)
StreamEnds ==
  /\ pc = "streaming"
  /\ pc' \in {"passing", "failing"}
  /\ Log(JobEnded)
  /\ UNCHANGED <<status, file, mark, readerVars>>

(* Success is recorded before it is logged.                                *)
Succeed ==
  /\ pc = "passing" /\ write[JobEnded] = "written"
  /\ Verdict("succeeded") /\ pc' = "last"
  /\ Log(RunEnded)
  /\ UNCHANGED <<file, readerVars>>

(* Failure is logged before it is recorded.                                *)
Blame ==
  /\ pc = "failing" /\ write[JobEnded] = "written"
  /\ pc' = "blaming"
  /\ Log(RunEnded)
  /\ UNCHANGED <<status, file, mark, readerVars>>

(* Mutant: failure too is recorded before it is logged.                    *)
FailEarly ==
  /\ pc = "blaming"
  /\ Verdict("failed") /\ pc' = "last"
  /\ UNCHANGED <<write, file, readerVars>>

FailRun ==
  /\ pc = "blaming" /\ write[RunEnded] = "written"
  /\ Verdict("failed") /\ pc' = "done"
  /\ UNCHANGED <<write, file, readerVars>>

RunReturns ==
  /\ pc = "last" /\ write[RunEnded] = "written"
  /\ pc' = "done"
  /\ UNCHANGED <<status, write, file, mark, readerVars>>

WriteStep(l) == OpenFile(l) \/ AppendLine(l) \/ LoseLine(l)
RunStep      == RunStarts \/ StreamEnds \/ Succeed \/ Blame \/ FailRun \/ RunReturns

-----------------------------------------------------------------------------
(* stream_logs, one coroutine per client.                                  *)

ReaderGoto(c, s) == reader' = [reader EXCEPT ![c] = s]

Connect(c) ==
  /\ reader[c] = "off"
  /\ ReaderGoto(c, "waiting")
  /\ UNCHANGED <<follow, sent, runVars>>

(* Twenty looks, half a second apart, for a file that is not there yet;    *)
(* then the stream ends without a word, whatever becomes of the run.       *)
FindFile(c) ==
  /\ reader[c] = "waiting"
  /\ ReaderGoto(c, IF Exists THEN "reading" ELSE "gaveUp")
  /\ UNCHANGED <<follow, sent, runVars>>

AtEnd(c) == sent[c] = Len(file)

Send(c) == sent' = [sent EXCEPT ![c] = @ + 1] /\ UNCHANGED reader

ReadLine(c) ==
  /\ reader[c] = "reading"
  /\ IF AtEnd(c) THEN ReaderGoto(c, "atEnd") /\ UNCHANGED sent ELSE Send(c)
  /\ UNCHANGED <<follow, runVars>>

(* Mutants: every run counts as active; the follower of a run that is over *)
(* stops without a last look.                                              *)
AlwaysActive == status \in Status
AfterVerdict == IF status \in Terminal THEN "ended" ELSE "sleeping"

IsActive == status \in {"queued", "running"}

NextLook == IF IsActive THEN "sleeping" ELSE "draining"

(* The status is looked at after the end of the file was.                  *)
Decide(c) ==
  /\ reader[c] = "atEnd"
  /\ ReaderGoto(c, IF follow[c] THEN NextLook ELSE "ended")
  /\ UNCHANGED <<follow, sent, runVars>>

Wake(c) ==
  /\ reader[c] = "sleeping"
  /\ ReaderGoto(c, "reading")
  /\ UNCHANGED <<follow, sent, runVars>>

(* One last look for straggler lines.                                      *)
Drain(c) ==
  /\ reader[c] = "draining"
  /\ IF AtEnd(c) THEN ReaderGoto(c, "ended") /\ UNCHANGED sent ELSE Send(c)
  /\ UNCHANGED <<follow, runVars>>

ReaderStep(c) == FindFile(c) \/ ReadLine(c) \/ Decide(c) \/ Wake(c) \/ Drain(c)

Closed == {"ended", "gaveUp"}

Over == pc = "done" /\ (\A c \in Clients : reader[c] \in Closed) /\ UNCHANGED vars

Next ==
  \/ (\E l \in Lines : WriteStep(l)) \/ RunStep \/ Emit
  \/ (\E c \in Clients : Connect(c) \/ ReaderStep(c)) \/ Over

Spec == Init /\ [][Next]_vars

(* The event loop and its threads get to every write and every reader, and *)
(* the job's timeout ends its stream.                                      *)
FairSpec ==
  /\ Spec /\ WF_vars(RunStep)
  /\ \A l \in Lines : WF_vars(WriteStep(l))
  /\ \A c \in Clients : WF_vars(ReaderStep(c))

-----------------------------------------------------------------------------
(* Properties.                                                             *)

TypeOK ==
  /\ status \in Status /\ pc \in PC
  /\ write \in [Lines -> Write] /\ file \in Seq(Lines) /\ mark \in Nat
  /\ reader \in [Clients -> Reader] /\ follow \in [Clients -> BOOLEAN]
  /\ sent \in [Clients -> Nat]

SentTo(c) == {file[i] : i \in 1 .. sent[c]}

(* A stream that follows a run ends in one of two ways: the run has its    *)
(* outcome, and every line the file held at that moment has been sent; or  *)
(* the run is still queued with no file opened for its first line when the *)
(* client stops looking for it (stream_logs gives up after ten seconds).   *)
(* No follower is cut off from a run that has logged anything.             *)
EndsAtVerdictOrBeforeStart ==
  [][\A c \in Clients : follow[c] /\ reader[c] \notin Closed /\ (reader[c] \in Closed)' =>
       \/ status \in Terminal /\ sent[c] >= mark
       \/ status = "queued" /\ ~ Exists /\ file = <<>>]_vars

(* Whoever followed a run that failed has been told why by the time the    *)
(* stream ends, or else nothing: who gave up before the first line was     *)
(* there got an empty stream, never a part of the story.                   *)
FailureIsExplained ==
  \A c \in Clients : reader[c] \in Closed /\ follow[c] /\ status = "failed" =>
    IF reader[c] = "gaveUp" THEN SentTo(c) = {}
                            ELSE {Started, JobEnded, RunEnded} \subseteq SentTo(c)

(* Each line is in the file once at most, and the lines that were awaited  *)
(* are in the order in which the run reached them.                         *)
FileInOrder ==
  /\ \A i, k \in 1 .. Len(file) : file[i] = file[k] => i = k
  /\ \A i \in 1 .. Len(file) :
       /\ file[i] # Started => file[1] = Started
       /\ file[i] = RunEnded => \E k \in 1 .. (i - 1) : file[k] = JobEnded

(* Every stream ends: the polling loop is not infinite.                    *)
EveryStreamEnds == \A c \in Clients : [](reader[c] # "off" ~> reader[c] \in Closed)

(* What the safety properties rest on: the coroutines go on only when the  *)
(* line they await is in the file, a failure is in it before its mark, and *)
(* a follower who found the file leaves it only after the verdict.         *)
InFile(l, n) == \E i \in 1 .. n : file[i] = l

StreamInv ==
  /\ \A l \in Lines : write[l] = "written" => InFile(l, Len(file))
  /\ pc # "starting" => write[Started] = "written"
  /\ pc \in {"blaming", "last", "done"} => write[JobEnded] = "written"
  /\ status # "queued" => pc # "starting"
  /\ status \in Terminal => pc \in {"last", "done"}
  /\ status = "failed" => \A l \in {Started, JobEnded, RunEnded} : InFile(l, mark)
  /\ \A c \in Clients : sent[c] <= Len(file)
  /\ mark <= Len(file)
  /\ \A c \in Clients : reader[c] = "draining" => status \in Terminal
  /\ \A c \in Clients : reader[c] = "ended" /\ follow[c] => status \in Terminal /\ sent[c] >= mark
  /\ \A c \in Clients : reader[c] \in {"off", "waiting", "gaveUp"} => sent[c] = 0

-----------------------------------------------------------------------------
(* What the documentation says that the code does otherwise.               *)

(* stream_logs: "If follow=True, keeps watching the file for new lines",   *)
(* and "Check one last time for any straggler lines": whoever follows the  *)
(* run to its end has been sent the whole file.                            *)
NothingMissed ==
  \A c \in Clients : reader[c] = "ended" /\ follow[c] => sent[c] = Len(file)
=============================================================================
