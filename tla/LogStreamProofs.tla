-------------------------- MODULE LogStreamProofs --------------------------
(***************************************************************************)
(* Proofs about LogStream, for any number of clients and of lines, and     *)
(* with lines of the container that may be lost.                           *)
(***************************************************************************)
EXTENDS LogStream, TLAPS

LEMMA LinesFacts ==
  /\ Started \in Lines /\ JobEnded \in Lines /\ RunEnded \in Lines
  /\ Printed \subseteq Lines
BY OutputAssumption DEF Started, JobEnded, RunEnded, Lines, Printed

LEMMA LinesDiffer == Started # JobEnded /\ Started # RunEnded /\ JobEnded # RunEnded
BY OutputAssumption DEF Started, JobEnded, RunEnded

LEMMA TypeInit == ASSUME Init PROVE TypeOK
BY LinesFacts DEF Init, TypeOK, Status, Terminal, PC, Write, Reader

LEMMA TypeStep == ASSUME TypeOK, [Next]_vars PROVE TypeOK'
<1> USE LinesFacts DEF TypeOK, Status, Terminal, PC, Write, Reader,
                       readerVars, runVars, Log, Verdict, ReaderGoto
<1>1. ASSUME NEW l \in Lines, WriteStep(l) PROVE TypeOK'
  <2>1. CASE OpenFile(l) \/ LoseLine(l)
    BY <2>1 DEF OpenFile, LoseLine
  <2>2. CASE AppendLine(l)
    <3>1. file' \in Seq(Lines)
      BY <2>2 DEF AppendLine
    <3>2. write' \in [Lines -> Write] /\ UNCHANGED <<status, pc, mark, readerVars>>
      BY <2>2 DEF AppendLine
    <3> QED  BY <3>1, <3>2
  <2> QED  BY <1>1, <2>1, <2>2 DEF WriteStep
<1>2. CASE RunStep
  BY <1>2 DEF RunStep, RunStarts, StreamEnds, Succeed, Blame, FailRun, RunReturns
<1>3. CASE Emit
  BY <1>3 DEF Emit
<1>4. ASSUME NEW c \in Clients, Connect(c) \/ FindFile(c) \/ Decide(c) \/ Wake(c) PROVE TypeOK'
  BY <1>4 DEF Connect, FindFile, Decide, Wake, NextLook
<1>5. ASSUME NEW c \in Clients, ReadLine(c) \/ Drain(c) PROVE TypeOK'
  <2>1. sent' \in [Clients -> Nat]
    BY <1>5 DEF ReadLine, Drain, Send
  <2>2. reader' \in [Clients -> Reader] /\ UNCHANGED <<follow, runVars>>
    BY <1>5 DEF ReadLine, Drain, Send
  <2> QED  BY <2>1, <2>2
<1>6. CASE UNCHANGED vars
  BY <1>6 DEF vars
<1> QED  BY <1>1, <1>2, <1>3, <1>4, <1>5, <1>6 DEF Next, ReaderStep, Over

(* Every variable of a run's log keeps its type.                           *)
THEOREM TypeCorrect == Spec => []TypeOK
<1>1. Init => TypeOK
  BY TypeInit
<1>2. TypeOK /\ [Next]_vars => TypeOK'
  BY TypeStep
<1> QED  BY <1>1, <1>2, PTL DEF Spec

-----------------------------------------------------------------------------

LEMMA InvInit == ASSUME Init PROVE StreamInv
BY DEF Init, StreamInv, Terminal, InFile, Lines, Started

(* What is in the file stays in the file.                                  *)
LEMMA FileGrows ==
  ASSUME TypeOK, NEW l \in Lines, file' = Append(file, l)
  PROVE  /\ Len(file') = Len(file) + 1
         /\ \A i \in 1 .. Len(file) : file'[i] = file[i]
         /\ file'[Len(file) + 1] = l
BY DEF TypeOK

LEMMA InvStep == ASSUME TypeOK, StreamInv, [Next]_vars PROVE StreamInv'
<1> USE LinesFacts DEF TypeOK, StreamInv, Terminal, readerVars, runVars
<1>l. Len(file) \in Nat
  OBVIOUS
<1>1. ASSUME NEW l \in Lines, OpenFile(l) \/ LoseLine(l) PROVE StreamInv'
  BY <1>1 DEF OpenFile, LoseLine, InFile
<1>2. ASSUME NEW l \in Lines, AppendLine(l) PROVE StreamInv'
  <2>1. /\ UNCHANGED <<status, pc, mark, reader, follow, sent>>
        /\ file' = Append(file, l) /\ write' = [write EXCEPT ![l] = "written"]
    BY <1>2 DEF AppendLine
  <2>2. /\ Len(file') = Len(file) + 1
        /\ \A i \in 1 .. Len(file) : file'[i] = file[i]
        /\ file'[Len(file) + 1] = l
    BY <2>1, FileGrows
  <2>3. ASSUME NEW k \in Lines, NEW n \in 0 .. Len(file), InFile(k, n) PROVE InFile(k, n)'
    <3>1. PICK i \in 1 .. n : file[i] = k
      BY <2>3 DEF InFile
    <3>2. i \in 1 .. Len(file)
      BY <1>l
    <3> QED  BY <2>2, <3>1, <3>2 DEF InFile
  <2>4. \A k \in Lines : write'[k] = "written" => InFile(k, Len(file))'
    BY <2>1, <2>2, <2>3, <1>l DEF InFile
  <2>5. status' = "failed" => \A k \in {Started, JobEnded, RunEnded} : InFile(k, mark)'
    BY <2>1, <2>3
  <2>6. mark' <= Len(file)' /\ \A c \in Clients : sent'[c] <= Len(file)'
    BY <2>1, <2>2
  <2> QED  BY <2>1, <2>4, <2>5, <2>6
<1>3. CASE Emit
  BY <1>3 DEF Emit, Log, InFile
<1>4. CASE RunStarts \/ StreamEnds \/ Blame \/ RunReturns
  BY <1>4, LinesDiffer DEF RunStarts, StreamEnds, Blame, RunReturns, Log, InFile
<1>5. CASE Succeed
  BY <1>5, LinesDiffer DEF Succeed, Verdict, Log, InFile
<1>6. CASE FailRun
  BY <1>6 DEF FailRun, Verdict, InFile
<1>7. ASSUME NEW c \in Clients, Connect(c) \/ FindFile(c) \/ Wake(c) PROVE StreamInv'
  <2>1. UNCHANGED <<follow, sent, runVars>>
    BY <1>7 DEF Connect, FindFile, Wake
  <2>2. \A d \in Clients :
          /\ reader'[d] \in {"ended", "draining"} => reader'[d] = reader[d]
          /\ reader'[d] \in {"off", "waiting", "gaveUp"} => reader[d] \in {"off", "waiting", "gaveUp"}
    BY <1>7 DEF Connect, FindFile, Wake, ReaderGoto
  <2> QED  BY <2>1, <2>2 DEF InFile
<1>8. ASSUME NEW c \in Clients, Decide(c) PROVE StreamInv'
  BY <1>8 DEF Decide, NextLook, IsActive, ReaderGoto, InFile, Status
<1>9. ASSUME NEW c \in Clients, ReadLine(c) \/ Drain(c) PROVE StreamInv'
  <2>0. UNCHANGED <<follow, runVars>>
    BY <1>9 DEF ReadLine, Drain
  <2>1. CASE AtEnd(c)
    <3>1. UNCHANGED sent /\ reader' \in {[reader EXCEPT ![c] = "atEnd"], [reader EXCEPT ![c] = "ended"]}
      BY <1>9, <2>1 DEF ReadLine, Drain, ReaderGoto
    <3>2. reader'[c] = "ended" => status \in Terminal
      BY <1>9, <2>1 DEF ReadLine, Drain, ReaderGoto
    <3> QED  BY <2>0, <2>1, <3>1, <3>2, <1>l DEF AtEnd, InFile
  <2>2. CASE ~ AtEnd(c)
    <3>1. UNCHANGED reader /\ sent' = [sent EXCEPT ![c] = @ + 1] /\ reader[c] \in {"reading", "draining"}
      BY <1>9, <2>2 DEF ReadLine, Drain, Send
    <3>2. sent[c] + 1 <= Len(file)
      BY <2>2, <1>l DEF AtEnd
    <3> QED  BY <2>0, <3>1, <3>2 DEF InFile
  <2> QED  BY <2>1, <2>2
<1>10. CASE UNCHANGED vars
  BY <1>10 DEF vars, InFile
<1> QED  BY <1>1, <1>2, <1>3, <1>4, <1>5, <1>6, <1>7, <1>8, <1>9, <1>10
         DEF Next, WriteStep, RunStep, ReaderStep, Over

(* The inductive invariant.                                                *)
THEOREM StreamInvHolds == Spec => []StreamInv
<1>1. Init => StreamInv
  BY InvInit
<1>2. TypeOK /\ StreamInv /\ [Next]_vars => StreamInv'
  BY InvStep
<1> QED  BY <1>1, <1>2, TypeCorrect, PTL DEF Spec

(* Whoever followed a run that failed has been told why when the stream    *)
(* ends, or, if the stream ended before the run logged anything, nothing.  *)
THEOREM FailureIsExplainedHolds == Spec => []FailureIsExplained
<1>1. TypeOK /\ StreamInv => FailureIsExplained
  <2> SUFFICES ASSUME TypeOK, StreamInv, NEW c \in Clients,
                      reader[c] \in Closed /\ follow[c] /\ status = "failed"
               PROVE  IF reader[c] = "gaveUp" THEN SentTo(c) = {}
                                              ELSE {Started, JobEnded, RunEnded} \subseteq SentTo(c)
    BY DEF FailureIsExplained
  <2>1. CASE reader[c] = "gaveUp"
    BY <2>1 DEF StreamInv, SentTo
  <2>2. ASSUME reader[c] = "ended", NEW l \in {Started, JobEnded, RunEnded} PROVE l \in SentTo(c)
    <3>1. PICK i \in 1 .. mark : file[i] = l
      BY DEF StreamInv, InFile
    <3>2. mark <= sent[c]
      BY <2>2 DEF StreamInv, TypeOK
    <3> QED  BY <3>1, <3>2 DEF SentTo, TypeOK
  <2> QED  BY <2>1, <2>2 DEF Closed
<1> QED  BY <1>1, TypeCorrect, StreamInvHolds, PTL

-----------------------------------------------------------------------------
(* A line is scheduled once, after the lines its coroutine has awaited.    *)

OrderInv ==
  /\ \A i \in 1 .. Len(file) : write[file[i]] = "written"
  /\ \A l \in Lines \ {Started} : write[l] # "none" => write[Started] = "written"
  /\ write[RunEnded] # "none" => write[JobEnded] = "written"
  /\ pc \in {"starting", "streaming"} => write[JobEnded] = "none"
  /\ pc \in {"starting", "streaming", "passing", "failing"} => write[RunEnded] = "none"
  /\ FileInOrder

LEMMA OrderAppend ==
  ASSUME TypeOK, StreamInv, OrderInv, NEW l \in Lines, AppendLine(l)
  PROVE  OrderInv'
<1>1. /\ UNCHANGED pc /\ write[l] = "opened" /\ file' = Append(file, l)
      /\ write' = [write EXCEPT ![l] = "written"] /\ write \in [Lines -> Write]
      /\ Len(file) \in Nat /\ \A i \in 1 .. Len(file) : file[i] \in Lines
  BY DEF AppendLine, TypeOK
<1>2. /\ Len(file') = Len(file) + 1
      /\ \A i \in 1 .. Len(file) : file'[i] = file[i]
      /\ file'[Len(file) + 1] = l
  BY <1>1, FileGrows
<1>3. \A i \in 1 .. Len(file') : i \in 1 .. Len(file) \/ i = Len(file) + 1
  BY <1>1, <1>2
<1>4. \A i \in 1 .. Len(file) : file[i] # l
  BY <1>1 DEF OrderInv
<1>5. \A i \in 1 .. Len(file') : write'[file'[i]] = "written"
  BY <1>1, <1>2, <1>3, <1>4 DEF OrderInv
<1>6. \A i, k \in 1 .. Len(file') : file'[i] = file'[k] => i = k
  BY <1>2, <1>3, <1>4 DEF OrderInv, FileInOrder
<1>7. ASSUME NEW i \in 1 .. Len(file'), file'[i] # Started PROVE file'[1] = Started
  <2>1. CASE l = Started
    <3>1. Len(file) = 0
      <4> SUFFICES ASSUME 1 \in 1 .. Len(file) PROVE FALSE
        BY <1>1
      <4>1. file[1] = Started
        BY DEF OrderInv, FileInOrder
      <4> QED  BY <1>4, <2>1, <4>1
    <3> QED  BY <1>2, <2>1, <3>1
  <2>2. CASE l # Started
    <3>1. write[Started] = "written"
      BY <1>1, <2>2 DEF OrderInv
    <3>2. PICK k \in 1 .. Len(file) : file[k] = Started
      BY <3>1, LinesFacts DEF StreamInv, InFile
    <3>3. 1 \in 1 .. Len(file)
      BY <1>1
    <3>4. file[1] = Started
      BY <3>3 DEF OrderInv, FileInOrder
    <3> QED  BY <1>2, <3>3, <3>4
  <2> QED  BY <2>1, <2>2
<1>8. ASSUME NEW i \in 1 .. Len(file'), file'[i] = RunEnded
      PROVE  \E k \in 1 .. (i - 1) : file'[k] = JobEnded
  <2>1. CASE i \in 1 .. Len(file)
    <3>1. PICK k \in 1 .. (i - 1) : file[k] = JobEnded
      BY <1>2, <1>8, <2>1 DEF OrderInv, FileInOrder
    <3>2. k \in 1 .. Len(file)
      BY <1>1, <2>1
    <3> QED  BY <1>2, <3>1, <3>2
  <2>2. CASE i = Len(file) + 1
    <3>1. l = RunEnded
      BY <1>2, <1>8, <2>2
    <3>2. write[JobEnded] = "written"
      BY <1>1, <3>1 DEF OrderInv
    <3>3. PICK k \in 1 .. Len(file) : file[k] = JobEnded
      BY <3>2, LinesFacts DEF StreamInv, InFile
    <3>4. k \in 1 .. (i - 1)
      BY <1>1, <2>2
    <3> QED  BY <1>2, <3>3, <3>4
  <2> QED  BY <1>3, <2>1, <2>2
<1>9. \A k \in Lines : (write'[k] = "none" <=> write[k] = "none")
                       /\ (write[k] = "written" => write'[k] = "written")
  BY <1>1
<1>10. FileInOrder'
  BY <1>6, <1>7, <1>8 DEF FileInOrder
<1> QED  BY <1>1, <1>5, <1>9, <1>10, LinesFacts DEF OrderInv

LEMMA OrderStep == ASSUME TypeOK, StreamInv, OrderInv, [Next]_vars PROVE OrderInv'
<1>1. ASSUME NEW l \in Lines, AppendLine(l) PROVE OrderInv'
  BY <1>1, OrderAppend
<1>2. CASE /\ UNCHANGED file
           /\ \A k \in Lines : write[k] = "written" <=> write'[k] = "written"
           /\ \A k \in Lines : write'[k] # "none" => write[k] # "none"
           /\ \/ pc' = pc
              \/ pc' \notin {"starting", "streaming", "passing", "failing"}
              \/ pc = "starting" /\ pc' = "streaming"
  <2>1. \A i \in 1 .. Len(file) : file[i] \in Lines
    BY DEF TypeOK
  <2> QED  BY <1>2, <2>1, LinesFacts DEF OrderInv, FileInOrder
<1>3. ASSUME NEW l \in Lines, OpenFile(l) \/ LoseLine(l) PROVE OrderInv'
  BY <1>2, <1>3 DEF OpenFile, LoseLine, TypeOK
<1>4. CASE RunStarts \/ FailRun \/ RunReturns
  BY <1>2, <1>4 DEF RunStarts, FailRun, RunReturns
<1>5. ASSUME NEW l \in Lines \ {Started}, Log(l), UNCHANGED file, pc # "starting",
             write[l] = "none", l = RunEnded => write[JobEnded] = "written",
             l = JobEnded => pc' \notin {"starting", "streaming"},
             l = RunEnded => pc' \notin {"starting", "streaming", "passing", "failing"},
             pc' \in {"passing", "failing"} => pc \in {"passing", "failing", "streaming"},
             pc' \in {"starting", "streaming"} => pc' = pc
      PROVE  OrderInv'
  <2>1. \A k \in Lines : write'[k] = IF k = l THEN "scheduled" ELSE write[k]
    BY <1>5 DEF Log, TypeOK
  <2>2. \A i \in 1 .. Len(file) : file[i] \in Lines /\ file[i] # l
    BY <1>5 DEF OrderInv, TypeOK
  <2>3. write[Started] = "written" /\ write'[Started] = "written"
    BY <1>5, <2>1, LinesFacts DEF StreamInv
  <2>4. l # RunEnded => write'[RunEnded] = write[RunEnded]
    BY <2>1, LinesFacts
  <2>5. l # JobEnded => write'[JobEnded] = write[JobEnded]
    BY <2>1, LinesFacts
  <2>6. write'[RunEnded] # "none" => write'[JobEnded] = "written"
    BY <1>5, <2>4, <2>5, LinesDiffer DEF OrderInv
  <2>7. \A i \in 1 .. Len(file) : write'[file[i]] = "written"
    BY <2>1, <2>2 DEF OrderInv
  <2>8. FileInOrder'
    BY <1>5 DEF OrderInv, FileInOrder
  <2> QED  BY <1>5, <2>3, <2>4, <2>5, <2>6, <2>7, <2>8 DEF OrderInv
<1>6. CASE Emit
  <2>1. PICK l \in Printed : write[l] = "none" /\ Log(l)
    BY <1>6 DEF Emit
  <2>2. l \in Lines \ {Started} /\ l # JobEnded /\ l # RunEnded
    BY OutputAssumption DEF Printed, Lines, Started, JobEnded, RunEnded
  <2> QED  BY <1>5, <1>6, <2>1, <2>2 DEF Emit
<1>7. CASE StreamEnds
  BY <1>5, <1>7, LinesFacts, LinesDiffer DEF StreamEnds, OrderInv
<1>8. CASE Succeed \/ Blame
  BY <1>5, <1>8, LinesFacts, LinesDiffer DEF Succeed, Blame, OrderInv
<1>9. CASE UNCHANGED runVars
  BY <1>2, <1>9 DEF runVars
<1> QED  BY <1>1, <1>3, <1>4, <1>6, <1>7, <1>8, <1>9
         DEF Next, WriteStep, RunStep, ReaderStep, Connect, FindFile, ReadLine, Decide, Wake, Drain,
             Over, vars

(* A line is scheduled and written once, behind those the run awaited.     *)
THEOREM OrderInvHolds == Spec => []OrderInv
<1>1. Init => OrderInv
  BY LinesFacts, LinesDiffer DEF Init, OrderInv, FileInOrder
<1>2. TypeOK /\ StreamInv /\ OrderInv /\ [Next]_vars => OrderInv'
  BY OrderStep
<1> QED  BY <1>1, <1>2, TypeCorrect, StreamInvHolds, PTL DEF Spec

(* Each line is in the file once at most, and the lines that were awaited  *)
(* are in the order in which the run reached them.                         *)
THEOREM FileInOrderHolds == Spec => []FileInOrder
<1>1. OrderInv => FileInOrder
  BY DEF OrderInv
<1> QED  BY <1>1, OrderInvHolds, PTL

(* While no file is there the run is queued and nothing has been logged.   *)
LEMMA NothingYet == ASSUME TypeOK, StreamInv, OrderInv, ~ Exists PROVE status = "queued" /\ file = <<>>
<1>1. \A l \in Lines : write[l] # "written"
  BY DEF Exists
<1>2. status = "queued"
  BY <1>1, LinesFacts DEF StreamInv
<1>3. Len(file) = 0
  <2> SUFFICES ASSUME 1 \in 1 .. Len(file) PROVE FALSE
    BY DEF TypeOK
  <2> QED  BY <1>1 DEF OrderInv, TypeOK
<1> QED  BY <1>2, <1>3 DEF TypeOK

LEMMA EndStep ==
  ASSUME TypeOK, StreamInv, OrderInv, [Next]_vars, NEW c \in Clients,
         follow[c], reader[c] \notin Closed, reader'[c] \in Closed
  PROVE  \/ status \in Terminal /\ sent[c] >= mark
         \/ status = "queued" /\ ~ Exists /\ file = <<>>
<1>1. PICK d \in Clients : ReaderStep(d) \/ Connect(d)
  BY DEF Next, vars, Closed, WriteStep, OpenFile, AppendLine, LoseLine, RunStep, RunStarts, StreamEnds,
         Succeed, Blame, FailRun, RunReturns, Emit, Over, readerVars
<1>2. d = c
  BY <1>1 DEF ReaderStep, Connect, FindFile, ReadLine, Decide, Wake, Drain, ReaderGoto, Send, TypeOK
<1>3. CASE FindFile(c)
  <2>1. ~ Exists
    BY <1>3 DEF FindFile, ReaderGoto, Closed, TypeOK
  <2> QED  BY <2>1, NothingYet
<1>4. CASE Drain(c)
  <2>1. reader[c] = "draining" /\ sent[c] = Len(file)
    BY <1>4 DEF Drain, AtEnd, Send, Closed
  <2> QED  BY <2>1 DEF StreamInv, TypeOK
<1>5. ~ (ReadLine(c) \/ Decide(c) \/ Wake(c) \/ Connect(c))
  BY DEF ReadLine, Decide, Wake, Connect, ReaderGoto, Send, NextLook, Closed, TypeOK
<1> QED  BY <1>1, <1>2, <1>3, <1>4, <1>5 DEF ReaderStep

(* A stream that follows a run ends after the run has its outcome, when    *)
(* all that was logged before it has been sent, or while the run is queued *)
(* and no file is there for its first line (logs.py:47-73).                *)
THEOREM EndsAtVerdictOrBeforeStartHolds == Spec => EndsAtVerdictOrBeforeStart
<1> DEFINE Ends == \A c \in Clients :
             follow[c] /\ reader[c] \notin Closed /\ (reader[c] \in Closed)' =>
               \/ status \in Terminal /\ sent[c] >= mark
               \/ status = "queued" /\ ~ Exists /\ file = <<>>
<1>1. TypeOK /\ StreamInv /\ OrderInv /\ [Next]_vars => [Ends]_vars
  BY EndStep DEF Closed
<1>2. Spec => [][Ends]_vars
  <2> HIDE DEF Ends
  <2> QED  BY <1>1, TypeCorrect, StreamInvHolds, OrderInvHolds, PTL DEF Spec
<1> QED  BY <1>2 DEF EndsAtVerdictOrBeforeStart
=============================================================================
