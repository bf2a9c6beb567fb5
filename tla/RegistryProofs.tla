--------------------------- MODULE RegistryProofs ---------------------------
(***************************************************************************)
(* Proofs about Registry, for any number of server processes, uploads and  *)
(* names, and with every fault.                                            *)
(*                                                                         *)
(* RegistryInv is inductive together with TypeOK: an upload is in one      *)
(* process at a time, has its blob on disk before it looks for its row,    *)
(* and is the owner of a row while unanswered only between its insert and  *)
(* its answer.  The other theorems follow from it.                         *)
(***************************************************************************)
EXTENDS Registry, TLAPS

Assumptions == TargetAssumption /\ NoneAssumption /\ WorkerAssumption

(* The two conjuncts of Torn that matter.                                  *)
LEMMA TornFacts ==
  ASSUME TypeOK, WorkerAssumption, NEW w \in Workers, Torn(w)
  PROVE  /\ blob' \in [Contents -> {"absent", "whole", "torn"} \cup Workers]
         /\ \A c \in Contents : blob[c] # "absent" => blob'[c] # "absent"
BY DEF TypeOK, Torn

LEMMA TypeInit == ASSUME TargetAssumption, Init PROVE TypeOK
BY DEF Init, TypeOK, Steps, Answers

LEMMA TypeStep ==
  ASSUME Assumptions, TypeOK, [Next]_vars PROVE TypeOK'
<1> USE DEF TypeOK, Steps, Answers, Goto, Reply, Serving, Carried, Row
<1>1. ASSUME NEW w \in Workers, NEW u \in Uploads, Receive(w, u) PROVE TypeOK'
  BY <1>1 DEF Receive, Valid
<1>2. ASSUME NEW w \in Workers, BlobExists(w) PROVE TypeOK'
  BY <1>2 DEF BlobExists
<1>3. ASSUME NEW w \in Workers, OpenBlob(w) PROVE TypeOK'
  BY <1>3 DEF OpenBlob
<1>4. ASSUME NEW w \in Workers, WriteBlob(w) PROVE TypeOK'
  BY <1>4 DEF WriteBlob
<1>5. ASSUME NEW w \in Workers, WriteFails(w) PROVE TypeOK'
  <2>1. blob' \in [Contents -> {"absent", "whole", "torn"} \cup Workers]
    BY <1>5, TornFacts DEF WriteFails, Assumptions
  <2> QED  BY <1>5, <2>1 DEF WriteFails
<1>6. ASSUME NEW w \in Workers, SelectRow(w) PROVE TypeOK'
  BY <1>6 DEF SelectRow
<1>7. ASSUME NEW w \in Workers, InsertRow(w) PROVE TypeOK'
  BY <1>7 DEF InsertRow
<1>11. ASSUME NEW w \in Workers, QueryFails(w) PROVE TypeOK'
  BY <1>11 DEF QueryFails
<1>8. ASSUME NEW w \in Workers, Created(w) PROVE TypeOK'
  BY <1>8 DEF Created
<1>9. ASSUME NEW w \in Workers, Crash(w) PROVE TypeOK'
  <2>1. blob' \in [Contents -> {"absent", "whole", "torn"} \cup Workers]
    BY <1>9, TornFacts DEF Crash, Assumptions
  <2> QED  BY <1>9, <2>1 DEF Crash
<1>10. CASE UNCHANGED vars
  BY <1>10 DEF vars
<1> QED  BY <1>1, <1>2, <1>3, <1>4, <1>5, <1>6, <1>7, <1>8, <1>9, <1>10, <1>11 DEF Next, Handle, Served

(* Every variable of the registry keeps its type.                          *)
THEOREM TypeCorrect == ASSUME Assumptions PROVE Spec => []TypeOK
<1>1. Init => TypeOK
  BY TypeInit DEF Assumptions
<1>2. TypeOK /\ [Next]_vars => TypeOK'
  BY TypeStep
<1> QED  BY <1>1, <1>2, PTL DEF Spec

-----------------------------------------------------------------------------

LEMMA InvInit == ASSUME Assumptions, Init PROVE RegistryInv
BY DEF Init, RegistryInv, AnswersAreTrue, InHand, Assumptions, TargetAssumption, NoneAssumption

LEMMA InvStep ==
  ASSUME Assumptions, TypeOK, RegistryInv, [Next]_vars PROVE RegistryInv'
<1> USE DEF TypeOK, Steps, Answers, Assumptions, TargetAssumption, NoneAssumption,
            WorkerAssumption, RegistryInv, AnswersAreTrue, InHand, FileOf, HasFile,
            Goto, Reply, Serving, Carried, Row
<1>1. ASSUME NEW w \in Workers, NEW u \in Uploads, Receive(w, u) PROVE RegistryInv'
  <2> USE <1>1 DEF Receive, Valid
  <2>1. CASE content[u] = "bad"
    <3>1. UNCHANGED <<content, loop, step, blob, owner>> /\ answer' = [answer EXCEPT ![u] = "400"]
      BY <2>1
    <3>2. owner[Target[u]] # u
      OBVIOUS
    <3>3. \A w1 \in Workers : InHand(w1) => loop[w1] # u
      OBVIOUS
    <3>4. AnswersAreTrue'
      BY <3>1, <3>2
    <3>5. \A w1 \in Workers : InHand(w1) => answer'[loop[w1]] = "none"
      BY <3>1, <3>3
    <3> QED  BY <3>1, <3>2, <3>4, <3>5
  <2>2. CASE content[u] # "bad"
    <3>1. UNCHANGED <<content, answer, step, blob, owner>> /\ loop' = [loop EXCEPT ![w] = u]
      BY <2>2
    <3>2. step[w] = "exists"
      OBVIOUS
    <3> QED  BY <2>2, <3>1, <3>2
  <2> QED  BY <2>1, <2>2
<1>2. ASSUME NEW w \in Workers, BlobExists(w) PROVE RegistryInv'
  BY <1>2 DEF BlobExists
<1>3. ASSUME NEW w \in Workers, OpenBlob(w) PROVE RegistryInv'
  BY <1>3 DEF OpenBlob
<1>4. ASSUME NEW w \in Workers, WriteBlob(w) PROVE RegistryInv'
  BY <1>4 DEF WriteBlob
<1>5. ASSUME NEW w \in Workers, WriteFails(w) PROVE RegistryInv'
  BY <1>5, TornFacts DEF WriteFails
<1>6. ASSUME NEW w \in Workers, SelectRow(w) PROVE RegistryInv'
  BY <1>6 DEF SelectRow
<1>7. ASSUME NEW w \in Workers, InsertRow(w) PROVE RegistryInv'
  BY <1>7 DEF InsertRow
<1>11. ASSUME NEW w \in Workers, QueryFails(w) PROVE RegistryInv'
  BY <1>11 DEF QueryFails
<1>8. ASSUME NEW w \in Workers, Created(w) PROVE RegistryInv'
  BY <1>8 DEF Created
<1>9. ASSUME NEW w \in Workers, Crash(w) PROVE RegistryInv'
  BY <1>9, TornFacts DEF Crash
<1>10. CASE UNCHANGED vars
  BY <1>10 DEF vars
<1> QED  BY <1>1, <1>2, <1>3, <1>4, <1>5, <1>6, <1>7, <1>8, <1>9, <1>10, <1>11 DEF Next, Handle, Served

(* The inductive invariant.                                                *)
THEOREM RegistryInvHolds == ASSUME Assumptions PROVE Spec => []RegistryInv
<1>1. Init => RegistryInv
  BY InvInit
<1>2. TypeOK /\ RegistryInv /\ [Next]_vars => RegistryInv'
  BY InvStep
<1> QED  BY <1>1, <1>2, TypeCorrect, PTL DEF Spec

(* The upload that was told 201 owns its name@version, one told 409 lost   *)
(* to another, one told 400 is not stored.                                 *)
THEOREM AnswersAreTrueHolds == ASSUME Assumptions PROVE Spec => []AnswersAreTrue
<1>1. RegistryInv => AnswersAreTrue
  BY DEF RegistryInv
<1> QED  BY <1>1, RegistryInvHolds, PTL

(* A row never points at a file that is not there, wherever the processes  *)
(* are killed.                                                             *)
THEOREM PublishedHasFileHolds == ASSUME Assumptions PROVE Spec => []PublishedHasFile
<1>1. RegistryInv => PublishedHasFile
  BY DEF RegistryInv, PublishedHasFile
<1> QED  BY <1>1, RegistryInvHolds, PTL

-----------------------------------------------------------------------------

(* A step leaves every row that is there as it is.                         *)
LEMMA RowsStay ==
  ASSUME TypeOK, [Next]_vars, NEW n \in Coordinates, owner[n] # "none"
  PROVE  owner'[n] = owner[n]
<1>1. ASSUME NEW w \in Workers, InsertRow(w) PROVE owner'[n] = owner[n]
  BY <1>1 DEF InsertRow, Row, TypeOK
<1> QED  BY <1>1 DEF Next, Handle, Served, vars, Receive, BlobExists, OpenBlob, WriteBlob,
                     WriteFails, SelectRow, QueryFails, Created, Crash

(* No published name@version is ever bound to another upload.              *)
THEOREM ImmutableHolds == ASSUME Assumptions PROVE Spec => Immutable
<1>1. TypeOK /\ [Next]_vars =>
        [\A n \in Coordinates : owner[n] # "none" => owner'[n] = owner[n]]_vars
  BY RowsStay
<1> QED  BY <1>1, TypeCorrect, PTL DEF Spec, Immutable

-----------------------------------------------------------------------------
(* When a published file is whole.  A file that is in the writing belongs  *)
(* to the process that truncated it last; that holds with every fault and  *)
(* for any number of processes.                                            *)

LEMMA TornIs ==
  ASSUME TypeOK, WorkerAssumption, NEW w \in Workers, Torn(w), NEW c \in Contents
  PROVE  /\ blob[c] = w => blob'[c] = "torn"
         /\ blob[c] # w => blob'[c] = blob[c]
BY DEF TypeOK, Torn

LEMMA WriterStep ==
  ASSUME Assumptions, TypeOK, RegistryInv, WriterInv, [Next]_vars PROVE WriterInv'
<1> USE DEF TypeOK, Steps, Assumptions, WorkerAssumption, NoneAssumption, WriterInv, Goto, Reply,
            Serving, Carried
<1>1. ASSUME NEW w \in Workers, NEW u \in Uploads, Receive(w, u) PROVE WriterInv'
  BY <1>1 DEF Receive
<1>2. ASSUME NEW w \in Workers,
             BlobExists(w) \/ SelectRow(w) \/ InsertRow(w) \/ QueryFails(w) \/ Created(w)
      PROVE  WriterInv'
  BY <1>2 DEF BlobExists, SelectRow, InsertRow, QueryFails, Created
<1>3. ASSUME NEW w \in Workers, OpenBlob(w) PROVE WriterInv'
  BY <1>3 DEF OpenBlob
<1>4. ASSUME NEW w \in Workers, WriteBlob(w) PROVE WriterInv'
  BY <1>4 DEF WriteBlob
<1>5. ASSUME NEW w \in Workers, WriteFails(w) \/ Crash(w) PROVE WriterInv'
  <2>1. /\ UNCHANGED content /\ Torn(w)
        /\ \A v \in Workers : v # w => loop'[v] = loop[v] /\ step'[v] = step[v]
    BY <1>5 DEF WriteFails, Crash
  <2>2. ASSUME NEW c \in Contents, NEW v \in Workers, blob'[c] = v
        PROVE  v # w /\ blob[c] = v
    <3>1. v # "torn"
      OBVIOUS
    <3> QED  BY <2>1, <2>2, <3>1, TornIs
  <2> QED  BY <2>1, <2>2
<1>6. CASE UNCHANGED vars
  BY <1>6 DEF vars
<1> QED  BY <1>1, <1>2, <1>3, <1>4, <1>5, <1>6 DEF Next, Handle, Served

(* A file that is in the writing is about to be written by the process     *)
(* that truncated it last (storage.py, write_bytes).                       *)
LEMMA WriterInvHolds == ASSUME Assumptions PROVE Spec => []WriterInv
<1>1. Init => WriterInv
  BY DEF Init, WriterInv, Assumptions, WorkerAssumption
<1>2. TypeOK /\ RegistryInv /\ WriterInv /\ [Next]_vars => WriterInv'
  BY WriterStep
<1> QED  BY <1>1, <1>2, TypeCorrect, RegistryInvHolds, PTL DEF Spec

(* Only a failed write or a killed process leaves a file that ends early:  *)
(* without them, what is published is whole or is being completed, however *)
(* many processes upload the same content at the same time.                *)
THEOREM PublishedIsWrittenHolds ==
  ASSUME Assumptions, Faults = {} PROVE Spec => []PublishedIsWritten
<1> DEFINE NoneTorn == \A c \in Contents : blob[c] # "torn"
<1>1. Init => NoneTorn
  BY DEF Init
<1>2. TypeOK /\ NoneTorn /\ [Next]_vars => NoneTorn'
  BY DEF TypeOK, Next, Handle, Served, vars, Receive, BlobExists, OpenBlob, WriteBlob, WriteFails,
         SelectRow, InsertRow, QueryFails, Created, Crash, Assumptions, WorkerAssumption
<1>3. TypeOK /\ RegistryInv /\ WriterInv /\ NoneTorn => PublishedIsWritten
  <2> SUFFICES ASSUME TypeOK, RegistryInv, WriterInv, NoneTorn,
                      NEW n \in Coordinates, owner[n] # "none", FileOf(n) # "whole"
               PROVE  \E w \in Workers : /\ FileOf(n) = w /\ Serving(w, "write")
                                         /\ Carried(w) = content[owner[n]]
    BY DEF PublishedIsWritten
  <2>1. content[owner[n]] \in Contents /\ FileOf(n) # "absent" /\ FileOf(n) = blob[content[owner[n]]]
    BY DEF RegistryInv, HasFile, FileOf
  <2>2. FileOf(n) \in Workers
    BY <2>1 DEF TypeOK
  <2> QED  BY <2>1, <2>2 DEF WriterInv
<1> QED  BY <1>1, <1>2, <1>3, TypeCorrect, RegistryInvHolds, WriterInvHolds, PTL DEF Spec

-----------------------------------------------------------------------------
(* One process, as the Dockerfile starts it.                               *)

LEMMA AloneStep ==
  ASSUME Assumptions, OneProcess, TypeOK, RegistryInv, AloneInv, [Next]_vars PROVE AloneInv'
<1> USE DEF TypeOK, Steps, OneProcess, AloneInv, InHand, Goto, Reply, Serving, Carried, Row
<1>1. ASSUME NEW w \in Workers, NEW u \in Uploads, Receive(w, u) PROVE AloneInv'
  <2>1. \A v \in Workers : v = w /\ step'[v] = "exists"
    BY <1>1 DEF Receive, RegistryInv
  <2> QED  BY <2>1
<1>2. ASSUME NEW w \in Workers, BlobExists(w) \/ OpenBlob(w) \/ WriteBlob(w) PROVE AloneInv'
  BY <1>2 DEF BlobExists, OpenBlob, WriteBlob, RegistryInv
<1>3. ASSUME NEW w \in Workers, SelectRow(w) \/ InsertRow(w) PROVE AloneInv'
  BY <1>3 DEF SelectRow, InsertRow
<1>4. ASSUME NEW w \in Workers, WriteFails(w) \/ QueryFails(w) \/ Created(w) \/ Crash(w)
      PROVE  AloneInv'
  BY <1>4 DEF WriteFails, QueryFails, Created, Crash
<1>5. CASE UNCHANGED vars
  BY <1>5 DEF vars
<1> QED  BY <1>1, <1>2, <1>3, <1>4, <1>5 DEF Next, Handle, Served

LEMMA AloneInvHolds == ASSUME Assumptions, OneProcess PROVE Spec => []AloneInv
<1>1. Init => AloneInv
  BY DEF Init, AloneInv, InHand
<1>2. TypeOK /\ RegistryInv /\ AloneInv /\ [Next]_vars => AloneInv'
  BY AloneStep
<1> QED  BY <1>1, <1>2, TypeCorrect, RegistryInvHolds, PTL DEF Spec

(* Whatever fails, one process truncates no file that is whole: a retry of *)
(* an upload cannot damage the file that an earlier one has left.          *)
THEOREM WholeStaysWholeHolds == ASSUME Assumptions, OneProcess PROVE Spec => WholeStaysWhole
<1>1. ASSUME TypeOK, AloneInv, WriterInv, [Next]_vars
      PROVE  [\A c \in Contents : blob[c] = "whole" => blob'[c] = "whole"]_vars
  <2> SUFFICES ASSUME NEW c \in Contents, blob[c] = "whole" PROVE blob'[c] = "whole"
    OBVIOUS
  <2>1. ASSUME NEW w \in Workers, OpenBlob(w) PROVE blob'[c] = "whole"
    <3>1. blob[Carried(w)] = "absent"
      BY <1>1, <2>1 DEF OpenBlob, Serving, AloneInv, InHand
    <3> QED  BY <1>1, <2>1, <3>1 DEF OpenBlob, TypeOK
  <2>2. ASSUME NEW w \in Workers, WriteBlob(w) PROVE blob'[c] = "whole"
    BY <1>1, <2>2 DEF WriteBlob, TypeOK
  <2>3. ASSUME NEW w \in Workers, Torn(w) PROVE blob'[c] = "whole"
    <3>1. w # "whole"
      BY DEF Assumptions, WorkerAssumption
    <3> QED  BY <1>1, <2>3, <3>1, TornIs DEF Assumptions
  <2> QED  BY <1>1, <2>1, <2>2, <2>3 DEF Next, Handle, Served, vars, Receive, BlobExists, WriteFails,
              SelectRow, InsertRow, QueryFails, Created, Crash
<1> QED  BY <1>1, TypeCorrect, AloneInvHolds, WriterInvHolds, PTL DEF Spec, WholeStaysWhole

(* With one process and a disk that does not fail, no upload meets the     *)
(* UNIQUE constraint: who loses a name@version is told 409.                *)
THEOREM NoServerErrorHolds ==
  ASSUME Assumptions, OneProcess, "disk" \notin Faults PROVE Spec => []NoServerError
<1>1. Init => NoServerError
  BY DEF Init, NoServerError
<1>2. ASSUME TypeOK, AloneInv, NoServerError, [Next]_vars PROVE NoServerError'
  <2> USE DEF TypeOK, Goto, Reply, NoServerError
  <2>1. ASSUME NEW w \in Workers, InsertRow(w) PROVE NoServerError'
    BY <1>2, <2>1 DEF InsertRow, Serving, AloneInv, InHand
  <2>2. ASSUME NEW w \in Workers, NEW u \in Uploads, Receive(w, u) PROVE NoServerError'
    BY <1>2, <2>2 DEF Receive
  <2>3. ASSUME NEW w \in Workers, SelectRow(w) \/ Created(w) \/ Crash(w) PROVE NoServerError'
    BY <1>2, <2>3 DEF SelectRow, Created, Crash
  <2> QED  BY <1>2, <2>1, <2>2, <2>3 DEF Next, Handle, Served, vars, BlobExists, OpenBlob, WriteBlob,
              WriteFails, QueryFails
<1> QED  BY <1>1, <1>2, TypeCorrect, AloneInvHolds, PTL DEF Spec

LEMMA WholeStep ==
  ASSUME Assumptions, OneProcess, Faults = {},
         TypeOK, RegistryInv, WriterInv, AloneInv, WholeInv, [Next]_vars
  PROVE  WholeInv'
<1> USE DEF TypeOK, Steps, OneProcess, InHand, WholeInv, PublishedIsWhole, FileOf, Goto, Reply,
            Serving, Carried
<1>1. ASSUME NEW w \in Workers, NEW u \in Uploads, Receive(w, u) PROVE WholeInv'
  <2>1. \A v \in Workers : v = w /\ step'[v] = "exists" /\ UNCHANGED <<blob, owner, content>>
    BY <1>1 DEF Receive, RegistryInv
  <2> QED  BY <2>1
<1>2. ASSUME NEW w \in Workers, BlobExists(w) PROVE WholeInv'
  <2>1. /\ UNCHANGED <<content, loop, blob, owner>> /\ \A v \in Workers : v = w
        /\ Carried(w) \in Contents
    BY <1>2 DEF BlobExists, RegistryInv
  <2>2. CASE blob[Carried(w)] = "absent"
    <3>1. step'[w] = "open"
      BY <1>2, <2>2 DEF BlobExists
    <3>2. \A n \in Coordinates : owner[n] # "none" => content[owner[n]] # Carried(w)
      BY <2>2
    <3> QED  BY <2>1, <3>1, <3>2
  <2>3. CASE blob[Carried(w)] # "absent"
    <3>1. step'[w] = "select"
      BY <1>2, <2>3 DEF BlobExists
    <3>2. blob[Carried(w)] \notin Workers
      BY <1>2, <2>1 DEF BlobExists, WriterInv
    <3>3. blob[Carried(w)] = "whole"
      BY <2>1, <2>3, <3>2
    <3> QED  BY <2>1, <3>1, <3>3
  <2> QED  BY <2>2, <2>3
<1>3. ASSUME NEW w \in Workers, OpenBlob(w) PROVE WholeInv'
  <2>1. /\ UNCHANGED <<content, loop, owner>> /\ blob' = [blob EXCEPT ![Carried(w)] = w]
        /\ step'[w] = "write" /\ w \notin {"torn", "whole"} /\ \A v \in Workers : v = w
    BY <1>3 DEF OpenBlob, Assumptions, WorkerAssumption
  <2>2. \A n \in Coordinates : owner[n] # "none" =>
          content[owner[n]] # Carried(w) /\ content[owner[n]] \in Contents
    BY <1>3 DEF OpenBlob, RegistryInv
  <2> QED  BY <2>1, <2>2
<1>4. ASSUME NEW w \in Workers, WriteBlob(w) PROVE WholeInv'
  <2>1. /\ UNCHANGED <<content, loop, owner>> /\ step'[w] = "select" /\ \A v \in Workers : v = w
        /\ Carried(w) \in Contents /\ blob[Carried(w)] = w
    BY <1>4 DEF WriteBlob, AloneInv, RegistryInv
  <2>2. blob' = [blob EXCEPT ![Carried(w)] = "whole"]
    BY <1>4, <2>1 DEF WriteBlob
  <2> QED  BY <2>1, <2>2
<1>5. ASSUME NEW w \in Workers, SelectRow(w) PROVE WholeInv'
  BY <1>5 DEF SelectRow
<1>6. ASSUME NEW w \in Workers, InsertRow(w) PROVE WholeInv'
  <2>1. blob[Carried(w)] = "whole" /\ UNCHANGED <<content, blob>> /\ \A v \in Workers : v = w
    BY <1>6 DEF InsertRow
  <2>2. \A n \in Coordinates : owner'[n] # "none" => owner'[n] = owner[n] \/ owner'[n] = loop[w]
    BY <1>6 DEF InsertRow
  <2>3. PublishedIsWhole'
    BY <2>1, <2>2
  <2>4. InHand(w)' => loop'[w] = loop[w] /\ step'[w] = "reply"
    BY <1>6 DEF InsertRow
  <2> QED  BY <2>1, <2>3, <2>4
<1>7. ASSUME NEW w \in Workers, Created(w) PROVE WholeInv'
  BY <1>7 DEF Created
<1>8. CASE UNCHANGED vars
  BY <1>8 DEF vars
<1> QED  BY <1>1, <1>2, <1>3, <1>4, <1>5, <1>6, <1>7, <1>8 DEF Next, Handle, Served, WriteFails,
         QueryFails, Crash

(* One process that is never killed and whose disk does not fail publishes *)
(* only whole files; run registry_torn shows that a failed write alone     *)
(* breaks this.                                                            *)
THEOREM PublishedIsWholeAlone ==
  ASSUME Assumptions, OneProcess, Faults = {} PROVE Spec => []PublishedIsWhole
<1>1. Init => WholeInv
  BY DEF Init, WholeInv, InHand, PublishedIsWhole
<1>2. TypeOK /\ RegistryInv /\ WriterInv /\ AloneInv /\ WholeInv /\ [Next]_vars => WholeInv'
  BY WholeStep
<1>3. WholeInv => PublishedIsWhole
  BY DEF WholeInv
<1> QED  BY <1>1, <1>2, <1>3, TypeCorrect, RegistryInvHolds, WriterInvHolds, AloneInvHolds, PTL
         DEF Spec

-----------------------------------------------------------------------------
(* The refinement.                                                         *)

LEMMA StoreInit == ASSUME Init PROVE Store!Init
BY DEF Init, Store!Init, Told

(* An answer given to one upload changes what that upload is told.         *)
LEMMA ToldOne ==
  ASSUME TypeOK, NEW u \in Uploads, NEW code \in Answers,
         answer' = [answer EXCEPT ![u] = code]
  PROVE  [v \in Uploads |-> Told(answer'[v])]
           = [[v \in Uploads |-> Told(answer[v])] EXCEPT ![u] = Told(code)]
BY DEF TypeOK, Answers

LEMMA StoreStep ==
  ASSUME Assumptions, TypeOK, RegistryInv, [Next]_vars PROVE [Store!Next]_(Store!vars)
<1> USE DEF Serving, Goto, Reply, Row
<1> DEFINE Unanswered(w) == loop[w] \in Uploads /\ answer[loop[w]] = "none"
<1>0. ASSUME NEW w \in Workers, loop[w] # "idle" PROVE Unanswered(w)
  BY <1>0 DEF TypeOK, RegistryInv, InHand
<1>g. ASSUME NEW u \in Uploads, answer[u] = "none", UNCHANGED owner,
             NEW code \in {"400", "500", "lost"}, answer' = [answer EXCEPT ![u] = code]
      PROVE  Store!Next
  <2>1. [v \in Uploads |-> Told(answer'[v])]
          = [[v \in Uploads |-> Told(answer[v])] EXCEPT ![u] = Told(code)]
    <3>1. code \in Answers
      BY DEF Answers
    <3> QED  BY <1>g, <3>1, ToldOne
  <2>2. Told(answer[u]) = "nothing" /\ Told(code) = "error"
    BY <1>g DEF Told
  <2>3. Store!GaveUp(u)
    BY <1>g, <2>1, <2>2 DEF Store!GaveUp
  <2> QED  BY <2>3 DEF Store!Next
<1>1. ASSUME NEW w \in Workers, NEW u \in Uploads, Receive(w, u) PROVE [Store!Next]_(Store!vars)
  <2>1. CASE content[u] = "bad"
    BY <1>1, <2>1, <1>g DEF Receive, Valid
  <2>2. CASE content[u] # "bad"
    BY <1>1, <2>2 DEF Receive, Valid, Store!vars
  <2> QED  BY <2>1, <2>2
<1>2. ASSUME NEW w \in Workers, BlobExists(w) \/ OpenBlob(w) \/ WriteBlob(w)
      PROVE  UNCHANGED Store!vars
  BY <1>2 DEF BlobExists, OpenBlob, WriteBlob, Store!vars
<1>3. ASSUME NEW w \in Workers, WriteFails(w) PROVE Store!Next
  BY <1>3, <1>0, <1>g DEF WriteFails
<1>9. ASSUME NEW w \in Workers, QueryFails(w) PROVE Store!Next
  BY <1>9, <1>0, <1>g DEF QueryFails
<1>4. ASSUME NEW w \in Workers, SelectRow(w) PROVE [Store!Next]_(Store!vars)
  <2>1. CASE Row(w) = "none"
    BY <1>4, <2>1 DEF SelectRow, Store!vars
  <2>2. CASE Row(w) # "none"
    <3>1. Unanswered(w) /\ UNCHANGED owner /\ answer' = [answer EXCEPT ![loop[w]] = "409"]
      BY <1>4, <2>2, <1>0 DEF SelectRow
    <3>2. owner[Target[loop[w]]] \notin {"none", loop[w]}
      BY <1>4, <2>2, <3>1 DEF SelectRow, RegistryInv, InHand
    <3>3. [v \in Uploads |-> Told(answer'[v])]
            = [[v \in Uploads |-> Told(answer[v])] EXCEPT ![loop[w]] = Told("409")]
      BY <3>1, ToldOne DEF Answers
    <3>4. Told("409") = "refused" /\ Told(answer[loop[w]]) = "nothing"
      BY <3>1 DEF Told
    <3>5. Store!Refused(loop[w])
      BY <3>1, <3>2, <3>3, <3>4 DEF Store!Refused
    <3> QED  BY <3>1, <3>5 DEF Store!Next
  <2> QED  BY <2>1, <2>2
<1>5. ASSUME NEW w \in Workers, InsertRow(w) PROVE Store!Next
  <2>0. Unanswered(w) /\ Target[loop[w]] \in Coordinates
    BY <1>5, <1>0 DEF InsertRow, Assumptions, TargetAssumption
  <2>1. CASE Row(w) = "none"
    <3>1. UNCHANGED answer /\ owner' = [owner EXCEPT ![Target[loop[w]]] = loop[w]]
      BY <1>5, <2>1 DEF InsertRow
    <3>2. Told(answer[loop[w]]) = "nothing"
      BY <2>0 DEF Told
    <3>3. Store!Bind(loop[w])
      BY <2>0, <2>1, <3>1, <3>2 DEF Store!Bind
    <3> QED  BY <2>0, <3>3 DEF Store!Next
  <2>2. CASE Row(w) # "none"
    BY <1>5, <2>0, <2>2, <1>g DEF InsertRow
  <2> QED  BY <2>1, <2>2
<1>6. ASSUME NEW w \in Workers, Created(w) PROVE Store!Next
  <2>1. Unanswered(w) /\ UNCHANGED owner /\ answer' = [answer EXCEPT ![loop[w]] = "201"]
    BY <1>6, <1>0 DEF Created
  <2>2. owner[Target[loop[w]]] = loop[w]
    BY <1>6 DEF Created, RegistryInv, InHand
  <2>3. [v \in Uploads |-> Told(answer'[v])]
          = [[v \in Uploads |-> Told(answer[v])] EXCEPT ![loop[w]] = Told("201")]
    BY <2>1, ToldOne DEF Answers
  <2>4. Told("201") = "published" /\ Told(answer[loop[w]]) = "nothing"
    BY <2>1 DEF Told
  <2>5. Store!Published(loop[w])
    BY <2>1, <2>2, <2>3, <2>4 DEF Store!Published
  <2> QED  BY <2>1, <2>5 DEF Store!Next
<1>7. ASSUME NEW w \in Workers, Crash(w) PROVE Store!Next
  BY <1>7, <1>0, <1>g DEF Crash
<1>8. CASE UNCHANGED vars
  BY <1>8 DEF vars, Store!vars
<1> QED  BY <1>1, <1>2, <1>3, <1>4, <1>5, <1>6, <1>7, <1>8, <1>9 DEF Next, Handle, Served

(* The registry implements the store of write-once bindings.               *)
THEOREM StoreKept == ASSUME Assumptions PROVE Spec => ImplementsArtifactStore
<1>1. Init => Store!Init
  BY StoreInit
<1>2. TypeOK /\ RegistryInv /\ [Next]_vars => [Store!Next]_(Store!vars)
  BY StoreStep
<1> QED  BY <1>1, <1>2, TypeCorrect, RegistryInvHolds, PTL
         DEF Spec, ImplementsArtifactStore, Store!Spec
=============================================================================
