------------------------------ MODULE Registry ------------------------------
(***************************************************************************)
(* Uploads to the artifact registry: the handler upload_artifact, the blob *)
(* directory (storage.py) and the artifacts table (metadata.py).           *)
(*                                                                         *)
(* The handler awaits only while it reads the request body.  What follows  *)
(* runs to its end on the event loop of one server process, so a process   *)
(* has one upload in hand at a time; several processes would share the     *)
(* files and interleave.  A process may be killed between any two of the   *)
(* file and database operations, and is started again.                     *)
(*                                                                         *)
(* Faults: "crash" a process is killed; "disk" writing a blob or a         *)
(* statement on the database raises (disk full, database locked).          *)
(***************************************************************************)
EXTENDS Naturals, FiniteSets

CONSTANTS
  Workers,      \* server processes; the Dockerfile starts one
  Uploads,      \* POST /artifacts requests
  Coordinates,  \* name@version
  Contents,     \* file contents; the content stands for its SHA-256
  Target,       \* the name@version of each upload
  Faults

ASSUME TargetAssumption == Target \in [Uploads -> Coordinates]
ASSUME NoneAssumption   == "none" \notin Uploads /\ "idle" \notin Uploads
ASSUME WorkerAssumption == Workers \cap {"absent", "whole", "torn"} = {}

VARIABLES
  content,  \* what each upload carries, or "bad" when validation will reject it
  loop,     \* the upload each process has in hand
  step,     \* the operation of the handler that comes next
  answer,   \* the HTTP status of each upload
  blob,     \* each blob file: absent, whole, torn, or being written by a process
  owner     \* the artifacts table: the upload that inserted the row

vars == <<content, loop, step, answer, blob, owner>>

Answers == {"201", "400", "409", "500", "lost"}
Steps   == {"exists", "open", "write", "select", "insert", "reply"}

Init ==
  /\ content \in [Uploads -> Contents \cup {"bad"}]
  /\ loop = [w \in Workers |-> "idle"]
  /\ step = [w \in Workers |-> "exists"]
  /\ answer = [u \in Uploads |-> "none"]
  /\ blob = [c \in Contents |-> "absent"]
  /\ owner = [n \in Coordinates |-> "none"]

-----------------------------------------------------------------------------

Serving(w, s) == loop[w] # "idle" /\ step[w] = s
Carried(w)    == content[loop[w]]
Row(w)        == owner[Target[loop[w]]]

(* What GET /artifacts/{name}/{version} finds on disk.                     *)
FileOf(n) == blob[content[owner[n]]]

(* get_blob asks only whether there is a file, not what it holds.          *)
HasFile(n) == FileOf(n) # "absent"

(* The bytes hash to the declared checksum, and version and dependencies   *)
(* parse.                                                                  *)
Valid(u) == content[u] # "bad"

Goto(w, s) == step' = [step EXCEPT ![w] = s]

(* Mutant: the answer is sent and the event loop stays blocked.            *)
ReplyAndBlock(w, code) == answer' = [answer EXCEPT ![loop[w]] = code] /\ UNCHANGED <<loop, step>>

(* The handler answers and gives the event loop back.                      *)
Reply(w, code) ==
  /\ answer' = [answer EXCEPT ![loop[w]] = code]
  /\ loop' = [loop EXCEPT ![w] = "idle"]
  /\ Goto(w, "exists")

(* The body has been read and is checked.                                  *)
Receive(w, u) ==
  /\ loop[w] = "idle" /\ answer[u] = "none"
  /\ \A v \in Workers : loop[v] # u
  /\ IF Valid(u)
       THEN loop' = [loop EXCEPT ![w] = u] /\ UNCHANGED answer
       ELSE answer' = [answer EXCEPT ![u] = "400"] /\ UNCHANGED loop
  /\ UNCHANGED <<content, step, blob, owner>>

(* Mutant: the row is written before the blob.                             *)
RowFirst(w) ==
  /\ Serving(w, "exists")
  /\ Goto(w, "select")
  /\ UNCHANGED <<content, loop, answer, blob, owner>>

(* save_blob: a file that is there is not written again.                   *)
BlobExists(w) ==
  /\ Serving(w, "exists")
  /\ Goto(w, IF blob[Carried(w)] = "absent" THEN "open" ELSE "select")
  /\ UNCHANGED <<content, loop, answer, blob, owner>>

(* write_bytes truncates, then writes.                                     *)
OpenBlob(w) ==
  /\ Serving(w, "open")
  /\ blob' = [blob EXCEPT ![Carried(w)] = w]
  /\ Goto(w, "write")
  /\ UNCHANGED <<content, loop, answer, owner>>

(* Two writers write the same bytes: the file is whole when the one that   *)
(* truncated it last is done.                                              *)
WriteBlob(w) ==
  /\ Serving(w, "write")
  /\ blob' = [blob EXCEPT ![Carried(w)] = IF @ = w THEN "whole" ELSE @]
  /\ Goto(w, "select")
  /\ UNCHANGED <<content, loop, answer, owner>>

Torn(w) == blob' = [c \in Contents |-> IF blob[c] = w THEN "torn" ELSE blob[c]]

WriteFails(w) ==
  /\ "disk" \in Faults /\ Serving(w, "write")
  /\ Torn(w)
  /\ Reply(w, "500")
  /\ UNCHANGED <<content, owner>>

(* save_artifact looks for the row, then inserts it; only its own check    *)
(* answers 409, the UNIQUE constraint is an unhandled error.               *)
SelectRow(w) ==
  /\ Serving(w, "select")
  /\ IF Row(w) = "none" THEN Goto(w, "insert") /\ UNCHANGED <<loop, answer>>
                        ELSE Reply(w, "409")
  /\ UNCHANGED <<content, blob, owner>>

(* Mutant: INSERT OR REPLACE.                                              *)
ReplaceRow(w) ==
  /\ Serving(w, "insert")
  /\ owner' = [owner EXCEPT ![Target[loop[w]]] = loop[w]]
  /\ Goto(w, "reply")
  /\ UNCHANGED <<content, loop, answer, blob>>

InsertRow(w) ==
  /\ Serving(w, "insert")
  /\ IF Row(w) = "none"
       THEN /\ owner' = [owner EXCEPT ![Target[loop[w]]] = loop[w]]
            /\ Goto(w, "reply") /\ UNCHANGED <<loop, answer>>
       ELSE Reply(w, "500") /\ UNCHANGED owner
  /\ UNCHANGED <<content, blob>>

(* The other errors of sqlite, of the look and of the insert: the          *)
(* connection rolls back.                                                  *)
QueryFails(w) ==
  /\ "disk" \in Faults
  /\ Serving(w, "select") \/ Serving(w, "insert")
  /\ Reply(w, "500")
  /\ UNCHANGED <<content, blob, owner>>

Created(w) ==
  /\ Serving(w, "reply")
  /\ Reply(w, "201")
  /\ UNCHANGED <<content, blob, owner>>

(* The process is killed; its client sees the connection close.            *)
Crash(w) ==
  /\ "crash" \in Faults /\ loop[w] # "idle"
  /\ Torn(w)
  /\ Reply(w, "lost")
  /\ UNCHANGED <<content, owner>>

Handle(w) ==
  \/ (\E u \in Uploads : Receive(w, u))
  \/ BlobExists(w) \/ OpenBlob(w) \/ WriteBlob(w) \/ WriteFails(w)
  \/ SelectRow(w) \/ InsertRow(w) \/ QueryFails(w) \/ Created(w)

Served == (\A u \in Uploads : answer[u] # "none") /\ UNCHANGED vars

Next == (\E w \in Workers : Handle(w) \/ Crash(w)) \/ Served

Spec     == Init /\ [][Next]_vars
FairSpec == Spec /\ \A w \in Workers : WF_vars(Handle(w))

-----------------------------------------------------------------------------
(* Properties.                                                             *)

TypeOK ==
  /\ content \in [Uploads -> Contents \cup {"bad"}]
  /\ loop \in [Workers -> Uploads \cup {"idle"}]
  /\ step \in [Workers -> Steps]
  /\ answer \in [Uploads -> Answers \cup {"none"}]
  /\ blob \in [Contents -> {"absent", "whole", "torn"} \cup Workers]
  /\ owner \in [Coordinates -> Uploads \cup {"none"}]

(* A name@version that is published stays bound to the same upload.        *)
Immutable ==
  [][\A n \in Coordinates : owner[n] # "none" => owner'[n] = owner[n]]_vars

(* The upload that was told 201 is the one that is stored, so of several   *)
(* for one name@version at most one is; 409 means that another was first.  *)
AnswersAreTrue ==
  \A u \in Uploads :
    /\ answer[u] = "201" => owner[Target[u]] = u
    /\ answer[u] = "409" => owner[Target[u]] \notin {"none", u}
    /\ answer[u] = "400" => owner[Target[u]] # u

(* A row never points at a file that is not there, whenever the process is *)
(* killed: the blob comes before the row.                                  *)
PublishedHasFile == \A n \in Coordinates : owner[n] # "none" => HasFile(n)

(* The file of a published artifact holds all of its content.              *)
PublishedIsWhole == \A n \in Coordinates : owner[n] # "none" => FileOf(n) = "whole"

(* Of what a single process and a healthy disk would promise besides:      *)
(* a file that was written to its end is never truncated again, ...        *)
WholeStaysWhole ==
  [][\A c \in Contents : blob[c] = "whole" => blob'[c] = "whole"]_vars

(* ... the loser of a race is told 409, never that the server failed, ...  *)
NoServerError == \A u \in Uploads : answer[u] # "500"

(* ... and, with any number of processes, a published file is whole or the *)
(* one that is writing it will make it whole.                              *)
PublishedIsWritten ==
  \A n \in Coordinates : owner[n] # "none" =>
    \/ FileOf(n) = "whole"
    \/ \E w \in Workers : FileOf(n) = w /\ Serving(w, "write") /\ Carried(w) = content[owner[n]]

(* Every upload is answered, or its connection closes.                     *)
EveryUploadAnswered == \A u \in Uploads : <>(answer[u] # "none")

Told(code) ==
  CASE code = "201" -> "published"
    [] code = "409" -> "refused"
    [] code = "none" -> "nothing"
    [] OTHER -> "error"

(* The registry is a store of write-once bindings.                         *)
Store == INSTANCE ArtifactStore WITH told <- [u \in Uploads |-> Told(answer[u])]
ImplementsArtifactStore == Store!Spec

-----------------------------------------------------------------------------
(* What they rest on: an upload in hand is unanswered and in one process   *)
(* only, its blob file is there before it looks for the row, and the rows  *)
(* are those of uploads that have been or are about to be told.            *)
InHand(w) == loop[w] # "idle"

RegistryInv ==
  /\ \A w \in Workers : ~ InHand(w) => step[w] = "exists"
  /\ \A w \in Workers : InHand(w) =>
       /\ content[loop[w]] \in Contents /\ answer[loop[w]] = "none"
       /\ step[w] \in {"write", "select", "insert", "reply"} => blob[Carried(w)] # "absent"
       /\ step[w] = "reply" => Row(w) = loop[w]
  /\ \A v, w \in Workers : InHand(w) /\ loop[v] = loop[w] => v = w
  /\ \A n \in Coordinates : owner[n] # "none" =>
       Target[owner[n]] = n /\ content[owner[n]] \in Contents /\ HasFile(n)
  /\ \A u \in Uploads : owner[Target[u]] = u /\ answer[u] = "none" =>
       \E w \in Workers : loop[w] = u /\ step[w] = "reply"
  /\ AnswersAreTrue

(* A file is in the writing only while the process that truncated it last  *)
(* is about to write it, whatever fails and however many processes run.    *)
WriterInv ==
  \A c \in Contents, w \in Workers :
    blob[c] = w => Serving(w, "write") /\ Carried(w) = c

(* With one process nothing happens between its look at a file and its     *)
(* write, nor between its look at a row and its insert.                    *)
OneProcess == \A v, w \in Workers : v = w

AloneInv ==
  \A w \in Workers : InHand(w) =>
    /\ step[w] = "open" => blob[Carried(w)] = "absent"
    /\ step[w] = "write" => blob[Carried(w)] = w
    /\ step[w] = "insert" => Row(w) = "none"

(* Without faults, what one process publishes it has written to the end.   *)
WholeInv ==
  /\ \A c \in Contents : blob[c] # "torn"
  /\ \A w \in Workers : InHand(w) =>
       /\ step[w] \in {"open", "write"} =>
            \A n \in Coordinates : owner[n] # "none" => content[owner[n]] # Carried(w)
       /\ step[w] \in {"select", "insert", "reply"} => blob[Carried(w)] = "whole"
  /\ PublishedIsWhole
=============================================================================
