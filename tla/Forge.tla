-------------------------------- MODULE Forge --------------------------------
(* The whole service for its users: the commands `forge run` and           *)
(* `forge publish` (src/cli/forge.py), the engine that keeps its runs in   *)
(* memory and passes uploads on (src/engine/main.py), the artifact loop of *)
(* a run (src/engine/runner.py), the registry's upload, and the table of   *)
(* tokens that engine and registry share (src/registry/auth.py).  A caller *)
(* may stop waiting at any moment while the callee goes on; the engine may *)
(* die and start again; tokens are issued and revoked meanwhile.           *)
(* What happens inside the jobs is Runner's, inside an upload Registry's.  *)
EXTENDS Integers, Sequences, Functions

CONSTANTS Commands,      \* the commands the users will give
          Publish,       \* those that are `forge publish`, the rest are `forge run`
          Artifacts,     \* [Commands -> Seq(coordinates)], what each is to upload, in order
          Tokens,        \* raw tokens
          Internal,      \* the token of the engine, FORGE_INTERNAL_TOKEN
          Labels,        \* names tokens are issued under
          EngineLabel,   \* "internal-engine"
          Crashes,       \* bound: how often the engine dies
          NoOne          \* no owner, no label, no token

ASSUME ForgeAssumption ==
  /\ Publish \subseteq Commands
  /\ Artifacts \in [Commands -> Seq(UNION {Range(Artifacts[c]) : c \in Commands})]
  /\ \A c \in Publish : Len(Artifacts[c]) = 1
  /\ Internal \in Tokens /\ EngineLabel \in Labels /\ Crashes \in Nat
  /\ NoOne \notin Commands \cup Labels \cup Tokens

Coordinates == UNION {Range(Artifacts[c]) : c \in Commands}

VARIABLES
  label,    \* the table tokens: the label of a token it holds, else NoOne
  issued,   \* tokens handed out so far
  card,     \* the token a command was sent with (~/.forge/config at the time)
  req,      \* the command at the engine: none, sent, checked, passed (to the registry), done
  told,     \* what the user was told: none, a status, or error
  run,      \* runs[id]["status"]; none before it exists, forgotten when the engine died,
            \* stuck (as queued or running) when its coroutine did
  next,     \* position in the artifact loop; 0 until the jobs have succeeded
  post,     \* the upload at the registry: none, sent, checked, or its answer
  owner,    \* the artifacts table: whose upload holds a coordinate
  up,       \* the engine process is there
  crashes,
  revoked,  \* history: tokens whose label was revoked
  late      \* history: commands sent with a token already revoked

vars == <<label, issued, card, req, told, run, next, post, owner, up, crashes, revoked, late>>
tokens   == <<label, issued, revoked>>
registry == <<post, owner>>
engine   == <<run, next, up, crashes>>

Answers == {"201", "401", "409", "500"}
Active  == {"queued", "running", "publishing"}

TypeOK ==
  /\ label \in [Tokens -> Labels \cup {NoOne}]
  /\ issued \subseteq Tokens /\ revoked \subseteq Tokens /\ late \subseteq Commands
  /\ card \in [Commands -> Tokens \cup {NoOne}]
  /\ req \in [Commands -> {"none", "sent", "checked", "passed", "done"}]
  /\ told \in [Commands -> Answers \cup {"none", "422", "error"}]
  /\ run \in [Commands -> Active \cup {"none", "succeeded", "failed", "forgotten", "stuck"}]
  /\ next \in [Commands -> Nat]
  /\ post \in [Commands -> Answers \cup {"none", "sent", "checked"}]
  /\ owner \in [Coordinates -> Commands \cup {NoOne}]
  /\ up \in BOOLEAN /\ crashes \in 0..Crashes

Init ==
  /\ label = [t \in Tokens |-> NoOne] /\ issued = {} /\ revoked = {} /\ late = {}
  /\ card = [c \in Commands |-> NoOne]
  /\ req = [c \in Commands |-> "none"] /\ told = [c \in Commands |-> "none"]
  /\ run = [c \in Commands |-> "none"] /\ next = [c \in Commands |-> 0]
  /\ post = [c \in Commands |-> "none"] /\ owner = [k \in Coordinates |-> NoOne]
  /\ up = FALSE /\ crashes = 0

-----------------------------------------------------------------------------
(* The tokens. *)

\* verify_token: the row is there.
Known(t) == t # NoOne /\ label[t] # NoOne

CreateToken(t, l) ==
  /\ t \notin issued \cup {Internal}
  /\ issued' = issued \cup {t}
  /\ label' = [label EXCEPT ![t] = l]
  /\ UNCHANGED <<card, req, told, revoked, late, registry, engine>>

\* Mutant: One row of the label is deleted.
DeletedOne(l) ==
  LET rows == {t \in Tokens : label[t] = l}
  IN  IF rows = {} THEN {} ELSE {CHOOSE t \in rows : TRUE}

\* DELETE FROM tokens WHERE label = ?
Deleted(l) == {t \in Tokens : label[t] = l}

Revoke(l) ==
  /\ label' = [t \in Tokens |-> IF t \in Deleted(l) THEN NoOne ELSE label[t]]
  /\ revoked' = revoked \cup {t \in Tokens : label[t] = l}
  /\ label' # label
  /\ UNCHANGED <<issued, card, req, told, late, registry, engine>>

\* The engine comes up and seeds its token; INSERT OR IGNORE keeps a row that
\* is there, and a failure is only printed.
Start ==
  /\ ~up
  /\ up' = TRUE
  /\ issued' = issued \cup {Internal}
  /\ \/ label' = [label EXCEPT ![Internal] = IF @ = NoOne THEN EngineLabel ELSE @]
     \/ label' = label
  /\ UNCHANGED <<card, req, told, run, next, crashes, revoked, late, registry>>

-----------------------------------------------------------------------------
(* The command line. *)

\* What a user who still waits is told.
Hears(c, a) == [told EXCEPT ![c] = IF @ = "none" THEN a ELSE @]

\* A command goes out with the token of the config file; a refused connection
\* ends it at once.
Send(c, t) ==
  /\ req[c] = "none" /\ t \in issued
  /\ card' = [card EXCEPT ![c] = t]
  /\ late' = IF t \in revoked THEN late \cup {c} ELSE late
  /\ req' = [req EXCEPT ![c] = IF up THEN "sent" ELSE "done"]
  /\ told' = IF up THEN told ELSE Hears(c, "error")
  /\ UNCHANGED <<tokens, registry, engine>>

\* httpx.RequestError: the timeout, or a lost answer.  The engine does not notice.
TimeOut(c) ==
  /\ req[c] # "none" /\ told[c] = "none"
  /\ told' = Hears(c, "error")
  /\ UNCHANGED <<tokens, card, req, late, registry, engine>>

-----------------------------------------------------------------------------
(* The engine. *)

\* POST /runs, Depends(require_auth).
Check(c) ==
  /\ req[c] = "sent" /\ c \notin Publish
  /\ \/ Known(card[c]) /\ req' = [req EXCEPT ![c] = "checked"] /\ told' = told
     \/ ~Known(card[c]) /\ req' = [req EXCEPT ![c] = "done"] /\ told' = Hears(c, "401")
  /\ UNCHANGED <<tokens, card, late, registry, engine>>

\* Its body: a pipeline that does not parse or has a cycle is refused, one that
\* breaks the parser is an unhandled error, the others get a record in runs and
\* a task.
CreateRun(c) ==
  /\ req[c] = "checked"
  /\ req' = [req EXCEPT ![c] = "done"]
  /\ \/ told' = Hears(c, "422") /\ run' = run
     \/ told' = Hears(c, "500") /\ run' = run
     \/ told' = Hears(c, "201") /\ run' = [run EXCEPT ![c] = "queued"]
  /\ UNCHANGED <<tokens, card, late, next, up, crashes, registry>>

\* POST /artifacts, passed on with the caller's own headers.
PassOn(c) ==
  /\ req[c] = "sent" /\ c \in Publish
  /\ req' = [req EXCEPT ![c] = "passed"]
  /\ next' = [next EXCEPT ![c] = 1]
  /\ post' = [post EXCEPT ![c] = "sent"]
  /\ UNCHANGED <<tokens, card, told, late, run, up, crashes, owner>>

\* Mutant: The gateway answers 201 once it has an answer.
PassBackAccepts(c) ==
  /\ req[c] = "passed" /\ post[c] \in Answers
  /\ req' = [req EXCEPT ![c] = "done"]
  /\ told' = Hears(c, "201")
  /\ UNCHANGED <<tokens, card, late, registry, engine>>

PassBack(c) ==
  /\ req[c] = "passed" /\ post[c] \in Answers
  /\ req' = [req EXCEPT ![c] = "done"]
  /\ told' = Hears(c, post[c])
  /\ UNCHANGED <<tokens, card, late, registry, engine>>

\* The process ends: runs is gone, no request gets an answer, and what is
\* already at the registry goes on there.
Crash ==
  /\ up /\ crashes < Crashes
  /\ up' = FALSE /\ crashes' = crashes + 1
  /\ run' = [c \in Commands |-> IF run[c] = "none" THEN "none" ELSE "forgotten"]
  /\ req' = [c \in Commands |-> IF req[c] = "none" THEN "none" ELSE "done"]
  /\ told' = [c \in Commands |-> IF req[c] \notin {"none", "done"} /\ told[c] = "none"
                                   THEN "error" ELSE told[c]]
  /\ UNCHANGED <<tokens, card, late, next, registry>>

-----------------------------------------------------------------------------
(* A run. *)

Begin(c) ==
  /\ run[c] = "queued"
  /\ run' = [run EXCEPT ![c] = "running"]
  /\ UNCHANGED <<tokens, card, req, told, late, next, up, crashes, registry>>

\* Steps 1 to 3 of execute_pipeline, which end in the artifact loop or in a failure.
JobsEnd(c) ==
  /\ run[c] = "running"
  /\ \/ run' = [run EXCEPT ![c] = "publishing"] /\ next' = [next EXCEPT ![c] = 1]
     \/ run' = [run EXCEPT ![c] = "failed"] /\ next' = next
  /\ UNCHANGED <<tokens, card, req, told, late, up, crashes, registry>>

More(c) == next[c] <= Len(Artifacts[c])

\* The next artifact: its file is missing, or it is posted with the build token.
Post(c) ==
  /\ run[c] = "publishing" /\ post[c] = "none" /\ More(c)
  /\ \/ run' = [run EXCEPT ![c] = "failed"] /\ post' = post
     \/ run' = run /\ post' = [post EXCEPT ![c] = "sent"]
  /\ UNCHANGED <<tokens, card, req, told, late, next, up, crashes, owner>>

\* Mutant: A refused artifact is skipped and the loop goes on.
TakeAnswerSkips(c) ==
  /\ run[c] = "publishing" /\ post[c] \in Answers
  /\ next' = [next EXCEPT ![c] = @ + 1]
  /\ post' = [post EXCEPT ![c] = "none"]
  /\ UNCHANGED <<tokens, card, req, told, late, run, up, crashes, owner>>

\* The answer: 201 goes on to the next artifact, any other raises and ends the run.
TakeAnswer(c) ==
  /\ run[c] = "publishing" /\ post[c] \in Answers
  /\ IF post[c] = "201"
       THEN /\ next' = [next EXCEPT ![c] = @ + 1]
            /\ post' = [post EXCEPT ![c] = "none"] /\ run' = run
       ELSE run' = [run EXCEPT ![c] = "failed"] /\ UNCHANGED <<next, post>>
  /\ UNCHANGED <<tokens, card, req, told, late, up, crashes, owner>>

\* Mutant: The upload is awaited without a timeout.
UploadNeverTimesOut(c) ==
  /\ run[c] = "publishing" /\ post[c] \in Answers
  /\ run' = [run EXCEPT ![c] = "failed"]
  /\ UNCHANGED <<tokens, card, req, told, late, next, up, crashes, registry>>

\* timeout=60.0, or a broken connection: the run fails, the upload may go on.
UploadTimesOut(c) ==
  /\ run[c] = "publishing" /\ post[c] # "none"
  /\ run' = [run EXCEPT ![c] = "failed"]
  /\ UNCHANGED <<tokens, card, req, told, late, next, up, crashes, registry>>

Succeed(c) ==
  /\ run[c] = "publishing" /\ post[c] = "none" /\ ~More(c)
  /\ run' = [run EXCEPT ![c] = "succeeded"]
  /\ UNCHANGED <<tokens, card, req, told, late, next, up, crashes, registry>>

\* A log line that cannot be written, where no try is around it or in the last
\* except clause, ends the coroutine; the run shows as what it was for ever.
Die(c) ==
  /\ run[c] \in Active
  /\ run' = [run EXCEPT ![c] = "stuck"]
  /\ UNCHANGED <<tokens, card, req, told, late, next, up, crashes, registry>>

-----------------------------------------------------------------------------
(* The registry. *)

\* Authorization: the user's header through the gateway, the build token from a run.
Bearer(c) == IF c \in Publish THEN card[c] ELSE Internal

Target(c) == Artifacts[c][next[c]]

\* POST /artifacts, Depends(require_auth).
CheckUpload(c) ==
  /\ post[c] = "sent"
  /\ post' = [post EXCEPT ![c] = IF Known(Bearer(c)) THEN "checked" ELSE "401"]
  /\ UNCHANGED <<tokens, card, req, told, late, owner, engine>>

\* Mutant: The row is replaced (INSERT OR REPLACE).
SaveOver(c) ==
  /\ post[c] = "checked"
  /\ owner' = [owner EXCEPT ![Target(c)] = c]
  /\ post' = [post EXCEPT ![c] = "201"]
  /\ UNCHANGED <<tokens, card, req, told, late, engine>>

\* Its body: the row goes in, the coordinate is taken, or the database is busy.
Save(c) ==
  /\ post[c] = "checked"
  /\ \/ /\ owner[Target(c)] = NoOne
        /\ owner' = [owner EXCEPT ![Target(c)] = c]
        /\ post' = [post EXCEPT ![c] = "201"]
     \/ /\ owner[Target(c)] # NoOne
        /\ post' = [post EXCEPT ![c] = "409"] /\ owner' = owner
     \/ post' = [post EXCEPT ![c] = "500"] /\ owner' = owner
  /\ UNCHANGED <<tokens, card, req, told, late, engine>>

-----------------------------------------------------------------------------
RunStep(c) == \/ Begin(c)
              \/ JobsEnd(c)
              \/ Post(c)
              \/ TakeAnswer(c)
              \/ UploadTimesOut(c)
              \/ Succeed(c)

Next ==
  \/ \E t \in Tokens, l \in Labels : CreateToken(t, l)
  \/ \E l \in Labels : Revoke(l)
  \/ Start
  \/ Crash
  \/ \E c \in Commands : \/ \E t \in Tokens : Send(c, t)
                         \/ TimeOut(c)
                         \/ Check(c)
                         \/ CreateRun(c)
                         \/ PassOn(c)
                         \/ PassBack(c)
                         \/ RunStep(c)
                         \/ Die(c)
                         \/ CheckUpload(c)
                         \/ Save(c)

Spec == Init /\ [][Next]_vars

\* The event loop runs every task that can go on.  Begin and JobsEnd stand for
\* jobs that end and log lines that are written or raise: the first is Runner's
\* RunEnds; a log line has no timeout and needs a thread of the pool, which
\* ThreadPool shows to run out.  An upload has its own timeout.  Nothing is
\* assumed of the registry, of the users, or of the engine's host.
FairSpec == Spec /\ \A c \in Commands : WF_vars(RunStep(c))

-----------------------------------------------------------------------------
Owned(c) == {k \in Coordinates : owner[k] = c}

\* A run that is reported as succeeded has published every artifact it names,
\* each by its own upload, whatever other runs and `forge publish` upload under
\* the same coordinates at the same time (runner.py:122-153).
SuccessIsPublished ==
  \A c \in Commands : run[c] = "succeeded" => Range(Artifacts[c]) \subseteq Owned(c)

\* What a command has put into the registry is a prefix of what it is to upload,
\* and ahead of the loop by the one upload in flight at most: nothing before
\* the jobs have succeeded, and nothing more once the run has failed or is
\* forgotten, save that upload, which may land after the verdict.
PublishedIsPrefix ==
  \A c \in Commands : \E n \in {next[c] - 1, next[c]} :
    Owned(c) = {Artifacts[c][i] : i \in (1..n) \cap DOMAIN Artifacts[c]}

\* A status the user is shown is the truth, whatever was lost in between: 201 of
\* a publish means that very upload is stored, 409 that another's is, 401 that
\* the command had no effect; 201 of a run means that it is (or was) known.
ToldIsTrue ==
  \A c \in Commands :
    /\ told[c] = "201" => IF c \in Publish THEN Owned(c) # {} ELSE run[c] # "none"
    /\ told[c] = "409" => \A k \in Range(Artifacts[c]) : owner[k] \notin {NoOne, c}
    /\ told[c] \in {"401", "422"} => run[c] = "none" /\ Owned(c) = {}

\* Once a label is revoked, a command sent with any of its tokens has no effect,
\* through the engine or through the gateway, then or later.  (The engine's own
\* token is the exception: the next start seeds it again, main.py:53.)
RevocationLasts ==
  \A c \in late : card[c] # Internal => run[c] = "none" /\ Owned(c) = {}

\* A run that was accepted and whose jobs end gets a verdict, even when the
\* registry never answers an upload; or it is lost with the engine, or its
\* coroutine died on a log line.
EveryRunSettles ==
  \A c \in Commands : run[c] = "queued" ~> run[c] \in {"succeeded", "failed", "forgotten", "stuck"}

=============================================================================
