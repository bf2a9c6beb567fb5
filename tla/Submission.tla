----------------------------- MODULE Submission -----------------------------
(* create_run of src/engine/main.py from the uploaded document to the      *)
(* verdict: parse_pipeline, and then the scheduler on the jobs it let      *)
(* through.  The steps of Scheduler happen unchanged behind the parser.    *)
EXTENDS Scheduler, Parser

CONSTANT Documents   \* what users upload

VARIABLES doc,       \* the document
          request    \* parsing, validated, refused (422), error (500)

subVars == <<vars, doc, request>>

JobsOf(d) == IF Has(d, {"jobs"}) /\ d.of["jobs"].kind = "map" THEN d.of["jobs"].of ELSE <<>>

\* job_body.get("needs", []), a string standing for a list of one.
NeedsOf(d, j) ==
  LET jobs == JobsOf(d)
      v    == IF j \in DOMAIN jobs /\ jobs[j].kind = "map" THEN Get(jobs[j], "needs", List(<<>>))
                                                           ELSE List(<<>>)
  IN  IF v.kind = "str" THEN List(<<v>>) ELSE v

\* `for dep in deps` and `dep not in all_jobs` raise a TypeError otherwise, for
\* what is no list or mapping and for an entry that cannot be hashed, and
\* create_run does not catch it.
Hashable(e)  == e.kind \notin {"list", "map"}
Checkable(v) == v.kind = "map" \/ (v.kind = "list" /\ \A e \in Range(v.items) : Hashable(e))

\* A number or null is looked up like a name, and no job has it.
NameOf(e) == IF e.kind = "str" THEN e.text ELSE e.kind

Named(v) == CASE v.kind = "list" -> {NameOf(e) : e \in {x \in Range(v.items) : Hashable(x)}}
              [] v.kind = "map"  -> DOMAIN v.of
              [] OTHER           -> {}

ASSUME DocumentsAssumption ==
  \A d \in Documents : /\ DOMAIN JobsOf(d) \in {Jobs, {}}
                       /\ \A j \in Jobs : Named(NeedsOf(d, j)) \subseteq Names

SubInit ==
  /\ doc \in Documents /\ request = "parsing"
  /\ dag = [j \in Jobs |-> Named(NeedsOf(doc, j))]
  /\ Init

Parse ==
  /\ request = "parsing"
  /\ request' = IF ParsePipeline(doc) THEN "validated" ELSE "refused"
  /\ UNCHANGED <<vars, doc>>

\* Among a need that names no job and one that cannot be looked up, the first
\* in the order of the document decides.
Unforeseen ==
  /\ request = "validated" /\ phase = "building"
  /\ \E j \in Jobs : ~Checkable(NeedsOf(doc, j))
  /\ request' = "error"
  /\ UNCHANGED <<vars, doc>>

Schedule ==
  /\ request = "validated"
  /\ (\A j \in Jobs : Checkable(NeedsOf(doc, j))) \/ (\E j \in Jobs : dag[j] \ Jobs # {})
  /\ Step
  /\ UNCHANGED <<doc, request>>

Settled == phase \in Verdicts \/ request \in {"refused", "error"}

SubNext == Parse \/ Unforeseen \/ Schedule \/ (Settled /\ UNCHANGED subVars)

SubSpec     == SubInit /\ [][SubNext]_subVars
SubFairSpec == SubSpec /\ WF_subVars(Parse \/ Unforeseen \/ Schedule)

(* Every upload gets an answer, 201, 422 or an internal error: neither the *)
(* search for a cycle nor the grouping runs on for ever (main.py:84-96).   *)
EveryRequestIsAnswered == <>Settled

(* What is accepted holds everything the runner will index without asking: *)
(* runtime and steps of each job, name and run of each step, and the       *)
(* fields of dependencies and artifacts (runner.py:122-130, 178-192,       *)
(* resolver.py:294-298), and every job of the document is in some group.   *)
AcceptedIsComplete ==
  phase = "accepted" =>
    LET jobs    == doc.of["jobs"].of
        Entries(f) == LET v == Get(doc, f, Null) IN IF v.kind = "list" THEN Range(v.items) ELSE {}
    IN  /\ UNION Range(groups) = DOMAIN jobs
        /\ \A j \in DOMAIN jobs :
             /\ "runtime" \in DOMAIN jobs[j].of
             /\ \A s \in Range(jobs[j].of["steps"].items) : {"name", "run"} \subseteq DOMAIN s.of
        /\ \A e \in Entries("dependencies") : {"name", "version"} \subseteq DOMAIN e.of
        /\ \A e \in Entries("artifacts") : {"name", "version", "path"} \subseteq DOMAIN e.of
=============================================================================
