------------------------------- MODULE Parser -------------------------------
(* parse_pipeline of src/engine/parser.py: which documents become a        *)
(* pipeline.  A document is what the YAML loader makes of the text: a      *)
(* tagged value.  The marks of lines, which end up in messages only, are   *)
(* left out.                                                               *)
EXTENDS Sequences, Functions

Null    == [kind |-> "null"]
Num     == [kind |-> "num"]
Str(s)  == [kind |-> "str", text |-> s]
List(q) == [kind |-> "list", items |-> q]
Map(f)  == [kind |-> "map", of |-> f]

Required  == {"name", "version", "jobs"}
Allowed   == Required \cup {"dependencies", "artifacts"}
JobFields == {"runtime", "resources", "steps", "needs"}

Has(v, fields) == v.kind = "map" /\ fields \subseteq DOMAIN v.of

\* What `if v:` asks.  A mapping is never empty, it holds its line.
Truthy(v) == /\ v.kind # "null"
             /\ v.kind = "str" => v.text # ""
             /\ v.kind = "list" => v.items # <<>>

Get(v, field, default) == IF field \in DOMAIN v.of THEN v.of[field] ELSE default

(* Mutant: the loop over the steps returns after the first.                *)
ValidStepsFirst(v) == v.kind = "list" /\ (v.items # <<>> => Has(v.items[1], {"name", "run"}))

ValidSteps(v) == v.kind = "list" /\ \A s \in Range(v.items) : Has(s, {"name", "run"})

ValidJob(body) == /\ Has(body, {"runtime", "steps"})
                  /\ DOMAIN body.of \subseteq JobFields
                  /\ ValidSteps(body.of["steps"])

ValidJobs(v) == /\ v.kind = "map" /\ DOMAIN v.of # {}
                /\ \A j \in DOMAIN v.of : ValidJob(v.of[j])

\* dependencies and artifacts: nothing at all, or a list of complete entries.
ValidEntries(v, fields) ==
  Truthy(v) => v.kind = "list" /\ \A e \in Range(v.items) : Has(e, fields)

ParsePipeline(doc) ==
  /\ Truthy(doc) /\ Has(doc, Required)
  /\ DOMAIN doc.of \subseteq Allowed
  /\ doc.of["name"].kind = "str" /\ doc.of["version"].kind = "str"
  /\ ValidJobs(doc.of["jobs"])
  /\ ValidEntries(Get(doc, "dependencies", List(<<>>)), {"name", "version"})
  /\ ValidEntries(Get(doc, "artifacts", List(<<>>)), {"name", "version", "path"})
=============================================================================
