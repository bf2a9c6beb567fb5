---------------------------- MODULE MCScheduler ----------------------------
(* Every dependency graph over three jobs and a need that names no job, in *)
(* a document that is otherwise complete; and one document for each way a  *)
(* document can be wrong, or right in an unusual way.                      *)
EXTENDS Submission

ThreeJobs == {"build", "unit", "deploy"}
WithGhost == ThreeJobs \cup {"ghost"}
AnyName   == WithGhost \cup {"num"}

Fields(S) == Map([f \in S |-> Str("x")])

Job(needs) == Map([runtime |-> Str("alpine"), needs |-> needs,
                   steps |-> List(<<Fields({"name", "run"}), Fields({"name", "run"})>>)])

Pipeline(needs) == Map([name |-> Str("app"), version |-> Str("1.0.0"),
                        jobs |-> Map([j \in ThreeJobs |-> Job(needs[j])])])

\* One list for each set of names.
Lists == {List(q) : q \in {<<>>} \cup {<<Str(n)>> : n \in WithGhost}
                       \cup {<<Str("build"), Str(n)>> : n \in {"unit", "deploy", "ghost"}}
                       \cup {<<Str("unit"), Str(n)>> : n \in {"deploy", "ghost"}}
                       \cup {<<Str("deploy"), Str("ghost")>>,
                             <<Str("build"), Str("unit"), Str("deploy")>>,
                             <<Str("build"), Str("unit"), Str("ghost")>>,
                             <<Str("build"), Str("deploy"), Str("ghost")>>,
                             <<Str("unit"), Str("deploy"), Str("ghost")>>,
                             <<Str("build"), Str("unit"), Str("deploy"), Str("ghost")>>}}

Plain        == Pipeline([j \in ThreeJobs |-> List(<<>>)])
With(f, v)   == Map([x \in DOMAIN Plain.of \cup {f} |-> IF x = f THEN v ELSE Plain.of[x]])
Without(f)   == Map([x \in DOMAIN Plain.of \ {f} |-> Plain.of[x]])
Body(f, v)   == With("jobs", Map([Plain.of["jobs"].of EXCEPT !["unit"] =
                  Map([x \in DOMAIN @.of \cup {f} |-> IF x = f THEN v ELSE @.of[x]])]))
BodyLess(f)  == With("jobs", Map([Plain.of["jobs"].of EXCEPT !["unit"] =
                  Map([x \in DOMAIN @.of \ {f} |-> @.of[x]])]))
Unit(v)      == With("jobs", Map([Plain.of["jobs"].of EXCEPT !["unit"] = v]))
Odd(S)       == List(<<Fields({"name", "version", "path"}), Fields(S)>>)

Unusual ==
  {Null, List(<<Num>>), With("stages", Null), With("name", Num), With("version", Num),
   With("jobs", Null), With("jobs", Map(<<>>)), Unit(Null), Body("image", Null),
   Body("steps", Null), Body("steps", List(<<Fields({"name", "run"}), Fields({"name"})>>)),
   Body("steps", List(<<Num>>)), Body("steps", List(<<>>)), Body("resources", Null),
   Body("needs", Null), Body("needs", Num), Body("needs", Str("build")), Body("needs", Str("ghost")),
   Body("needs", Map([build |-> Null])), Body("needs", List(<<Num>>)),
   Body("needs", List(<<List(<<Str("build")>>)>>)),
   Body("needs", List(<<Str("build"), Map([deploy |-> Null])>>)),
   Body("needs", List(<<List(<<>>), Str("ghost")>>))}
  \cup {Without(f) : f \in Required} \cup {BodyLess(f) : f \in {"runtime", "steps", "needs"}}
  \cup {With(f, v) : f \in {"dependencies", "artifacts"},
                     v \in {Null, Str(""), Str("x"), Map(<<>>), List(<<Num>>),
                            Odd({"name"}), Odd({"name", "version"}), Odd({"name", "version", "path"})}}

AllDocuments == {Pipeline(n) : n \in [ThreeJobs -> Lists]} \cup Unusual
=============================================================================
