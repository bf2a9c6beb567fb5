------------------------------- MODULE Resolver -------------------------------
(***************************************************************************)
(* One POST /resolve: the backtracking search _solve (resolver.py:220) on  *)
(* the artifacts table, while uploads insert rows into it.  The endpoint   *)
(* runs in a worker thread and every list_versions reads the table anew,   *)
(* so a search may choose among rows that were not there when it began.    *)
(*                                                                         *)
(* The recursion is a call and a stack.  A call holds the arguments of     *)
(* _solve; each entry of the stack is a call that waits in its loop over   *)
(* candidates, with those it has not tried.  A row stands for its version: *)
(* rows are written once (Registry).  A row's deps are its dependencies    *)
(* that have a name and a version, the search drops the others.  A version *)
(* that is no string, and a chain of dependencies deeper than Python's     *)
(* recursion limit, are left out: they end the request in a 500 as well.   *)
(***************************************************************************)
EXTENDS Semver, FiniteSets

CONSTANTS
  Names,     \* names of packages
  Uploaded,  \* the rows that uploads may insert, before the search or during it
  Malformed, \* those with an entry among their dependencies that is no mapping
  Requests,  \* the dependencies of pipelines
  Late,      \* bound: how many rows are inserted during the search
  NoRow      \* the version of a package that has none yet

Wishes == [name : Names, wants : SUBSET Terms]

ASSUME UploadedAssumption ==
  /\ Uploaded \subseteq [name : Names, version : Versions, deps : Seq(Wishes)]
  /\ NoRow \notin Uploaded
  /\ Malformed \subseteq Uploaded
ASSUME RequestAssumption == Requests \subseteq Seq(Wishes)
ASSUME LateAssumption == Late \in Nat

VARIABLES
  rows,    \* the artifacts table
  found,   \* auxiliary: the table when the request came
  roots,   \* the dependencies asked for
  call,    \* the arguments of the innermost _solve: queue, resolved, constraints
  stack,   \* the calls around it, each with the candidates it has not tried
  pc,      \* "solve": the call begins; "try": the top of the stack goes on
  answer   \* "none", or what the client is told

vars == <<rows, found, roots, call, stack, pc, answer>>

Unique(R) == \A r, s \in R : r.name = s.name /\ r.version = s.version => r = s

(* An entry of the queue, with the packages that led to it.                *)
Entry(w, path) == [name |-> w.name, wants |-> w.wants, path |-> path]
Entries(ws, path) == [i \in 1..Len(ws) |-> Entry(ws[i], path)]

Init ==
  /\ rows \in SUBSET Uploaded /\ Unique(rows) /\ found = rows
  /\ roots \in Requests
  /\ call = [queue |-> Entries(roots, <<>>), resolved |-> [n \in Names |-> NoRow],
             constraints |-> [n \in Names |-> {}]]
  /\ stack = <<>> /\ pc = "solve" /\ answer = "none"

-----------------------------------------------------------------------------

First(c) == Head(c.queue)
Noted(c) == [c.constraints EXCEPT ![First(c).name] = @ \cup {First(c).wants}]

(* Mutant: a package is on the path whenever it is resolved already.       *)
OnPathOnce(c) == c.resolved[First(c).name] # NoRow

OnPath(c) == \E i \in 1..Len(First(c).path) : First(c).path[i] = First(c).name

(* ConflictError goes to the loop of the nearest call around, if any.      *)
Raise(calls) ==
  /\ stack' = calls
  /\ IF calls = <<>> THEN pc' = "done" /\ answer' = "conflict" ELSE pc' = "try" /\ answer' = answer
  /\ UNCHANGED call

(* CycleError ends the whole search: no loop catches it.                   *)
Cycle ==
  /\ pc = "solve" /\ call.queue # <<>> /\ OnPath(call)
  /\ pc' = "done" /\ answer' = "cycle"
  /\ UNCHANGED <<rows, found, roots, call, stack>>

(* Mutant: the version that is chosen already serves everyone.             *)
ServesAll(c) == c.resolved[First(c).name] # NoRow

Serves(c) == Satisfies(c.resolved[First(c).name].version, First(c).wants)

(* The rest of the queue, with this constraint noted.                      *)
Passed(c) == [c EXCEPT !.queue = Tail(@), !.constraints = Noted(c)]

(* The package has a version: it suits this constraint too, or conflict.   *)
Resolved ==
  /\ pc = "solve" /\ call.queue # <<>> /\ ~OnPath(call)
  /\ call.resolved[First(call).name] # NoRow
  /\ IF Serves(call)
     THEN /\ call' = Passed(call)
          /\ UNCHANGED <<stack, pc, answer>>
     ELSE Raise(stack)
  /\ UNCHANGED <<rows, found, roots>>

(* The rows that suit every constraint on the package met so far.          *)
Candidates(c) ==
  { r \in rows : r.name = First(c).name
                 /\ \A w \in Noted(c)[First(c).name] : Satisfies(r.version, w) }

(* The package has no version: list_versions.                              *)
List ==
  /\ pc = "solve" /\ call.queue # <<>> /\ ~OnPath(call)
  /\ call.resolved[First(call).name] = NoRow
  /\ stack' = Append(stack, [call |-> call, cands |-> Candidates(call)])
  /\ pc' = "try"
  /\ UNCHANGED <<rows, found, roots, call, answer>>

Top == stack[Len(stack)]
Rest == SubSeq(stack, 1, Len(stack) - 1)

(* Mutant: the versions are sorted upwards.                                *)
Oldest(cands) == { r \in cands : \A s \in cands : ~Before(s.version, r.version) }

(* Highest version first; among equal ones the table's order decides.      *)
Newest(cands) == { r \in cands : \A s \in cands : ~Before(r.version, s.version) }

(* Mutant: dependencies are added at the end of the queue.                 *)
InnerLast(c, r) ==
  [queue       |-> Tail(c.queue) \o Entries(r.deps, Append(First(c).path, r.name)),
   resolved    |-> [c.resolved EXCEPT ![r.name] = r],
   constraints |-> Noted(c)]

(* Mutant: the mapping of the abandoned branch is not copied but reused.   *)
InnerKeeps(c, r) ==
  [queue       |-> Entries(r.deps, Append(First(c).path, r.name)) \o Tail(c.queue),
   resolved    |-> [call.resolved EXCEPT ![r.name] = r],
   constraints |-> Noted(c)]

(* The call for a candidate: its dependencies come first.                  *)
Inner(c, r) ==
  [queue       |-> Entries(r.deps, Append(First(c).path, r.name)) \o Tail(c.queue),
   resolved    |-> [c.resolved EXCEPT ![r.name] = r],
   constraints |-> Noted(c)]

(* Mutant: the candidate that was tried stays in the list.                 *)
UntriedAll(cands, r) == cands

Untried(cands, r) == cands \ {r}

Try ==
  /\ pc = "try" /\ stack # <<>>
  /\ \E r \in Newest(Top.cands) \ Malformed :
       /\ stack' = [stack EXCEPT ![Len(stack)].cands = Untried(@, r)]
       /\ call' = Inner(Top.call, r)
  /\ pc' = "solve"
  /\ UNCHANGED <<rows, found, roots, answer>>

(* The entries are read with dep.get, which only a mapping has: nobody     *)
(* catches the exception, the client gets a 500.  Uploads only check that  *)
(* the dependencies are a list.                                            *)
Break ==
  /\ pc = "try" /\ stack # <<>>
  /\ Newest(Top.cands) \cap Malformed # {}
  /\ pc' = "done" /\ answer' = "error"
  /\ UNCHANGED <<rows, found, roots, call, stack>>

(* Mutant: a package whose candidates are used up ends the search.         *)
GiveUpAtOnce == <<>>

(* The call that is left when no candidate of its package is.              *)
GiveUp == Rest

Exhausted ==
  /\ pc = "try" /\ stack # <<>> /\ Top.cands = {}
  /\ Raise(GiveUp)
  /\ UNCHANGED <<rows, found, roots>>

(* resolve builds the lockfile from call.resolved.                         *)
Solved ==
  /\ pc = "solve" /\ call.queue = <<>>
  /\ pc' = "done" /\ answer' = "lockfile"
  /\ UNCHANGED <<rows, found, roots, call, stack>>

(* An upload while the search runs.                                        *)
Insert ==
  /\ pc # "done" /\ Cardinality(rows \ found) < Late
  /\ \E r \in Uploaded \ rows : Unique(rows \cup {r}) /\ rows' = rows \cup {r}
  /\ UNCHANGED <<found, roots, call, stack, pc, answer>>

Search == Cycle \/ Resolved \/ List \/ Try \/ Break \/ Exhausted \/ Solved

Answered == pc = "done" /\ UNCHANGED vars

Next == Search \/ Insert \/ Answered

Spec == Init /\ [][Next]_vars

(* The thread goes on; nothing is uploaded of necessity.                   *)
FairSpec == Spec /\ WF_vars(Search)

-----------------------------------------------------------------------------
(* Correctness                                                             *)

Items  == [name : Names, wants : SUBSET Terms, path : Seq(Names)]
Calls  == [queue : Seq(Items), resolved : [Names -> Uploaded \cup {NoRow}],
           constraints : [Names -> SUBSET SUBSET Terms]]
Frames == { f \in [call : Calls, cands : SUBSET Uploaded] : f.call.queue # <<>> }

TypeOK ==
  /\ rows \subseteq Uploaded /\ found \subseteq rows /\ roots \in Requests
  /\ call \in Calls /\ stack \in Seq(Frames)
  /\ pc \in {"solve", "try", "done"} /\ answer \in {"none", "lockfile", "conflict", "cycle", "error"}

Lockfile == call.resolved
Assignments(R) == { S \in [Names -> R \cup {NoRow}] : \A n \in Names : S[n] # NoRow => S[n].name = n }

Granted(w, S) == S[w.name] # NoRow /\ Satisfies(S[w.name].version, w.wants)
AllGranted(ws, S) == \A i \in 1..Len(ws) : Granted(ws[i], S)

(* Every dependency, of the pipeline and of what is chosen, is met.        *)
Solves(S) == AllGranted(roots, S) /\ \A n \in Names : S[n] # NoRow => AllGranted(S[n].deps, S)

(* A lockfile names published versions only, and with them every           *)
(* dependency of the pipeline and of each package in it is satisfied, also *)
(* when the search went back over its choices and the table grew.          *)
LockfileIsSolution == answer = "lockfile" => Lockfile \in Assignments(rows) /\ Solves(Lockfile)

InRange(w, S) ==
  \A t \in w.wants : IsPlain(t) /\ IsRelease(S[w.name].version) => Means(S[w.name].version, t)

(* The releases of a lockfile lie in the ranges that the constraints mean: *)
(* those of the documentation, and for the partial forms that it does not  *)
(* mention the ranges of Semver.Means.                                     *)
ChosenInRange ==
  answer = "lockfile" =>
    /\ \A i \in 1..Len(roots) : InRange(roots[i], Lockfile)
    /\ \A n \in Names : Lockfile[n] # NoRow =>
         \A i \in 1..Len(Lockfile[n].deps) : InRange(Lockfile[n].deps[i], Lockfile)

Listed(ws, P) == \A i \in 1..Len(ws) : ws[i].name \in P
Closed(P, S) == Listed(roots, P) /\ \A n \in P : S[n] # NoRow => Listed(S[n].deps, P)

(* A lockfile holds nothing that the pipeline does not need: no package of *)
(* an abandoned branch is left in it.                                      *)
NoStrayPackages ==
  answer = "lockfile" =>
    \A P \in SUBSET Names : Closed(P, Lockfile) => \A n \in Names \ P : Lockfile[n] = NoRow

(* No package of a lockfile needs itself through others, though the search *)
(* passes over what it has resolved already.                               *)
LockfileAcyclic ==
  answer = "lockfile" =>
    \A P \in SUBSET Names : P # {} => ~ \A n \in P :
      /\ Lockfile[n] # NoRow
      /\ \E i \in 1..Len(Lockfile[n].deps) : Lockfile[n].deps[i].name \in P

(* A conflict is reported only when the table that the request found has   *)
(* no solution at all.                                                     *)
RefusalIsJust == answer = "conflict" => \A S \in Assignments(found) : ~Solves(S)

(* No solution of that table has a newer version of the pipeline's first   *)
(* dependency than the lockfile.                                           *)
NewestFirst ==
  answer = "lockfile" /\ roots # <<>> =>
    \A S \in Assignments(found) :
      Solves(S) => ~Before(Lockfile[roots[1].name].version, S[roots[1].name].version)

Needs(r, n) == \E i \in 1..Len(r.deps) : r.deps[i].name = n

(* A reported cycle is one: each package of the reported path needs the    *)
(* next, in the versions the branch has chosen, and the last one closes    *)
(* it.                                                                     *)
CycleIsReal ==
  answer = "cycle" =>
    LET path == Append(First(call).path, First(call).name)
    IN /\ \E i \in 1..(Len(path) - 1) : path[i] = path[Len(path)]
       /\ \A i \in 1..(Len(path) - 1) :
            Lockfile[path[i]] # NoRow /\ Needs(Lockfile[path[i]], path[i + 1])

(* The calls that wait in their loops wait for packages that differ, so    *)
(* that there are never more of them than packages.                        *)
FramesBounded == Len(stack) <= Cardinality(Names)

(* A loop with candidates left has one to go on with: there is a highest   *)
(* version among them, whatever the versions are.                          *)
LoopsGoOn == pc = "try" => stack # <<>> /\ (Top.cands = {} \/ Newest(Top.cands) # {})

(* What the search has yet to do: to end, then for each depth the          *)
(* candidates that are left, a loop that waits counting more than one that *)
(* goes on and one that has not begun more than both, then the queue.      *)
Depth == Cardinality(Names)
Untaken(i) ==
  IF i > Len(stack) THEN 2 * Cardinality(Uploaded) + 2
  ELSE 2 * Cardinality(stack[i].cands) + (IF i = Len(stack) /\ pc # "solve" THEN 0 ELSE 1)
Work ==
  [i \in 1..(Depth + 2) |-> IF i = 1 THEN (IF pc = "done" THEN 0 ELSE 1)
                            ELSE IF i = Depth + 2 THEN Len(call.queue) ELSE Untaken(i - 1)]

Less(v, w) == \E i \in 1..(Depth + 2) : v[i] < w[i] /\ \A k \in 1..(i - 1) : v[k] = w[k]

(* Every step of the search leaves less to do, however it goes back, and   *)
(* an upload leaves no more than there was.                                *)
WorkShrinks == [][(Search => Less(Work', Work)) /\ (Insert => Work' = Work)]_vars

(* To the client the search is one step: its answer is one that a resolver *)
(* gives which looks at all choices at once, while the table stands still. *)
Promise == INSTANCE Resolution WITH
  lockfile <- IF answer = "lockfile" THEN Lockfile ELSE [n \in Names |-> NoRow]
ImplementsResolution == Promise!Spec

(* Every request is answered, however the search backtracks and whatever   *)
(* is uploaded meanwhile.                                                  *)
EverySearchEnds == <>(answer # "none")
=============================================================================
