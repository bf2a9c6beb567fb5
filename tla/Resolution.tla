----------------------------- MODULE Resolution -----------------------------
(***************************************************************************)
(* What POST /resolve promises a pipeline: one answer, given in one step.  *)
(* A lockfile is a solution of the rows that are there by then, with no    *)
(* package too many and no cycle, and with the newest first dependency     *)
(* that the rows of the request allowed.  A refusal means that those rows  *)
(* have no solution, a cycle that there is one, an error that some row     *)
(* cannot be read.  Nothing is said of how the search goes; Resolver.tla   *)
(* implements it.                                                          *)
(***************************************************************************)
EXTENDS Sequences, Integers

CONSTANTS
  Names, Uploaded, Malformed, Requests, NoRow,
  Satisfies(_, _),   \* a version meets a constraint
  Before(_, _)       \* a version is older than another

VARIABLES
  rows,      \* the artifacts table
  found,     \* the table when the request came
  roots,     \* the dependencies asked for
  lockfile,  \* the row chosen for each package, NoRow for those left out
  answer

vars == <<rows, found, roots, lockfile, answer>>

Unique(R) == \A r, s \in R : r.name = s.name /\ r.version = s.version => r = s
Nothing   == [n \in Names |-> NoRow]

Init ==
  /\ rows \in SUBSET Uploaded /\ Unique(rows) /\ found = rows
  /\ roots \in Requests
  /\ lockfile = Nothing /\ answer = "none"

Choices(R) == { S \in [Names -> R \cup {NoRow}] : \A n \in Names : S[n] # NoRow => S[n].name = n }
In(S)      == {n \in Names : S[n] # NoRow}

Granted(ws, S) ==
  \A i \in 1..Len(ws) : S[ws[i].name] # NoRow /\ Satisfies(S[ws[i].name].version, ws[i].wants)
Solves(S) == Granted(roots, S) /\ \A n \in In(S) : Granted(S[n].deps, S)

Within(ws, P) == \A i \in 1..Len(ws) : ws[i].name \in P
Needed(S)     == \A P \in SUBSET Names :
                   Within(roots, P) /\ (\A n \in P \cap In(S) : Within(S[n].deps, P)) => In(S) \subseteq P

(* Packages each of which needs another of them.                           *)
Ring(P, S) == P # {} /\ P \subseteq In(S) /\ \A n \in P : \E i \in 1..Len(S[n].deps) : S[n].deps[i].name \in P

Newest(S) ==
  roots # <<>> => \A T \in Choices(found) :
    Solves(T) => ~Before(S[roots[1].name].version, T[roots[1].name].version)

Lock ==
  /\ answer = "none" /\ answer' = "lockfile"
  /\ \E S \in Choices(rows) :
       /\ Solves(S) /\ Needed(S) /\ Newest(S) /\ \A P \in SUBSET Names : ~Ring(P, S)
       /\ lockfile' = S
  /\ UNCHANGED <<rows, found, roots>>

Refuse ==
  /\ answer = "none" /\ answer' = "conflict"
  /\ \A S \in Choices(found) : ~Solves(S)
  /\ UNCHANGED <<rows, found, roots, lockfile>>

ReportCycle ==
  /\ answer = "none" /\ answer' = "cycle"
  /\ \E S \in Choices(rows) : \E P \in SUBSET Names : Ring(P, S)
  /\ UNCHANGED <<rows, found, roots, lockfile>>

Break ==
  /\ answer = "none" /\ answer' = "error"
  /\ rows \cap Malformed # {}
  /\ UNCHANGED <<rows, found, roots, lockfile>>

Upload ==
  /\ answer = "none"
  /\ \E r \in Uploaded : Unique(rows \cup {r}) /\ rows' = rows \cup {r}
  /\ UNCHANGED <<found, roots, lockfile, answer>>

Next == Lock \/ Refuse \/ ReportCycle \/ Break \/ Upload

Spec == Init /\ [][Next]_vars
=============================================================================
