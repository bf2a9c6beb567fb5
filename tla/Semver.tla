-------------------------------- MODULE Semver --------------------------------
(***************************************************************************)
(* Versions and constraints of the registry (resolver.py:15-215): their    *)
(* order, how a written constraint is parsed, and which versions satisfy   *)
(* it.                                                                     *)
(*                                                                         *)
(* A version is a record: three numbers, the prerelease as a sequence of   *)
(* identifiers, and the build, which only tells rows apart.  An identifier *)
(* is <<0, n>> for the number n and <<1, r>> for the word of rank r in the *)
(* order of strings.  A written term is an operator and the pieces between *)
(* its dots: [num |-> None] where no number stands, and in pre what        *)
(* follows a hyphen of the piece.                                          *)
(***************************************************************************)
EXTENDS Integers, Sequences

None == -1
Operators == {"=", "^", "~", ">=", "<=", ">", "<"}
Identifiers == {0, 1} \X Nat
Versions == [major : Nat, minor : Nat, patch : Nat, pre : Seq(Identifiers), build : Nat]
Pieces == [num : Nat \cup {None}, pre : Seq(Identifiers)]
Terms  == [op : Operators, parts : Seq(Pieces)]

IdBefore(a, b) == a[1] < b[1] \/ (a[1] = b[1] /\ a[2] < b[2])

(* Lists compare by the first place where they differ; a prefix is less.   *)
ListBefore(p, q) ==
  \E i \in 1..Len(q) :
    /\ i - 1 <= Len(p) /\ \A k \in 1..(i - 1) : p[k] = q[k]
    /\ i <= Len(p) => IdBefore(p[i], q[i])

(* What has no prerelease comes after all that have one.                   *)
PreBefore(p, q) == p # <<>> /\ (q = <<>> \/ ListBefore(p, q))

SameCore(v, w) == v.major = w.major /\ v.minor = w.minor /\ v.patch = w.patch

(* v < w                                                                   *)
Before(v, w) ==
  \/ v.major < w.major
  \/ v.major = w.major /\ v.minor < w.minor
  \/ v.major = w.major /\ v.minor = w.minor /\ v.patch < w.patch
  \/ SameCore(v, w) /\ PreBefore(v.pre, w.pre)

(* v == w: builds are not compared.                                        *)
SameKey(v, w) == SameCore(v, w) /\ v.pre = w.pre

(* Only pieces of digits count as major and minor; of the third piece the  *)
(* prerelease is split off; what follows the next dot is lost.             *)
Parse(t) ==
  LET plain(i) == IF i <= Len(t.parts) /\ t.parts[i].pre = <<>> THEN t.parts[i].num ELSE None
      third    == Len(t.parts) >= 3
  IN [op |-> t.op, major |-> plain(1), minor |-> plain(2),
      patch |-> IF third THEN t.parts[3].num ELSE None,
      pre   |-> IF third THEN t.parts[3].pre ELSE <<>>]

(* Missing numbers are padded with 0.                                      *)
FullVersion(c) ==
  LET pad(n) == IF n = None THEN 0 ELSE n
  IN [major |-> pad(c.major), minor |-> pad(c.minor), patch |-> pad(c.patch), pre |-> c.pre,
      build |-> 0]

(* Mutant: ^ keeps the major number whatever it is.                        *)
CaretOfMajor(v, c) == ~Before(v, FullVersion(c)) /\ v.major = c.major

(* ^: at least the version, up to the first number that is not 0.          *)
Caret(v, c) ==
  /\ ~Before(v, FullVersion(c))
  /\ v.major = c.major
  /\ c.major = 0 /\ c.minor # None =>
       /\ v.minor = c.minor
       /\ c.minor = 0 /\ c.patch # None => v.patch = c.patch

Tilde(v, c) == ~Before(v, FullVersion(c)) /\ v.major = c.major /\ c.minor \in {None, v.minor}

Equal(v, c) ==
  IF c.minor = None THEN v.major = c.major
  ELSE IF c.patch = None THEN v.major = c.major /\ v.minor = c.minor
  ELSE SameKey(v, FullVersion(c))

(* A prerelease needs a term that names a prerelease of the same numbers.  *)
SatisfiesTerm(v, c) ==
  /\ v.pre # <<>> => c.pre # <<>> /\ SameCore(v, FullVersion(c))
  /\ CASE c.op = "="  -> Equal(v, c)
       [] c.op = "^"  -> Caret(v, c)
       [] c.op = "~"  -> Tilde(v, c)
       [] c.op = ">=" -> ~Before(v, FullVersion(c))
       [] c.op = "<=" -> ~Before(FullVersion(c), v)
       [] c.op = ">"  -> Before(FullVersion(c), v)
       [] c.op = "<"  -> Before(v, FullVersion(c))

(* No terms stand for "" and "*".  (A constraint of commas only, which has *)
(* no terms either but is not one of these two, lets prereleases in; it is *)
(* left out.)                                                              *)
Satisfies(v, terms) ==
  IF terms = {} THEN v.pre = <<>>
  ELSE \A t \in terms : Parse(t).major # None /\ SatisfiesTerm(v, Parse(t))

-----------------------------------------------------------------------------
(* What a term says, as a range of versions.  The documentation gives the  *)
(* full forms of =, ^, ~ and the comparisons; that a term with numbers     *)
(* missing stands for its lowest version in a comparison (">0", "<=2"),    *)
(* and for all that begin with it after =, is this model's own reading.    *)

(* A release, and a term of one to three numbers.                          *)
IsRelease(v) == v.pre = <<>>
IsPlain(t) ==
  /\ Len(t.parts) \in 1..3
  /\ \A i \in 1..Len(t.parts) : t.parts[i].num # None /\ t.parts[i].pre = <<>>

TripleBefore(a, b) ==
  \/ a[1] < b[1]
  \/ a[1] = b[1] /\ a[2] < b[2]
  \/ a[1] = b[1] /\ a[2] = b[2] /\ a[3] < b[3]

Lowest(t)  == [k \in 1..3 |-> IF k <= Len(t.parts) THEN t.parts[k].num ELSE 0]
Bump(b, i) == [k \in 1..3 |-> IF k < i THEN b[k] ELSE IF k = i THEN b[k] + 1 ELSE 0]

(* The number that may not change any more: ^1.2.3 stops at 2.0.0, ^0.2.3  *)
(* at 0.3.0, ^0.0.3 at 0.0.4; ~1.2 stops at 1.3.0, ~1 at 2.0.0.            *)
Pinned(t) ==
  LET n == Len(t.parts)
      b == Lowest(t)
  IN CASE t.op = "^" -> IF b[1] # 0 \/ n = 1 THEN 1 ELSE IF b[2] # 0 \/ n = 2 THEN 2 ELSE 3
       [] t.op = "~" -> IF n = 1 THEN 1 ELSE 2
       [] OTHER -> n

Means(v, t) ==
  LET x == <<v.major, v.minor, v.patch>>
      b == Lowest(t)
  IN CASE t.op \in {"=", "^", "~"} -> ~TripleBefore(x, b) /\ TripleBefore(x, Bump(b, Pinned(t)))
       [] t.op = ">=" -> ~TripleBefore(x, b)
       [] t.op = "<=" -> ~TripleBefore(b, x)
       [] t.op = ">"  -> TripleBefore(b, x)
       [] t.op = "<"  -> TripleBefore(x, b)
=============================================================================
