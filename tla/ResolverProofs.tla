---------------------------- MODULE ResolverProofs ----------------------------
(***************************************************************************)
(* Proofs about Resolver and the constraints of Semver, for any table, any *)
(* pipeline and any number of uploads during the search.                   *)
(***************************************************************************)
EXTENDS Resolver, FiniteSetTheorems, WellFoundedInduction, TLAPS

\* Below a bumped bound is what the bumped component bounds.
LEMMA BumpBounds ==
  ASSUME NEW b, b[1] \in Nat, b[2] \in Nat, b[3] \in Nat,
         NEW m \in Nat, NEW n \in Nat, NEW p \in Nat
  PROVE  /\ TripleBefore(<<m, n, p>>, Bump(b, 1)) <=> m < b[1] + 1
         /\ TripleBefore(<<m, n, p>>, Bump(b, 2)) <=> m < b[1] \/ (m = b[1] /\ n < b[2] + 1)
         /\ TripleBefore(<<m, n, p>>, Bump(b, 3)) <=>
              m < b[1] \/ (m = b[1] /\ n < b[2]) \/ (m = b[1] /\ n = b[2] /\ p < b[3] + 1)
<1>1. ASSUME NEW u, u[1] \in Nat, u[2] \in Nat, u[3] \in Nat
      PROVE  TripleBefore(<<m, n, p>>, u) <=>
               m < u[1] \/ (m = u[1] /\ n < u[2]) \/ (m = u[1] /\ n = u[2] /\ p < u[3])
  BY <1>1 DEF TripleBefore
<1>2. Bump(b, 1)[1] = b[1] + 1 /\ Bump(b, 1)[2] = 0 /\ Bump(b, 1)[3] = 0
  BY DEF Bump
<1>3. Bump(b, 2)[1] = b[1] /\ Bump(b, 2)[2] = b[2] + 1 /\ Bump(b, 2)[3] = 0
  BY DEF Bump
<1>4. Bump(b, 3)[1] = b[1] /\ Bump(b, 3)[2] = b[2] /\ Bump(b, 3)[3] = b[3] + 1
  BY DEF Bump
<1>5. TripleBefore(<<m, n, p>>, Bump(b, 1)) <=> m < b[1] + 1
  <2>1. TripleBefore(<<m, n, p>>, Bump(b, 1)) <=>
          m < b[1] + 1 \/ (m = b[1] + 1 /\ n < 0) \/ (m = b[1] + 1 /\ n = 0 /\ p < 0)
    BY <1>1, <1>2
  <2> QED BY <2>1
<1>6. TripleBefore(<<m, n, p>>, Bump(b, 2)) <=> m < b[1] \/ (m = b[1] /\ n < b[2] + 1)
  <2>1. TripleBefore(<<m, n, p>>, Bump(b, 2)) <=>
          m < b[1] \/ (m = b[1] /\ n < b[2] + 1) \/ (m = b[1] /\ n = b[2] + 1 /\ p < 0)
    BY <1>1, <1>3
  <2> QED BY <2>1
<1> QED BY <1>1, <1>4, <1>5, <1>6

(* The constraints of Semver, parsed and applied as the code does it, mean *)
(* the ranges of Means, for releases and plain terms.                      *)
THEOREM TermsAreRanges ==
  ASSUME NEW v \in Versions, NEW t \in Terms, IsRelease(v), IsPlain(t)
  PROVE  /\ Parse(t).major # None
         /\ SatisfiesTerm(v, Parse(t)) <=> Means(v, t)
<1> DEFINE c == Parse(t)
<1> DEFINE f == FullVersion(c)
<1> DEFINE b == Lowest(t)
<1> DEFINE x == <<v.major, v.minor, v.patch>>
<1>1. /\ Len(t.parts) \in 1..3 /\ t.op \in Operators
      /\ \A i \in 1..Len(t.parts) : t.parts[i].num \in Nat /\ t.parts[i].pre = <<>>
  <2>1. t.parts \in Seq(Pieces) /\ t.op \in Operators
    BY DEF Terms
  <2>2. \A i \in 1..Len(t.parts) : t.parts[i] \in Pieces
    BY <2>1
  <2> QED BY <2>1, <2>2 DEF IsPlain, Pieces
<1>2. /\ c.op = t.op /\ c.pre = <<>> /\ c.major = t.parts[1].num
      /\ c.minor = IF Len(t.parts) >= 2 THEN t.parts[2].num ELSE None
      /\ c.patch = IF Len(t.parts) >= 3 THEN t.parts[3].num ELSE None
  BY <1>1 DEF Parse
<1>3. /\ f.major = b[1] /\ f.minor = b[2] /\ f.patch = b[3] /\ f.pre = <<>>
      /\ b[1] \in Nat /\ b[2] \in Nat /\ b[3] \in Nat
  BY <1>1, <1>2 DEF FullVersion, Lowest, None
<1>4. c.major = b[1] /\ c.minor \in {None, b[2]} /\ c.patch \in {None, b[3]}
  BY <1>1, <1>2 DEF Lowest
<1>5. v.major \in Nat /\ v.minor \in Nat /\ v.patch \in Nat /\ v.pre = <<>>
  BY DEF Versions, IsRelease
<1>6. /\ Before(v, f) <=> TripleBefore(x, b)
      /\ Before(f, v) <=> TripleBefore(b, x)
  BY <1>3, <1>5 DEF Before, TripleBefore, SameCore, PreBefore
<1>7. Parse(t).major # None
  BY <1>2, <1>1 DEF None
<1>8. /\ TripleBefore(x, Bump(b, 1)) <=> v.major < b[1] + 1
      /\ TripleBefore(x, Bump(b, 2)) <=>
           v.major < b[1] \/ (v.major = b[1] /\ v.minor < b[2] + 1)
      /\ TripleBefore(x, Bump(b, 3)) <=>
           v.major < b[1] \/ (v.major = b[1] /\ v.minor < b[2])
           \/ (v.major = b[1] /\ v.minor = b[2] /\ v.patch < b[3] + 1)
  BY <1>3, <1>5, BumpBounds
<1>9. CASE t.op \in {">=", "<=", ">", "<"}
  BY <1>9, <1>1, <1>2, <1>5, <1>6, <1>7 DEF SatisfiesTerm, Means
<1>10. CASE t.op = "="
  <2>1. Pinned(t) = Len(t.parts)
    BY <1>10 DEF Pinned
  <2>2. Equal(v, c) <=> ~TripleBefore(x, b) /\ TripleBefore(x, Bump(b, Len(t.parts)))
    <3>1. CASE Len(t.parts) = 1
      BY <3>1, <1>1, <1>2, <1>3, <1>5, <1>8 DEF Equal, TripleBefore, Lowest, None
    <3>2. CASE Len(t.parts) = 2
      BY <3>2, <1>1, <1>2, <1>3, <1>5, <1>8 DEF Equal, TripleBefore, Lowest, None
    <3>3. CASE Len(t.parts) = 3
      BY <3>3, <1>1, <1>2, <1>3, <1>5, <1>8 DEF Equal, TripleBefore, Lowest, None, SameKey, SameCore
    <3> QED BY <3>1, <3>2, <3>3, <1>1
  <2> QED BY <2>1, <2>2, <1>10, <1>2, <1>5, <1>7 DEF SatisfiesTerm, Means
<1>11. CASE t.op = "~"
  <2>1. Tilde(v, c) <=> ~TripleBefore(x, b) /\ TripleBefore(x, Bump(b, Pinned(t)))
    <3>1. CASE Len(t.parts) = 1
      BY <3>1, <1>11, <1>1, <1>2, <1>3, <1>5, <1>6, <1>8 DEF Tilde, TripleBefore, Lowest, None, Pinned
    <3>2. CASE Len(t.parts) = 2
      BY <3>2, <1>11, <1>1, <1>2, <1>3, <1>5, <1>6, <1>8 DEF Tilde, TripleBefore, Lowest, None, Pinned
    <3>3. CASE Len(t.parts) = 3
      BY <3>3, <1>11, <1>1, <1>2, <1>3, <1>5, <1>6, <1>8 DEF Tilde, TripleBefore, Lowest, None, Pinned
    <3> QED BY <3>1, <3>2, <3>3, <1>1
  <2> QED BY <2>1, <1>11, <1>2, <1>5, <1>7 DEF SatisfiesTerm, Means
<1>12. CASE t.op = "^"
  <2>1. Caret(v, c) <=> ~TripleBefore(x, b) /\ TripleBefore(x, Bump(b, Pinned(t)))
    <3>1. CASE Len(t.parts) = 1
      BY <3>1, <1>12, <1>1, <1>2, <1>3, <1>5, <1>6, <1>8 DEF Caret, TripleBefore, Lowest, None, Pinned
    <3>2. CASE Len(t.parts) = 2
      BY <3>2, <1>12, <1>1, <1>2, <1>3, <1>5, <1>6, <1>8 DEF Caret, TripleBefore, Lowest, None, Pinned
    <3>3. CASE Len(t.parts) = 3
      BY SMTT(30), <3>3, <1>12, <1>1, <1>2, <1>3, <1>5, <1>6, <1>8 DEF Caret, TripleBefore, Lowest, None, Pinned
    <3> QED BY <3>1, <3>2, <3>3, <1>1
  <2> QED BY <2>1, <1>12, <1>2, <1>5, <1>7 DEF SatisfiesTerm, Means
<1> QED BY <1>1, <1>7, <1>9, <1>10, <1>11, <1>12 DEF Operators

-----------------------------------------------------------------------------
(* Lemmas about calls.                                                     *)

\* One queue entry per dependency, in order, with its wishes and the path.
LEMMA EntriesShape ==
  ASSUME NEW ws \in Seq(Wishes), NEW path \in Seq(Names)
  PROVE  /\ Entries(ws, path) \in Seq(Items) /\ Len(Entries(ws, path)) = Len(ws)
         /\ \A i \in 1..Len(ws) :
              /\ Entries(ws, path)[i].name = ws[i].name
              /\ Entries(ws, path)[i].wants = ws[i].wants
              /\ Entries(ws, path)[i].path = path
<1>1. \A i \in 1..Len(ws) : ws[i] \in Wishes
  OBVIOUS
<1>2. \A i \in 1..Len(ws) : Entry(ws[i], path) \in Items
  BY <1>1 DEF Wishes, Entry, Items
<1> QED BY <1>2 DEF Entries, Entry

\* The head of the queue and what is noted when it is taken.
LEMMA FirstType ==
  ASSUME NEW c \in Calls, c.queue # <<>>
  PROVE  /\ First(c) = c.queue[1] /\ First(c) \in Items
         /\ Noted(c) \in [Names -> SUBSET SUBSET Terms]
         /\ Tail(c.queue) \in Seq(Items) /\ Len(Tail(c.queue)) = Len(c.queue) - 1
         /\ \A k \in 1..(Len(c.queue) - 1) : Tail(c.queue)[k] = c.queue[k + 1]
<1>1. c.queue \in Seq(Items) /\ c.constraints \in [Names -> SUBSET SUBSET Terms]
  BY DEF Calls
<1>2. First(c) = c.queue[1] /\ First(c) \in Items
  BY <1>1 DEF First
<1>3. First(c).name \in Names /\ First(c).wants \in SUBSET Terms
  BY <1>2 DEF Items
<1>4. Noted(c) \in [Names -> SUBSET SUBSET Terms]
  BY <1>1, <1>3 DEF Noted
<1> QED BY <1>1, <1>2, <1>4

\* What a call is when its head is passed over.
LEMMA PassedShape ==
  ASSUME NEW c \in Calls, c.queue # <<>>
  PROVE  /\ Passed(c) \in Calls
         /\ Passed(c).queue = Tail(c.queue) /\ Passed(c).resolved = c.resolved
         /\ Passed(c).constraints = Noted(c)
<1>1. c = [queue |-> c.queue, resolved |-> c.resolved, constraints |-> c.constraints]
      /\ c.resolved \in [Names -> Uploaded \cup {NoRow}]
  BY DEF Calls
<1> QED BY <1>1, FirstType DEF Passed, Calls

\* The elements of a concatenation.
LEMMA ConcatShape ==
  ASSUME NEW S, NEW s \in Seq(S), NEW t \in Seq(S)
  PROVE  /\ s \o t \in Seq(S) /\ Len(s \o t) = Len(s) + Len(t)
         /\ \A i \in 1..Len(s) : (s \o t)[i] = s[i]
         /\ \A i \in 1..Len(t) : (s \o t)[Len(s) + i] = t[i]
  OBVIOUS

\* The recursive call: the candidate is resolved, its dependencies come first in
\* the queue, what was queued behind the head comes after them.
LEMMA InnerShape ==
  ASSUME NEW c \in Calls, c.queue # <<>>, NEW r \in Uploaded
  PROVE  LET d == Inner(c, r)
         IN /\ d \in Calls
            /\ d.resolved = [c.resolved EXCEPT ![r.name] = r] /\ d.constraints = Noted(c)
            /\ Len(d.queue) = Len(r.deps) + Len(c.queue) - 1
            /\ \A i \in 1..Len(r.deps) :
                 /\ d.queue[i].name = r.deps[i].name /\ d.queue[i].wants = r.deps[i].wants
                 /\ d.queue[i].path = Append(First(c).path, r.name)
            /\ \A k \in 2..Len(c.queue) : d.queue[Len(r.deps) + k - 1] = c.queue[k]
<1> DEFINE e == Entries(r.deps, Append(First(c).path, r.name))
<1>1. r.name \in Names /\ r.deps \in Seq(Wishes)
  BY UploadedAssumption
<1>2. First(c).path \in Seq(Names)
  BY FirstType DEF Items
<1>3. Append(First(c).path, r.name) \in Seq(Names)
  BY <1>1, <1>2
<1>4. /\ e \in Seq(Items) /\ Len(e) = Len(r.deps)
      /\ \A i \in 1..Len(r.deps) : /\ e[i].name = r.deps[i].name /\ e[i].wants = r.deps[i].wants
                                     /\ e[i].path = Append(First(c).path, r.name)
  BY <1>1, <1>3, EntriesShape
<1>5. c.resolved \in [Names -> Uploaded \cup {NoRow}] /\ c.queue \in Seq(Items)
  BY DEF Calls
<1>6. /\ Inner(c, r).queue = e \o Tail(c.queue)
      /\ Inner(c, r).resolved = [c.resolved EXCEPT ![r.name] = r]
      /\ Inner(c, r).constraints = Noted(c)
  BY DEF Inner
<1> HIDE DEF e
<1>7. e \o Tail(c.queue) \in Seq(Items)
  BY <1>4, FirstType
<1>8. Inner(c, r) \in Calls
  BY <1>1, <1>5, <1>7, FirstType DEF Inner, Calls, e
<1>9. /\ Len(e \o Tail(c.queue)) = Len(r.deps) + Len(c.queue) - 1
      /\ \A i \in 1..Len(r.deps) : (e \o Tail(c.queue))[i] = e[i]
  <2>1. Len(r.deps) \in Nat /\ Len(c.queue) \in Nat /\ Len(Tail(c.queue)) = Len(c.queue) - 1
    BY <1>1, <1>5, FirstType
  <2>2. Len(e \o Tail(c.queue)) = Len(e) + Len(Tail(c.queue))
    BY ZenonT(40), <1>4, FirstType, ConcatShape
  <2>3. \A i \in 1..Len(e) : (e \o Tail(c.queue))[i] = e[i]
    BY <1>4, FirstType, ConcatShape
  <2> QED BY <2>1, <2>2, <2>3, <1>4
<1>10. ASSUME NEW k \in 2..Len(c.queue)
       PROVE  (e \o Tail(c.queue))[Len(r.deps) + k - 1] = c.queue[k]
  <2>1. Len(r.deps) \in Nat /\ Len(c.queue) \in Nat
    BY <1>1, <1>5
  <2>2. Tail(c.queue)[k - 1] = c.queue[k]
    BY <2>1, FirstType
  <2>3. (e \o Tail(c.queue))[Len(e) + (k - 1)] = Tail(c.queue)[k - 1]
    BY <2>1, <1>4, FirstType
  <2> QED BY <2>1, <2>2, <2>3, <1>4
<1> QED BY ZenonT(40), <1>4, <1>6, <1>8, <1>9, <1>10

(* What the stack is after a step of the loop: the last frame is changed   *)
(* or gone.                                                                *)
LEMMA StackShape ==
  ASSUME NEW S, NEW stk \in Seq(S), stk # <<>>
  PROVE  /\ Len(stk) \in 1..Len(stk) /\ stk[Len(stk)] \in S
         /\ SubSeq(stk, 1, Len(stk) - 1) \in Seq(S)
         /\ Len(SubSeq(stk, 1, Len(stk) - 1)) = Len(stk) - 1
         /\ \A i \in 1..(Len(stk) - 1) : SubSeq(stk, 1, Len(stk) - 1)[i] = stk[i]
<1>1. Len(stk) \in Nat /\ Len(stk) # 0
  OBVIOUS
<1> DEFINE n == Len(stk) - 1
<1>2. n \in Nat /\ n <= Len(stk)
  BY <1>1
<1>3. \A i \in 1..n : stk[i] \in S
  BY <1>1
<1>4. SubSeq(stk, 1, n) = [i \in 1..n |-> stk[i]]
  BY <1>1
<1>5. [i \in 1..n |-> stk[i]] \in Seq(S) /\ Len([i \in 1..n |-> stk[i]]) = n
  BY <1>2, <1>3
<1>6. \A i \in 1..n : SubSeq(stk, 1, n)[i] = stk[i]
  BY <1>4
<1>7. Len(stk) \in 1..Len(stk) /\ stk[Len(stk)] \in S
  BY <1>1
<1>8. SubSeq(stk, 1, n) \in Seq(S) /\ Len(SubSeq(stk, 1, n)) = n
  BY <1>4, <1>5
<1> QED BY <1>6, <1>7, <1>8

-----------------------------------------------------------------------------
(* Types.                                                                  *)

\* The search stays among calls, frames and answers of the right type, for any
\* table of packages and any request.
THEOREM TypeCorrect == Spec => []TypeOK
<1>1. Init => TypeOK
  <2> SUFFICES ASSUME Init PROVE TypeOK
    OBVIOUS
  <2>1. roots \in Seq(Wishes) /\ <<>> \in Seq(Names)
    BY RequestAssumption DEF Init
  <2>2. call \in Calls
    BY <2>1, EntriesShape DEF Init, Calls
  <2> QED BY <2>2 DEF Init, TypeOK
<1>2. TypeOK /\ [Next]_vars => TypeOK'
  <2> SUFFICES ASSUME TypeOK, [Next]_vars PROVE TypeOK'
    OBVIOUS
  <2> USE DEF TypeOK
  <2>1. CASE Cycle
    BY <2>1 DEF Cycle
  <2>9. CASE Break
    BY <2>9 DEF Break
  <2>2. CASE Resolved
    BY <2>2, PassedShape DEF Resolved, Raise
  <2>3. CASE List
    <3>1. [call |-> call, cands |-> Candidates(call)] \in Frames
      BY <2>3 DEF Frames, Candidates, List
    <3> QED BY <2>3, <3>1 DEF List
  <2>4. CASE Try
    <3>1. PICK r \in Newest(Top.cands) \ Malformed :
            /\ stack' = [stack EXCEPT ![Len(stack)].cands = Untried(@, r)]
            /\ call' = Inner(Top.call, r)
      BY <2>4 DEF Try
    <3>2. Top \in Frames /\ Len(stack) \in 1..Len(stack)
      BY <2>4, StackShape DEF Try, Top
    <3>3. r \in Uploaded /\ Top.call \in Calls
      BY <3>2 DEF Newest, Frames
    <3>4. [Top EXCEPT !.cands = Untried(@, r)] \in Frames
      BY <3>2 DEF Frames, Untried
    <3>5. stack' \in Seq(Frames)
      BY <3>1, <3>2, <3>4 DEF Top
    <3>6. Top.call.queue # <<>>
      BY <3>2 DEF Frames
    <3>7. call' \in Calls
      BY <3>1, <3>3, <3>6, InnerShape
    <3> QED BY <2>4, <3>5, <3>7 DEF Try
  <2>5. CASE Exhausted
    BY <2>5, StackShape DEF Exhausted, Raise, GiveUp, Rest
  <2>6. CASE Solved
    BY <2>6 DEF Solved
  <2>7. CASE Insert
    BY <2>7 DEF Insert
  <2>8. CASE UNCHANGED vars
    BY <2>8 DEF vars
  <2> QED BY <2>1, <2>2, <2>3, <2>4, <2>5, <2>6, <2>7, <2>8, <2>9 DEF Next, Search, Answered
<1> QED BY <1>1, <1>2, PTL DEF Spec
-----------------------------------------------------------------------------
(* What holds of the arguments of every call on the stack.                 *)

(* A dependency is noted as a constraint or still in the queue.            *)
Pending(w, c) == \E k \in 1..Len(c.queue) : c.queue[k].name = w.name /\ c.queue[k].wants = w.wants
Met(ws, c)    == \A i \in 1..Len(ws) : ws[i].wants \in c.constraints[ws[i].name] \/ Pending(ws[i], c)

(* The packages resolved so far satisfy all constraints noted so far.      *)
SolInv(c, R, rs) ==
  /\ Met(rs, c)
  /\ \A n \in Names : c.resolved[n] # NoRow =>
       c.resolved[n] \in R /\ c.resolved[n].name = n /\ Met(c.resolved[n].deps, c)
  /\ \A n \in Names : \A w \in c.constraints[n] :
       c.resolved[n] # NoRow /\ Satisfies(c.resolved[n].version, w)

ClosedIn(rs, P, S) == Listed(rs, P) /\ \A n \in P : S[n] # NoRow => Listed(S[n].deps, P)

(* What is resolved or in the queue is needed.                             *)
StrayInv(c, rs) ==
  \A P \in SUBSET Names : ClosedIn(rs, P, c.resolved) =>
    /\ \A n \in Names : c.resolved[n] # NoRow => n \in P
    /\ \A k \in 1..Len(c.queue) : c.queue[k].name \in P

(* The path of an entry is resolved, and each of it needs the next.        *)
Chain(p, n, S) ==
  \A i \in 1..Len(p) : S[p[i]] # NoRow /\ Needs(S[p[i]], IF i < Len(p) THEN p[i + 1] ELSE n)
PathInv(c) == \A k \in 1..Len(c.queue) : Chain(c.queue[k].path, c.queue[k].name, c.resolved)

CallInv(c, R, rs) == SolInv(c, R, rs) /\ StrayInv(c, rs) /\ PathInv(c)

FrameInv(f, R, rs) ==
  /\ CallInv(f.call, R, rs)
  /\ f.call.resolved[First(f.call).name] = NoRow
  /\ \A r \in f.cands : /\ r \in R /\ r.name = First(f.call).name
                         /\ \A w \in Noted(f.call)[r.name] : Satisfies(r.version, w)

(* The constraints noted when the first entry has been dealt with.         *)
LEMMA NotedShape ==
  ASSUME NEW c \in Calls, c.queue # <<>>
  PROVE  /\ First(c).name \in Names
         /\ \A n \in Names : Noted(c)[n] = IF n = First(c).name THEN c.constraints[n] \cup {First(c).wants}
                                          ELSE c.constraints[n]
<1>1. First(c) \in Items /\ c.constraints \in [Names -> SUBSET SUBSET Terms]
  BY FirstType DEF Calls
<1> QED BY <1>1 DEF Noted, Items

\* A wish noted or queued stays so when the head is passed over.
LEMMA PassedMet ==
  ASSUME NEW c \in Calls, c.queue # <<>>, NEW ws \in Seq(Wishes), Met(ws, c)
  PROVE  Met(ws, Passed(c))
<1> SUFFICES ASSUME NEW i \in 1..Len(ws), ws[i].wants \notin Noted(c)[ws[i].name]
             PROVE  Pending(ws[i], Passed(c))
  BY PassedShape DEF Met
<1>1. ws[i] \in Wishes
  OBVIOUS
<1>2. ws[i].name \in Names
  BY <1>1 DEF Wishes
<1>3. PICK k \in 1..Len(c.queue) : c.queue[k].name = ws[i].name /\ c.queue[k].wants = ws[i].wants
  BY <1>2, NotedShape DEF Met, Pending
<1>4. k # 1
  <2> SUFFICES ASSUME k = 1 PROVE FALSE
    OBVIOUS
  <2>1. First(c).name = ws[i].name /\ First(c).wants = ws[i].wants
    BY <1>3, FirstType
  <2>2. ws[i].wants \in Noted(c)[ws[i].name]
    BY <1>2, <2>1, NotedShape
  <2> QED BY <2>2
<1>5. c.queue \in Seq(Items)
  BY DEF Calls
<1>6. k - 1 \in 1..(Len(c.queue) - 1) /\ Tail(c.queue)[k - 1] = c.queue[k]
  BY <1>4, <1>5, FirstType
<1> QED BY ZenonT(40), <1>3, <1>6, FirstType, PassedShape DEF Pending

\* Passing over a package that serves its new constraint keeps the call sound.
LEMMA PassedCall ==
  ASSUME NEW c \in Calls, c.queue # <<>>, NEW R \in SUBSET Uploaded, NEW rs \in Seq(Wishes),
         CallInv(c, R, rs), c.resolved[First(c).name] # NoRow, Serves(c)
  PROVE  CallInv(Passed(c), R, rs)
<1> DEFINE d == Passed(c)
<1>1. SolInv(d, R, rs)
  <2>1. Met(rs, d)
    BY PassedMet DEF CallInv, SolInv
  <2>2. ASSUME NEW n \in Names, c.resolved[n] # NoRow
        PROVE  c.resolved[n] \in R /\ c.resolved[n].name = n /\ Met(c.resolved[n].deps, d)
    <3>1. c.resolved[n] \in R /\ c.resolved[n].name = n /\ Met(c.resolved[n].deps, c)
      BY <2>2 DEF CallInv, SolInv
    <3>2. c.resolved[n].deps \in Seq(Wishes)
      BY <3>1, UploadedAssumption
    <3> QED BY <3>1, <3>2, PassedMet
  <2>3. ASSUME NEW n \in Names, NEW w \in Noted(c)[n]
        PROVE  c.resolved[n] # NoRow /\ Satisfies(c.resolved[n].version, w)
    <3>1. CASE w \in c.constraints[n]
      BY <3>1 DEF CallInv, SolInv
    <3>2. CASE n = First(c).name /\ w = First(c).wants
      BY <3>2 DEF Serves
    <3> QED BY <2>3, <3>1, <3>2, NotedShape
  <2> QED BY <2>1, <2>2, <2>3, PassedShape DEF SolInv
<1>2. ASSUME NEW k \in 1..Len(d.queue) PROVE k + 1 \in 1..Len(c.queue) /\ d.queue[k] = c.queue[k + 1]
  <2>1. c.queue \in Seq(Items) /\ Len(c.queue) \in Nat
    BY DEF Calls
  <2>2. d.queue = Tail(c.queue) /\ Len(d.queue) = Len(c.queue) - 1
    BY FirstType, PassedShape
  <2>3. k \in 1..(Len(c.queue) - 1)
    BY <2>2
  <2> QED BY <2>1, <2>2, <2>3, FirstType
<1>3. StrayInv(d, rs)
  BY <1>2, PassedShape DEF CallInv, StrayInv
<1>4. PathInv(d)
  BY <1>2, PassedShape DEF CallInv, PathInv
<1> QED BY <1>1, <1>3, <1>4 DEF CallInv

\* Arithmetic of an index behind the new dependencies.
LEMMA Shift ==
  ASSUME NEW a \in Nat, NEW b \in Nat
  PROVE  /\ \A k \in 1..b : k # 1 => k \in 2..b /\ a + k - 1 \in 1..(a + b - 1)
         /\ \A k \in 1..(a + b - 1) : k > a => k - a + 1 \in 2..b
         /\ b # 0 => \A k \in 1..a : k \in 1..(a + b - 1)
  OBVIOUS

(* An entry of the queue of an inner call is new or was there.             *)
LEMMA InnerEntry ==
  ASSUME NEW c \in Calls, c.queue # <<>>, NEW r \in Uploaded, NEW k \in 1..Len(Inner(c, r).queue)
  PROVE  \/ /\ k \in 1..Len(r.deps)
            /\ Inner(c, r).queue[k].name = r.deps[k].name /\ Inner(c, r).queue[k].wants = r.deps[k].wants
            /\ Inner(c, r).queue[k].path = Append(First(c).path, r.name)
         \/ \E j \in 2..Len(c.queue) : Inner(c, r).queue[k] = c.queue[j]
<1>1. r.deps \in Seq(Wishes) /\ c.queue \in Seq(Items)
  BY UploadedAssumption DEF Calls
<1>2. Len(r.deps) \in Nat /\ Len(c.queue) \in Nat
  BY <1>1
<1>3. k \in 1..(Len(r.deps) + Len(c.queue) - 1)
  BY InnerShape
<1>4. CASE k <= Len(r.deps)
  <2>1. k \in 1..Len(r.deps)
    BY <1>2, <1>3, <1>4
  <2> QED BY ZenonT(40), <2>1, InnerShape
<1>5. CASE k > Len(r.deps)
  <2>1. k - Len(r.deps) + 1 \in 2..Len(c.queue)
    BY <1>2, <1>3, <1>5, Shift
  <2>2. PICK j \in 2..Len(c.queue) : j = k - Len(r.deps) + 1
    BY <2>1
  <2>3. j \in Int /\ Len(r.deps) \in Int /\ k \in Int
    BY <1>2, <1>3, <2>2
  <2>4. k = Len(r.deps) + j - 1
    BY <2>2, <2>3
  <2>5. Inner(c, r).queue[Len(r.deps) + j - 1] = c.queue[j]
    BY InnerShape
  <2> QED BY <2>4, <2>5
<1> QED BY <1>2, <1>3, <1>4, <1>5

\* A wish noted or queued stays so in the recursive call.
LEMMA InnerMet ==
  ASSUME NEW c \in Calls, c.queue # <<>>, NEW r \in Uploaded, NEW ws \in Seq(Wishes), Met(ws, c)
  PROVE  Met(ws, Inner(c, r))
<1> SUFFICES ASSUME NEW i \in 1..Len(ws), ws[i].wants \notin Noted(c)[ws[i].name]
             PROVE  Pending(ws[i], Inner(c, r))
  BY InnerShape DEF Met
<1>1. ws[i] \in Wishes
  OBVIOUS
<1>2. ws[i].name \in Names
  BY <1>1 DEF Wishes
<1>3. PICK k \in 1..Len(c.queue) : c.queue[k].name = ws[i].name /\ c.queue[k].wants = ws[i].wants
  BY <1>2, NotedShape DEF Met, Pending
<1>4. k # 1
  <2> SUFFICES ASSUME k = 1 PROVE FALSE
    OBVIOUS
  <2>1. First(c).name = ws[i].name /\ First(c).wants = ws[i].wants
    BY <1>3, FirstType
  <2>2. ws[i].wants \in Noted(c)[ws[i].name]
    BY <1>2, <2>1, NotedShape
  <2> QED BY <2>2
<1>5. c.queue \in Seq(Items) /\ r.deps \in Seq(Wishes)
  BY UploadedAssumption DEF Calls
<1>6. k \in 2..Len(c.queue) /\ Len(r.deps) + k - 1 \in 1..(Len(r.deps) + Len(c.queue) - 1)
  <2>1. Len(c.queue) \in Nat /\ Len(r.deps) \in Nat
    BY <1>5
  <2> QED BY <1>4, <2>1, Shift
<1>7. /\ Len(Inner(c, r).queue) = Len(r.deps) + Len(c.queue) - 1
      /\ Inner(c, r).queue[Len(r.deps) + k - 1] = c.queue[k]
  BY <1>6, InnerShape
<1> QED BY <1>3, <1>6, <1>7 DEF Pending

\* A candidate that satisfies what is noted of it keeps the call sound.
LEMMA InnerCall ==
  ASSUME NEW c \in Calls, c.queue # <<>>, NEW R \in SUBSET Uploaded, NEW rs \in Seq(Wishes),
         CallInv(c, R, rs), c.resolved[First(c).name] = NoRow,
         NEW r \in R, r.name = First(c).name, \A w \in Noted(c)[r.name] : Satisfies(r.version, w)
  PROVE  CallInv(Inner(c, r), R, rs)
<1> DEFINE d == Inner(c, r)
<1>1. /\ r \in Uploaded /\ r # NoRow /\ r.name \in Names /\ r.deps \in Seq(Wishes)
      /\ c.resolved \in [Names -> Uploaded \cup {NoRow}] /\ c.queue \in Seq(Items)
  BY UploadedAssumption DEF Calls
<1>2. /\ d.resolved[r.name] = r
      /\ \A n \in Names : n # r.name => d.resolved[n] = c.resolved[n]
      /\ \A n \in Names : c.resolved[n] # NoRow => d.resolved[n] = c.resolved[n]
  <2>1. d.resolved = [c.resolved EXCEPT ![r.name] = r]
    BY <1>1, InnerShape
  <2> HIDE DEF d
  <2> QED  BY <1>1, <2>1
<1>3. Met(r.deps, d)
  <2> SUFFICES ASSUME NEW i \in 1..Len(r.deps) PROVE Pending(r.deps[i], d)
    BY DEF Met
  <2>1. Len(r.deps) \in Nat /\ Len(c.queue) \in Nat \ {0}
    BY <1>1
  <2>2. i \in 1..Len(d.queue)
    BY <2>1, InnerShape, Shift
  <2> QED BY ZenonT(40), <1>1, <2>2, InnerShape DEF Pending
<1>4. SolInv(d, R, rs)
  <2>1. Met(rs, d)
    BY <1>1, InnerMet DEF CallInv, SolInv
  <2>2. ASSUME NEW n \in Names, d.resolved[n] # NoRow
        PROVE  d.resolved[n] \in R /\ d.resolved[n].name = n /\ Met(d.resolved[n].deps, d)
    <3>1. CASE n = r.name
      BY <3>1, <1>2, <1>3
    <3>2. CASE n # r.name
      <4>1. /\ d.resolved[n] = c.resolved[n] /\ c.resolved[n] \in R /\ c.resolved[n].name = n
            /\ Met(c.resolved[n].deps, c)
        BY <3>2, <2>2, <1>2 DEF CallInv, SolInv
      <4>2. c.resolved[n].deps \in Seq(Wishes)
        BY <4>1, UploadedAssumption
      <4> QED BY <4>1, <4>2, <1>1, InnerMet
    <3> QED BY <3>1, <3>2
  <2>3. ASSUME NEW n \in Names, NEW w \in Noted(c)[n]
        PROVE  d.resolved[n] # NoRow /\ Satisfies(d.resolved[n].version, w)
    <3>1. CASE n = r.name
      BY <3>1, <1>1, <1>2
    <3>2. CASE n # r.name
      <4>1. w \in c.constraints[n]
        BY <3>2, NotedShape
      <4>2. c.resolved[n] # NoRow /\ Satisfies(c.resolved[n].version, w)
        BY <4>1 DEF CallInv, SolInv
      <4> QED BY <4>2, <1>2
    <3> QED BY <3>1, <3>2
  <2> QED BY <2>1, <2>2, <2>3, <1>1, InnerShape DEF SolInv
<1>5. StrayInv(d, rs)
  <2> SUFFICES ASSUME NEW P \in SUBSET Names, ClosedIn(rs, P, d.resolved)
               PROVE  /\ \A n \in Names : d.resolved[n] # NoRow => n \in P
                      /\ \A k \in 1..Len(d.queue) : d.queue[k].name \in P
    BY DEF StrayInv
  <2>1. ClosedIn(rs, P, c.resolved)
    BY <1>2 DEF ClosedIn
  <2>2. /\ \A n \in Names : c.resolved[n] # NoRow => n \in P
        /\ \A k \in 1..Len(c.queue) : c.queue[k].name \in P
    BY <2>1 DEF CallInv, StrayInv
  <2>3. r.name \in P
    BY <2>2, <1>1, FirstType
  <2>4. Listed(r.deps, P)
    BY <2>3, <1>1, <1>2 DEF ClosedIn
  <2>5. ASSUME NEW k \in 1..Len(d.queue) PROVE d.queue[k].name \in P
    <3>1. CASE k \in 1..Len(r.deps) /\ d.queue[k].name = r.deps[k].name
      BY <3>1, <2>4 DEF Listed
    <3>2. CASE \E j \in 2..Len(c.queue) : d.queue[k] = c.queue[j]
      BY <3>2, <2>2, <1>1
    <3> QED BY <3>1, <3>2, <1>1, InnerEntry
  <2> QED BY <2>2, <2>3, <2>5, <1>2
<1>6. PathInv(d)
  <2> SUFFICES ASSUME NEW k \in 1..Len(d.queue)
               PROVE  Chain(d.queue[k].path, d.queue[k].name, d.resolved)
    BY DEF PathInv
  <2>1. ASSUME NEW p \in Seq(Names), NEW n, Chain(p, n, c.resolved) PROVE Chain(p, n, d.resolved)
    <3>1. \A i \in 1..Len(p) : p[i] \in Names
      OBVIOUS
    <3> QED BY <2>1, <3>1, <1>2 DEF Chain
  <2>2. CASE \E j \in 2..Len(c.queue) : d.queue[k] = c.queue[j]
    <3>1. PICK j \in 2..Len(c.queue) : d.queue[k] = c.queue[j]
      BY <2>2
    <3>2. c.queue[j] \in Items /\ j \in 1..Len(c.queue)
      BY <1>1
    <3>3. Chain(c.queue[j].path, c.queue[j].name, c.resolved)
      BY <3>2 DEF CallInv, PathInv
    <3> QED BY <3>1, <3>2, <3>3, <2>1 DEF Items
  <2>3. CASE /\ k \in 1..Len(r.deps) /\ d.queue[k].name = r.deps[k].name
             /\ d.queue[k].path = Append(First(c).path, r.name)
    <3> DEFINE p == First(c).path
    <3>1. p \in Seq(Names) /\ Len(p) \in Nat
      BY FirstType DEF Items
    <3>2. Chain(p, r.name, c.resolved)
      BY <1>1, FirstType DEF CallInv, PathInv
    <3>3. Chain(p, r.name, d.resolved)
      BY <3>1, <3>2, <2>1
    <3>4. Needs(r, r.deps[k].name)
      BY <2>3 DEF Needs
    <3> DEFINE q == Append(p, r.name)
    <3> HIDE DEF p
    <3>5. /\ Len(q) = Len(p) + 1 /\ q[Len(p) + 1] = r.name
          /\ \A i \in 1..Len(p) : q[i] = p[i]
      BY <3>1
    <3> HIDE DEF q
    <3>6. ASSUME NEW i \in 1..Len(q)
          PROVE  /\ d.resolved[q[i]] # NoRow
                 /\ Needs(d.resolved[q[i]], IF i < Len(q) THEN q[i + 1] ELSE r.deps[k].name)
      <4>1. CASE i = Len(p) + 1
        BY <4>1, <3>1, <3>4, <3>5, <1>1, <1>2
      <4>2. CASE i # Len(p) + 1
        <5>1. i \in 1..Len(p) /\ i < Len(q) /\ i + 1 \in 1..Len(q)
          BY <4>2, <3>1, <3>5
        <5>2. q[i] = p[i] /\ q[i + 1] = IF i < Len(p) THEN p[i + 1] ELSE r.name
          BY <5>1, <3>1, <3>5
        <5> QED BY <5>1, <5>2, <3>3 DEF Chain
      <4> QED BY <4>1, <4>2
    <3>7. Chain(q, r.deps[k].name, d.resolved)
      BY <3>6 DEF Chain
    <3> QED BY <3>7, <2>3 DEF p, q
  <2> QED BY <2>2, <2>3, <1>1, InnerEntry
<1> QED BY <1>4, <1>5, <1>6 DEF CallInv

-----------------------------------------------------------------------------
(* The invariant of the search.                                            *)

SearchInv ==
  /\ CallInv(call, rows, roots)
  /\ \A i \in 1..Len(stack) : FrameInv(stack[i], rows, roots)
  /\ answer = "lockfile" => call.queue = <<>>
  /\ answer = "cycle" => call.queue # <<>> /\ OnPath(call)
  /\ answer = "conflict" => stack = <<>>
  /\ answer = "error" => rows \cap Malformed # {}
  /\ IF pc = "done" THEN answer # "none" ELSE answer = "none"

\* A call that is sound for the rows it saw is sound for more rows.
LEMMA CallGrows ==
  ASSUME NEW c, NEW R, NEW Q, NEW rs, CallInv(c, R, rs), R \subseteq Q
  PROVE  CallInv(c, Q, rs)
BY DEF CallInv, SolInv

\* So is a suspended call.
LEMMA FrameGrows ==
  ASSUME NEW f, NEW R, NEW Q, NEW rs, FrameInv(f, R, rs), R \subseteq Q
  PROVE  FrameInv(f, Q, rs)
BY CallGrows DEF FrameInv

\* The first call of the search is sound.
LEMMA SearchInit == Init => SearchInv
<1> SUFFICES ASSUME Init PROVE SearchInv
  OBVIOUS
<1>1. roots \in Seq(Wishes) /\ <<>> \in Seq(Names)
  BY RequestAssumption DEF Init
<1>2. /\ \A n \in Names : call.resolved[n] = NoRow /\ call.constraints[n] = {}
      /\ call.queue = Entries(roots, <<>>)
  BY DEF Init
<1>3. /\ Len(call.queue) = Len(roots)
      /\ \A i \in 1..Len(roots) : /\ call.queue[i].name = roots[i].name
                                  /\ call.queue[i].wants = roots[i].wants
                                  /\ call.queue[i].path = <<>>
  <2> DEFINE e == Entries(roots, <<>>)
  <2>1. /\ Len(e) = Len(roots)
        /\ \A i \in 1..Len(roots) :
             e[i].name = roots[i].name /\ e[i].wants = roots[i].wants /\ e[i].path = <<>>
    BY <1>1, EntriesShape
  <2> HIDE DEF e
  <2>2. call.queue = e
    BY <1>2 DEF e
  <2> QED BY <2>1, <2>2
<1>4. SolInv(call, rows, roots)
  BY <1>2, <1>3 DEF SolInv, Met, Pending
<1>5. StrayInv(call, roots)
  BY <1>2, <1>3 DEF StrayInv, ClosedIn, Listed
<1>6. PathInv(call)
  BY <1>3 DEF PathInv, Chain
<1> QED BY <1>4, <1>5, <1>6 DEF Init, SearchInv, CallInv

\* Every call of the search, running or suspended on the stack, is a partial
\* solution: what is resolved satisfies every constraint noted, and every
\* dependency of it is noted or still queued (resolver.py:221-310).
THEOREM SearchInvHolds == Spec => []SearchInv
<1>1. TypeOK /\ SearchInv /\ [Next]_vars => SearchInv'
  <2> SUFFICES ASSUME TypeOK, SearchInv, [Next]_vars PROVE SearchInv'
    OBVIOUS
  <2>0. /\ rows \in SUBSET Uploaded /\ roots \in Seq(Wishes) /\ call \in Calls /\ stack \in Seq(Frames)
    BY RequestAssumption DEF TypeOK
  <2>1. CASE Cycle
    BY <2>1 DEF Cycle, SearchInv
  <2>9. CASE Break
    <3>1. FrameInv(Top, rows, roots)
      BY <2>0, <2>9, StackShape DEF Break, Top, SearchInv
    <3>2. rows \cap Malformed # {}
      BY <2>9, <3>1 DEF Break, Newest, FrameInv
    <3> QED BY <2>9, <3>2 DEF Break, SearchInv
  <2>2. CASE Resolved
    <3>1. CASE Serves(call)
      <4>1. CallInv(Passed(call), rows, roots)
        BY <2>0, <2>2, <3>1, PassedCall DEF Resolved, SearchInv
      <4> QED BY <2>2, <3>1, <4>1 DEF Resolved, SearchInv
    <3>2. CASE ~Serves(call)
      BY <2>2, <3>2 DEF Resolved, Raise, SearchInv
    <3> QED BY <3>1, <3>2
  <2>3. CASE List
    <3> DEFINE f == [call |-> call, cands |-> Candidates(call)]
    <3>1. First(call).name \in Names
      BY <2>0, <2>3, NotedShape DEF List
    <3>2. FrameInv(f, rows, roots)
      BY <2>3, <3>1 DEF List, FrameInv, Candidates, SearchInv
    <3>3. stack' = Append(stack, f)
      BY <2>3 DEF List
    <3> HIDE DEF f
    <3>4. \A i \in 1..Len(stack') : FrameInv(stack'[i], rows, roots)
      BY <2>0, <3>2, <3>3 DEF SearchInv
    <3> QED BY <2>3, <3>4 DEF List, SearchInv
  <2>4. CASE Try
    <3>1. PICK r \in Newest(Top.cands) \ Malformed :
            /\ stack' = [stack EXCEPT ![Len(stack)].cands = Untried(@, r)]
            /\ call' = Inner(Top.call, r)
      BY <2>4 DEF Try
    <3>2. Top \in Frames /\ Len(stack) \in 1..Len(stack)
      BY <2>0, <2>4, StackShape DEF Try, Top
    <3>3. r \in Top.cands /\ FrameInv(Top, rows, roots)
      BY <3>1, <3>2 DEF Newest, Top, SearchInv
    <3>4. Top.call \in Calls /\ Top.call.queue # <<>>
      BY <3>2 DEF Frames
    <3>5. CallInv(call', rows, roots)
      BY <2>0, <3>1, <3>3, <3>4, InnerCall DEF FrameInv
    <3> DEFINE g == [Top EXCEPT !.cands = Untried(@, r)]
    <3>6. stack' = [stack EXCEPT ![Len(stack)] = g]
      BY <2>0, <3>1, <3>2 DEF Top
    <3>7. g.call = Top.call /\ g.cands \subseteq Top.cands
      BY <3>2 DEF Frames, Untried
    <3> HIDE DEF g
    <3>8. FrameInv(g, rows, roots)
      BY <3>3, <3>7 DEF FrameInv
    <3>9. \A i \in 1..Len(stack') : FrameInv(stack'[i], rows, roots)
      BY <2>0, <3>2, <3>6, <3>8 DEF SearchInv
    <3> QED BY <2>4, <3>5, <3>9 DEF Try, SearchInv
  <2>5. CASE Exhausted
    <3>1. \A i \in 1..Len(Rest) : FrameInv(Rest[i], rows, roots)
      <4>1. Len(Rest) = Len(stack) - 1 /\ \A i \in 1..(Len(stack) - 1) : Rest[i] = stack[i]
        BY <2>0, <2>5, StackShape DEF Exhausted, Rest
      <4>2. \A i \in 1..(Len(stack) - 1) : i \in 1..Len(stack)
        BY <2>0
      <4> QED BY <4>1, <4>2 DEF SearchInv
    <3>2. stack' = Rest /\ rows' = rows /\ roots' = roots /\ call' = call
      BY <2>5 DEF Exhausted, Raise, GiveUp
    <3> QED BY <2>5, <3>1, <3>2 DEF Exhausted, Raise, GiveUp, SearchInv
  <2>6. CASE Solved
    BY <2>6 DEF Solved, SearchInv
  <2>7. CASE Insert
    <3>1. rows \subseteq rows' /\ roots' = roots /\ call' = call /\ stack' = stack
      BY <2>7 DEF Insert
    <3>2. CallInv(call, rows', roots)
      BY <3>1, CallGrows DEF SearchInv
    <3>3. \A i \in 1..Len(stack) : FrameInv(stack[i], rows', roots)
      BY <3>1, FrameGrows DEF SearchInv
    <3> QED BY <2>7, <3>1, <3>2, <3>3 DEF Insert, SearchInv
  <2>8. CASE UNCHANGED vars
    BY <2>8 DEF vars, SearchInv
  <2> QED BY <2>1, <2>2, <2>3, <2>4, <2>5, <2>6, <2>7, <2>8, <2>9 DEF Next, Search, Answered
<1> QED BY <1>1, SearchInit, TypeCorrect, PTL DEF Spec

-----------------------------------------------------------------------------
(* What the invariant says of an answer.                                   *)

(* With an empty queue, whatever was met is granted.                       *)
LEMMA MetIsGranted ==
  ASSUME NEW c \in Calls, NEW R, NEW rs, SolInv(c, R, rs), c.queue = <<>>,
         NEW ws \in Seq(Wishes), Met(ws, c)
  PROVE  AllGranted(ws, c.resolved)
<1> SUFFICES ASSUME NEW i \in 1..Len(ws) PROVE Granted(ws[i], c.resolved)
  BY DEF AllGranted
<1>1. ws[i] \in Wishes
  OBVIOUS
<1>2. ws[i].name \in Names /\ ws[i].wants \in c.constraints[ws[i].name]
  BY <1>1 DEF Met, Pending, Wishes
<1> QED BY <1>2 DEF SolInv, Granted

(* A lockfile is a solution of the pipeline's dependencies in the table:   *)
(* backtracking and rows that appear during the search leave no dependency *)
(* unmet.                                                                  *)
THEOREM LockfileIsSolutionHolds == Spec => []LockfileIsSolution
<1>1. TypeOK /\ SearchInv => LockfileIsSolution
  <2> SUFFICES ASSUME TypeOK, SearchInv, answer = "lockfile"
               PROVE  Lockfile \in Assignments(rows) /\ Solves(Lockfile)
    BY DEF LockfileIsSolution
  <2>1. call \in Calls /\ call.queue = <<>> /\ SolInv(call, rows, roots) /\ roots \in Seq(Wishes)
    BY RequestAssumption DEF TypeOK, SearchInv, CallInv
  <2>2. Lockfile \in Assignments(rows)
    BY <2>1 DEF Lockfile, Calls, SolInv, Assignments
  <2>3. AllGranted(roots, Lockfile)
    BY <2>1, MetIsGranted DEF Lockfile, SolInv
  <2>4. ASSUME NEW n \in Names, Lockfile[n] # NoRow PROVE AllGranted(Lockfile[n].deps, Lockfile)
    <3>1. call.resolved[n] \in rows /\ Met(call.resolved[n].deps, call)
      BY <2>1, <2>4 DEF Lockfile, SolInv
    <3>2. call.resolved[n].deps \in Seq(Wishes)
      BY <3>1, UploadedAssumption DEF TypeOK
    <3> QED BY <2>1, <3>1, <3>2, MetIsGranted DEF Lockfile
  <2> QED BY <2>2, <2>3, <2>4 DEF Solves
<1> QED BY <1>1, TypeCorrect, SearchInvHolds, PTL

(* What is chosen lies in the ranges that Means gives to plain terms.      *)
THEOREM ChosenInRangeHolds == Spec => []ChosenInRange
<1>1. ASSUME TypeOK, LockfileIsSolution PROVE ChosenInRange
  <2> SUFFICES ASSUME answer = "lockfile" PROVE ChosenInRange
    BY DEF ChosenInRange
  <2>1. ASSUME NEW ws \in Seq(Wishes), AllGranted(ws, Lockfile), NEW i \in 1..Len(ws)
        PROVE  InRange(ws[i], Lockfile)
    <3> SUFFICES ASSUME NEW t \in ws[i].wants, IsPlain(t), IsRelease(Lockfile[ws[i].name].version)
                 PROVE  Means(Lockfile[ws[i].name].version, t)
      BY DEF InRange
    <3> DEFINE r == Lockfile[ws[i].name]
    <3>1. ws[i] \in Wishes /\ Granted(ws[i], Lockfile)
      BY <2>1 DEF AllGranted
    <3>2. r \in Uploaded /\ t \in Terms
      BY <1>1, <3>1 DEF Granted, Wishes, TypeOK, Calls, Lockfile
    <3>3. r.version \in Versions /\ SatisfiesTerm(r.version, Parse(t))
      BY <3>1, <3>2, UploadedAssumption DEF Granted, Satisfies
    <3> QED BY <3>2, <3>3, TermsAreRanges
  <2>2. roots \in Seq(Wishes)
    BY <1>1, RequestAssumption DEF TypeOK
  <2>3. \A n \in Names : Lockfile[n] # NoRow => Lockfile[n].deps \in Seq(Wishes)
    BY <1>1, UploadedAssumption DEF TypeOK, Calls, Lockfile
  <2> QED BY <1>1, <2>1, <2>2, <2>3 DEF ChosenInRange, LockfileIsSolution, Solves
<1> QED BY <1>1, TypeCorrect, LockfileIsSolutionHolds, PTL

(* Nothing of an abandoned branch stays in a lockfile.                     *)
THEOREM NoStrayPackagesHolds == Spec => []NoStrayPackages
<1>1. SearchInv => NoStrayPackages
  BY DEF SearchInv, CallInv, StrayInv, NoStrayPackages, Closed, ClosedIn, Lockfile
<1> QED BY <1>1, SearchInvHolds, PTL

(* A cycle that is reported is a cycle of chosen versions.                 *)
THEOREM CycleIsRealHolds == Spec => []CycleIsReal
<1>1. ASSUME TypeOK, SearchInv PROVE CycleIsReal
  <2> SUFFICES ASSUME answer = "cycle" PROVE CycleIsReal
    BY DEF CycleIsReal
  <2> DEFINE p == First(call).path
  <2> DEFINE n == First(call).name
  <2>1. call \in Calls /\ call.queue # <<>> /\ call.queue \in Seq(Items)
    BY <1>1 DEF TypeOK, SearchInv, Calls
  <2>2. First(call) = call.queue[1] /\ First(call) \in Items /\ 1 \in 1..Len(call.queue)
    BY <2>1, FirstType
  <2>3. p \in Seq(Names) /\ Len(p) \in Nat
    BY <2>2 DEF Items
  <2>4. Chain(p, n, call.resolved) /\ \E i \in 1..Len(p) : p[i] = n
    BY <1>1, <2>2 DEF SearchInv, CallInv, PathInv, OnPath
  <2> DEFINE q == Append(p, n)
  <2> HIDE DEF p, n
  <2>5. Len(q) = Len(p) + 1 /\ q[Len(p) + 1] = n /\ \A i \in 1..Len(p) : q[i] = p[i]
    BY <2>3
  <2> HIDE DEF q
  <2>6. Len(q) - 1 = Len(p)
    BY <2>3, <2>5
  <2>7. ASSUME NEW i \in 1..Len(p)
        PROVE  call.resolved[q[i]] # NoRow /\ Needs(call.resolved[q[i]], q[i + 1])
    <3>1. q[i] = p[i] /\ q[i + 1] = IF i < Len(p) THEN p[i + 1] ELSE n
      BY <2>3, <2>5
    <3> QED BY <3>1, <2>4 DEF Chain
  <2>8. \E i \in 1..Len(p) : q[i] = q[Len(q)]
    BY <2>4, <2>5
  <2> QED BY <2>6, <2>7, <2>8 DEF CycleIsReal, Lockfile, p, n, q
<1> QED BY <1>1, TypeCorrect, SearchInvHolds, PTL

-----------------------------------------------------------------------------
(* The search loses no solution: as long as it has not answered, a         *)
(* solution of the table that the request found is among what the current  *)
(* call, or a candidate not yet tried, can still reach.                    *)

Fits(c, S) ==
  /\ \A n \in Names : c.resolved[n] # NoRow => S[n] = c.resolved[n]
  /\ AllGranted(c.queue, S)

Hope(S) ==
  \/ pc = "solve" /\ Fits(call, S)
  \/ \E i \in 1..Len(stack) :
       Fits(stack[i].call, S) /\ S[First(stack[i].call).name] \in stack[i].cands
  \/ answer \in {"lockfile", "cycle", "error"}

\* A solution that fits a call grants its head and fits the rest.
LEMMA FitsFirst ==
  ASSUME NEW c \in Calls, c.queue # <<>>, NEW S, Fits(c, S)
  PROVE  /\ First(c).name \in Names /\ Granted(First(c), S)
         /\ AllGranted(Tail(c.queue), S)
<1>1. c.queue \in Seq(Items) /\ Len(c.queue) \in Nat
  BY DEF Calls
<1>2. 1 \in 1..Len(c.queue) /\ \A k \in 1..(Len(c.queue) - 1) : k + 1 \in 1..Len(c.queue)
  BY <1>1
<1>3. First(c).name \in Names
  BY FirstType DEF Items
<1>4. AllGranted(Tail(c.queue), S)
  <2> SUFFICES ASSUME NEW k \in 1..(Len(c.queue) - 1) PROVE Granted(Tail(c.queue)[k], S)
    BY FirstType DEF AllGranted
  <2> QED BY <1>2, FirstType DEF Fits, AllGranted
<1> QED BY <1>2, <1>3, <1>4, FirstType DEF Fits, AllGranted

\* A step keeps the hope of a solution: some call on the stack still fits it.
LEMMA HopeStays ==
  ASSUME TypeOK, SearchInv, [Next]_vars, NEW S \in Assignments(found), Solves(S), Hope(S)
  PROVE  Hope(S)'
<1>0. /\ rows \in SUBSET Uploaded /\ found \subseteq rows /\ call \in Calls /\ stack \in Seq(Frames)
      /\ Len(stack) \in Nat
  BY DEF TypeOK
<1>1. CASE Cycle \/ Break
  BY <1>1 DEF Cycle, Break, Hope
<1>2. CASE Resolved
  <2>1. CASE Fits(call, S)
    <3>1. Serves(call)
      BY <2>1, <1>0, <1>2, FitsFirst DEF Resolved, Serves, Granted, Fits
    <3>2. Fits(Passed(call), S)
      BY <2>1, <1>0, <1>2, FitsFirst, PassedShape DEF Resolved, Fits
    <3> QED BY <1>2, <3>1, <3>2 DEF Resolved, Hope
  <2>2. CASE \E i \in 1..Len(stack) :
                Fits(stack[i].call, S) /\ S[First(stack[i].call).name] \in stack[i].cands
    BY <1>2, <2>2 DEF Resolved, Raise, Hope
  <2> QED BY <1>2, <2>1, <2>2 DEF Resolved, Hope, SearchInv
<1>3. CASE List
  <2> DEFINE f == [call |-> call, cands |-> Candidates(call)]
  <2>1. stack' = Append(stack, f)
    BY <1>3 DEF List
  <2>2. CASE Fits(call, S)
    <3>1. First(call).name \in Names /\ Granted(First(call), S)
      BY <2>2, <1>0, <1>3, FitsFirst DEF List
    <3>2. /\ S[First(call).name] \in rows /\ S[First(call).name].name = First(call).name
      BY <3>1, <1>0 DEF Granted, Assignments
    <3>3. \A w \in Noted(call)[First(call).name] : Satisfies(S[First(call).name].version, w)
      <4>1. call.constraints[First(call).name] = {}
        BY <1>3, <3>1 DEF SearchInv, CallInv, SolInv, List
      <4> QED BY <4>1, <1>0, <1>3, <3>1, NotedShape DEF Granted, List
    <3>4. f.call = call /\ S[First(call).name] \in f.cands
      BY <3>2, <3>3 DEF Candidates
    <3> HIDE DEF f
    <3>5. Len(stack') = Len(stack) + 1 /\ stack'[Len(stack) + 1] = f
      BY <1>0, <2>1
    <3>6. Len(stack) + 1 \in 1..Len(stack')
      BY <1>0, <3>5
    <3> QED BY <2>2, <3>4, <3>5, <3>6 DEF Hope
  <2>3. CASE \E i \in 1..Len(stack) :
                Fits(stack[i].call, S) /\ S[First(stack[i].call).name] \in stack[i].cands
    <3> HIDE DEF f
    <3>1. /\ \A i \in 1..Len(stack) : i \in 1..Len(stack') /\ stack'[i] = stack[i]
      BY <1>0, <2>1
    <3> QED BY <2>3, <3>1 DEF Hope
  <2> QED BY <1>3, <2>2, <2>3 DEF List, Hope, SearchInv
<1>4. CASE Try
  <2>1. PICK r \in Newest(Top.cands) \ Malformed :
          /\ stack' = [stack EXCEPT ![Len(stack)].cands = Untried(@, r)]
          /\ call' = Inner(Top.call, r)
    BY <1>4 DEF Try
  <2>2. Top \in Frames /\ Len(stack) \in 1..Len(stack) /\ Top = stack[Len(stack)]
    BY <1>0, <1>4, StackShape DEF Try, Top
  <2>3. FrameInv(Top, rows, roots) /\ r \in Top.cands
    BY <2>1, <2>2 DEF SearchInv, Newest
  <2>4. Top.call \in Calls /\ Top.call.queue # <<>> /\ r \in rows /\ r \in Uploaded
    BY <2>2, <2>3, <1>0 DEF Frames, FrameInv
  <2>5. PICK i \in 1..Len(stack) :
          Fits(stack[i].call, S) /\ S[First(stack[i].call).name] \in stack[i].cands
    BY <1>4 DEF Try, Hope, SearchInv
  <2>6. /\ Len(stack') = Len(stack)
        /\ \A j \in 1..Len(stack) : j # Len(stack) => stack'[j] = stack[j]
        /\ stack'[Len(stack)].call = Top.call /\ stack'[Len(stack)].cands = Top.cands \ {r}
    BY <1>0, <2>1, <2>2 DEF Frames, Untried
  <2>7. CASE i # Len(stack)
    BY <2>5, <2>6, <2>7 DEF Hope
  <2>8. CASE i = Len(stack) /\ S[First(Top.call).name] # r
    BY <2>2, <2>5, <2>6, <2>8 DEF Hope
  <2>9. CASE i = Len(stack) /\ S[First(Top.call).name] = r
    <3> DEFINE c == Top.call
    <3> DEFINE d == Inner(c, r)
    <3>1. Fits(c, S) /\ r.name = First(c).name /\ S[r.name] = r
      BY <2>2, <2>3, <2>5, <2>9 DEF FrameInv
    <3>2. /\ First(c).name \in Names /\ AllGranted(Tail(c.queue), S)
      BY <2>4, <3>1, FitsFirst
    <3>3. AllGranted(r.deps, S)
      BY <1>0, <2>4, <3>1, <3>2, UploadedAssumption DEF Solves
    <3>4. c.resolved \in [Names -> Uploaded \cup {NoRow}] /\ c.queue \in Seq(Items)
      BY <2>4 DEF Calls
    <3>5. \A n \in Names : d.resolved[n] # NoRow => S[n] = d.resolved[n]
      <4>1. d.resolved = [c.resolved EXCEPT ![r.name] = r]
        BY DEF Inner
      <4>2. \A n \in Names : n # r.name => d.resolved[n] = c.resolved[n]
        BY <3>4, <4>1
      <4> QED BY <3>1, <3>2, <3>4, <4>1, <4>2 DEF Fits
    <3>6. ASSUME NEW k \in 1..Len(d.queue) PROVE Granted(d.queue[k], S)
      <4>1. CASE /\ k \in 1..Len(r.deps) /\ d.queue[k].name = r.deps[k].name
                 /\ d.queue[k].wants = r.deps[k].wants
        BY <4>1, <3>3 DEF AllGranted, Granted
      <4>2. CASE \E j \in 2..Len(c.queue) : d.queue[k] = c.queue[j]
        BY <4>2, <3>1, <3>4 DEF Fits, AllGranted
      <4> QED BY <4>1, <4>2, <2>4, InnerEntry
    <3>7. Fits(d, S)
      BY <3>5, <3>6 DEF Fits, AllGranted
    <3> QED BY <1>4, <2>1, <3>7 DEF Try, Hope
  <2> QED BY <2>7, <2>8, <2>9
<1>5. CASE Exhausted
  <2>1. /\ stack' = Rest /\ Len(Rest) = Len(stack) - 1
        /\ \A i \in 1..(Len(stack) - 1) : Rest[i] = stack[i]
    BY <1>0, <1>5, StackShape DEF Exhausted, Raise, GiveUp, Rest
  <2>2. PICK i \in 1..Len(stack) :
          Fits(stack[i].call, S) /\ S[First(stack[i].call).name] \in stack[i].cands
    BY <1>5 DEF Exhausted, Hope, SearchInv
  <2>3. i # Len(stack)
    BY <1>5, <2>2 DEF Exhausted, Top
  <2>4. i \in 1..(Len(stack) - 1)
    BY <1>0, <2>2, <2>3
  <2>5. i \in 1..Len(stack') /\ stack'[i] = stack[i]
    BY <2>1, <2>4
  <2> QED BY <2>2, <2>5 DEF Hope
<1>6. CASE Solved
  BY <1>6 DEF Solved, Hope
<1>7. CASE Insert
  BY <1>7 DEF Insert, Hope
<1>8. CASE UNCHANGED vars
  BY <1>8 DEF vars, Hope
<1> QED BY <1>1, <1>2, <1>3, <1>4, <1>5, <1>6, <1>7, <1>8 DEF Next, Search, Answered

HopeInv == \A S \in Assignments(found) : Solves(S) => Hope(S)

\* Every solution among the rows the search has read so far fits the running call
\* or a candidate not yet tried, until the answer is given (resolver.py:270-322).
THEOREM HopeInvHolds == Spec => []HopeInv
<1>1. Init => HopeInv
  <2> SUFFICES ASSUME Init, NEW S \in Assignments(found), Solves(S) PROVE Hope(S)
    BY DEF HopeInv
  <2>1. roots \in Seq(Wishes) /\ <<>> \in Seq(Names)
    BY RequestAssumption DEF Init
  <2>2. call.queue = Entries(roots, <<>>) /\ \A n \in Names : call.resolved[n] = NoRow
    BY DEF Init
  <2>3. AllGranted(Entries(roots, <<>>), S)
    <3> DEFINE e == Entries(roots, <<>>)
    <3>1. /\ Len(e) = Len(roots)
          /\ \A i \in 1..Len(roots) : e[i].name = roots[i].name /\ e[i].wants = roots[i].wants
      BY <2>1, EntriesShape
    <3> HIDE DEF e
    <3>2. AllGranted(e, S)
      BY <3>1 DEF Solves, AllGranted, Granted
    <3> QED BY <3>2 DEF e
  <2> QED BY <2>2, <2>3 DEF Init, Hope, Fits
<1>2. TypeOK /\ SearchInv /\ HopeInv /\ [Next]_vars => HopeInv'
  <2> SUFFICES ASSUME TypeOK, SearchInv, HopeInv, [Next]_vars PROVE HopeInv'
    OBVIOUS
  <2>1. found' = found /\ roots' = roots
    BY DEF Next, Search, Cycle, Resolved, List, Try, Break, Exhausted, Solved, Insert, Answered, vars
  <2>2. ASSUME NEW S \in Assignments(found), Solves(S) PROVE Hope(S)'
    BY <2>2, HopeStays DEF HopeInv
  <2> QED BY <2>1, <2>2 DEF HopeInv, Assignments, Solves
<1> QED BY <1>1, <1>2, TypeCorrect, SearchInvHolds, PTL DEF Spec

(* A conflict is reported only when the table had no solution: backtracking *)
(* over every choice, with rows appearing meanwhile, is complete.          *)
THEOREM RefusalIsJustHolds == Spec => []RefusalIsJust
<1>1. SearchInv /\ HopeInv => RefusalIsJust
  BY DEF SearchInv, HopeInv, Hope, RefusalIsJust
<1> QED BY <1>1, SearchInvHolds, HopeInvHolds, PTL

-----------------------------------------------------------------------------
(* Why a lockfile has no cycle.  A package is under way while it is on the *)
(* path of the innermost entry, and finished when it is resolved and on no *)
(* path.  What is finished needs only what is finished; the search cannot  *)
(* tell this of a package that it passes over, but the order of the queue  *)
(* sees to it.                                                             *)

Prefix(a, b) == Len(a) <= Len(b) /\ \A i \in 1..Len(a) : a[i] = b[i]

Finished(S, p) == {n \in Names : S[n] # NoRow /\ \A i \in 1..Len(p) : p[i] # n}

Loop(P, S) == P # {} /\ \A n \in P : \E i \in 1..Len(S[n].deps) : S[n].deps[i].name \in P

(* The path p is at least as long as those of the queue q, each of which   *)
(* is the beginning of the one before; a package of the path needs what is *)
(* finished, what is further along the path, and what is still queued.     *)
Tree(q, S, p) ==
  /\ \A k \in 1..Len(q) : Prefix(q[k].path, p)
  /\ \A k, j \in 1..Len(q) : k < j => Prefix(q[j].path, q[k].path)
  /\ \A i \in 1..Len(p) : S[p[i]] # NoRow
  /\ \A i, k \in 1..Len(p) : p[i] = p[k] => i = k
  /\ \A n \in Finished(S, p) : \A i \in 1..Len(S[n].deps) : S[n].deps[i].name \in Finished(S, p)
  /\ \A P \in SUBSET Finished(S, p) : ~Loop(P, S)
  /\ \A i \in 1..Len(p) : \A j \in 1..Len(S[p[i]].deps) :
       \/ S[p[i]].deps[j].name \in Finished(S, p)
       \/ \E m \in 1..Len(p) : m > i /\ p[m] = S[p[i]].deps[j].name
       \/ \E k \in 1..Len(q) : q[k].name = S[p[i]].deps[j].name /\ Len(q[k].path) >= i

PathOf(q) == IF q = <<>> THEN <<>> ELSE q[1].path

TreeOf(c) == Tree(c.queue, c.resolved, PathOf(c.queue))

\* A set of indices has a greatest.
LEMMA Greatest ==
  ASSUME NEW n \in Nat, NEW I \in SUBSET (1..n), I # {}
  PROVE  \E i \in I : \A k \in I : k <= i
<1> DEFINE Below == {ss \in Nat \X Nat : ss[1] < ss[2]}
           Gaps == {n - i : i \in I}
<1>1. IsWellFoundedOn(Below, Nat)
  BY NatLessThanWellFounded DEF OpToRel
<1>2. \A i \in I : i \in Int /\ n - i \in Nat
  OBVIOUS
<1>3. Gaps \in SUBSET Nat /\ Gaps # {}
  BY <1>2
<1>4. PICK x \in Gaps : \A y \in Gaps : ~ (<<y, x>> \in Below)
  <2> HIDE DEF Gaps, Below
  <2> QED  BY <1>1, <1>3, WFMin
<1>5. PICK i \in I : x = n - i
  BY <1>4
<1>6. ASSUME NEW k \in I PROVE k <= i
  <2>1. n - k \in Gaps /\ n - k \in Nat /\ n - i \in Nat
    BY <1>2
  <2>2. ~ (n - k < n - i)
    BY <1>4, <1>5, <2>1
  <2> QED  BY <1>2, <2>2
<1> QED  BY <1>6

(* The packages at the end of a path that no entry has any more are        *)
(* finished, all at once.                                                  *)
LEMMA Shrink ==
  ASSUME NEW q, NEW S, NEW p \in Seq(Names), NEW p2 \in Seq(Names), Tree(q, S, p),
         Prefix(p2, p), \A k \in 1..Len(q) : Prefix(q[k].path, p2) /\ q[k].path \in Seq(Names)
  PROVE  Tree(q, S, p2)
<1> DEFINE F  == Finished(S, p)
           F2 == Finished(S, p2)
<1>1. Len(p) \in Nat /\ Len(p2) \in Nat /\ Len(p2) <= Len(p)
      /\ \A i \in 1..Len(p2) : i \in 1..Len(p) /\ p2[i] = p[i]
  BY DEF Prefix
<1>2. F \subseteq F2
  BY <1>1 DEF Finished
<1>3. \A i \in 1..Len(p) : p[i] \in Names /\ (i > Len(p2) => p[i] \in F2)
  <2> SUFFICES ASSUME NEW i \in 1..Len(p)
               PROVE  p[i] \in Names /\ (i > Len(p2) => p[i] \in F2)
    OBVIOUS
  <2>1. p[i] \in Names /\ S[p[i]] # NoRow
    BY DEF Tree
  <2>2. \A k \in 1..Len(p2) : p[i] = p2[k] => i = k
    BY <1>1 DEF Tree
  <2> QED  BY <1>1, <2>1, <2>2 DEF Finished
<1>4. \A n \in F2 : n \in F \/ \E i \in 1..Len(p) : i > Len(p2) /\ p[i] = n
  <2> SUFFICES ASSUME NEW n \in F2, n \notin F
               PROVE  \E i \in 1..Len(p) : i > Len(p2) /\ p[i] = n
    OBVIOUS
  <2>1. PICK i \in 1..Len(p) : p[i] = n
    BY DEF Finished
  <2>2. i \notin 1..Len(p2)
    BY <1>1, <2>1 DEF Finished
  <2> QED  BY <1>1, <2>1, <2>2
<1>5. \A k \in 1..Len(q) : Len(q[k].path) <= Len(p2) /\ Len(q[k].path) \in Nat
  BY DEF Prefix
\* What a package needs that has left the path: the finished, or further along.
<1>6. ASSUME NEW i \in 1..Len(p), i > Len(p2), NEW j \in 1..Len(S[p[i]].deps)
      PROVE  \/ S[p[i]].deps[j].name \in F
             \/ \E m \in 1..Len(p) : m > i /\ p[m] = S[p[i]].deps[j].name
  <2>1. ~ \E k \in 1..Len(q) : Len(q[k].path) >= i
    BY <1>1, <1>5, <1>6
  <2> QED  BY <2>1 DEF Tree
<1>7. ASSUME NEW n \in F2, NEW j \in 1..Len(S[n].deps) PROVE S[n].deps[j].name \in F2
  <2>1. CASE n \in F
    BY <1>2, <1>7, <2>1 DEF Tree
  <2>2. CASE \E i \in 1..Len(p) : i > Len(p2) /\ p[i] = n
    <3>1. PICK i \in 1..Len(p) : i > Len(p2) /\ p[i] = n
      BY <2>2
    <3>2. ASSUME NEW m \in 1..Len(p), m > i, p[m] = S[n].deps[j].name PROVE S[n].deps[j].name \in F2
      BY <1>1, <1>3, <3>1, <3>2
    <3> QED  BY <1>2, <1>6, <3>1, <3>2
  <2> QED  BY <1>4, <2>1, <2>2
<1>8. ASSUME NEW P \in SUBSET F2, Loop(P, S) PROVE FALSE
  <2>1. P \cap F = {}
    <3> SUFFICES ASSUME P \cap F # {} PROVE FALSE
      OBVIOUS
    <3>1. ASSUME NEW n \in P \cap F
          PROVE  \E i \in 1..Len(S[n].deps) : S[n].deps[i].name \in P \cap F
      BY <1>8 DEF Loop, Tree
    <3>2. Loop(P \cap F, S)
      BY <3>1 DEF Loop
    <3> QED  BY <3>2 DEF Tree
  <2> DEFINE I == {i \in 1..Len(p) : p[i] \in P}
  <2>2. I # {}
    BY <1>4, <1>8, <2>1 DEF Loop
  <2>3. PICK i \in I : \A k \in I : k <= i
    <3> HIDE DEF I
    <3> QED  BY <1>1, <2>2, Greatest DEF I
  <2>4. i \in 1..Len(p) /\ p[i] \in P /\ p[i] \notin F
    BY <2>1
  <2>5. i > Len(p2)
    BY <1>1, <2>4 DEF Finished
  <2>6. PICK j \in 1..Len(S[p[i]].deps) : S[p[i]].deps[j].name \in P
    BY <1>8, <2>4 DEF Loop
  <2>7. PICK m \in 1..Len(p) : m > i /\ p[m] = S[p[i]].deps[j].name
    BY <1>6, <2>1, <2>4, <2>5, <2>6
  <2>8. m \in I /\ m \in Int /\ i \in Int
    BY <2>4, <2>6, <2>7
  <2> QED  BY <2>3, <2>7, <2>8
<1>9. ASSUME NEW i \in 1..Len(p2), NEW j \in 1..Len(S[p2[i]].deps)
      PROVE  \/ S[p2[i]].deps[j].name \in F2
             \/ \E m \in 1..Len(p2) : m > i /\ p2[m] = S[p2[i]].deps[j].name
             \/ \E k \in 1..Len(q) : q[k].name = S[p2[i]].deps[j].name /\ Len(q[k].path) >= i
  <2>1. p2[i] = p[i] /\ i \in 1..Len(p)
    BY <1>1
  <2>2. ASSUME NEW m \in 1..Len(p), m > i, p[m] = S[p2[i]].deps[j].name
        PROVE  \/ S[p2[i]].deps[j].name \in F2
               \/ \E l \in 1..Len(p2) : l > i /\ p2[l] = S[p2[i]].deps[j].name
    <3>1. CASE m \in 1..Len(p2)
      BY <1>1, <2>2, <3>1
    <3>2. CASE m > Len(p2)
      BY <1>3, <2>2, <3>2
    <3> QED  BY <1>1, <3>1, <3>2
  <2> DEFINE d == S[p[i]].deps[j].name
  <2>3. j \in 1..Len(S[p[i]].deps) /\ d = S[p2[i]].deps[j].name
    BY <2>1
  <2>4. \/ d \in F \/ (\E m \in 1..Len(p) : m > i /\ p[m] = d)
        \/ \E k \in 1..Len(q) : q[k].name = d /\ Len(q[k].path) >= i
    BY <2>1, <2>3 DEF Tree
  <2> HIDE DEF d, F, F2
  <2> QED  BY <1>2, <2>2, <2>3, <2>4
<1>10. /\ \A i \in 1..Len(p2) : S[p2[i]] # NoRow
       /\ \A i, k \in 1..Len(p2) : p2[i] = p2[k] => i = k
  BY <1>1 DEF Tree
<1> HIDE DEF F, F2
<1>11. \A k, j \in 1..Len(q) : k < j => Prefix(q[j].path, q[k].path)
  BY DEF Tree
<1> QED  BY <1>7, <1>8, <1>9, <1>10, <1>11 DEF Tree, F2

\* What the rules below need of a queue: types.
LEMMA PathType ==
  ASSUME NEW q \in Seq(Items)
  PROVE  /\ PathOf(q) \in Seq(Names) /\ \A k \in 1..Len(q) : q[k].path \in Seq(Names)
         /\ \A k \in 1..Len(q) : Len(q[k].path) \in Nat
<1>1. \A k \in 1..Len(q) : q[k] \in Items
  OBVIOUS
<1>2. \A k \in 1..Len(q) : q[k].path \in Seq(Names)
  BY <1>1 DEF Items
<1> QED  BY <1>2 DEF PathOf

\* The paths of a queue are beginnings of the first.
LEMMA FirstIsLongest ==
  ASSUME NEW q \in Seq(Items), \A k, j \in 1..Len(q) : k < j => Prefix(q[j].path, q[k].path)
  PROVE  \A k \in 1..Len(q) : Prefix(q[k].path, PathOf(q))
<1> SUFFICES ASSUME NEW k \in 1..Len(q) PROVE Prefix(q[k].path, q[1].path)
  BY DEF PathOf
<1>1. CASE k = 1
  BY <1>1, PathType DEF Prefix
<1>2. CASE k # 1
  BY <1>2
<1> QED  BY <1>1, <1>2

\* It is enough to find any path for a queue that fits.
LEMMA TreeOfQueue ==
  ASSUME NEW c \in Calls, NEW p \in Seq(Names), Tree(c.queue, c.resolved, p)
  PROVE  TreeOf(c)
<1> DEFINE q == c.queue
<1>1. q \in Seq(Items)
  BY DEF Calls
<1>2. \A k \in 1..Len(q) : Prefix(q[k].path, PathOf(q)) /\ q[k].path \in Seq(Names)
  BY <1>1, FirstIsLongest, PathType DEF Tree
<1>3. Prefix(PathOf(q), p) /\ PathOf(q) \in Seq(Names)
  <2>1. q # <<>> => 1 \in 1..Len(q)
    BY <1>1
  <2>2. Prefix(<<>>, p)
    BY DEF Prefix
  <2> QED  BY <1>1, <2>1, <2>2, PathType DEF PathOf, Tree
<1> HIDE DEF q
<1> QED  BY <1>2, <1>3, Shrink DEF TreeOf, q

(* A package that is passed over is finished: it is resolved, and the      *)
(* check for a cycle has found it on no path.                              *)
LEMMA PassedTree ==
  ASSUME NEW c \in Calls, c.queue # <<>>, TreeOf(c), ~OnPath(c), c.resolved[First(c).name] # NoRow
  PROVE  TreeOf(Passed(c))
<1> DEFINE q == c.queue
           S == c.resolved
           p == First(c).path
           t == Tail(q)
<1>1. q \in Seq(Items) /\ Passed(c) \in Calls /\ Passed(c).queue = t /\ Passed(c).resolved = S
  BY PassedShape DEF Calls
<1>2. /\ t \in Seq(Items) /\ Len(t) = Len(q) - 1 /\ Len(q) \in Nat \ {0}
      /\ \A k \in 1..Len(t) : t[k] = q[k + 1] /\ k + 1 \in 1..Len(q)
  BY <1>1, FirstType
<1>3. p = PathOf(q) /\ p \in Seq(Names) /\ First(c) = q[1]
  BY <1>1, FirstType, PathType DEF PathOf
<1>4. First(c).name \in Finished(S, p)
  BY NotedShape DEF Finished, OnPath
<1>5. Tree(q, S, p)
  BY <1>3 DEF TreeOf
<1> HIDE DEF q, S, p, t
<1>6. ASSUME NEW i \in 1..Len(p), NEW j \in 1..Len(S[p[i]].deps),
             S[p[i]].deps[j].name \notin Finished(S, p),
             ~ \E m \in 1..Len(p) : m > i /\ p[m] = S[p[i]].deps[j].name
      PROVE  \E k \in 1..Len(t) : t[k].name = S[p[i]].deps[j].name /\ Len(t[k].path) >= i
  <2>1. PICK k \in 1..Len(q) : q[k].name = S[p[i]].deps[j].name /\ Len(q[k].path) >= i
    BY <1>5, <1>6 DEF Tree
  <2>2. k # 1
    BY <1>3, <1>4, <1>6, <2>1
  <2>3. k - 1 \in 1..Len(t) /\ t[k - 1] = q[k]
    BY <1>2, <2>2
  <2> QED  BY <2>1, <2>3
<1>7. /\ \A k \in 1..Len(t) : Prefix(t[k].path, p)
      /\ \A k, j \in 1..Len(t) : k < j => Prefix(t[j].path, t[k].path)
  <2>1. \A k, j \in 1..Len(t) : k < j => k + 1 < j + 1
    OBVIOUS
  <2> QED  BY <1>2, <1>5, <2>1 DEF Tree
<1>8. Tree(t, S, p)
  BY <1>5, <1>6, <1>7 DEF Tree
<1> QED  BY <1>1, <1>3, <1>8, TreeOfQueue

(* A candidate is at the end of the path, with all its dependencies still  *)
(* queued, or, if it has none, is finished at once.                        *)
LEMMA InnerTree ==
  ASSUME NEW c \in Calls, c.queue # <<>>, TreeOf(c), c.resolved[First(c).name] = NoRow,
         NEW r \in Uploaded, r.name = First(c).name
  PROVE  TreeOf(Inner(c, r))
<1> DEFINE q  == c.queue
           S  == c.resolved
           p  == First(c).path
           q2 == Inner(c, r).queue
           S2 == Inner(c, r).resolved
           p2 == Append(p, r.name)
           n  == Len(r.deps)
<1>a. q \in Seq(Items) /\ S \in [Names -> Uploaded \cup {NoRow}]
  BY DEF Calls
<1>b. r.name \in Names /\ r.deps \in Seq(Wishes) /\ r # NoRow
  BY UploadedAssumption
<1>c. n \in Nat
  BY <1>b
<1>d. Inner(c, r) \in Calls
  BY InnerShape
<1>1. /\ q \in Seq(Items) /\ S \in [Names -> Uploaded \cup {NoRow}]
      /\ r.name \in Names /\ r.deps \in Seq(Wishes) /\ r # NoRow /\ n \in Nat
      /\ Inner(c, r) \in Calls
  BY <1>a, <1>b, <1>c, <1>d
<1>2. p = PathOf(q) /\ p \in Seq(Names) /\ First(c) = q[1] /\ Len(p) \in Nat
  BY <1>1, FirstType, PathType DEF PathOf
<1>3. Tree(q, S, p)
  BY <1>2 DEF TreeOf
<1>4. p2 \in Seq(Names) /\ Len(p2) = Len(p) + 1 /\ p2[Len(p) + 1] = r.name
      /\ \A i \in 1..Len(p) : p2[i] = p[i]
  BY <1>1, <1>2
<1>5. S2[r.name] = r /\ S[r.name] = NoRow /\ \A m \in Names : m # r.name => S2[m] = S[m]
  BY <1>1, InnerShape
<1>6. Len(q) \in Nat \ {0} /\ Len(q2) = n + Len(q) - 1
  <2>1. Len(q) \in Nat \ {0}
    BY <1>a
  <2>2. Len(q2) = n + Len(q) - 1
    BY InnerShape
  <2> QED  BY <2>1, <2>2
<1>7. \A k \in 1..n : q2[k].name = r.deps[k].name /\ q2[k].path = p2
  BY InnerShape
<1>8. \A k \in 2..Len(q) : q2[n + k - 1] = q[k]
  BY InnerShape
<1> HIDE DEF q, S, p, q2, S2, p2, n
<1>9. \A i \in 1..Len(p) : p[i] \in Names /\ p[i] # r.name /\ S2[p[i]] = S[p[i]] /\ S[p[i]] # NoRow
  BY <1>2, <1>3, <1>5 DEF Tree
<1>10. Finished(S2, p2) = Finished(S, p)
  <2>1. \A m \in Names : m # r.name => (m \in Finished(S2, p2) <=> m \in Finished(S, p))
    BY <1>2, <1>4, <1>5 DEF Finished
  <2>2. r.name \notin Finished(S, p)
    BY <1>5 DEF Finished
  <2>3. r.name \notin Finished(S2, p2)
    BY <1>2, <1>4 DEF Finished
  <2>4. Finished(S, p) \subseteq Names /\ Finished(S2, p2) \subseteq Names
    BY DEF Finished
  <2> QED  BY <2>1, <2>2, <2>3, <2>4
<1>11. \A m \in Finished(S, p) : S2[m] = S[m]
  BY <1>5 DEF Finished
<1>12. \A k \in 1..Len(q2) : (k \in 1..n) \/ (k - n + 1 \in 2..Len(q) /\ q2[k] = q[k - n + 1] /\ k > n)
  <2> SUFFICES ASSUME NEW k \in 1..Len(q2), k \notin 1..n
               PROVE  k - n + 1 \in 2..Len(q) /\ q2[k] = q[k - n + 1] /\ k > n
    OBVIOUS
  <2>1. k > n /\ k - n + 1 \in 2..Len(q)
    BY <1>1, <1>6
  <2>2. n + (k - n + 1) - 1 = k
    BY <1>1
  <2> QED  BY <1>8, <2>1, <2>2
<1>13. \A k \in 2..Len(q) : Prefix(q[k].path, p2) /\ Len(q[k].path) \in Nat
  <2> SUFFICES ASSUME NEW k \in 2..Len(q) PROVE Prefix(q[k].path, p2) /\ Len(q[k].path) \in Nat
    OBVIOUS
  <2>1. Prefix(q[k].path, p) /\ Len(q[k].path) \in Nat
    BY <1>1, <1>3, PathType DEF Tree
  <2> QED  BY <1>2, <1>4, <2>1 DEF Prefix
<1>14. Prefix(p2, p2)
  BY <1>4, <1>2 DEF Prefix
<1>15. \A k \in 1..Len(q2) : Prefix(q2[k].path, p2)
  BY <1>7, <1>12, <1>13, <1>14
<1>16. ASSUME NEW k \in 1..Len(q2), NEW j \in 1..Len(q2), k < j
       PROVE  Prefix(q2[j].path, q2[k].path)
  <2>1. CASE k \in 1..n
    BY <1>7, <1>15, <2>1
  <2>2. CASE k \notin 1..n
    <3>1. k > n /\ k - n + 1 \in 2..Len(q) /\ q2[k] = q[k - n + 1]
      BY <1>12, <2>2
    <3>2. j \notin 1..n
      BY <1>1, <1>16, <3>1
    <3>3. j - n + 1 \in 2..Len(q) /\ q2[j] = q[j - n + 1]
      BY <1>12, <3>2
    <3>4. k - n + 1 < j - n + 1 /\ k - n + 1 \in 1..Len(q) /\ j - n + 1 \in 1..Len(q)
      BY <1>1, <1>6, <1>16, <3>1, <3>3
    <3> QED  BY <1>3, <3>1, <3>3, <3>4 DEF Tree
  <2> QED  BY <2>1, <2>2
<1>17. \A i \in 1..Len(p2) : i \in 1..Len(p) \/ i = Len(p) + 1
  BY <1>2, <1>4
<1>18. /\ \A i \in 1..Len(p2) : S2[p2[i]] # NoRow
       /\ \A i, k \in 1..Len(p2) : p2[i] = p2[k] => i = k
  <2>1. \A i, k \in 1..Len(p) : p[i] = p[k] => i = k
    BY <1>3 DEF Tree
  <2>2. \A i \in 1..Len(p) : p2[i] = p[i] /\ p[i] # r.name /\ S2[p[i]] # NoRow
    BY <1>4, <1>9
  <2>3. \A i \in 1..Len(p2) : S2[p2[i]] # NoRow
    BY <1>1, <1>4, <1>5, <1>17, <2>2
  <2>4. ASSUME NEW i \in 1..Len(p2), NEW k \in 1..Len(p2), p2[i] = p2[k] PROVE i = k
    <3>1. CASE i \in 1..Len(p) /\ k \in 1..Len(p)
      BY <2>1, <2>2, <2>4, <3>1
    <3>2. CASE i \in 1..Len(p) /\ k = Len(p) + 1
      BY <1>4, <2>2, <2>4, <3>2
    <3>3. CASE i = Len(p) + 1 /\ k \in 1..Len(p)
      BY <1>4, <2>2, <2>4, <3>3
    <3> QED  BY <1>17, <3>1, <3>2, <3>3
  <2> QED  BY <2>3, <2>4
<1>19. /\ \A m \in Finished(S, p) : \A i \in 1..Len(S2[m].deps) : S2[m].deps[i].name \in Finished(S, p)
       /\ \A P \in SUBSET Finished(S, p) : ~Loop(P, S2)
  <2>1. ASSUME NEW P \in SUBSET Finished(S, p), Loop(P, S2) PROVE Loop(P, S)
    BY <1>11, <2>1 DEF Loop
  <2> QED  BY <1>3, <1>11, <2>1 DEF Tree
<1>20. ASSUME NEW i \in 1..Len(p2), NEW j \in 1..Len(S2[p2[i]].deps)
       PROVE  \/ S2[p2[i]].deps[j].name \in Finished(S, p)
              \/ \E m \in 1..Len(p2) : m > i /\ p2[m] = S2[p2[i]].deps[j].name
              \/ \E k \in 1..Len(q2) : q2[k].name = S2[p2[i]].deps[j].name /\ Len(q2[k].path) >= i
  <2> DEFINE d == S2[p2[i]].deps[j].name
  <2>1. CASE i = Len(p) + 1
    <3>1. j \in 1..n /\ d = r.deps[j].name
      BY <1>4, <1>5, <2>1 DEF n
    <3>2. j \in 1..Len(q2)
      BY <1>1, <1>6, <3>1
    <3>3. Len(q2[j].path) >= i /\ q2[j].name = d
      BY <1>2, <1>4, <1>7, <2>1, <3>1
    <3> QED  BY <3>2, <3>3
  <2>2. CASE i \in 1..Len(p)
    <3>1. p2[i] = p[i] /\ S2[p2[i]] = S[p[i]] /\ d = S[p[i]].deps[j].name /\ j \in 1..Len(S[p[i]].deps)
      BY <1>4, <1>9, <2>2
    <3>2. \/ d \in Finished(S, p) \/ (\E m \in 1..Len(p) : m > i /\ p[m] = d)
          \/ \E k \in 1..Len(q) : q[k].name = d /\ Len(q[k].path) >= i
      BY <1>3, <2>2, <3>1 DEF Tree
    <3>3. ASSUME NEW m \in 1..Len(p), m > i, p[m] = d PROVE \E l \in 1..Len(p2) : l > i /\ p2[l] = d
      BY <1>2, <1>4, <3>3
    <3>4. ASSUME NEW k \in 1..Len(q), q[k].name = d, Len(q[k].path) >= i
          PROVE  \/ \E l \in 1..Len(p2) : l > i /\ p2[l] = d
                 \/ \E l \in 1..Len(q2) : q2[l].name = d /\ Len(q2[l].path) >= i
      <4>1. CASE k = 1
        <5>1. d = r.name
          BY <1>2, <3>4, <4>1
        <5>2. Len(p) + 1 \in 1..Len(p2) /\ Len(p) + 1 > i
          BY <1>2, <1>4, <2>2
        <5> QED  BY <1>4, <5>1, <5>2
      <4>2. CASE k # 1
        <5>1. k \in 2..Len(q) /\ n + k - 1 \in 1..Len(q2)
          BY <1>1, <1>6, <4>2
        <5>2. q2[n + k - 1] = q[k]
          BY <1>8, <5>1
        <5> QED  BY <3>4, <5>1, <5>2
      <4> QED  BY <4>1, <4>2
    <3> HIDE DEF d
    <3>5. \/ d \in Finished(S, p) \/ (\E m \in 1..Len(p2) : m > i /\ p2[m] = d)
          \/ \E k \in 1..Len(q2) : q2[k].name = d /\ Len(q2[k].path) >= i
      BY <3>2, <3>3, <3>4
    <3> QED  BY <3>5 DEF d
  <2> QED  BY <1>17, <2>1, <2>2
<1>21. Tree(q2, S2, p2)
  BY <1>10, <1>15, <1>16, <1>18, <1>19, <1>20 DEF Tree
<1> QED  BY <1>1, <1>4, <1>21, TreeOfQueue DEF q2, S2

TreeInv == TreeOf(call) /\ \A i \in 1..Len(stack) : TreeOf(stack[i].call)

\* The first call: nothing is resolved and every path is empty.
LEMMA TreeInit == ASSUME Init PROVE TreeInv
<1>1. roots \in Seq(Wishes) /\ <<>> \in Seq(Names)
  BY RequestAssumption DEF Init
<1>2. call.queue = Entries(roots, <<>>) /\ \A n \in Names : call.resolved[n] = NoRow
  BY DEF Init
<1> DEFINE q == Entries(roots, <<>>)
<1>3. q \in Seq(Items) /\ Len(q) = Len(roots) /\ \A i \in 1..Len(roots) : q[i].path = <<>>
  BY <1>1, EntriesShape
<1> HIDE DEF q
<1>4. Finished(call.resolved, <<>>) = {}
  BY <1>2 DEF Finished
<1>5. Prefix(<<>>, <<>>)
  BY DEF Prefix
<1>6. Tree(q, call.resolved, <<>>)
  BY <1>3, <1>4, <1>5 DEF Tree, Loop
<1>7. PathOf(q) = <<>>
  <2>1. q # <<>> => 1 \in 1..Len(q)
    BY <1>3
  <2> QED  BY <1>3, <2>1 DEF PathOf
<1> QED  BY <1>2, <1>6, <1>7 DEF TreeInv, TreeOf, Init, q

\* Every call of the search keeps the order that rules out cycles.
LEMMA TreeStep == ASSUME TypeOK, SearchInv, TreeInv, [Next]_vars PROVE TreeInv'
<1>0. call \in Calls /\ stack \in Seq(Frames)
  BY DEF TypeOK
<1>1. CASE UNCHANGED <<call, stack>>
  BY <1>1 DEF TreeInv
<1>2. CASE Resolved
  <2>1. CASE Serves(call)
    <3>1. TreeOf(Passed(call))
      BY <1>0, <1>2, PassedTree DEF Resolved, TreeInv
    <3> QED  BY <1>2, <2>1, <3>1 DEF Resolved, TreeInv
  <2>2. CASE ~Serves(call)
    BY <1>1, <1>2, <2>2 DEF Resolved, Raise
  <2> QED  BY <2>1, <2>2
<1>3. CASE List
  <2> DEFINE f == [call |-> call, cands |-> Candidates(call)]
  <2>1. stack' = Append(stack, f) /\ call' = call /\ f.call = call
    BY <1>3 DEF List
  <2> HIDE DEF f
  <2>2. \A i \in 1..Len(stack') : TreeOf(stack'[i].call)
    BY <1>0, <2>1 DEF TreeInv
  <2> QED  BY <2>1, <2>2 DEF TreeInv
<1>4. CASE Try
  <2>1. PICK r \in Newest(Top.cands) \ Malformed :
          /\ stack' = [stack EXCEPT ![Len(stack)].cands = Untried(@, r)]
          /\ call' = Inner(Top.call, r)
    BY <1>4 DEF Try
  <2>2. Top \in Frames /\ Len(stack) \in 1..Len(stack)
    BY <1>0, <1>4, StackShape DEF Try, Top
  <2>3. r \in Top.cands /\ FrameInv(Top, rows, roots) /\ TreeOf(Top.call)
    BY <2>1, <2>2 DEF Newest, Top, SearchInv, TreeInv
  <2>4. Top.call \in Calls /\ Top.call.queue # <<>> /\ r \in Uploaded
    BY <2>2, <2>3 DEF Frames
  <2>5. TreeOf(call')
    BY <2>1, <2>3, <2>4, InnerTree DEF FrameInv
  <2>6. \A i \in 1..Len(stack') : i \in 1..Len(stack) /\ stack'[i].call = stack[i].call
    BY <1>0, <2>1, <2>2 DEF Frames
  <2> QED  BY <2>5, <2>6 DEF TreeInv
<1>5. CASE Exhausted
  <2>1. Len(Rest) = Len(stack) - 1 /\ \A i \in 1..(Len(stack) - 1) : Rest[i] = stack[i]
    BY <1>0, <1>5, StackShape DEF Exhausted, Rest
  <2>2. \A i \in 1..(Len(stack) - 1) : i \in 1..Len(stack)
    BY <1>0
  <2>3. stack' = Rest /\ call' = call
    BY <1>5 DEF Exhausted, Raise, GiveUp
  <2> QED  BY <2>1, <2>2, <2>3 DEF TreeInv
<1> QED
  BY <1>1, <1>2, <1>3, <1>4, <1>5 DEF Next, Search, Answered, Break, Cycle, Solved, Insert, vars

\* Every call of the search, running or suspended, keeps to this order.
THEOREM TreeInvHolds == Spec => []TreeInv
<1>1. Init => TreeInv
  BY TreeInit
<1>2. TypeOK /\ SearchInv /\ TreeInv /\ [Next]_vars => TreeInv'
  BY TreeStep
<1> QED  BY <1>1, <1>2, TypeCorrect, SearchInvHolds, PTL DEF Spec

(* No package of a lockfile needs itself through others: the check of one  *)
(* path at a time misses no cycle.                                         *)
THEOREM LockfileAcyclicHolds == Spec => []LockfileAcyclic
<1>1. SearchInv /\ TreeInv => LockfileAcyclic
  <2> SUFFICES ASSUME SearchInv, TreeInv, answer = "lockfile", NEW P \in SUBSET Names, P # {},
                      \A n \in P : /\ Lockfile[n] # NoRow
                                   /\ \E i \in 1..Len(Lockfile[n].deps) : Lockfile[n].deps[i].name \in P
               PROVE  FALSE
    BY DEF LockfileAcyclic
  <2>1. Tree(<<>>, Lockfile, <<>>)
    BY DEF SearchInv, TreeInv, TreeOf, PathOf, Lockfile
  <2>2. P \subseteq Finished(Lockfile, <<>>)
    BY DEF Finished
  <2>3. Loop(P, Lockfile)
    BY DEF Loop
  <2> QED  BY <2>1, <2>2, <2>3 DEF Tree
<1> QED  BY <1>1, SearchInvHolds, TreeInvHolds, PTL

-----------------------------------------------------------------------------
(* The pipeline's first dependency is chosen in the outermost call.  When  *)
(* one of its candidates is tried, a solution that there is still can be   *)
(* reached, so its choice is among the candidates and not newer.           *)

FirstName == roots[1].name
NotOlder(c, S) ==
  c.resolved[FirstName] # NoRow /\ ~Before(c.resolved[FirstName].version, S[FirstName].version)

NoNewer(S) ==
  /\ stack = <<>> /\ answer # "conflict" =>
       call.queue # <<>> /\ First(call).name = FirstName /\ call.resolved[FirstName] = NoRow
  /\ stack # <<>> => First(stack[1].call).name = FirstName
  /\ \A i \in 2..Len(stack) : NotOlder(stack[i].call, S)
  /\ stack # <<>> /\ (pc = "solve" \/ answer = "lockfile") => NotOlder(call, S)

LEMMA NoNewerStays ==
  ASSUME TypeOK, SearchInv, [Next]_vars, roots # <<>>,
         NEW S \in Assignments(found), Hope(S), NoNewer(S)
  PROVE  NoNewer(S)'
<1>0. /\ call \in Calls /\ stack \in Seq(Frames) /\ Len(stack) \in Nat
      /\ FirstName \in Names
  <2>1. roots \in Seq(Wishes)
    BY RequestAssumption DEF TypeOK
  <2>2. roots[1] \in Wishes
    BY <2>1
  <2> QED  BY <2>2 DEF TypeOK, FirstName, Wishes
<1>1. roots' = roots /\ FirstName' = FirstName
  BY DEF Next, Search, Cycle, Resolved, List, Try, Break, Exhausted, Solved, Insert, Answered, vars, FirstName
<1>2. \A c : NotOlder(c, S)' <=> NotOlder(c, S)
  BY <1>1 DEF NotOlder
<1>3. CASE Cycle \/ Break
  BY <1>1, <1>3 DEF Cycle, Break, NoNewer, NotOlder, First, SearchInv
<1>4. CASE Resolved
  <2>1. stack # <<>>
    BY <1>4 DEF Resolved, NoNewer, SearchInv
  <2>2. CASE Serves(call)
    <3>1. Passed(call).resolved = call.resolved
      BY <1>0, <1>4, PassedShape DEF Resolved
    <3> QED  BY <1>1, <1>4, <2>1, <2>2, <3>1 DEF Resolved, NoNewer, NotOlder
  <2>3. CASE ~Serves(call)
    BY <1>1, <1>4, <2>1, <2>3 DEF Resolved, Raise, NoNewer, NotOlder, SearchInv
  <2> QED  BY <2>2, <2>3
<1>5. CASE List
  <2> DEFINE f == [call |-> call, cands |-> Candidates(call)]
  <2>1. stack' = Append(stack, f) /\ f.call = call /\ call' = call /\ pc' = "try" /\ answer' = "none"
    BY <1>5 DEF List, SearchInv
  <2> HIDE DEF f
  <2>2. /\ Len(stack') = Len(stack) + 1 /\ stack'[Len(stack) + 1] = f /\ stack' # <<>>
        /\ \A i \in 1..Len(stack) : stack'[i] = stack[i]
    BY <1>0, <2>1
  <2>3. CASE stack = <<>>
    <3>1. Len(stack) = 0 /\ stack'[1].call = call
      BY <2>1, <2>2, <2>3
    <3>2. First(call).name = FirstName
      BY <1>5, <2>3 DEF List, NoNewer, SearchInv
    <3> QED  BY <1>1, <2>1, <2>2, <3>1, <3>2 DEF NoNewer, First
  <2>4. CASE stack # <<>>
    <3>1. 1 \in 1..Len(stack) /\ NotOlder(call, S)
      BY <1>0, <1>5, <2>4 DEF List, NoNewer
    <3>2. \A i \in 2..Len(stack') : NotOlder(stack'[i].call, S)
      <4> SUFFICES ASSUME NEW i \in 2..Len(stack') PROVE NotOlder(stack'[i].call, S)
        OBVIOUS
      <4>1. CASE i = Len(stack) + 1
        BY <2>1, <2>2, <3>1, <4>1
      <4>2. CASE i \in 2..Len(stack)
        BY <2>2, <4>2 DEF NoNewer
      <4> QED  BY <1>0, <2>2, <4>1, <4>2
    <3>3. First(stack'[1].call).name = FirstName
      BY <2>2, <2>4, <3>1 DEF NoNewer
    <3> QED  BY <1>1, <2>1, <2>2, <3>2, <3>3 DEF NoNewer, NotOlder, First
  <2> QED  BY <2>3, <2>4
<1>6. CASE Try
  <2>1. PICK r \in Newest(Top.cands) \ Malformed :
          /\ stack' = [stack EXCEPT ![Len(stack)].cands = Untried(@, r)]
          /\ call' = Inner(Top.call, r)
    BY <1>6 DEF Try
  <2>2. Top \in Frames /\ Len(stack) \in 1..Len(stack) /\ Top = stack[Len(stack)] /\ stack # <<>>
    BY <1>0, <1>6, StackShape DEF Try, Top
  <2>3. FrameInv(Top, rows, roots) /\ r \in Top.cands
    BY <2>1, <2>2 DEF SearchInv, Newest
  <2>4. /\ Top.call \in Calls /\ Top.call.queue # <<>> /\ r \in Uploaded
        /\ r.name = First(Top.call).name /\ r.name \in Names /\ r # NoRow
        /\ Top.call.resolved[First(Top.call).name] = NoRow
    BY <2>2, <2>3, UploadedAssumption DEF Frames, FrameInv
  <2>5. call'.resolved = [Top.call.resolved EXCEPT ![r.name] = r]
        /\ Top.call.resolved \in [Names -> Uploaded \cup {NoRow}]
    BY <2>1, <2>4, InnerShape DEF Calls
  <2>6. NotOlder(call', S)
    <3>1. CASE Len(stack) = 1
      <4>1. PICK i \in 1..Len(stack) :
              Fits(stack[i].call, S) /\ S[First(stack[i].call).name] \in stack[i].cands
        BY <1>6 DEF Try, Hope, SearchInv
      <4>2. S[FirstName] \in Top.cands /\ First(Top.call).name = FirstName
        BY <2>2, <3>1, <4>1 DEF NoNewer
      <4>3. ~Before(r.version, S[FirstName].version)
        BY <2>1, <4>2 DEF Newest
      <4> QED  BY <2>4, <2>5, <4>2, <4>3 DEF NotOlder
    <3>2. CASE Len(stack) # 1
      <4>1. NotOlder(Top.call, S)
        <5> DEFINE n == Len(stack)
        <5>0. n \in Nat /\ n \in 1..n /\ n # 1
          BY <1>0, <2>2, <3>2
        <5> HIDE DEF n
        <5>2. n \in 2..n
          BY <5>0
        <5>1. Len(stack) \in 2..Len(stack)
          BY <5>2 DEF n
        <5> QED  BY <2>2, <5>1 DEF NoNewer
      <4>2. r.name # FirstName
        BY <2>4, <4>1 DEF NotOlder
      <4> QED  BY <1>0, <2>5, <4>1, <4>2 DEF NotOlder
    <3> QED  BY <3>1, <3>2
  <2>7. /\ Len(stack') = Len(stack) /\ stack' # <<>>
        /\ \A i \in 1..Len(stack) : stack'[i].call = stack[i].call
    BY <1>0, <2>1, <2>2 DEF Frames
  <2>8. First(stack'[1].call).name = FirstName
    BY <1>0, <2>2, <2>7 DEF NoNewer
  <2>9. \A i \in 2..Len(stack') : NotOlder(stack'[i].call, S)
    BY <1>0, <2>7 DEF NoNewer
  <2> QED  BY <1>1, <2>6, <2>7, <2>8, <2>9 DEF NoNewer, NotOlder, First
<1>7. CASE Exhausted
  <2>1. Len(Rest) = Len(stack) - 1 /\ \A i \in 1..(Len(stack) - 1) : Rest[i] = stack[i]
    BY <1>0, <1>7, StackShape DEF Exhausted, Rest
  <2>2. /\ stack' = Rest /\ call' = call /\ (Rest = <<>> => answer' = "conflict")
        /\ (Rest # <<>> => pc' = "try" /\ answer' = "none")
    BY <1>7 DEF Exhausted, Raise, GiveUp, SearchInv
  <2>3. \A i \in 2..Len(stack') : NotOlder(stack'[i].call, S)
    BY <1>0, <2>1, <2>2 DEF NoNewer
  <2>4. stack' # <<>> => First(stack'[1].call).name = FirstName
    <3> SUFFICES ASSUME Rest # <<>> PROVE First(stack'[1].call).name = FirstName
      BY <2>2
    <3>1. 1 \in 1..(Len(stack) - 1) /\ stack # <<>>
      BY <1>0, <1>7, <2>1, StackShape DEF Exhausted, Rest
    <3> QED  BY <2>1, <2>2, <3>1 DEF NoNewer
  <2> QED  BY <1>1, <2>2, <2>3, <2>4 DEF NoNewer, NotOlder, First
<1>8. CASE Solved
  BY <1>1, <1>8 DEF Solved, NoNewer, NotOlder, First, SearchInv
<1>9. CASE Insert
  BY <1>1, <1>9 DEF Insert, NoNewer, NotOlder
<1>10. CASE UNCHANGED vars
  BY <1>1, <1>10 DEF vars, NoNewer, NotOlder
<1> QED
  BY <1>3, <1>4, <1>5, <1>6, <1>7, <1>8, <1>9, <1>10 DEF Next, Search, Answered

NewestInv == roots # <<>> => \A S \in Assignments(found) : Solves(S) => NoNewer(S)

(* However often the search goes back, its choice for the pipeline's first *)
(* dependency is the newest that has a solution (resolver.py:266-310).     *)
THEOREM NewestFirstHolds == Spec => []NewestFirst
<1>1. Init => NewestInv
  <2> SUFFICES ASSUME Init, roots # <<>>, NEW S PROVE NoNewer(S)
    BY DEF NewestInv
  <2>1. /\ roots \in Seq(Wishes) /\ <<>> \in Seq(Names) /\ 1 \in 1..Len(roots)
        /\ roots[1].name \in Names
    <3>1. roots \in Seq(Wishes) /\ <<>> \in Seq(Names)
      BY RequestAssumption DEF Init
    <3>2. 1 \in 1..Len(roots) /\ roots[1] \in Wishes
      BY <3>1
    <3> QED  BY <3>1, <3>2 DEF Wishes
  <2> DEFINE e == Entries(roots, <<>>)
  <2>2. Len(e) = Len(roots) /\ e[1].name = roots[1].name /\ e \in Seq(Items)
    BY <2>1, EntriesShape
  <2> HIDE DEF e
  <2>3. e # <<>> /\ Head(e) = e[1]
    BY <2>1, <2>2
  <2>4. call.queue = e /\ call.resolved[roots[1].name] = NoRow /\ stack = <<>>
    BY <2>1 DEF Init, e
  <2> QED  BY <2>2, <2>3, <2>4 DEF NoNewer, First, FirstName
<1>2. TypeOK /\ SearchInv /\ HopeInv /\ NewestInv /\ [Next]_vars => NewestInv'
  <2> SUFFICES ASSUME TypeOK, SearchInv, HopeInv, NewestInv, [Next]_vars PROVE NewestInv'
    OBVIOUS
  <2>1. found' = found /\ roots' = roots
    BY DEF Next, Search, Cycle, Resolved, List, Try, Break, Exhausted, Solved, Insert, Answered, vars
  <2>2. ASSUME roots # <<>>, NEW S \in Assignments(found), Solves(S) PROVE NoNewer(S)'
    BY <2>2, NoNewerStays DEF HopeInv, NewestInv
  <2> QED  BY <2>1, <2>2 DEF NewestInv, Assignments, Solves
<1>3. SearchInv /\ NewestInv => NewestFirst
  <2> SUFFICES ASSUME SearchInv, NewestInv, answer = "lockfile", roots # <<>>,
                      NEW S \in Assignments(found), Solves(S)
               PROVE  ~Before(Lockfile[roots[1].name].version, S[roots[1].name].version)
    BY DEF NewestFirst
  <2>1. NoNewer(S) /\ call.queue = <<>>
    BY DEF NewestInv, SearchInv
  <2> QED  BY <2>1 DEF NoNewer, NotOlder, FirstName, Lockfile
<1> QED  BY <1>1, <1>2, <1>3, TypeCorrect, SearchInvHolds, HopeInvHolds, PTL DEF Spec

-----------------------------------------------------------------------------
(* What "newest" means: versions are in order, up to their builds.         *)

LEMMA IdsOrdered ==
  ASSUME NEW a \in Identifiers, NEW b \in Identifiers, NEW c \in Identifiers
  PROVE  /\ ~IdBefore(a, a)
         /\ IdBefore(a, b) /\ IdBefore(b, c) => IdBefore(a, c)
         /\ IdBefore(a, b) \/ IdBefore(b, a) \/ a = b
<1>1. a[1] \in Int /\ a[2] \in Int /\ b[1] \in Int /\ b[2] \in Int /\ c[1] \in Int /\ c[2] \in Int
  BY DEF Identifiers
<1>2. a[1] = b[1] /\ a[2] = b[2] => a = b
  BY DEF Identifiers
<1> QED  BY <1>1, <1>2 DEF IdBefore

LEMMA ListsTransitive ==
  ASSUME NEW p \in Seq(Identifiers), NEW q \in Seq(Identifiers), NEW r \in Seq(Identifiers),
         ListBefore(p, q), ListBefore(q, r)
  PROVE  ListBefore(p, r)
<1>1. PICK i \in 1..Len(q) : /\ i - 1 <= Len(p) /\ \A k \in 1..(i - 1) : p[k] = q[k]
                             /\ i <= Len(p) => IdBefore(p[i], q[i])
  BY DEF ListBefore
<1>2. PICK j \in 1..Len(r) : /\ j - 1 <= Len(q) /\ \A k \in 1..(j - 1) : q[k] = r[k]
                             /\ j <= Len(q) => IdBefore(q[j], r[j])
  BY DEF ListBefore
<1>3. /\ \A k \in 1..Len(p) : p[k] \in Identifiers
      /\ \A k \in 1..Len(q) : q[k] \in Identifiers
      /\ \A k \in 1..Len(r) : r[k] \in Identifiers
      /\ Len(p) \in Nat /\ Len(q) \in Nat /\ Len(r) \in Nat
  OBVIOUS
<1>4. CASE i < j
  <2>1. i \in 1..Len(r) /\ q[i] = r[i] /\ \A k \in 1..(i - 1) : q[k] = r[k]
    BY <1>2, <1>3, <1>4
  <2> QED  BY <1>1, <2>1 DEF ListBefore
<1>5. CASE i = j
  <2>1. \A k \in 1..(i - 1) : p[k] = r[k]
    BY <1>1, <1>2, <1>5
  <2>2. i <= Len(p) => IdBefore(p[i], r[i])
    <3> SUFFICES ASSUME i <= Len(p) PROVE IdBefore(p[i], r[i])
      OBVIOUS
    <3>1. p[i] \in Identifiers /\ q[i] \in Identifiers /\ r[i] \in Identifiers
      BY <1>3, <1>5
    <3>2. IdBefore(p[i], q[i]) /\ IdBefore(q[i], r[i])
      BY <1>1, <1>2, <1>3, <1>5
    <3> QED  BY <3>1, <3>2, IdsOrdered
  <2> QED  BY <1>1, <1>5, <2>1, <2>2 DEF ListBefore
<1>6. CASE j < i
  <2>1. j \in 1..(i - 1) /\ j <= Len(q) /\ j - 1 <= Len(p)
    BY <1>1, <1>3, <1>6
  <2>2. p[j] = q[j] /\ IdBefore(q[j], r[j]) /\ \A k \in 1..(j - 1) : p[k] = q[k]
    BY <1>1, <1>2, <2>1
  <2> QED  BY <1>2, <2>1, <2>2 DEF ListBefore
<1> QED  BY <1>4, <1>5, <1>6

LEMMA ListsTotal ==
  ASSUME NEW p \in Seq(Identifiers), NEW q \in Seq(Identifiers), p # q
  PROVE  ListBefore(p, q) \/ ListBefore(q, p)
<1> DEFINE n == Len(p) + Len(q) + 1
           Same == {i \in 1..n : /\ i - 1 <= Len(p) /\ i - 1 <= Len(q)
                                 /\ \A k \in 1..(i - 1) : p[k] = q[k]}
<1>1. Len(p) \in Nat /\ Len(q) \in Nat /\ n \in Nat /\ 1 \in Same
  OBVIOUS
<1>2. PICK i \in Same : \A k \in Same : k <= i
  <2> HIDE DEF n
  <2>1. Same \in SUBSET (1..n) /\ Same # {}
    BY <1>1
  <2> HIDE DEF Same
  <2> QED  BY <1>1, <2>1, Greatest
<1>3. CASE i <= Len(p) /\ i <= Len(q)
  <2>1. p[i] # q[i]
    <3> SUFFICES ASSUME p[i] = q[i] PROVE FALSE
      OBVIOUS
    <3>1. \A k \in 1..i : k \in 1..(i - 1) \/ k = i
      BY <1>1, <1>2
    <3>2. i + 1 \in Same
      BY <1>1, <1>2, <1>3, <3>1
    <3>3. i \in Int /\ i + 1 <= i
      <4>1. i \in Int
        BY <1>2
      <4> HIDE DEF Same
      <4> QED  BY <1>2, <3>2, <4>1
    <3> QED  BY <3>3
  <2>2. i \in 1..Len(p) /\ i \in 1..Len(q)
    BY <1>1, <1>2, <1>3
  <2>3. p[i] \in Identifiers /\ q[i] \in Identifiers
    BY <2>2
  <2>4. IdBefore(p[i], q[i]) \/ IdBefore(q[i], p[i])
    BY <2>1, <2>3, IdsOrdered
  <2> QED  BY <1>2, <2>2, <2>4 DEF ListBefore
<1>4. CASE i > Len(p) /\ i <= Len(q)
  <2>1. i \in 1..Len(q) /\ ~(i <= Len(p))
    BY <1>1, <1>2, <1>4
  <2> QED  BY <1>2, <2>1 DEF ListBefore
<1>5. CASE i <= Len(p) /\ i > Len(q)
  <2>1. i \in 1..Len(p) /\ ~(i <= Len(q))
    BY <1>1, <1>2, <1>5
  <2> QED  BY <1>2, <2>1 DEF ListBefore
<1>6. CASE i > Len(p) /\ i > Len(q)
  <2>1. Len(p) = i - 1 /\ Len(q) = i - 1
    BY <1>1, <1>2, <1>6
  <2>2. \A k \in 1..Len(p) : p[k] = q[k]
    BY <1>2, <2>1
  <2> QED  BY <2>1, <2>2
<1> QED  BY <1>1, <1>2, <1>3, <1>4, <1>5, <1>6

LEMMA PresOrdered ==
  ASSUME NEW p \in Seq(Identifiers), NEW q \in Seq(Identifiers), NEW r \in Seq(Identifiers)
  PROVE  /\ ~PreBefore(p, p)
         /\ PreBefore(p, q) /\ PreBefore(q, r) => PreBefore(p, r)
         /\ PreBefore(p, q) \/ PreBefore(q, p) \/ p = q
<1>1. ~PreBefore(p, p)
  <2> SUFFICES ASSUME p # <<>>, ListBefore(p, p) PROVE FALSE
    BY DEF PreBefore
  <2>1. PICK i \in 1..Len(p) : IdBefore(p[i], p[i])
    BY DEF ListBefore
  <2>2. p[i] \in Identifiers
    OBVIOUS
  <2> QED  BY <2>1, <2>2, IdsOrdered
<1>2. PreBefore(p, q) /\ PreBefore(q, r) => PreBefore(p, r)
  BY ListsTransitive DEF PreBefore
<1>3. PreBefore(p, q) \/ PreBefore(q, p) \/ p = q
  BY ListsTotal DEF PreBefore
<1> QED  BY <1>1, <1>2, <1>3

(* Sorting candidates is well defined: of two versions that differ in more *)
(* than their build one is before the other, and never both, prereleases   *)
(* and prefixes of them included (resolver.py:48-66).                      *)
THEOREM VersionsAreOrdered ==
  ASSUME NEW u \in Versions, NEW v \in Versions, NEW w \in Versions
  PROVE  /\ ~Before(u, u)
         /\ Before(u, v) /\ Before(v, w) => Before(u, w)
         /\ Before(u, v) \/ Before(v, u) \/ SameKey(u, v)
         /\ SameKey(u, v) => ~Before(u, v)
<1>1. \A x \in {u, v, w} : x.major \in Int /\ x.minor \in Int /\ x.patch \in Int
  BY DEF Versions
<1>2. u.pre \in Seq(Identifiers) /\ v.pre \in Seq(Identifiers) /\ w.pre \in Seq(Identifiers)
  BY DEF Versions
<1>3. /\ ~PreBefore(u.pre, u.pre)
      /\ PreBefore(u.pre, v.pre) /\ PreBefore(v.pre, w.pre) => PreBefore(u.pre, w.pre)
      /\ PreBefore(u.pre, v.pre) \/ PreBefore(v.pre, u.pre) \/ u.pre = v.pre
  BY <1>2, PresOrdered
<1> QED  BY <1>1, <1>3 DEF Before, SameCore, SameKey
(* Builds are not compared, so versions that differ in nothing else meet   *)
(* the same constraints: only their order in the table tells them apart    *)
(* (resolver.py:83-86, 146-215).                                           *)
THEOREM BuildsAlike ==
  ASSUME NEW v \in Versions, NEW w \in Versions, SameKey(v, w), NEW terms
  PROVE  Satisfies(v, terms) <=> Satisfies(w, terms)
<1>1. ASSUME NEW c PROVE SatisfiesTerm(v, c) <=> SatisfiesTerm(w, c)
  BY Zenon DEF SameKey, SameCore, SatisfiesTerm, Equal, Caret, Tilde, Before
<1> QED  BY <1>1 DEF Satisfies, SameKey

LEMMA ParsedType ==
  ASSUME NEW t \in Terms, Parse(t).major # None
  PROVE  LET c == Parse(t)  f == FullVersion(c)
         IN /\ c.op \in Operators /\ c.major \in Nat
            /\ c.minor \in Nat \cup {None} /\ c.patch \in Nat \cup {None}
            /\ f.major \in Nat /\ f.minor \in Nat /\ f.patch \in Nat
<1>1. \A i \in 1..Len(t.parts) : t.parts[i].num \in Nat \cup {None}
  <2>1. t.parts \in Seq(Pieces)
    BY DEF Terms
  <2>2. \A i \in 1..Len(t.parts) : t.parts[i] \in Pieces
    BY <2>1
  <2> QED  BY <2>2 DEF Pieces
<1>2. Len(t.parts) \in Nat /\ t.op \in Operators
  BY DEF Terms
<1> DEFINE c == Parse(t)
<1>3. /\ c.op \in Operators /\ c.major \in Nat
      /\ c.minor \in Nat \cup {None} /\ c.patch \in Nat \cup {None}
  BY <1>1, <1>2 DEF Parse
<1> HIDE DEF c
<1>4. LET f == FullVersion(c) IN f.major \in Nat /\ f.minor \in Nat /\ f.patch \in Nat
  BY <1>3 DEF FullVersion, None
<1> QED  BY <1>3, <1>4 DEF c

NumbersBefore(x, y) ==
  \/ x.major < y.major
  \/ x.major = y.major /\ x.minor < y.minor
  \/ x.major = y.major /\ x.minor = y.minor /\ x.patch < y.patch

(* A release compares by its numbers with any version.                     *)
LEMMA ReleaseBefore ==
  ASSUME NEW x, x.pre = <<>>, NEW y
  PROVE  /\ Before(x, y) <=> NumbersBefore(x, y)
         /\ Before(y, x) <=> NumbersBefore(y, x) \/ (SameCore(y, x) /\ y.pre # <<>>)
BY DEF Before, SameCore, PreBefore, NumbersBefore

LEMMA Between ==
  ASSUME NEW u, u.major \in Nat, u.minor \in Nat, u.patch \in Nat,
         NEW v, v.major \in Nat, v.minor \in Nat, v.patch \in Nat,
         NEW w, w.major \in Nat, w.minor \in Nat, w.patch \in Nat,
         NumbersBefore(v, w)
  PROVE  /\ NumbersBefore(u, v) \/ SameCore(u, v) => NumbersBefore(u, w)
         /\ NumbersBefore(u, v) /\ u.major = w.major =>
              /\ v.major = u.major
              /\ u.minor = w.minor =>
                   v.minor = u.minor /\ (u.patch = w.patch => v.patch = u.patch)
BY DEF NumbersBefore, SameCore

LEMMA TermHasNoGap ==
  ASSUME NEW u \in Versions, NEW v \in Versions, NEW w \in Versions,
         IsRelease(u), IsRelease(v), IsRelease(w), Before(u, v), Before(v, w),
         NEW c, c.op \in Operators, c.major \in Nat,
         c.minor \in Nat \cup {None}, c.patch \in Nat \cup {None},
         FullVersion(c).major \in Nat, FullVersion(c).minor \in Nat, FullVersion(c).patch \in Nat,
         SatisfiesTerm(u, c), SatisfiesTerm(w, c)
  PROVE  SatisfiesTerm(v, c)
<1> DEFINE f == FullVersion(c)
<1>1. /\ u.major \in Nat /\ u.minor \in Nat /\ u.patch \in Nat /\ u.pre = <<>>
      /\ v.major \in Nat /\ v.minor \in Nat /\ v.patch \in Nat /\ v.pre = <<>>
      /\ w.major \in Nat /\ w.minor \in Nat /\ w.patch \in Nat /\ w.pre = <<>>
      /\ f.major \in Nat /\ f.minor \in Nat /\ f.patch \in Nat
  BY DEF Versions, IsRelease
<1>2. NumbersBefore(u, v) /\ NumbersBefore(v, w)
  BY <1>1, ReleaseBefore
<1>3. /\ Before(v, f) => Before(u, f)
      /\ Before(w, f) => Before(v, f)
  <2>1. NumbersBefore(v, f) => NumbersBefore(u, f)
    BY <1>1, <1>2, Between
  <2>2. NumbersBefore(w, f) => NumbersBefore(v, f)
    BY <1>1, <1>2, Between
  <2> QED  BY <1>1, <2>1, <2>2, ReleaseBefore
<1>4. /\ Before(f, u) => Before(f, v)
      /\ Before(f, v) => Before(f, w)
  <2>1. NumbersBefore(f, u) \/ SameCore(f, u) => NumbersBefore(f, v)
    BY <1>1, <1>2, Between
  <2>2. NumbersBefore(f, v) \/ SameCore(f, v) => NumbersBefore(f, w)
    BY <1>1, <1>2, Between
  <2> QED  BY <1>1, <2>1, <2>2, ReleaseBefore
<1>5. u.major = w.major =>
        /\ v.major = u.major
        /\ u.minor = w.minor =>
             v.minor = u.minor /\ (u.patch = w.patch => v.patch = u.patch)
  BY <1>1, <1>2, Between
<1>6. CASE c.op \in {">=", "<=", ">", "<"}
  BY <1>1, <1>3, <1>4, <1>6 DEF SatisfiesTerm
<1>7. CASE c.op = "="
  <2>1. Equal(u, c) /\ Equal(w, c)
    BY <1>7 DEF SatisfiesTerm
  <2>2. Equal(v, c)
    BY <1>1, <1>5, <2>1 DEF Equal, SameKey, SameCore
  <2> QED  BY <1>1, <1>7, <2>2 DEF SatisfiesTerm
<1>8. CASE c.op = "~"
  <2>1. Tilde(u, c) /\ Tilde(w, c)
    BY <1>8 DEF SatisfiesTerm
  <2>2. Tilde(v, c)
    BY <1>3, <1>5, <2>1 DEF Tilde, None
  <2> QED  BY <1>1, <1>8, <2>2 DEF SatisfiesTerm
<1>9. CASE c.op = "^"
  <2>1. Caret(u, c) /\ Caret(w, c)
    BY <1>9 DEF SatisfiesTerm
  <2>2. Caret(v, c)
    BY <1>3, <1>5, <2>1 DEF Caret, None
  <2> QED  BY <1>1, <1>9, <2>2 DEF SatisfiesTerm
<1> QED  BY <1>6, <1>7, <1>8, <1>9 DEF Operators

(* The releases that a constraint admits have no gap: what lies between    *)
(* two of them is admitted too, so going down from the newest candidate    *)
(* meets all of them in a row (resolver.py:146-215, 271-279).              *)
THEOREM ConstraintsHaveNoGaps ==
  ASSUME NEW u \in Versions, NEW v \in Versions, NEW w \in Versions,
         IsRelease(u), IsRelease(v), IsRelease(w), Before(u, v), Before(v, w),
         NEW terms \in SUBSET Terms, Satisfies(u, terms), Satisfies(w, terms)
  PROVE  Satisfies(v, terms)
<1>1. CASE terms = {}
  BY <1>1 DEF Satisfies, IsRelease
<1>2. ASSUME terms # {}, NEW t \in terms PROVE Parse(t).major # None /\ SatisfiesTerm(v, Parse(t))
  BY <1>2, ParsedType, TermHasNoGap DEF Satisfies
<1> QED  BY <1>1, <1>2 DEF Satisfies

-----------------------------------------------------------------------------
(* The search comes to an end.                                             *)

(* A call around has its package resolved in all the calls within it.      *)
NestInv ==
  /\ \A k \in 1..Len(stack) : \A i \in 1..(k - 1) :
       stack[k].call.resolved[First(stack[i].call).name] # NoRow
  /\ pc = "solve" =>
       \A i \in 1..Len(stack) : call.resolved[First(stack[i].call).name] # NoRow

LEMMA NestStep == ASSUME TypeOK, SearchInv, NestInv, [Next]_vars PROVE NestInv'
<1>0. call \in Calls /\ stack \in Seq(Frames) /\ Len(stack) \in Nat
  BY DEF TypeOK
<1>1. CASE Cycle \/ Break \/ Solved \/ Insert \/ UNCHANGED vars
  BY <1>1 DEF Cycle, Break, Solved, Insert, vars, NestInv, First
<1>2. CASE Resolved
  <2>1. CASE Serves(call)
    <3>1. Passed(call).resolved = call.resolved
      BY <1>0, <1>2, PassedShape DEF Resolved
    <3> QED  BY <1>2, <2>1, <3>1 DEF Resolved, NestInv, First
  <2>2. CASE ~Serves(call)
    BY <1>2, <2>2 DEF Resolved, Raise, NestInv, First
  <2> QED  BY <2>1, <2>2
<1>3. CASE List
  <2> DEFINE f == [call |-> call, cands |-> Candidates(call)]
  <2>1. stack' = Append(stack, f) /\ f.call = call /\ pc = "solve" /\ pc' = "try"
    BY <1>3 DEF List
  <2> HIDE DEF f
  <2>2. /\ Len(stack') = Len(stack) + 1 /\ stack'[Len(stack) + 1] = f
        /\ \A i \in 1..Len(stack) : stack'[i] = stack[i]
    BY <1>0, <2>1
  <2>3. ASSUME NEW k \in 1..Len(stack'), NEW i \in 1..(k - 1)
        PROVE  stack'[k].call.resolved[First(stack'[i].call).name] # NoRow
    <3>1. i \in 1..Len(stack) /\ stack'[i] = stack[i]
      BY <1>0, <2>2, <2>3
    <3>2. CASE k \in 1..Len(stack)
      BY <2>2, <2>3, <3>1, <3>2 DEF NestInv
    <3>3. CASE k = Len(stack) + 1
      BY <2>1, <2>2, <3>1, <3>3 DEF NestInv
    <3> QED  BY <1>0, <2>2, <3>2, <3>3
  <2> QED  BY <2>1, <2>3 DEF NestInv, First
<1>4. CASE Try
  <2>1. PICK r \in Newest(Top.cands) \ Malformed :
          /\ stack' = [stack EXCEPT ![Len(stack)].cands = Untried(@, r)]
          /\ call' = Inner(Top.call, r)
    BY <1>4 DEF Try
  <2>2. Top \in Frames /\ Len(stack) \in 1..Len(stack) /\ Top = stack[Len(stack)]
    BY <1>0, <1>4, StackShape DEF Try, Top
  <2>3. FrameInv(Top, rows, roots) /\ r \in Top.cands
    BY <2>1, <2>2 DEF SearchInv, Newest
  <2>4. /\ Top.call \in Calls /\ Top.call.queue # <<>> /\ r \in Uploaded
        /\ r.name = First(Top.call).name /\ r.name \in Names /\ r # NoRow
    BY <2>2, <2>3, UploadedAssumption DEF Frames, FrameInv
  <2>5. call'.resolved = [Top.call.resolved EXCEPT ![r.name] = r]
        /\ Top.call.resolved \in [Names -> Uploaded \cup {NoRow}]
    BY <2>1, <2>4, InnerShape DEF Calls
  <2>6. /\ Len(stack') = Len(stack)
        /\ \A i \in 1..Len(stack) : stack'[i].call = stack[i].call
    BY <1>0, <2>1, <2>2 DEF Frames
  <2>7. ASSUME NEW i \in 1..Len(stack)
        PROVE  call'.resolved[First(stack[i].call).name] # NoRow
    <3>1. stack[i] \in Frames
      BY <1>0
    <3>2. First(stack[i].call).name \in Names
      BY <3>1, NotedShape DEF Frames
    <3>3. CASE i = Len(stack)
      BY <2>2, <2>4, <2>5, <3>3
    <3>4. CASE i \in 1..(Len(stack) - 1)
      <4>1. Top.call.resolved[First(stack[i].call).name] # NoRow
        BY <2>2, <3>4 DEF NestInv
      <4> QED  BY <2>4, <2>5, <3>2, <4>1
    <3> QED  BY <1>0, <3>3, <3>4
  <2>8. ASSUME NEW k \in 1..Len(stack), NEW i \in 1..(k - 1)
        PROVE  stack'[k].call.resolved[First(stack'[i].call).name] # NoRow
    <3>1. i \in 1..Len(stack)
      BY <1>0
    <3> QED  BY <2>6, <3>1 DEF NestInv
  <2> QED  BY <2>6, <2>7, <2>8 DEF NestInv, First
<1>5. CASE Exhausted
  <2>1. Len(Rest) = Len(stack) - 1 /\ \A i \in 1..(Len(stack) - 1) : Rest[i] = stack[i]
    BY <1>0, <1>5, StackShape DEF Exhausted, Rest
  <2>2. stack' = Rest /\ pc' # "solve"
    BY <1>5 DEF Exhausted, Raise, GiveUp
  <2>3. ASSUME NEW k \in 1..Len(Rest), NEW i \in 1..(k - 1)
        PROVE  Rest[k].call.resolved[First(Rest[i].call).name] # NoRow
    <3>1. k \in 1..(Len(stack) - 1) /\ i \in 1..(Len(stack) - 1) /\ k \in 1..Len(stack)
      BY <1>0, <2>1, <2>3
    <3> QED  BY <2>1, <3>1 DEF NestInv
  <2> QED  BY <2>2, <2>3 DEF NestInv, First
<1> QED  BY <1>1, <1>2, <1>3, <1>4, <1>5 DEF Next, Search, Answered

(* The packages that the waiting calls of _solve are about all differ.     *)
THEOREM NestInvHolds == Spec => []NestInv
<1>1. Init => NestInv
  BY DEF Init, NestInv
<1> QED  BY <1>1, NestStep, TypeCorrect, SearchInvHolds, PTL DEF Spec

LEMMA NestedAreDistinct ==
  ASSUME IsFiniteSet(Names), TypeOK, SearchInv, NestInv
  PROVE  FramesBounded
<1> DEFINE n == Len(stack)
           Waits == [i \in 1..n |-> First(stack[i].call).name]
<1>1. n \in Nat /\ stack \in Seq(Frames)
  BY DEF TypeOK
<1>2. \A i \in 1..n : First(stack[i].call).name \in Names
  <2>1. \A i \in 1..n : stack[i] \in Frames
    BY <1>1
  <2> QED  BY <2>1, NotedShape DEF Frames
<1>3. ASSUME NEW k \in 1..n, NEW i \in 1..(k - 1) PROVE Waits[i] # Waits[k]
  <2>1. i \in 1..n
    BY <1>1
  <2>2. stack[k].call.resolved[First(stack[k].call).name] = NoRow
    BY DEF SearchInv, FrameInv
  <2>3. stack[k].call.resolved[First(stack[i].call).name] # NoRow
    BY DEF NestInv
  <2> QED  BY <2>1, <2>2, <2>3
<1>4. \A i, k \in 1..n : Waits[i] = Waits[k] => i = k
  <2>1. \A i, k \in 1..n : i = k \/ i \in 1..(k - 1) \/ k \in 1..(i - 1)
    BY <1>1
  <2> QED  BY <1>3, <2>1
<1>5. Waits \in Injection(1..n, Names)
  BY <1>2, <1>4 DEF Injection, IsInjective
<1> HIDE DEF Waits
<1>6. Cardinality(1..n) <= Cardinality(Names)
  BY <1>5, FS_Injection
<1>7. Cardinality(1..n) = n
  <2> HIDE DEF n
  <2>1. 1 \in Int /\ n \in Int
    BY <1>1
  <2>2. Cardinality(1..n) = IF 1 > n THEN 0 ELSE n - 1 + 1
    BY <2>1, FS_Interval
  <2> QED  BY <1>1, <2>2
<1> QED  BY <1>6, <1>7 DEF FramesBounded

(* However the packages need each other, the calls of _solve that wait in  *)
(* their loop over candidates are no more than there are packages          *)
(* (resolver.py:271-310).                                                  *)
THEOREM FramesBoundedHolds == ASSUME IsFiniteSet(Names) PROVE Spec => []FramesBounded
<1>1. TypeOK /\ SearchInv /\ NestInv => FramesBounded
  BY NestedAreDistinct
<1> QED  BY <1>1, TypeCorrect, SearchInvHolds, NestInvHolds, PTL

(* Among finitely many candidates, one to which the fewest are newer has   *)
(* none that is newer.                                                     *)
LEMMA SomeAreNewest ==
  ASSUME NEW C \in SUBSET Uploaded, IsFiniteSet(C), C # {}
  PROVE  Newest(C) # {}
<1> DEFINE Newer(r) == {s \in C : Before(r.version, s.version)}
           Counts   == {Cardinality(Newer(r)) : r \in C}
           NatLess  == OpToRel(<, Nat)
<1>1. \A r \in C : r.version \in Versions
  BY UploadedAssumption
<1>2. \A r \in C : IsFiniteSet(Newer(r)) /\ Cardinality(Newer(r)) \in Nat
  <2>1. \A r \in C : Newer(r) \in SUBSET C
    OBVIOUS
  <2> HIDE DEF Newer
  <2> QED  BY <2>1, FS_Subset, FS_CardinalityType
<1>3. Counts \in SUBSET Nat /\ Counts # {}
  BY <1>2
<1>4. IsWellFoundedOn(NatLess, Nat)
  BY NatLessThanWellFounded
<1>5. \A x, y \in Nat : x < y => <<x, y>> \in NatLess
  BY DEF OpToRel
<1>6. PICK x \in Counts : \A y \in Counts : ~ (<<y, x>> \in NatLess)
  <2> HIDE DEF Counts, NatLess
  <2> QED  BY <1>3, <1>4, WFMin
<1> HIDE DEF NatLess
<1>7. PICK r \in C : x = Cardinality(Newer(r))
  BY <1>6
<1>8. ASSUME NEW s \in C, Before(r.version, s.version) PROVE FALSE
  <2>1. Newer(s) \subseteq Newer(r) /\ s \in Newer(r) /\ s \notin Newer(s)
    BY <1>1, <1>8, VersionsAreOrdered
  <2>2. Newer(s) \in SUBSET Newer(r) /\ Newer(s) # Newer(r)
    BY <2>1
  <2>3. Cardinality(Newer(s)) \in Counts /\ Cardinality(Newer(r)) \in Counts
    OBVIOUS
  <2> HIDE DEF Newer, Counts
  <2>4. Cardinality(Newer(s)) <= Cardinality(Newer(r))
        /\ Cardinality(Newer(s)) # Cardinality(Newer(r))
    BY <1>2, <2>2, FS_Subset
  <2>5. Cardinality(Newer(s)) < Cardinality(Newer(r))
    BY <1>2, <2>4
  <2> QED  BY <1>2, <1>5, <1>6, <1>7, <2>3, <2>5
<1> QED  BY <1>8 DEF Newest

LoopInv == pc = "try" => stack # <<>>

(* Sorting leaves no loop without a next candidate while it has any: the   *)
(* search can take a step until it has its answer.                         *)
THEOREM LoopsGoOnHolds == ASSUME IsFiniteSet(Uploaded) PROVE Spec => []LoopsGoOn
<1>1. Init => LoopInv
  BY DEF Init, LoopInv
<1>2. TypeOK /\ LoopInv /\ [Next]_vars => LoopInv'
  <2> SUFFICES ASSUME TypeOK, pc = "try" => stack # <<>>, [Next]_vars, pc' = "try"
               PROVE  stack' # <<>>
    BY DEF LoopInv
  <2>1. stack \in Seq(Frames)
    BY DEF TypeOK
  <2>2. CASE List
    BY <2>1, <2>2 DEF List
  <2>3. CASE Insert \/ UNCHANGED vars
    BY <2>3 DEF Insert, vars
  <2> QED
    BY <2>2, <2>3
    DEF Next, Search, Cycle, Resolved, Try, Break, Exhausted, Solved, Answered, Raise
<1>3. TypeOK /\ LoopInv => LoopsGoOn
  <2> SUFFICES ASSUME TypeOK, stack # <<>>, Top.cands # {} PROVE Newest(Top.cands) # {}
    BY DEF LoopsGoOn, LoopInv
  <2>1. Top \in Frames
    BY StackShape DEF TypeOK, Top
  <2>2. Top.cands \in SUBSET Uploaded
    BY <2>1 DEF Frames
  <2>3. IsFiniteSet(Top.cands)
    BY <2>2, FS_Subset
  <2> QED  BY <2>2, <2>3, SomeAreNewest
<1> QED  BY <1>1, <1>2, <1>3, TypeCorrect, PTL DEF Spec

(* The candidates that a loop has left can be counted.                     *)
LEMMA WorkType ==
  ASSUME IsFiniteSet(Names), IsFiniteSet(Uploaded), TypeOK
  PROVE  /\ Depth \in Nat /\ Cardinality(Uploaded) \in Nat /\ Len(call.queue) \in Nat
         /\ \A i \in 1..Len(stack) : /\ IsFiniteSet(stack[i].cands)
                                     /\ Cardinality(stack[i].cands) \in Nat
                                     /\ Cardinality(stack[i].cands) <= Cardinality(Uploaded)
         /\ \A i \in Nat : i = 0 \/ Untaken(i) \in Nat
         /\ Work \in [1..(Depth + 2) -> Nat]
<1>1. Depth \in Nat /\ Cardinality(Uploaded) \in Nat
  BY FS_CardinalityType DEF Depth
<1>2. Len(call.queue) \in Nat /\ Len(stack) \in Nat /\ stack \in Seq(Frames)
  BY DEF TypeOK, Calls
<1>3. ASSUME NEW i \in 1..Len(stack)
      PROVE  /\ IsFiniteSet(stack[i].cands) /\ Cardinality(stack[i].cands) \in Nat
             /\ Cardinality(stack[i].cands) <= Cardinality(Uploaded)
  <2>1. stack[i] \in Frames
    BY <1>2
  <2>2. stack[i].cands \in SUBSET Uploaded
    BY <2>1 DEF Frames
  <2> QED  BY <2>2, FS_Subset, FS_CardinalityType
<1>4. ASSUME NEW i \in Nat PROVE i = 0 \/ Untaken(i) \in Nat
  <2>1. CASE i > Len(stack)
    BY <1>1, <2>1 DEF Untaken
  <2>2. CASE i # 0 /\ ~ (i > Len(stack))
    <3>1. i \in 1..Len(stack)
      BY <1>2, <2>2
    <3> QED  BY <1>3, <2>2, <3>1 DEF Untaken
  <2> QED  BY <2>1, <2>2
<1>5. Work \in [1..(Depth + 2) -> Nat]
  <2>1. ASSUME NEW i \in 1..(Depth + 2), i # 1 PROVE i - 1 \in Nat /\ i - 1 # 0
    BY <1>1, <2>1
  <2> QED  BY <1>1, <1>2, <1>4, <2>1 DEF Work
<1> QED  BY <1>1, <1>2, <1>3, <1>4, <1>5

(* Where the measure goes down: at its end, at one depth, or in the queue. *)
LEMMA LessAtEnd ==
  ASSUME IsFiniteSet(Names), IsFiniteSet(Uploaded), TypeOK, TypeOK', pc # "done", pc' = "done"
  PROVE  Less(Work', Work)
<1>1. Depth \in Nat /\ 1 \in 1..(Depth + 2) /\ Depth' = Depth
  BY WorkType DEF Depth
<1>2. Work[1] = 1 /\ Work'[1] = 0
  BY <1>1 DEF Work
<1> QED  BY <1>1, <1>2 DEF Less

LEMMA LessAtDepth ==
  ASSUME IsFiniteSet(Names), IsFiniteSet(Uploaded), TypeOK, TypeOK',
         pc # "done", pc' # "done", NEW d \in 1..Depth,
         Untaken(d)' < Untaken(d), \A i \in 1..(d - 1) : Untaken(i)' = Untaken(i)
  PROVE  Less(Work', Work)
<1>1. Depth \in Nat /\ d + 1 \in 1..(Depth + 2) /\ Depth' = Depth
  BY WorkType DEF Depth
<1>2. Work[d + 1] = Untaken(d) /\ Work'[d + 1] = Untaken(d)'
  <2>1. d + 1 # 1 /\ d + 1 # Depth + 2 /\ (d + 1) - 1 = d
    BY <1>1
  <2> QED  BY <1>1, <2>1 DEF Work
<1>3. ASSUME NEW k \in 1..((d + 1) - 1) PROVE Work'[k] = Work[k]
  <2>1. k \in 1..(Depth + 2) /\ k # Depth + 2
    BY <1>1
  <2>2. CASE k = 1
    BY <1>1, <2>1, <2>2 DEF Work
  <2>3. CASE k # 1
    <3>1. k - 1 \in 1..(d - 1)
      BY <2>3
    <3>2. Work[k] = Untaken(k - 1) /\ Work'[k] = Untaken(k - 1)'
      BY <1>1, <2>1, <2>3 DEF Work
    <3> QED  BY <3>1, <3>2
  <2> QED  BY <2>2, <2>3
<1> QED  BY <1>1, <1>2, <1>3 DEF Less

LEMMA LessInQueue ==
  ASSUME IsFiniteSet(Names), IsFiniteSet(Uploaded), TypeOK, TypeOK',
         pc' = pc, stack' = stack, Len(call'.queue) < Len(call.queue)
  PROVE  Less(Work', Work)
<1>1. Depth \in Nat /\ Depth + 2 \in 1..(Depth + 2) /\ Depth + 2 # 1 /\ Depth' = Depth
  BY WorkType DEF Depth
<1>2. Work[Depth + 2] = Len(call.queue) /\ Work'[Depth + 2] = Len(call'.queue)
  BY <1>1 DEF Work
<1>3. ASSUME NEW k \in 1..((Depth + 2) - 1) PROVE Work'[k] = Work[k]
  <2>1. k \in 1..(Depth + 2) /\ k # Depth + 2
    BY <1>1
  <2>2. Untaken(k - 1)' = Untaken(k - 1)
    BY DEF Untaken
  <2> QED  BY <1>1, <2>1, <2>2 DEF Work
<1> QED  BY <1>1, <1>2, <1>3 DEF Less

LEMMA WorkStep ==
  ASSUME IsFiniteSet(Names), IsFiniteSet(Uploaded),
         TypeOK, SearchInv, FramesBounded, TypeOK', FramesBounded', Search
  PROVE  Less(Work', Work)
<1> PICK n \in Nat : n = Len(stack)
  BY DEF TypeOK
<1>0. stack \in Seq(Frames) /\ Len(stack) = n /\ call \in Calls /\ Depth \in Nat /\ n <= Depth
  BY WorkType DEF TypeOK, FramesBounded, Depth
<1>1. CASE Cycle \/ Break \/ Solved
  BY <1>1, LessAtEnd DEF Cycle, Break, Solved
<1>2. CASE Resolved /\ Serves(call)
  <2>1. call.queue \in Seq(Items) /\ call.queue # <<>> /\ call'.queue = Tail(call.queue)
    BY <1>0, <1>2, PassedShape DEF Resolved, Calls
  <2>2. Len(call'.queue) < Len(call.queue)
    BY <2>1
  <2> QED  BY <1>2, <2>2, LessInQueue DEF Resolved
<1>3. CASE Resolved /\ ~ Serves(call)
  <2>1. CASE stack = <<>>
    <3>1. pc = "solve" /\ pc' = "done"
      BY <1>3, <2>1 DEF Resolved, Raise
    <3> QED  BY <3>1, LessAtEnd
  <2>2. CASE stack # <<>>
    <3>1. n \in 1..n /\ n \in 1..Depth
      BY <1>0, <2>2, StackShape
    <3>2. pc = "solve" /\ pc' = "try" /\ stack' = stack
      BY <1>3, <2>2 DEF Resolved, Raise
    <3>3. Cardinality(stack[n].cands) \in Nat
      BY <3>1, WorkType
    <3>4. Untaken(n)' < Untaken(n)
      BY <1>0, <3>2, <3>3 DEF Untaken
    <3>5. \A i \in 1..(n - 1) : Untaken(i)' = Untaken(i)
      BY <1>0, <3>2 DEF Untaken
    <3> QED  BY <3>1, <3>2, <3>4, <3>5, LessAtDepth
  <2> QED  BY <2>1, <2>2
<1>4. CASE List
  <2> DEFINE f == [call |-> call, cands |-> Candidates(call)]
  <2>1. stack' = Append(stack, f) /\ pc = "solve" /\ pc' = "try"
    BY <1>4 DEF List
  <2> HIDE DEF f
  <2>2. Len(stack') = n + 1 /\ \A i \in 1..n : stack'[i] = stack[i]
    BY <1>0, <2>1
  <2>3. n + 1 \in 1..Depth
    BY <1>0, <2>2 DEF FramesBounded, Depth
  <2>4. /\ Cardinality(stack'[n + 1].cands) \in Nat /\ Cardinality(Uploaded) \in Nat
        /\ Cardinality(stack'[n + 1].cands) <= Cardinality(Uploaded)
    <3>1. stack' \in Seq(Frames) /\ n + 1 \in 1..Len(stack')
      BY <1>0, <2>2 DEF TypeOK
    <3>2. stack'[n + 1] \in Frames
      BY <3>1
    <3>3. stack'[n + 1].cands \in SUBSET Uploaded
      BY <3>2 DEF Frames
    <3> QED  BY <3>3, FS_Subset, FS_CardinalityType
  <2>5. Untaken(n + 1)' < Untaken(n + 1)
    <3>1. Untaken(n + 1) = 2 * Cardinality(Uploaded) + 2
      BY <1>0 DEF Untaken
    <3>2. Untaken(n + 1)' = 2 * Cardinality(stack'[n + 1].cands) + 0
      BY <1>0, <2>1, <2>2 DEF Untaken
    <3> QED  BY <2>4, <3>1, <3>2
  <2>6. \A i \in 1..((n + 1) - 1) : Untaken(i)' = Untaken(i)
    BY <1>0, <2>1, <2>2 DEF Untaken
  <2> QED  BY <2>1, <2>3, <2>5, <2>6, LessAtDepth
<1>5. CASE Try
  <2>1. PICK r \in Newest(Top.cands) \ Malformed : stack' = [stack EXCEPT ![Len(stack)].cands = Untried(@, r)]
    BY <1>5 DEF Try
  <2>2. Top \in Frames /\ n \in 1..n /\ n \in 1..Depth /\ Top = stack[n]
    BY <1>0, <1>5, StackShape DEF Try, Top
  <2>3. pc = "try" /\ pc' = "solve" /\ r \in stack[n].cands
    BY <1>5, <2>1, <2>2 DEF Try, Newest
  <2>4. /\ Len(stack') = n /\ stack'[n].cands = stack[n].cands \ {r}
        /\ \A i \in 1..(n - 1) : stack'[i] = stack[i]
    BY <1>0, <2>1, <2>2 DEF Frames, Untried
  <2>5. Cardinality(stack'[n].cands) \in Nat /\ Cardinality(stack[n].cands) \in Nat
        /\ Cardinality(stack'[n].cands) = Cardinality(stack[n].cands) - 1
    <3>1. IsFiniteSet(stack[n].cands) /\ Cardinality(stack[n].cands) \in Nat
      BY <2>2, WorkType
    <3>2. Cardinality(stack[n].cands \ {r}) = Cardinality(stack[n].cands) - 1
      BY <2>3, <3>1, FS_RemoveElement
    <3>3. IsFiniteSet(stack[n].cands \ {r})
      BY <3>1, FS_RemoveElement
    <3> QED  BY <2>4, <3>1, <3>2, <3>3, FS_CardinalityType
  <2>6. Untaken(n)' < Untaken(n)
    <3>1. Untaken(n) = 2 * Cardinality(stack[n].cands) + 0
      BY <1>0, <2>3 DEF Untaken
    <3>2. Untaken(n)' = 2 * Cardinality(stack'[n].cands) + 1
      BY <1>0, <2>3, <2>4 DEF Untaken
    <3> QED  BY <2>5, <3>1, <3>2
  <2>7. \A i \in 1..(n - 1) : Untaken(i)' = Untaken(i)
    BY <1>0, <2>4 DEF Untaken
  <2> QED  BY <2>2, <2>3, <2>6, <2>7, LessAtDepth
<1>6. CASE Exhausted
  <2>1. n \in 1..n /\ Len(Rest) = n - 1 /\ \A i \in 1..(n - 1) : Rest[i] = stack[i]
    BY <1>0, <1>6, StackShape DEF Exhausted, Rest
  <2>2. CASE n = 1
    <3>1. Rest = <<>>
      BY <1>0, <1>6, <2>1, <2>2, StackShape DEF Exhausted, Rest
    <3> QED  BY <1>6, <3>1, LessAtEnd DEF Exhausted, Raise, GiveUp
  <2>3. CASE n # 1
    <3>1. n - 1 \in 1..n /\ n - 1 \in 1..Depth /\ n - 1 \in 1..(n - 1)
      BY <1>0, <2>1, <2>3
    <3>2. Rest # <<>>
      BY <1>0, <2>1, <2>3
    <3>3. pc = "try" /\ pc' = "try" /\ stack' = Rest
      BY <1>6, <3>2 DEF Exhausted, Raise, GiveUp
    <3>4. Cardinality(stack[n - 1].cands) \in Nat
      BY <3>1, WorkType
    <3>5. Untaken(n - 1)' < Untaken(n - 1)
      <4>1. Untaken(n - 1) = 2 * Cardinality(stack[n - 1].cands) + 1
        BY <1>0, <3>1 DEF Untaken
      <4>2. Untaken(n - 1)' = 2 * Cardinality(stack[n - 1].cands) + 0
        BY <1>0, <2>1, <3>1, <3>3 DEF Untaken
      <4> QED  BY <3>4, <4>1, <4>2
    <3>6. \A i \in 1..((n - 1) - 1) : Untaken(i)' = Untaken(i)
      BY <1>0, <2>1, <3>3 DEF Untaken
    <3> QED  BY <3>1, <3>3, <3>5, <3>6, LessAtDepth
  <2> QED  BY <2>2, <2>3
<1> QED  BY <1>1, <1>2, <1>3, <1>4, <1>5, <1>6 DEF Search

(* For any finite table and pipeline: every step of the backtracking       *)
(* search leaves less to do, in the order of Less, and no upload adds to   *)
(* what is left (resolver.py:220-322).                                     *)
THEOREM WorkShrinksHolds ==
  ASSUME IsFiniteSet(Names), IsFiniteSet(Uploaded)
  PROVE  Spec => [](Work \in [1..(Depth + 2) -> Nat]) /\ WorkShrinks
<1>1. TypeOK => Work \in [1..(Depth + 2) -> Nat]
  BY WorkType
<1>2. TypeOK /\ SearchInv /\ FramesBounded /\ TypeOK' /\ FramesBounded' /\ [Next]_vars
        => [(Search => Less(Work', Work)) /\ (Insert => Work' = Work)]_vars
  <2> SUFFICES ASSUME TypeOK, SearchInv, FramesBounded, TypeOK', FramesBounded'
               PROVE  (Search => Less(Work', Work)) /\ (Insert => Work' = Work)
    OBVIOUS
  <2>1. ASSUME Insert PROVE Work' = Work
    <3>1. \A i : Untaken(i)' = Untaken(i)
      BY <2>1 DEF Insert, Untaken
    <3> QED  BY <2>1, <3>1 DEF Insert, Work, Depth
  <2> QED  BY <2>1, WorkStep
<1> QED  BY <1>1, <1>2, TypeCorrect, SearchInvHolds, FramesBoundedHolds, PTL DEF Spec, WorkShrinks

(* ... and it cannot leave less for ever: with LoopsGoOn, between a request *)
(* and its answer there are finitely many steps, whatever is uploaded.     *)
THEOREM LessIsWellFounded ==
  ASSUME IsFiniteSet(Names)
  PROVE  LET Works == [1..(Depth + 2) -> Nat]
         IN  IsWellFoundedOn({p \in Works \X Works : Less(p[1], p[2])}, Works)
<1> DEFINE n == Depth + 2
           Works == [1..n -> Nat]
           NatLess == OpToRel(<, Nat)
<1>0. Depth \in Nat /\ n \in Nat
  BY FS_CardinalityType DEF Depth
<1>1. IsWellFoundedOn(NatLess, Nat)
  BY NatLessThanWellFounded
<1>2. \A x, y \in Nat : x < y => <<x, y>> \in NatLess
  BY DEF OpToRel
<1> HIDE DEF NatLess, n
<1>3. IsWellFoundedOn(LexProductOrdering(NatLess, Nat, n), [1..n -> Nat])
  BY <1>0, <1>1, WFLexProductOrdering
<1>4. {p \in Works \X Works : Less(p[1], p[2])} \subseteq LexProductOrdering(NatLess, Nat, n)
  BY <1>2 DEF Less, LexProductOrdering, n
<1>5. IsWellFoundedOn({p \in Works \X Works : Less(p[1], p[2])}, Works)
  BY <1>3, <1>4, IsWellFoundedOnSubrelation
<1> QED  BY <1>5 DEF n

-----------------------------------------------------------------------------
(* To the client, the search is one step of Resolution.                    *)

LEMMA SameSolutions ==
  ASSUME NEW S
  PROVE  /\ Promise!Solves(S) <=> Solves(S)
         /\ \A R : S \in Promise!Choices(R) <=> S \in Assignments(R)
<1>1. \A ws : Promise!Granted(ws, S) <=> AllGranted(ws, S)
  BY DEF Promise!Granted, AllGranted, Granted
<1> QED
  BY <1>1 DEF Promise!Solves, Solves, Promise!In, Promise!Choices, Assignments

(* What the invariants say of a lockfile is what Resolution asks of it.    *)
LEMMA LockfileIsPromised ==
  ASSUME answer = "lockfile", TypeOK, LockfileIsSolution, NoStrayPackages, LockfileAcyclic, NewestFirst
  PROVE  /\ Lockfile \in Promise!Choices(rows) /\ Promise!Solves(Lockfile)
         /\ Promise!Needed(Lockfile) /\ Promise!Newest(Lockfile)
         /\ \A P \in SUBSET Names : ~Promise!Ring(P, Lockfile)
<1>1. Lockfile \in Promise!Choices(rows) /\ Promise!Solves(Lockfile)
  BY SameSolutions DEF LockfileIsSolution
<1>2. Promise!Needed(Lockfile)
  <2> SUFFICES ASSUME NEW P \in SUBSET Names, Promise!Within(roots, P),
                      \A n \in P \cap Promise!In(Lockfile) : Promise!Within(Lockfile[n].deps, P)
               PROVE  Promise!In(Lockfile) \subseteq P
    BY DEF Promise!Needed
  <2>1. Closed(P, Lockfile)
    BY DEF Closed, Listed, Promise!Within, Promise!In
  <2> QED  BY <2>1 DEF NoStrayPackages, Promise!In
<1>3. Promise!Newest(Lockfile)
  <2> SUFFICES ASSUME roots # <<>>, NEW T \in Promise!Choices(found), Promise!Solves(T)
               PROVE  ~Before(Lockfile[roots[1].name].version, T[roots[1].name].version)
    BY DEF Promise!Newest
  <2> QED  BY SameSolutions DEF NewestFirst
<1>4. ASSUME NEW P \in SUBSET Names, Promise!Ring(P, Lockfile) PROVE FALSE
  BY <1>4 DEF Promise!Ring, Promise!In, LockfileAcyclic
<1> QED  BY <1>1, <1>2, <1>3, <1>4

(* The packages between the two places of a reported path are a ring.      *)
LEMMA CycleIsPromised ==
  ASSUME answer = "cycle", TypeOK, SearchInv, CycleIsReal
  PROVE  \E S \in Promise!Choices(rows) : \E P \in SUBSET Names : Promise!Ring(P, S)
<1> DEFINE path == Append(First(call).path, First(call).name)
           n == Len(path)
<1>1. path \in Seq(Names) /\ n \in Nat
  BY FirstType DEF TypeOK, SearchInv, Items
<1>2. PICK i \in 1..(n - 1) : path[i] = path[n]
  BY DEF CycleIsReal
<1>3. \A k \in 1..(n - 1) : Lockfile[path[k]] # NoRow /\ Needs(Lockfile[path[k]], path[k + 1])
  BY DEF CycleIsReal
<1> DEFINE P == {path[k] : k \in i..(n - 1)}
<1> HIDE DEF path
<1>4. P \in SUBSET Names /\ P # {}
  BY <1>1, <1>2
<1>5. ASSUME NEW m \in P
      PROVE  /\ Lockfile[m] # NoRow
             /\ \E j \in 1..Len(Lockfile[m].deps) : Lockfile[m].deps[j].name \in P
  <2>1. PICK k \in i..(n - 1) : m = path[k]
    OBVIOUS
  <2>2. k \in 1..(n - 1) /\ (k + 1 \in i..(n - 1) \/ k + 1 = n)
    BY <1>1, <1>2, <2>1
  <2>3. path[k + 1] \in P
    BY <1>1, <1>2, <2>2
  <2> QED  BY <1>3, <2>1, <2>2, <2>3 DEF Needs
<1>6. Lockfile \in Assignments(rows)
  BY DEF TypeOK, Calls, SearchInv, CallInv, SolInv, Lockfile, Assignments
<1> HIDE DEF P
<1>7. Promise!Ring(P, Lockfile)
  BY <1>4, <1>5 DEF Promise!Ring, Promise!In
<1> QED  BY <1>4, <1>6, <1>7, SameSolutions

(* An answer, when it is there, is one that Resolution may give.           *)
Promised ==
  /\ answer = "lockfile" =>
       /\ Lockfile \in Promise!Choices(rows) /\ Promise!Solves(Lockfile)
       /\ Promise!Needed(Lockfile) /\ Promise!Newest(Lockfile)
       /\ \A P \in SUBSET Names : ~Promise!Ring(P, Lockfile)
  /\ answer = "conflict" => \A S \in Promise!Choices(found) : ~Promise!Solves(S)
  /\ answer = "cycle" =>
       \E S \in Promise!Choices(rows) : \E P \in SUBSET Names : Promise!Ring(P, S)
  /\ answer = "error" => rows \cap Malformed # {}

LEMMA PromisedStep ==
  ASSUME TypeOK, SearchInv, TypeOK', Promised', [Next]_vars
  PROVE  [Promise!Next]_(Promise!vars)
<1>1. CASE answer' = answer /\ answer # "lockfile"
  <2>1. CASE Insert
    <3>1. answer = "none"
      BY <2>1 DEF Insert, SearchInv
    <3> QED  BY <2>1, <3>1 DEF Insert, Promise!Next, Promise!Upload, Promise!Unique, Unique
  <2>2. CASE ~Insert
    BY <1>1, <2>2
    DEF Next, Search, Cycle, Resolved, List, Try, Break, Exhausted, Solved, Answered, Raise, vars, Promise!vars
  <2> QED  BY <2>1, <2>2
<1>2. CASE answer = "lockfile"
  <2>1. UNCHANGED vars
    BY <1>2
    DEF Next, Search, Cycle, Resolved, List, Try, Break, Exhausted, Solved, Insert, Answered, vars, SearchInv
  <2> QED  BY <2>1 DEF vars, Promise!vars, Lockfile
<1>3. CASE answer' # answer
  <2>1. answer = "none" /\ UNCHANGED <<rows, found, roots>>
    BY <1>3
    DEF Next, Search, Cycle, Resolved, List, Try, Break, Exhausted, Solved, Insert, Answered, vars, Raise, SearchInv
  <2>2. CASE answer' = "lockfile"
    <3> DEFINE S == Lockfile'
    <3>1. /\ S \in Promise!Choices(rows) /\ Promise!Solves(S)
          /\ Promise!Needed(S) /\ Promise!Newest(S)
          /\ \A P \in SUBSET Names : ~Promise!Ring(P, S)
      BY <2>1, <2>2 DEF Promised, Promise!Choices, Promise!Solves, Promise!Granted, Promise!In,
                         Promise!Needed, Promise!Newest, Promise!Within, Promise!Ring
    <3> QED  BY <2>1, <2>2, <3>1 DEF Promise!Next, Promise!Lock
  <2>3. CASE answer' = "conflict"
    <3>1. \A S \in Promise!Choices(found) : ~Promise!Solves(S)
      BY <2>1, <2>3 DEF Promised, Promise!Choices, Promise!Solves, Promise!Granted, Promise!In
    <3> QED  BY <2>1, <2>3, <3>1 DEF Promise!Next, Promise!Refuse
  <2>4. CASE answer' = "cycle"
    <3>1. \E S \in Promise!Choices(rows) : \E P \in SUBSET Names : Promise!Ring(P, S)
      BY <2>1, <2>4 DEF Promised, Promise!Choices, Promise!Ring, Promise!In
    <3> QED BY <2>1, <2>4, <3>1 DEF Promise!Next, Promise!ReportCycle
  <2>5. CASE answer' = "error"
    BY <2>1, <2>5 DEF Promised, Promise!Next, Promise!Break
  <2> QED  BY <1>3, <2>1, <2>2, <2>3, <2>4, <2>5 DEF TypeOK
<1> QED  BY <1>1, <1>2, <1>3

(* However the search backtracks and whatever is uploaded meanwhile, its   *)
(* answer is one that looking at all choices at once would give.           *)
THEOREM ResolutionKept == Spec => ImplementsResolution
<1>1. Init => Promise!Init
  BY DEF Init, Promise!Init, Promise!Unique, Unique, Promise!Nothing
<1>2. TypeOK /\ SearchInv /\ TypeOK' /\ Promised' /\ [Next]_vars => [Promise!Next]_(Promise!vars)
  BY PromisedStep
<1>3. /\ TypeOK /\ SearchInv /\ LockfileIsSolution /\ NoStrayPackages /\ LockfileAcyclic
      /\ NewestFirst /\ RefusalIsJust /\ CycleIsReal
      => Promised
  BY LockfileIsPromised, CycleIsPromised, SameSolutions DEF Promised, RefusalIsJust, SearchInv
<1> QED
  BY <1>1, <1>2, <1>3, TypeCorrect, SearchInvHolds, LockfileIsSolutionHolds, NoStrayPackagesHolds,
     LockfileAcyclicHolds, NewestFirstHolds, RefusalIsJustHolds, CycleIsRealHolds, PTL
  DEF Spec, ImplementsResolution, Promise!Spec
=============================================================================
