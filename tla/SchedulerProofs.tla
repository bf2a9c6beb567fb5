-------------------------- MODULE SchedulerProofs --------------------------
(***************************************************************************)
(* Proofs about Scheduler, for every set of jobs and every "needs": what a *)
(* pipeline that is accepted hands to the runner is a layering, and the    *)
(* group loop never finds itself without a job to run.                     *)
(***************************************************************************)
EXTENDS Submission, TLAPS, SequenceTheorems, FiniteSetTheorems, WellFoundedInduction

USE DEF searchVars, groupVars

LEMMA TypeStep == TypeOK /\ [Next]_vars => TypeOK'
<1> SUFFICES ASSUME TypeOK, [Next]_vars PROVE TypeOK'
  OBVIOUS
<1> USE NamesAssumption DEF TypeOK, Phases, Verdicts
<1>1. CASE BuildDag \/ SearchDone \/ Accept
  BY <1>1 DEF BuildDag, SearchDone, Accept
<1>2. CASE \E j \in Jobs : VisitRoot(j)
  BY <1>2 DEF VisitRoot, Visit
<1>3. CASE \E j \in Jobs : VisitNeed(j)
  BY <1>3 DEF VisitNeed, Visit
<1>4. CASE \E j \in Jobs : PassNeed(j)
  BY <1>4 DEF PassNeed
<1>5. CASE \E j \in Jobs : FindCycle(j)
  <2> PICK d \in Jobs : FindCycle(d)
    BY <1>5
  <2>1. cycle' = CyclePath(d)
    BY DEF FindCycle
  <2> DEFINE start == CHOOSE i \in 1 .. Len(path) : path[i] = d
  <2>2. start \in 1 .. Len(path)
    BY DEF FindCycle
  <2> HIDE DEF start
  <2>3. SubSeq(path, start, Len(path)) \in Seq(Jobs)
    <3>1. start \in Int /\ Len(path) \in Int /\ \A i \in start .. Len(path) : path[i] \in Jobs
      BY <2>2
    <3> QED
      BY <3>1, SubSeqProperties
  <2>4. CyclePath(d) \in Seq(Jobs)
    BY <2>3 DEF CyclePath, start
  <2> QED
    BY <2>1, <2>4 DEF FindCycle
<1>6. CASE Leave
  <2>1. path' \in Seq(Jobs)
    BY <1>6 DEF Leave
  <2>2. Top \in Jobs
    BY <1>6 DEF Leave, Top
  <2> QED
    BY <1>6, <2>1, <2>2 DEF Leave
<1>7. CASE NextGroup
  <2>1. Ready \in SUBSET Jobs
    BY DEF Ready
  <2>2. groups' \in Seq(SUBSET Jobs) /\ remaining' \in SUBSET Jobs
    <3>1. CASE Ready = {}
      BY <1>7, <3>1 DEF NextGroup
    <3>2. CASE Ready # {}
      <4>1. groups' = Append(groups, Ready) /\ remaining' = remaining \ Ready
        BY <1>7, <3>2 DEF NextGroup
      <4>2. Append(groups, Ready) \in Seq(SUBSET Jobs)
        BY <2>1, AppendProperties
      <4> QED
        BY <4>1, <4>2
    <3> QED
      BY <3>1, <3>2
  <2> QED
    BY <1>7, <2>2 DEF NextGroup
<1>8. CASE UNCHANGED vars
  BY <1>8 DEF vars
<1> QED
  BY <1>1, <1>2, <1>3, <1>4, <1>5, <1>6, <1>7, <1>8 DEF Next, Step, Answered

(* Type correctness.                                                       *)
THEOREM TypeCorrect == Spec => []TypeOK
<1>1. Init => TypeOK
  BY NamesAssumption DEF Init, TypeOK, Phases
<1> QED
  BY <1>1, TypeStep, PTL DEF Spec

-----------------------------------------------------------------------------
(* The search.                                                             *)

(* The path is a stack: what entering and leaving a job do to it.          *)
LEMMA PathPush ==
  ASSUME TypeOK, NEW d \in Jobs, path' = Append(path, d)
  PROVE  /\ Len(path) \in Nat /\ Len(path') = Len(path) + 1
         /\ \A i \in 1 .. Len(path) : path'[i] = path[i]
         /\ path'[Len(path) + 1] = d
  BY AppendProperties DEF TypeOK

LEMMA PathPop ==
  ASSUME TypeOK, path # <<>>, path' = SubSeq(path, 1, Len(path) - 1)
  PROVE  /\ Len(path) \in Nat \ {0} /\ Len(path') = Len(path) - 1
         /\ \A i \in 1 .. Len(path') : path'[i] = path[i]
<1>1. Len(path) \in Nat \ {0} /\ \A i \in 1 .. (Len(path) - 1) : path[i] \in Jobs
  BY DEF TypeOK
<1> DEFINE n == Len(path) - 1
<1>2. n \in Int /\ 1 \in Int /\ \A i \in 1 .. n : path[i] \in Jobs
  BY <1>1
<1>3. path' = SubSeq(path, 1, n)
  OBVIOUS
<1>4. n \in Nat /\ Len(path) = n + 1
  BY <1>1
<1> HIDE DEF n
<1>5. Len(path') = (IF 1 <= n THEN n - 1 + 1 ELSE 0)
  BY <1>2, <1>3, SubSeqProperties
<1>6. \A i \in 1 .. n - 1 + 1 : path'[i] = path[1 + i - 1]
  BY <1>2, <1>3, SubSeqProperties
<1>7. Len(path') = n
  BY <1>4, <1>5
<1>8. \A i \in 1 .. n : path'[i] = path[i]
  <2> TAKE i \in 1 .. n
  <2>1. i \in 1 .. n - 1 + 1 /\ 1 + i - 1 = i
    BY <1>4
  <2> QED
    BY <1>6, <2>1
<1> QED
  BY <1>4, <1>7, <1>8

LEMMA TopIsJob ==
  ASSUME TypeOK, path # <<>>
  PROVE  /\ Len(path) \in Nat \ {0} /\ Len(path) \in 1 .. Len(path)
         /\ Top = path[Len(path)] /\ Top \in Jobs
  BY DEF TypeOK, Top

(* Making a job whose needs are done, done, closes no cycle.               *)
LEMMA NoNewCycle ==
  ASSUME NEW S \in SUBSET Jobs, NEW t \in Jobs, t \notin S,
         ~ HasCycle(S), \A j \in S \cup {t} : dag[j] \subseteq S
  PROVE  ~ HasCycle(S \cup {t})
<1> SUFFICES ASSUME NEW C \in SUBSET (S \cup {t}), C # {}, \A j \in C : dag[j] \cap C # {}
             PROVE  FALSE
  BY DEF HasCycle
<1>1. \A j \in C : dag[j] \cap (C \ {t}) # {}
  OBVIOUS
<1>2. C \ {t} # {} /\ C \ {t} \in SUBSET S
  BY <1>1
<1> QED
  BY <1>1, <1>2 DEF HasCycle

(* Black stays as it is while jobs are entered and needs are passed.       *)
LEMMA SearchVisit ==
  ASSUME TypeOK, SearchInv, NEW d \in Jobs, state[d] = 0,
         phase = "searching", UNCHANGED <<dag, phase>>, Visit(d),
         left'[d] = dag[d],
         \A j \in Jobs : j # d => /\ left'[j] \subseteq left[j]
                                  /\ left'[j] # left[j] =>
                                       /\ path # <<>> /\ j = Top
                                       /\ left'[j] = left[j] \ {d} /\ d \in left[j],
         path # <<>> => d \in left[Top] /\ left'[Top] = left[Top] \ {d}
  PROVE  SearchInv'
<1>1. /\ Len(path) \in Nat /\ Len(path') = Len(path) + 1
      /\ \A i \in 1 .. Len(path) : path'[i] = path[i]
      /\ path'[Len(path) + 1] = d
  BY PathPush DEF Visit
<1>2. \A j \in Jobs : state'[j] = IF j = d THEN 1 ELSE state[j]
  BY DEF Visit, TypeOK
<1>3. Black' = Black
  BY <1>2 DEF Black
<1>4. \A i \in 1 .. Len(path) : path[i] \in Jobs /\ path[i] # d
  BY DEF SearchInv, TypeOK
<1>5. \A i \in 1 .. Len(path') : i \in 1 .. Len(path) \/ i = Len(path) + 1
  BY <1>1
<1>6. \A j \in Jobs : state'[j] = 1 <=> \E i \in 1 .. Len(path') : path'[i] = j
  <2> TAKE j \in Jobs
  <2>1. CASE j = d
    <3>1. Len(path) + 1 \in 1 .. Len(path')
      BY <1>1
    <3> QED
      BY <1>1, <1>2, <2>1, <3>1
  <2>2. CASE j # d
    <3>1. \A i \in 1 .. Len(path) : i \in 1 .. Len(path')
      BY <1>1
    <3>2. state[j] = 1 <=> \E i \in 1 .. Len(path) : path[i] = j
      BY DEF SearchInv
    <3> QED
      BY <1>1, <1>2, <1>5, <2>2, <3>1, <3>2
  <2> QED
    BY <2>1, <2>2
<1>7. \A i, k \in 1 .. Len(path') : path'[i] = path'[k] => i = k
  BY <1>1, <1>4, <1>5 DEF SearchInv
<1>8. ASSUME NEW i \in 1 .. Len(path')
      PROVE  /\ left'[path'[i]] \subseteq dag[path'[i]]
             /\ i < Len(path') => path'[i + 1] \in dag[path'[i]]
             /\ \A n \in dag[path'[i]] \ left'[path'[i]] :
                  n \in Black \/ (i < Len(path') /\ n = path'[i + 1])
  <2>1. CASE i = Len(path) + 1
    BY <1>1, <2>1
  <2>2. CASE i \in 1 .. Len(path) /\ i # Len(path)
    <3>1. path # <<>> => path[i] # Top
      BY <1>1, <2>2, TopIsJob DEF SearchInv
    <3>2. left'[path[i]] = left[path[i]]
      BY <1>4, <2>2, <3>1
    <3>3. i < Len(path) /\ i < Len(path') /\ i + 1 \in 1 .. Len(path)
      BY <1>1, <2>2
    <3>4. /\ left[path[i]] \subseteq dag[path[i]]
          /\ path[i + 1] \in dag[path[i]]
          /\ \A n \in dag[path[i]] \ left[path[i]] : n \in Black \/ n = path[i + 1]
      BY <2>2, <3>3 DEF SearchInv
    <3>5. path'[i] = path[i] /\ path'[i + 1] = path[i + 1]
      BY <1>1, <2>2, <3>3
    <3> QED
      BY <3>2, <3>3, <3>4, <3>5
  <2>3. CASE i = Len(path)
    <3>1. i \in 1 .. Len(path) /\ path # <<>> /\ path'[i] = Top /\ path'[i + 1] = d
      BY <1>1, <2>3, TopIsJob DEF TypeOK
    <3>2. left'[Top] = left[Top] \ {d} /\ d \in left[Top] /\ left[Top] \subseteq dag[Top]
      BY <3>1, TopIsJob DEF SearchInv
    <3>3. \A n \in dag[Top] \ left[Top] : n \in Black
      BY <2>3, <3>1, TopIsJob DEF SearchInv
    <3>4. i < Len(path')
      BY <1>1, <2>3
    <3> QED
      BY <3>1, <3>2, <3>3, <3>4
  <2> QED
    BY <1>5, <2>1, <2>2, <2>3
<1>9. HasCycle(Black)' <=> HasCycle(Black)
  BY <1>3 DEF HasCycle
<1> QED
  BY <1>3, <1>6, <1>7, <1>8, <1>9 DEF SearchInv

(* Looking at a need that is done already.                                 *)
LEMMA SearchPass ==
  ASSUME TypeOK, SearchInv, NEW d \in Jobs, PassNeed(d)
  PROVE  SearchInv'
<1>1. UNCHANGED <<dag, phase, state, path>> /\ d \in Black /\ path # <<>>
  BY DEF PassNeed, Explored, Black
<1>2. \A j \in Jobs : left'[j] = IF j = Top THEN left[j] \ {d} ELSE left[j]
  BY TopIsJob DEF PassNeed, TypeOK
<1>3. \A i \in 1 .. Len(path) : path[i] \in Jobs
  BY DEF TypeOK
<1>4. Black' = Black /\ (HasCycle(Black)' <=> HasCycle(Black))
  BY <1>1 DEF Black, HasCycle
<1>5. ASSUME NEW i \in 1 .. Len(path)
      PROVE  /\ left'[path[i]] \subseteq dag[path[i]]
             /\ \A n \in dag[path[i]] \ left'[path[i]] :
                  n \in Black \/ (i < Len(path) /\ n = path[i + 1])
  <2>1. /\ left[path[i]] \subseteq dag[path[i]]
        /\ \A n \in dag[path[i]] \ left[path[i]] :
             n \in Black \/ (i < Len(path) /\ n = path[i + 1])
    BY DEF SearchInv
  <2> QED
    BY <1>1, <1>2, <1>3, <2>1
<1> QED
  BY <1>1, <1>4, <1>5 DEF SearchInv

(* Leaving a job: all that it needs is done, so it may be.                 *)
LEMMA SearchLeave ==
  ASSUME TypeOK, SearchInv, Leave
  PROVE  SearchInv'
<1>1. UNCHANGED <<dag, phase, left>> /\ phase = "searching" /\ path # <<>> /\ left[Top] = {}
  BY DEF Leave
<1>2. Top \in Jobs /\ Len(path) \in 1 .. Len(path) /\ path[Len(path)] = Top
  BY <1>1, TopIsJob
<1>3. /\ Len(path) \in Nat \ {0} /\ Len(path') = Len(path) - 1
      /\ \A i \in 1 .. Len(path') : path'[i] = path[i]
  BY PathPop DEF Leave
<1>4. \A j \in Jobs : state'[j] = IF j = Top THEN 2 ELSE state[j]
  BY <1>2 DEF Leave, TypeOK
<1>5. Black' = Black \cup {Top} /\ Top \notin Black
  <2>1. state[Top] = 1
    BY <1>2 DEF SearchInv
  <2> QED
    BY <1>2, <1>4, <2>1 DEF Black
<1>6. \A i \in 1 .. Len(path) : path[i] = Top <=> i = Len(path)
  BY <1>2 DEF SearchInv
<1>7. \A i \in 1 .. Len(path) : i \in 1 .. Len(path') <=> i # Len(path)
  BY <1>3
<1>8. \A i \in 1 .. Len(path') : i \in 1 .. Len(path)
  BY <1>3
<1>9. dag[Top] \subseteq Black
  BY <1>1, <1>2 DEF SearchInv
<1>10. \A j \in Black' : dag[j] \subseteq Black'
  BY <1>5, <1>9 DEF SearchInv
<1>11. ~ HasCycle(Black)'
  <2>1. Black \in SUBSET Jobs /\ \A j \in Black \cup {Top} : dag[j] \subseteq Black
    BY <1>9 DEF Black, SearchInv
  <2>2. ~ HasCycle(Black \cup {Top})
    BY <1>2, <1>5, <2>1, NoNewCycle DEF SearchInv
  <2> QED
    BY <1>1, <1>5, <2>2 DEF HasCycle
<1>12. \A j \in Jobs : state'[j] = 1 <=> \E i \in 1 .. Len(path') : path'[i] = j
  <2> SUFFICES ASSUME NEW j \in Jobs
               PROVE  state'[j] = 1 <=> \E i \in 1 .. Len(path') : path'[i] = j
    OBVIOUS
  <2>1. CASE j = Top
    <3>1. \A i \in 1 .. Len(path') : path'[i] # Top
      <4> TAKE i \in 1 .. Len(path')
      <4>1. i \in 1 .. Len(path) /\ i # Len(path) /\ path'[i] = path[i]
        BY <1>3, <1>7, <1>8
      <4> QED  BY <1>6, <4>1
    <3>2. state'[j] = 2
      BY <1>4, <2>1
    <3> QED  BY <2>1, <3>1, <3>2
  <2>2. CASE j # Top
    <3>1. state[j] = 1 <=> \E i \in 1 .. Len(path) : path[i] = j
      BY DEF SearchInv
    <3>2. (\E i \in 1 .. Len(path) : path[i] = j) <=> \E i \in 1 .. Len(path') : path'[i] = j
      BY <1>2, <1>3, <1>7, <1>8, <2>2
    <3> QED  BY <1>4, <2>2, <3>1, <3>2
  <2> QED  BY <2>1, <2>2
<1>13. \A i, k \in 1 .. Len(path') : path'[i] = path'[k] => i = k
  BY <1>3, <1>8 DEF SearchInv
<1>14. ASSUME NEW i \in 1 .. Len(path')
       PROVE  /\ left[path'[i]] \subseteq dag[path'[i]]
              /\ i < Len(path') => path'[i + 1] \in dag[path'[i]]
              /\ \A n \in dag[path'[i]] \ left[path'[i]] :
                   n \in Black' \/ (i < Len(path') /\ n = path'[i + 1])
  <2>1. i \in 1 .. Len(path) /\ i < Len(path) /\ path'[i] = path[i]
    BY <1>3, <1>8
  <2>2. /\ left[path[i]] \subseteq dag[path[i]] /\ path[i + 1] \in dag[path[i]]
        /\ \A n \in dag[path[i]] \ left[path[i]] : n \in Black \/ n = path[i + 1]
    BY <2>1 DEF SearchInv
  <2>3. CASE i < Len(path')
    <3>1. i + 1 \in 1 .. Len(path') /\ path'[i + 1] = path[i + 1]
      BY <1>3, <2>3
    <3> QED
      BY <1>5, <2>1, <2>2, <2>3, <3>1
  <2>4. CASE ~ (i < Len(path'))
    <3>1. i + 1 = Len(path) /\ path[i + 1] = Top
      BY <1>2, <1>3, <2>4
    <3> QED
      BY <1>5, <2>1, <2>2, <2>4, <3>1
  <2> QED
    BY <2>3, <2>4
<1> QED
  BY <1>1, <1>10, <1>11, <1>12, <1>13, <1>14 DEF SearchInv

LEMMA SearchStep == TypeOK /\ SearchInv /\ [Next]_vars => SearchInv'
<1> SUFFICES ASSUME TypeOK, SearchInv, [Next]_vars PROVE SearchInv'
  OBVIOUS
<1> USE DEF HasCycle, Black
<1>1. CASE BuildDag
  BY <1>1 DEF BuildDag, SearchInv, TypeOK
<1>2. CASE \E j \in Jobs : VisitRoot(j)
  <2> PICK d \in Jobs : VisitRoot(d)
    BY <1>2
  <2>1. left'[d] = dag[d] /\ \A j \in Jobs : j # d => left'[j] = left[j]
    BY DEF VisitRoot, TypeOK
  <2> QED
    BY <2>1, SearchVisit DEF VisitRoot
<1>3. CASE \E j \in Jobs : VisitNeed(j)
  <2> PICK d \in Jobs : VisitNeed(d)
    BY <1>3
  <2>1. path # <<>> /\ d \in left[Top] /\ state[d] = 0
    BY DEF VisitNeed
  <2>2. Top \in Jobs /\ state[Top] = 1
    BY <2>1, TopIsJob DEF SearchInv
  <2>3. \A j \in Jobs : left'[j] = IF j = d THEN dag[d]
                                   ELSE IF j = Top THEN left[j] \ {d} ELSE left[j]
    BY <2>1, <2>2 DEF VisitNeed, TypeOK
  <2>4. Top # d
    BY <2>1, <2>2
  <2>5. left'[d] = dag[d] /\ left'[Top] = left[Top] \ {d}
    BY <2>2, <2>3, <2>4
  <2>6. \A j \in Jobs : j # d =>
          /\ left'[j] \subseteq left[j]
          /\ left'[j] # left[j] =>
               path # <<>> /\ j = Top /\ left'[j] = left[j] \ {d} /\ d \in left[j]
    BY <2>1, <2>3
  <2>7. phase = "searching" /\ UNCHANGED <<dag, phase>> /\ Visit(d)
    BY DEF VisitNeed
  <2> QED
    BY <2>1, <2>5, <2>6, <2>7, SearchVisit
<1>4. CASE \E j \in Jobs : PassNeed(j)
  BY <1>4, SearchPass
<1>5. CASE \E j \in Jobs : FindCycle(j)
  BY <1>5 DEF FindCycle, SearchInv
<1>6. CASE Leave
  BY <1>6, SearchLeave
<1>7. CASE SearchDone
  <2>1. UNCHANGED <<dag, state, path, left>> /\ phase = "searching" /\ phase' = "grouping"
    BY <1>7 DEF SearchDone
  <2>2. \A j \in Jobs : state[j] # 1 /\ state[j] # 0
    BY <1>7 DEF SearchDone, SearchInv
  <2>3. Black = Jobs
    BY <2>2 DEF TypeOK
  <2> QED
    BY <2>1, <2>3 DEF SearchInv
<1>8. CASE NextGroup
  <2>1. phase = "grouping" /\ phase' \in {"grouping", "stuck"} /\ UNCHANGED <<dag, searchVars>>
    BY <1>8 DEF NextGroup
  <2> QED
    BY <2>1 DEF SearchInv
<1>9. CASE Accept
  BY <1>9 DEF Accept, SearchInv
<1>10. CASE UNCHANGED vars
  BY <1>10 DEF vars, SearchInv
<1> QED
  BY <1>1, <1>2, <1>3, <1>4, <1>5, <1>6, <1>7, <1>8, <1>9, <1>10 DEF Next, Step, Answered

(* The invariant of the search holds throughout.                           *)
THEOREM SearchInvHolds == Spec => []SearchInv
<1>1. Init => SearchInv
  BY DEF Init, SearchInv, Black, HasCycle
<1> QED
  BY <1>1, SearchStep, TypeCorrect, PTL DEF Spec

-----------------------------------------------------------------------------
(* The cycle that is reported.                                             *)

LEMMA CycleFound ==
  ASSUME TypeOK, SearchInv, NEW d \in Jobs, FindCycle(d)
  PROVE  CycleIsReal'
<1> DEFINE start == CHOOSE i \in 1 .. Len(path) : path[i] = d
           n     == Len(path) - start + 1
<1>1. start \in 1 .. Len(path) /\ path[start] = d
  BY DEF FindCycle
<1>2. path # <<>> /\ d \in left[Top] /\ cycle' = Append(SubSeq(path, start, Len(path)), d)
  BY DEF FindCycle, CyclePath
<1>3. Len(path) \in Nat \ {0} /\ Top = path[Len(path)] /\ d \in dag[Top]
  BY <1>2, TopIsJob DEF SearchInv
<1> HIDE DEF start
<1>4. n \in Nat \ {0} /\ start \in Int /\ Len(path) \in Int /\ start <= Len(path)
  BY <1>1, <1>3
<1>5. \A i \in start .. Len(path) : path[i] \in Jobs
  BY <1>1 DEF TypeOK
<1>6. /\ SubSeq(path, start, Len(path)) \in Seq(Jobs)
      /\ Len(SubSeq(path, start, Len(path))) = n
      /\ \A i \in 1 .. n : SubSeq(path, start, Len(path))[i] = path[start + i - 1]
  <2>1. start \in Int /\ Len(path) \in Int /\ start <= Len(path)
    BY <1>4
  <2>2. SubSeq(path, start, Len(path)) \in Seq(Jobs)
    BY <1>5, <2>1, SubSeqProperties
  <2>3. Len(SubSeq(path, start, Len(path))) = Len(path) - start + 1
    BY <1>5, <2>1, SubSeqProperties
  <2>4. \A i \in 1 .. Len(path) - start + 1 :
          SubSeq(path, start, Len(path))[i] = path[start + i - 1]
    BY <1>5, <2>1, SubSeqProperties
  <2> QED
    BY <2>2, <2>3, <2>4
<1>7. /\ Len(cycle') = n + 1
      /\ \A i \in 1 .. n : cycle'[i] = path[start + i - 1]
      /\ cycle'[n + 1] = d
  <2> DEFINE sub == SubSeq(path, start, Len(path))
  <2>1. sub \in Seq(Jobs) /\ Len(sub) = n /\ cycle' = Append(sub, d)
    BY <1>2, <1>6
  <2>2. \A i \in 1 .. n : sub[i] = path[start + i - 1]
    BY <1>6
  <2> HIDE DEF sub, n
  <2>3. Len(cycle') = n + 1 /\ (\A i \in 1 .. n : cycle'[i] = sub[i]) /\ cycle'[n + 1] = d
    BY <2>1, AppendProperties
  <2> QED
    BY <2>2, <2>3
<1>8. cycle'[1] = d /\ Len(cycle') > 1
  <2>1. start + 1 - 1 = start /\ 1 \in 1 .. n
    BY <1>4
  <2> QED
    BY <1>1, <1>4, <1>7, <2>1
<1>9. ASSUME NEW i \in 1 .. n
      PROVE  cycle'[i + 1] \in dag[cycle'[i]]
  <2> DEFINE k == start + i - 1
  <2>1. k \in 1 .. Len(path) /\ cycle'[i] = path[k]
    <3>1. k \in 1 .. Len(path)
      BY <1>1, <1>4
    <3> QED BY <1>7, <3>1
  <2>2. CASE i = n
    <3>1. k = Len(path) /\ cycle'[i + 1] = d
      BY <1>4, <1>7, <2>2
    <3> QED
      BY <1>3, <2>1, <3>1
  <2>3. CASE i # n
    <3>1. i + 1 \in 1 .. n /\ start + (i + 1) - 1 = k + 1 /\ k < Len(path)
      BY <1>1, <1>4, <2>3
    <3>2. cycle'[i + 1] = path[k + 1]
      BY <1>7, <3>1
    <3> HIDE DEF k
    <3>3. path[k + 1] \in dag[path[k]]
      BY <2>1, <3>1 DEF SearchInv
    <3> QED
      BY <2>1, <3>2, <3>3
  <2> QED
    BY <2>2, <2>3
<1>10. Len(cycle') - 1 = n /\ dag' = dag
  BY <1>4, <1>7 DEF FindCycle
<1>11. cycle'[Len(cycle')] = d
  BY <1>7
<1> HIDE DEF n
<1> QED
  BY <1>8, <1>9, <1>10, <1>11 DEF CycleIsReal

(* A cycle that is reported exists.                                        *)
THEOREM CycleIsRealHolds == Spec => []CycleIsReal
<1>1. Init => CycleIsReal
  BY DEF Init, CycleIsReal
<1>2. TypeOK /\ SearchInv /\ CycleIsReal /\ [Next]_vars => CycleIsReal'
  <2> SUFFICES ASSUME TypeOK, SearchInv, CycleIsReal, [Next]_vars PROVE CycleIsReal'
    OBVIOUS
  <2>1. CASE \E d \in Jobs : FindCycle(d)
    BY <2>1, CycleFound
  <2>2. CASE UNCHANGED vars
    BY <2>2 DEF vars, CycleIsReal
  <2>3. CASE phase' # "cycle"
    BY <2>3 DEF CycleIsReal
  <2> QED
    BY <2>1, <2>2, <2>3
    DEF Next, Step, Answered, BuildDag, Leave, SearchDone, NextGroup, Accept, VisitRoot,
        VisitNeed, PassNeed
<1> QED
  BY <1>1, <1>2, TypeCorrect, SearchInvHolds, PTL DEF Spec

-----------------------------------------------------------------------------
(* The verdict of the search.                                              *)

(* A closed walk is a set of jobs that wait for one another.               *)
LEMMA WalkIsCycle == TypeOK /\ CycleIsReal /\ phase = "cycle" => HasCycle(Jobs)
<1> SUFFICES ASSUME TypeOK, CycleIsReal, phase = "cycle" PROVE HasCycle(Jobs)
  OBVIOUS
<1> DEFINE n == Len(cycle) - 1
           S == {cycle[i] : i \in 1 .. n}
<1>1. /\ n \in Nat \ {0} /\ Len(cycle) = n + 1 /\ cycle[1] = cycle[n + 1]
      /\ \A i \in 1 .. n : cycle[i + 1] \in dag[cycle[i]]
  BY DEF CycleIsReal, TypeOK
<1>2. \A i \in 1 .. n : cycle[i] \in Jobs
  BY DEF TypeOK
<1> HIDE DEF n
<1>3. \A i \in 1 .. n : cycle[i + 1] \in S
  <2> TAKE i \in 1 .. n
  <2>1. CASE i = n
    BY <1>1, <2>1
  <2>2. CASE i # n
    <3>1. i + 1 \in 1 .. n
      BY <1>1, <2>2
    <3> QED
      BY <3>1
  <2> QED
    BY <2>1, <2>2
<1>4. S # {} /\ S \in SUBSET Jobs
  BY <1>1, <1>2
<1>5. \A j \in S : dag[j] \cap S # {}
  BY <1>1, <1>3
<1> QED
  BY <1>4, <1>5 DEF HasCycle

(* The search reports a cycle exactly when there is one.                   *)
THEOREM CyclesAreFoundHolds == Spec => []CyclesAreFound
<1>1. TypeOK /\ SearchInv /\ CycleIsReal => CyclesAreFound
  BY WalkIsCycle DEF CyclesAreFound, SearchInv
<1> QED
  BY <1>1, TypeCorrect, SearchInvHolds, CycleIsRealHolds, PTL

-----------------------------------------------------------------------------
(* The groups.                                                             *)

(* Without a cycle, some job that remains needs none that remain.          *)
LEMMA SomethingIsReady ==
  ASSUME TypeOK, SearchInv, phase = "grouping", remaining # {}
  PROVE  Ready # {}
<1>1. Black = Jobs /\ remaining \in SUBSET Jobs /\ \A j \in Jobs : dag[j] \subseteq Jobs
  BY DEF SearchInv, TypeOK
<1>2. PICK j \in remaining : dag[j] \cap remaining = {}
  BY <1>1 DEF SearchInv, HasCycle
<1>3. j \in Ready
  BY <1>1, <1>2 DEF Ready, Completed
<1> QED
  BY <1>3

(* After detect_cycles, get_parallel_groups always finds a job to run.     *)
THEOREM NeverStuckHolds == Spec => []NeverStuck
<1>1. TypeOK /\ SearchInv /\ NeverStuck /\ [Next]_vars => NeverStuck'
  <2> SUFFICES ASSUME TypeOK, SearchInv, NeverStuck, [Next]_vars PROVE NeverStuck'
    OBVIOUS
  <2>1. CASE NextGroup
    BY <2>1, SomethingIsReady DEF NextGroup, NeverStuck
  <2> QED
    BY <2>1 DEF NeverStuck, Next, Step, Answered, vars, BuildDag, Leave, SearchDone, Accept,
                VisitRoot, VisitNeed, PassNeed, FindCycle
<1>2. Init => NeverStuck
  BY DEF Init, NeverStuck
<1> QED
  BY <1>1, <1>2, TypeCorrect, SearchInvHolds, PTL DEF Spec

(* A group is appended.                                                    *)
LEMMA GroupAppended ==
  ASSUME TypeOK, GroupInv, NextGroup, Ready # {}
  PROVE  GroupInv'
<1> DEFINE n == Len(groups)
<1>1. groups' = Append(groups, Ready) /\ remaining' = remaining \ Ready
      /\ UNCHANGED <<dag, phase>> /\ phase = "grouping"
  BY DEF NextGroup
<1>2. Ready \in SUBSET Jobs /\ Ready \subseteq remaining /\ \A j \in Ready : dag[j] \subseteq Completed
  BY DEF Ready, TypeOK
<1>3. groups \in Seq(SUBSET Jobs) /\ n \in Nat
  BY DEF TypeOK
<1>4. Len(groups') = n + 1 /\ (\A i \in 1 .. n : groups'[i] = groups[i]) /\ groups'[n + 1] = Ready
  BY <1>1, <1>2, <1>3, AppendProperties
<1> HIDE DEF n
<1>5. \A i \in 1 .. Len(groups') : i \in 1 .. n \/ i = n + 1
  BY <1>3, <1>4
<1>6. (\A i \in 1 .. n : i \in 1 .. Len(groups')) /\ n + 1 \in 1 .. Len(groups')
  BY <1>3, <1>4
<1>7. Completed = UNION {groups[i] : i \in 1 .. n}
  BY DEF GroupInv, n
<1>8. Completed' = Completed \cup Ready
  BY <1>1, <1>2 DEF Completed, TypeOK
<1>9. UNION {groups'[i] : i \in 1 .. Len(groups')} = Completed \cup Ready
  BY <1>4, <1>5, <1>6, <1>7
<1>10. \A i \in 1 .. n : groups[i] \cap Ready = {}
  BY <1>2, <1>7 DEF Completed
<1>11. ASSUME NEW i \in 1 .. Len(groups'), NEW k \in 1 .. Len(groups'), i # k
       PROVE  groups'[i] \cap groups'[k] = {}
  BY <1>4, <1>5, <1>10, <1>11 DEF GroupInv, n
<1>12. ASSUME NEW i \in 1 .. n
       PROVE  Before(groups', i) = Before(groups, i)
  <2>1. \A k \in 1 .. i - 1 : k \in 1 .. n
    BY <1>3
  <2> QED
    BY <1>4, <2>1 DEF Before
<1>13. Before(groups', n + 1) = Completed
  <2>1. Before(groups', n + 1) = UNION {groups'[k] : k \in 1 .. n}
    <3>1. (n + 1) - 1 = n
      BY <1>3
    <3> QED
      BY <3>1 DEF Before
  <2>2. {groups'[k] : k \in 1 .. n} = {groups[k] : k \in 1 .. n}
    BY <1>4
  <2> QED
    BY <1>7, <2>1, <2>2
<1>14. ASSUME NEW i \in 1 .. Len(groups'), NEW j \in groups'[i]
       PROVE  dag[j] \subseteq Before(groups', i)
  <2>1. CASE i \in 1 .. n
    BY <1>4, <1>12, <1>14, <2>1 DEF GroupInv, n
  <2>2. CASE i = n + 1
    BY <1>2, <1>4, <1>13, <1>14, <2>2
  <2> QED
    BY <1>5, <2>1, <2>2
<1> QED
  BY <1>1, <1>8, <1>9, <1>11, <1>14 DEF GroupInv

LEMMA GroupStep == TypeOK /\ GroupInv /\ [Next]_vars => GroupInv'
<1> SUFFICES ASSUME TypeOK, GroupInv, [Next]_vars PROVE GroupInv'
  OBVIOUS
<1>1. CASE NextGroup /\ Ready # {}
  BY <1>1, GroupAppended
<1>2. CASE NextGroup /\ Ready = {}
  BY <1>2 DEF NextGroup, GroupInv, Completed, Before
<1>3. CASE Accept
  BY <1>3 DEF Accept, GroupInv, Completed, Before
<1>4. CASE UNCHANGED <<dag, groupVars>> /\ (phase' = phase \/ phase' \notin {"building", "accepted"})
           /\ (phase' = "searching" => phase \in {"building", "searching"})
  BY <1>4 DEF GroupInv, Completed, Before
<1> QED
  BY <1>1, <1>2, <1>3, <1>4
  DEF Next, Step, Answered, vars, BuildDag, Leave, SearchDone, VisitRoot, VisitNeed, PassNeed,
      FindCycle

(* A pipeline that is accepted gets groups the runner can execute in order. *)
THEOREM AcceptedIsLayeringHolds == Spec => []AcceptedIsLayering
<1>1. Init => GroupInv
  BY DEF Init, GroupInv, Completed
<1>2. TypeOK /\ GroupInv => AcceptedIsLayering
  <2> SUFFICES ASSUME TypeOK, GroupInv, phase = "accepted" PROVE IsLayering(Jobs, dag, groups)
    BY DEF AcceptedIsLayering
  <2>1. Jobs = UNION {groups[i] : i \in 1 .. Len(groups)}
    BY DEF GroupInv, Completed
  <2> QED
    BY <2>1 DEF GroupInv, IsLayering, TypeOK
<1> QED
  BY <1>1, <1>2, GroupStep, TypeCorrect, PTL DEF Spec

-----------------------------------------------------------------------------
(* The search comes to an end.                                             *)

(* dfs never looks up a name that is no job, and path.index always finds   *)
(* the job it looks for (scheduler.py:54-59).                              *)
THEOREM LookupsSucceedHolds == Spec => []LookupsSucceed
<1>1. TypeOK /\ SearchInv => LookupsSucceed
  <2> SUFFICES ASSUME TypeOK, SearchInv, phase = "searching", path # <<>>, NEW d \in left[Top]
               PROVE  d \in Jobs /\ (OnPath(d) => \E i \in 1 .. Len(path) : path[i] = d)
    BY DEF LookupsSucceed
  <2>1. Top \in Jobs /\ left[Top] \subseteq dag[Top] /\ dag[Top] \subseteq Jobs
    BY TopIsJob DEF SearchInv
  <2> QED  BY <2>1 DEF SearchInv, OnPath
<1> QED  BY <1>1, TypeCorrect, SearchInvHolds, PTL

(* dfs is never nested deeper than there are jobs: a pipeline with fewer   *)
(* jobs than Python allows calls meets no RecursionError.                  *)
THEOREM DepthBoundedHolds == ASSUME IsFiniteSet(Jobs) PROVE Spec => []DepthBounded
<1>1. TypeOK /\ SearchInv => DepthBounded
  <2> SUFFICES ASSUME TypeOK, SearchInv PROVE DepthBounded
    OBVIOUS
  <2> DEFINE n == Len(path)
  <2>1. n \in Nat /\ path \in [1 .. n -> Jobs]
    BY DEF TypeOK
  <2>2. \A i, k \in 1 .. n : path[i] = path[k] => i = k
    BY DEF SearchInv
  <2>3. path \in Injection(1 .. n, Jobs)
    BY <2>1, <2>2 DEF Injection, IsInjective
  <2>4. Cardinality(1 .. n) <= Cardinality(Jobs)
    BY <2>3, FS_Injection
  <2>5. Cardinality(1 .. n) = n
    <3> HIDE DEF n
    <3>1. 1 \in Int /\ n \in Int
      BY <2>1
    <3>2. Cardinality(1 .. n) = IF 1 > n THEN 0 ELSE n - 1 + 1
      BY <3>1, FS_Interval
    <3> QED  BY <2>1, <3>2
  <2> QED  BY <2>4, <2>5 DEF DepthBounded
<1> QED  BY <1>1, TypeCorrect, SearchInvHolds, PTL

LEMMA WorkType ==
  ASSUME IsFiniteSet(Jobs), TypeOK
  PROVE  /\ Rank \in Nat /\ Len(path) \in Nat
         /\ IsFiniteSet(ToEnter) /\ Cardinality(ToEnter) \in Nat
         /\ IsFiniteSet(ToLookAt) /\ Cardinality(ToLookAt) \in Nat
         /\ IsFiniteSet(remaining) /\ Cardinality(remaining) \in Nat
<1>1. IsFiniteSet(Jobs \X Jobs)
  BY FS_Product
<1>2. ToEnter \in SUBSET Jobs /\ ToLookAt \in SUBSET (Jobs \X Jobs) /\ remaining \in SUBSET Jobs
  BY DEF TypeOK, ToEnter, ToLookAt
<1>3. IsFiniteSet(ToEnter) /\ IsFiniteSet(ToLookAt) /\ IsFiniteSet(remaining)
  BY <1>1, <1>2, FS_Subset
<1>4. Rank \in Nat /\ Len(path) \in Nat
  BY DEF Rank, TypeOK
<1> QED  BY <1>3, <1>4, FS_CardinalityType

(* A proper part of a finite set is smaller.                               *)
LEMMA Smaller ==
  ASSUME NEW S, IsFiniteSet(S), NEW T \in SUBSET S, T # S
  PROVE  Cardinality(T) < Cardinality(S)
<1>1. IsFiniteSet(T) /\ Cardinality(T) <= Cardinality(S) /\ Cardinality(S) # Cardinality(T)
  BY FS_Subset
<1>2. Cardinality(T) \in Nat /\ Cardinality(S) \in Nat
  BY <1>1, FS_CardinalityType
<1> QED  BY <1>1, <1>2

LEMMA WorkStep == ASSUME IsFiniteSet(Jobs), TypeOK, SearchInv, TypeOK', Step PROVE Less(Work', Work)
<1> DEFINE a == Rank
           b == Cardinality(ToEnter)
           c == Cardinality(ToLookAt)
           d == Len(path)
           e == Cardinality(remaining)
<1>0. SUFFICES \/ a' < a
               \/ a' = a /\ b' < b
               \/ a' = a /\ b' = b /\ c' < c
               \/ a' = a /\ b' = b /\ c' = c /\ d' < d
               \/ a' = a /\ b' = b /\ c' = c /\ d' = d /\ e' < e
  <2>1. Work' = <<a', b', c', d', e'>> /\ Work = <<a, b, c, d, e>>
    BY DEF Work
  <2> HIDE DEF a, b, c, d, e
  <2> QED  BY <2>1 DEF Less
<1>1. CASE BuildDag \/ SearchDone \/ Accept \/ \E j \in Jobs : FindCycle(j)
  BY <1>1 DEF BuildDag, SearchDone, Accept, FindCycle, Rank
<1>2. ASSUME NEW j \in Jobs, VisitRoot(j) \/ VisitNeed(j)
      PROVE  a' = a /\ b' < b
  <2>1. phase' = phase /\ state[j] = 0 /\ state' = [state EXCEPT ![j] = 1]
    BY <1>2 DEF VisitRoot, VisitNeed, Visit
  <2>2. ToEnter' = ToEnter \ {j} /\ j \in ToEnter
    BY <2>1 DEF ToEnter, TypeOK
  <2> QED  BY <2>1, <2>2, WorkType, Smaller DEF Rank
<1>3. ASSUME NEW j \in Jobs, PassNeed(j)
      PROVE  a' = a /\ b' = b /\ c' < c
  <2>1. phase' = phase /\ state' = state /\ j \in left[Top] /\ Top \in Jobs
        /\ left' = [left EXCEPT ![Top] = @ \ {j}]
    BY <1>3, TopIsJob DEF PassNeed
  <2>2. ToLookAt' = ToLookAt \ {<<Top, j>>} /\ <<Top, j>> \in ToLookAt
    BY <2>1 DEF ToLookAt, TypeOK
  <2>3. c' < c
    BY <2>2, WorkType, Smaller
  <2> QED  BY <2>1, <2>3 DEF Rank, ToEnter
<1>4. CASE Leave
  <2>1. phase' = phase /\ left' = left /\ Top \in Jobs /\ state' = [state EXCEPT ![Top] = 2]
        /\ path # <<>> /\ path' = SubSeq(path, 1, Len(path) - 1)
    BY <1>4, TopIsJob DEF Leave
  <2>2. state[Top] = 1
    BY <2>1, TopIsJob DEF SearchInv
  <2>3. ToEnter' = ToEnter /\ ToLookAt' = ToLookAt /\ a' = a
    BY <2>1, <2>2 DEF ToEnter, ToLookAt, Rank, TypeOK
  <2>4. d' < d
    BY <2>1, PathPop
  <2> QED  BY <2>3, <2>4
<1>5. CASE NextGroup
  <2>1. CASE Ready = {}
    BY <1>5, <2>1 DEF NextGroup, Rank
  <2>2. CASE Ready # {}
    <3>1. UNCHANGED <<phase, state, path, left>> /\ remaining' = remaining \ Ready
          /\ Ready \subseteq remaining
      BY <1>5, <2>2 DEF NextGroup, Ready
    <3>2. e' < e
      BY <2>2, <3>1, WorkType, Smaller
    <3> QED  BY <3>1, <3>2 DEF Rank, ToEnter, ToLookAt
  <2> QED  BY <2>1, <2>2
<1> QED  BY <1>1, <1>2, <1>3, <1>4, <1>5 DEF Step

Works == [1 .. 5 -> Nat]

(* For pipelines of any size: every step of the cycle search and of the    *)
(* grouping leaves less to do, in the order of Less.                       *)
THEOREM WorkShrinksHolds == ASSUME IsFiniteSet(Jobs) PROVE Spec => [](Work \in Works) /\ WorkShrinks
<1>1. TypeOK => Work \in Works
  BY WorkType DEF Work, Works
<1>2. TypeOK /\ SearchInv /\ TypeOK' /\ [Next]_vars => [Step => Less(Work', Work)]_vars
  BY WorkStep
<1> QED  BY <1>1, <1>2, TypeCorrect, SearchInvHolds, PTL DEF Spec, WorkShrinks

(* ... and no measure can become less for ever, so there are finitely many *)
(* steps between the upload of a pipeline and its verdict.                 *)
THEOREM LessIsWellFounded == IsWellFoundedOn({p \in Works \X Works : Less(p[1], p[2])}, Works)
<1> DEFINE NatLess == OpToRel(<, Nat)
<1>1. IsWellFoundedOn(NatLess, Nat)
  BY NatLessThanWellFounded
<1>2. \A x, y \in Nat : x < y => <<x, y>> \in NatLess
  BY DEF OpToRel
<1> HIDE DEF NatLess
<1>3. IsWellFoundedOn(LexProductOrdering(NatLess, Nat, 5), Works)
  BY <1>1, WFLexProductOrdering DEF Works
<1>4. {p \in Works \X Works : Less(p[1], p[2])} \subseteq LexProductOrdering(NatLess, Nat, 5)
  BY <1>2 DEF Less, LexProductOrdering, Works
<1> QED  BY <1>3, <1>4, IsWellFoundedOnSubrelation

-----------------------------------------------------------------------------
(* A job that is left over has needs that the groups so far do not cover,  *)
(* or not without the last of them.                                        *)

EarlyInv ==
  /\ groups = <<>> \/ \A j \in remaining : ~ (dag[j] \subseteq Before(groups, Len(groups)))
  /\ GroupsAreEarliest

LEMMA EarlyAppended ==
  ASSUME TypeOK, GroupInv, EarlyInv, NextGroup, Ready # {}
  PROVE  EarlyInv'
<1> DEFINE n == Len(groups)
<1>1. groups' = Append(groups, Ready) /\ remaining' = remaining \ Ready /\ dag' = dag
  BY DEF NextGroup
<1>2. groups \in Seq(SUBSET Jobs) /\ n \in Nat /\ Ready \in SUBSET Jobs
  BY DEF TypeOK, Ready
<1>3. Len(groups') = n + 1 /\ (\A i \in 1 .. n : groups'[i] = groups[i]) /\ groups'[n + 1] = Ready
  BY <1>1, <1>2, AppendProperties
<1>4. Completed = UNION {groups[i] : i \in 1 .. n}
  BY DEF GroupInv
<1> HIDE DEF n
<1>5. Before(groups', n + 1) = Completed
  <2>1. (n + 1) - 1 = n
    BY <1>2
  <2>2. {groups'[k] : k \in 1 .. n} = {groups[k] : k \in 1 .. n}
    BY <1>3
  <2> QED  BY <1>4, <2>1, <2>2 DEF Before
<1>6. \A j \in remaining' : ~ (dag'[j] \subseteq Before(groups', Len(groups')))
  BY <1>1, <1>3, <1>5 DEF Ready
<1>7. ASSUME NEW j \in Ready, n # 0 PROVE dag[j] \cap groups[n] # {}
  <2>1. dag[j] \subseteq Completed /\ j \in remaining
    BY DEF Ready
  <2>2. ~ (dag[j] \subseteq Before(groups, n))
    BY <1>2, <1>7, <2>1 DEF EarlyInv, n
  <2>3. \A i \in 1 .. n : i = n \/ i \in 1 .. (n - 1)
    BY <1>2
  <2>4. Completed \subseteq Before(groups, n) \cup groups[n]
    BY <1>4, <2>3 DEF Before
  <2> QED  BY <2>1, <2>2, <2>4
<1>8. ASSUME NEW i \in 2 .. Len(groups'), NEW j \in groups'[i]
      PROVE  dag[j] \cap groups'[i - 1] # {}
  <2>1. CASE i \in 2 .. n
    <3>1. i \in 1 .. n /\ i - 1 \in 1 .. n
      BY <1>2, <2>1
    <3> QED  BY <1>3, <1>8, <2>1, <3>1 DEF EarlyInv, GroupsAreEarliest, n
  <2>2. CASE i = n + 1
    <3>1. i - 1 = n /\ n \in 1 .. n /\ n # 0
      BY <1>2, <2>2
    <3> QED  BY <1>3, <1>7, <1>8, <2>2, <3>1
  <2> QED  BY <1>2, <1>3, <2>1, <2>2
<1> QED  BY <1>1, <1>6, <1>8 DEF EarlyInv, GroupsAreEarliest

(* No job runs in a later group than it must.                              *)
THEOREM GroupsAreEarliestHolds == Spec => []GroupsAreEarliest
<1>1. Init => GroupInv /\ EarlyInv
  BY DEF Init, GroupInv, EarlyInv, Completed, GroupsAreEarliest
<1>2. TypeOK /\ GroupInv /\ EarlyInv /\ [Next]_vars => EarlyInv'
  <2> SUFFICES ASSUME TypeOK, GroupInv, EarlyInv, [Next]_vars PROVE EarlyInv'
    OBVIOUS
  <2>1. CASE NextGroup /\ Ready # {}
    BY <2>1, EarlyAppended
  <2>2. CASE UNCHANGED <<dag, groupVars>>
    BY <2>2 DEF EarlyInv, GroupsAreEarliest, Before, groupVars
  <2> QED
    BY <2>1, <2>2
    DEF Next, Step, Answered, vars, BuildDag, Leave, SearchDone, NextGroup, Accept, VisitRoot,
        VisitNeed, PassNeed, FindCycle
<1>3. EarlyInv => GroupsAreEarliest
  BY DEF EarlyInv
<1> QED  BY <1>1, <1>2, <1>3, GroupStep, TypeCorrect, PTL DEF Spec

-----------------------------------------------------------------------------
(* Behind the parser nothing else happens than what Scheduler allows, so   *)
(* that what is proved above holds of every upload (main.py:84-96).        *)
THEOREM SubmissionIsScheduler == SubSpec => Spec
<1>1. SubInit => Init
  BY DEF SubInit
<1>2. [SubNext]_subVars => [Next]_vars
  BY DEF SubNext, subVars, vars, Parse, Unforeseen, Schedule, Next
<1> QED BY <1>1, <1>2, PTL DEF SubSpec, Spec

(* Whatever is uploaded: a pipeline is accepted only with a layering of    *)
(* its jobs, and rejected for a cycle only when it has that cycle.         *)
THEOREM SubmissionIsSafe == SubSpec => [](AcceptedIsLayering /\ CycleIsReal /\ CyclesAreFound)
BY SubmissionIsScheduler, AcceptedIsLayeringHolds, CycleIsRealHolds, CyclesAreFoundHolds, PTL

(* Only documents that the parser let through go on to the scheduler.      *)
ParsedInv ==
  /\ doc \in Documents
  /\ request = "validated" => ParsePipeline(doc)
  /\ phase # "building" => request = "validated"

LEMMA ParsedComplete ==
  ASSUME ParsedInv, AcceptedIsLayering, TypeOK
  PROVE  AcceptedIsComplete
<1> SUFFICES ASSUME phase = "accepted" PROVE AcceptedIsComplete
  BY DEF AcceptedIsComplete
<1> DEFINE jobs == doc.of["jobs"].of
           Entries(f) == LET v == Get(doc, f, Null) IN IF v.kind = "list" THEN Range(v.items) ELSE {}
<1>1. ParsePipeline(doc)
  BY DEF ParsedInv
<1>2. Has(doc, Required) /\ ValidJobs(doc.of["jobs"])
      /\ ValidEntries(Get(doc, "dependencies", List(<<>>)), {"name", "version"})
      /\ ValidEntries(Get(doc, "artifacts", List(<<>>)), {"name", "version", "path"})
  BY <1>1 DEF ParsePipeline
<1>3. UNION Range(groups) = DOMAIN jobs
  <2>1. Has(doc, {"jobs"}) /\ doc.of["jobs"].kind = "map" /\ DOMAIN jobs # {}
    BY <1>2 DEF Has, Required, ValidJobs
  <2>2. JobsOf(doc) = jobs
    BY <2>1 DEF JobsOf
  <2>3. DOMAIN JobsOf(doc) \in {Jobs, {}}
    BY DocumentsAssumption DEF ParsedInv
  <2>4. IsLayering(Jobs, dag, groups)
    BY DEF AcceptedIsLayering
  <2>5. DOMAIN groups = 1 .. Len(groups) /\ \A i \in 1 .. Len(groups) : groups[i] \subseteq Jobs
    BY DEF TypeOK
  <2>6. UNION Range(groups) = Jobs
    BY <2>4, <2>5 DEF IsLayering, Range
  <2> HIDE DEF jobs
  <2> QED  BY <2>1, <2>2, <2>3, <2>6
<1>4. ASSUME NEW j \in DOMAIN jobs
      PROVE  /\ "runtime" \in DOMAIN jobs[j].of
             /\ \A s \in Range(jobs[j].of["steps"].items) : {"name", "run"} \subseteq DOMAIN s.of
  <2>1. ValidJob(jobs[j])
    BY <1>2, <1>4 DEF ValidJobs
  <2> HIDE DEF jobs
  <2> QED  BY <2>1 DEF ValidJob, ValidSteps, Has
<1>5. ASSUME NEW f, NEW fields, ValidEntries(Get(doc, f, List(<<>>)), fields)
      PROVE  \A e \in Entries(f) : fields \subseteq DOMAIN e.of
  <2> SUFFICES ASSUME NEW e \in Entries(f) PROVE fields \subseteq DOMAIN e.of
    OBVIOUS
  <2> DEFINE v == doc.of[f]
  <2>1. f \in DOMAIN doc.of /\ v.kind = "list" /\ e \in Range(v.items)
    BY DEF Get, Null
  <2>2. Get(doc, f, List(<<>>)) = v
    BY <2>1 DEF Get
  <2> HIDE DEF v
  <2>3. v.items # <<>>
    BY <2>1 DEF Range
  <2>4. Truthy(v)
    BY <2>1, <2>3 DEF Truthy
  <2> QED  BY <1>5, <2>1, <2>2, <2>4 DEF ValidEntries, Has
<1> QED  BY <1>2, <1>3, <1>4, <1>5 DEF AcceptedIsComplete

(* Whatever is uploaded: an accepted pipeline has all that the runner      *)
(* indexes without asking, and each of its jobs is in a group.             *)
THEOREM AcceptedIsCompleteHolds == SubSpec => []AcceptedIsComplete
<1>1. SubInit => ParsedInv
  BY DEF SubInit, Init, ParsedInv
<1>2. ParsedInv /\ [SubNext]_subVars => ParsedInv'
  BY DEF ParsedInv, SubNext, subVars, vars, Parse, Unforeseen, Schedule
<1> QED
  BY <1>1, <1>2, ParsedComplete, SubmissionIsScheduler, AcceptedIsLayeringHolds, TypeCorrect, PTL DEF SubSpec
=============================================================================
