----------------------------- MODULE ForgeProofs -----------------------------
(* Proofs about Forge for any commands, artifacts, tokens and crashes.     *)
(* The inductive invariant says where a command can be (Shape), what it    *)
(* owns at each point of its artifact loop (Uploads), what the answers it  *)
(* was given rest on (Told), and that a revoked token never comes back     *)
(* (Dead).                                                                 *)
EXTENDS Forge, TLAPS

Statuses == {"201", "401", "409", "422", "500"}

Shape ==
  \A c \in Commands :
    /\ c \in Publish => run[c] = "none" /\ req[c] # "checked"
    /\ c \notin Publish => req[c] # "passed"
    /\ req[c] \in {"none", "sent", "checked"} => run[c] = "none" /\ post[c] = "none" /\ next[c] = 0
    /\ run[c] \in {"none", "queued", "running"} /\ c \notin Publish => next[c] = 0
    /\ run[c] \in {"publishing", "succeeded"} => next[c] >= 1
    /\ run[c] = "succeeded" => next[c] > Len(Artifacts[c]) /\ post[c] = "none"
    /\ post[c] = "none" /\ c \in Publish => next[c] = 0
    /\ post[c] # "none" => next[c] \in 1..Len(Artifacts[c])
    /\ next[c] <= Len(Artifacts[c]) + 1

Uploaded(c) == {Artifacts[c][i] : i \in 1..(next[c] - 1)}

Uploads ==
  \A c \in Commands :
    Owned(c) = IF post[c] = "201" THEN Uploaded(c) \cup {Target(c)} ELSE Uploaded(c)

Told ==
  \A c \in Commands :
    /\ told[c] \in Statuses => req[c] = "done"
    /\ told[c] \in Statuses /\ c \in Publish => post[c] = told[c]
    /\ told[c] = "201" /\ c \notin Publish => run[c] # "none"
    /\ told[c] \in {"401", "422"} => run[c] = "none"
    /\ told[c] = "409" => c \in Publish
    /\ post[c] = "409" => owner[Target(c)] # NoOne

Dead ==
  /\ \A t \in Tokens : label[t] # NoOne => t \in issued
  /\ \A t \in revoked : t # Internal => t \in issued /\ label[t] = NoOne
  /\ \A c \in late : /\ req[c] # "none" /\ card[c] \in revoked
                     /\ card[c] # Internal => /\ run[c] = "none" /\ req[c] # "checked"
                                              /\ c \in Publish => post[c] \in {"none", "sent", "401"}

\* What a command names are coordinates, and a `forge publish` names one.
LEMMA Named ==
  ASSUME NEW c \in Commands
  PROVE  /\ Artifacts[c] \in Seq(Coordinates)
         /\ Len(Artifacts[c]) \in Nat
         /\ \A i \in 1..Len(Artifacts[c]) : Artifacts[c][i] \in Coordinates
         /\ Range(Artifacts[c]) = {Artifacts[c][i] : i \in 1..Len(Artifacts[c])}
         /\ c \in Publish => Len(Artifacts[c]) = 1
<1>1. Artifacts[c] \in Seq(Coordinates)
  BY ForgeAssumption DEF ForgeAssumption, Coordinates
<1>2. c \in Publish => Len(Artifacts[c]) = 1
  BY ForgeAssumption DEF ForgeAssumption
<1> QED BY <1>1, <1>2 DEF Range

\* The variables keep their types: the table, the requests, the runs and the
\* uploads stay among the states the code gives them.
THEOREM TypeCorrect == Spec => []TypeOK
<1>1. Init => TypeOK
  <2> SUFFICES ASSUME Init PROVE TypeOK
    OBVIOUS
  <2>1. crashes \in 0..Crashes
    BY ForgeAssumption DEF Init, ForgeAssumption
  <2> QED BY <2>1 DEF Init, TypeOK, Active, Answers
<1>2. TypeOK /\ [Next]_vars => TypeOK'
  <2> SUFFICES ASSUME TypeOK, [Next]_vars PROVE TypeOK'
    OBVIOUS
  <2> USE DEF TypeOK, tokens, registry, engine, Answers, Active, Hears
  <2>1. ASSUME NEW t \in Tokens, NEW l \in Labels, CreateToken(t, l) PROVE TypeOK'
    BY <2>1 DEF CreateToken
  <2>2. ASSUME NEW l \in Labels, Revoke(l) PROVE TypeOK'
    <3>1. label' \in [Tokens -> Labels \cup {NoOne}]
      BY <2>2 DEF Revoke
    <3>2. revoked' \subseteq Tokens
      BY <2>2 DEF Revoke
    <3> QED BY <2>2, <3>1, <3>2 DEF Revoke
  <2>3. CASE Start
    <3>1. Internal \in Tokens /\ EngineLabel \in Labels
      BY ForgeAssumption DEF ForgeAssumption
    <3>2. label' \in [Tokens -> Labels \cup {NoOne}]
      BY <2>3, <3>1 DEF Start
    <3>3. issued' \subseteq Tokens /\ up' \in BOOLEAN
      BY <2>3, <3>1 DEF Start
    <3> QED BY <2>3, <3>2, <3>3 DEF Start
  <2>4. CASE Crash
    <3>1. crashes' \in 0..Crashes
      BY <2>4, ForgeAssumption DEF Crash, ForgeAssumption
    <3>2. run' \in [Commands -> Active \cup {"none", "succeeded", "failed", "forgotten", "stuck"}]
      BY <2>4 DEF Crash
    <3>3. req' \in [Commands -> {"none", "sent", "checked", "passed", "done"}]
      BY <2>4 DEF Crash
    <3>4. told' \in [Commands -> Answers \cup {"none", "422", "error"}]
      BY <2>4 DEF Crash
    <3> QED BY <2>4, <3>1, <3>2, <3>3, <3>4 DEF Crash
  <2>5. ASSUME NEW c \in Commands, NEW t \in Tokens, Send(c, t) PROVE TypeOK'
    BY <2>5 DEF Send
  <2>6. ASSUME NEW c \in Commands, TimeOut(c) PROVE TypeOK'
    BY <2>6 DEF TimeOut
  <2>7. ASSUME NEW c \in Commands, Check(c) PROVE TypeOK'
    BY <2>7 DEF Check
  <2>8. ASSUME NEW c \in Commands, CreateRun(c) PROVE TypeOK'
    BY <2>8 DEF CreateRun
  <2>9. ASSUME NEW c \in Commands, PassOn(c) PROVE TypeOK'
    BY <2>9 DEF PassOn
  <2>10. ASSUME NEW c \in Commands, PassBack(c) PROVE TypeOK'
    BY <2>10 DEF PassBack
  <2>11. ASSUME NEW c \in Commands, Begin(c) PROVE TypeOK'
    BY <2>11 DEF Begin
  <2>12. ASSUME NEW c \in Commands, JobsEnd(c) PROVE TypeOK'
    BY <2>12 DEF JobsEnd
  <2>13. ASSUME NEW c \in Commands, Post(c) PROVE TypeOK'
    BY <2>13 DEF Post
  <2>14. ASSUME NEW c \in Commands, TakeAnswer(c) PROVE TypeOK'
    BY <2>14 DEF TakeAnswer
  <2>15. ASSUME NEW c \in Commands, UploadTimesOut(c) PROVE TypeOK'
    BY <2>15 DEF UploadTimesOut
  <2>20. ASSUME NEW c \in Commands, Die(c) PROVE TypeOK'
    BY <2>20 DEF Die
  <2>16. ASSUME NEW c \in Commands, Succeed(c) PROVE TypeOK'
    BY <2>16 DEF Succeed
  <2>17. ASSUME NEW c \in Commands, CheckUpload(c) PROVE TypeOK'
    BY <2>17 DEF CheckUpload
  <2>18. ASSUME NEW c \in Commands, Save(c) PROVE TypeOK'
    BY <2>18 DEF Save
  <2>19. CASE UNCHANGED vars
    BY <2>19 DEF vars
  <2> QED
    BY <2>1, <2>2, <2>3, <2>4, <2>5, <2>6, <2>7, <2>8, <2>9, <2>10, <2>11, <2>12,
       <2>13, <2>14, <2>15, <2>16, <2>17, <2>18, <2>19, <2>20 DEF Next, RunStep
<1> QED BY <1>1, <1>2, PTL DEF Spec

\* Where a command can be: a run exists only after its request was checked, an
\* upload only after the jobs have succeeded, and only a run's own loop moves on.
THEOREM ShapeHolds == Spec => []Shape
<1>1. Init => Shape
  BY Named DEF Init, Shape
<1>2. TypeOK /\ Shape /\ [Next]_vars => Shape'
  <2> SUFFICES ASSUME TypeOK, Shape, [Next]_vars PROVE Shape'
    OBVIOUS
  <2> USE DEF TypeOK, Shape, tokens, registry, engine, Answers, Active
  <2>1. CASE Start
    BY <2>1 DEF Start
  <2>2. CASE Crash
    BY <2>2, Named DEF Crash
  <2>3. ASSUME NEW t \in Tokens, NEW l \in Labels, CreateToken(t, l) PROVE Shape'
    BY <2>3 DEF CreateToken
  <2>4. ASSUME NEW l \in Labels, Revoke(l) PROVE Shape'
    BY <2>4 DEF Revoke
  <2>5. ASSUME NEW c \in Commands, NEW t \in Tokens, Send(c, t) PROVE Shape'
    BY <2>5, Named DEF Send
  <2>6. ASSUME NEW c \in Commands, TimeOut(c) PROVE Shape'
    BY <2>6 DEF TimeOut
  <2>7. ASSUME NEW c \in Commands, Check(c) PROVE Shape'
    BY <2>7, Named DEF Check
  <2>8. ASSUME NEW c \in Commands, CreateRun(c) PROVE Shape'
    BY <2>8, Named DEF CreateRun
  <2>9. ASSUME NEW c \in Commands, PassOn(c) PROVE Shape'
    <3>1. next[c] = 0 /\ Len(Artifacts[c]) = 1
      BY <2>9, Named DEF PassOn
    <3>2. 1 \in 1..Len(Artifacts[c]) /\ 1 <= Len(Artifacts[c]) + 1
      BY <3>1
    <3>3. next' = [next EXCEPT ![c] = 1] /\ post' = [post EXCEPT ![c] = "sent"]
      BY <2>9 DEF PassOn
    <3>4. req' = [req EXCEPT ![c] = "passed"] /\ run' = run /\ run[c] = "none" /\ c \in Publish
      BY <2>9 DEF PassOn
    <3> QED BY <3>2, <3>3, <3>4
  <2>10. ASSUME NEW c \in Commands, PassBack(c) PROVE Shape'
    BY <2>10, Named DEF PassBack
  <2>11. ASSUME NEW c \in Commands, Begin(c) PROVE Shape'
    BY <2>11, Named DEF Begin
  <2>12. ASSUME NEW c \in Commands, JobsEnd(c) PROVE Shape'
    <3>1. c \notin Publish /\ next[c] = 0 /\ post[c] = "none" /\ req[c] \in {"passed", "done"}
      BY <2>12 DEF JobsEnd
    <3>2. Len(Artifacts[c]) \in Nat
      BY Named
    <3>3. CASE run' = [run EXCEPT ![c] = "publishing"] /\ next' = [next EXCEPT ![c] = 1]
      BY <2>12, <3>1, <3>2, <3>3 DEF JobsEnd
    <3>4. CASE run' = [run EXCEPT ![c] = "failed"] /\ next' = next
      BY <2>12, <3>1, <3>4 DEF JobsEnd
    <3> QED BY <2>12, <3>3, <3>4 DEF JobsEnd
  <2>13. ASSUME NEW c \in Commands, Post(c) PROVE Shape'
    BY <2>13, Named DEF Post, More
  <2>14. ASSUME NEW c \in Commands, TakeAnswer(c) PROVE Shape'
    BY <2>14, Named DEF TakeAnswer
  <2>15. ASSUME NEW c \in Commands, UploadTimesOut(c) PROVE Shape'
    BY <2>15, Named DEF UploadTimesOut
  <2>20. ASSUME NEW c \in Commands, Die(c) PROVE Shape'
    BY <2>20, Named DEF Die
  <2>16. ASSUME NEW c \in Commands, Succeed(c) PROVE Shape'
    BY <2>16, Named DEF Succeed, More
  <2>17. ASSUME NEW c \in Commands, CheckUpload(c) PROVE Shape'
    BY <2>17, Named DEF CheckUpload
  <2>18. ASSUME NEW c \in Commands, Save(c) PROVE Shape'
    BY <2>18, Named DEF Save
  <2>19. CASE UNCHANGED vars
    BY <2>19 DEF vars
  <2> QED
    BY <2>1, <2>2, <2>3, <2>4, <2>5, <2>6, <2>7, <2>8, <2>9, <2>10, <2>11,
       <2>12, <2>13, <2>14, <2>15, <2>16, <2>17, <2>18, <2>19, <2>20 DEF Next, RunStep
<1> QED BY <1>1, <1>2, TypeCorrect, PTL DEF Spec

\* Nothing is uploaded by a step that leaves the table, the loops and the stored
\* uploads as they are.
LEMMA UploadsKept ==
  ASSUME Uploads, owner' = owner, next' = next,
         \A c \in Commands : post'[c] = "201" <=> post[c] = "201"
  PROVE  Uploads'
BY DEF Uploads, Owned, Uploaded, Target

\* A loop that is just entered has nothing behind it.
LEMMA Entered ==
  ASSUME NEW c \in Commands, next[c] = 0, next'[c] = 1
  PROVE  Uploaded(c)' = Uploaded(c)
<1>1. 1..(next[c] - 1) = {} /\ 1..(next'[c] - 1) = {}
  OBVIOUS
<1> QED BY <1>1 DEF Uploaded

\* What a command owns is what its loop has behind it, and the upload that is
\* answered but not yet taken: only Save writes the table, and only into a free row.
THEOREM UploadsHold == Spec => []Uploads
<1>1. Init => Uploads
  <2> SUFFICES ASSUME Init, NEW c \in Commands PROVE Owned(c) = {} /\ Uploaded(c) = {} /\ post[c] # "201"
    BY DEF Uploads
  <2>1. Owned(c) = {}
    BY ForgeAssumption DEF Init, Owned, ForgeAssumption
  <2>2. 1..(next[c] - 1) = {}
    BY DEF Init
  <2> QED BY <2>1, <2>2 DEF Init, Uploaded
<1>2. TypeOK /\ Shape /\ Uploads /\ [Next]_vars => Uploads'
  <2> SUFFICES ASSUME TypeOK, Shape, Uploads, [Next]_vars PROVE Uploads'
    OBVIOUS
  <2> USE DEF tokens, registry, engine
  <2>1. CASE Start
    BY <2>1, UploadsKept DEF Start
  <2>2. CASE Crash
    BY <2>2, UploadsKept DEF Crash
  <2>3. ASSUME NEW t \in Tokens, NEW l \in Labels, CreateToken(t, l) PROVE Uploads'
    BY <2>3, UploadsKept DEF CreateToken
  <2>4. ASSUME NEW l \in Labels, Revoke(l) PROVE Uploads'
    BY <2>4, UploadsKept DEF Revoke
  <2>5. ASSUME NEW c \in Commands, NEW t \in Tokens, Send(c, t) PROVE Uploads'
    BY <2>5, UploadsKept DEF Send
  <2>6. ASSUME NEW c \in Commands, TimeOut(c) PROVE Uploads'
    BY <2>6, UploadsKept DEF TimeOut
  <2>7. ASSUME NEW c \in Commands, Check(c) PROVE Uploads'
    BY <2>7, UploadsKept DEF Check
  <2>8. ASSUME NEW c \in Commands, CreateRun(c) PROVE Uploads'
    BY <2>8, UploadsKept DEF CreateRun
  <2>9. ASSUME NEW c \in Commands, PassOn(c) PROVE Uploads'
    <3>1. \A d \in Commands : Uploaded(d)' = Uploaded(d)
      <4> SUFFICES ASSUME NEW d \in Commands PROVE Uploaded(d)' = Uploaded(d)
        OBVIOUS
      <4>1. CASE next'[d] = next[d]
        BY <4>1 DEF Uploaded
      <4>2. CASE next'[d] # next[d]
        BY <2>9, <4>2, Entered DEF PassOn, TypeOK, Shape
      <4> QED BY <4>1, <4>2
    <3>2. \A d \in Commands : (post'[d] = "201" <=> post[d] = "201") /\ (post[d] = "201" => next'[d] = next[d])
      BY <2>9 DEF PassOn, TypeOK, Shape
    <3> QED BY <2>9, <3>1, <3>2 DEF PassOn, Uploads, Owned, Target
  <2>10. ASSUME NEW c \in Commands, PassBack(c) PROVE Uploads'
    BY <2>10, UploadsKept DEF PassBack
  <2>11. ASSUME NEW c \in Commands, Begin(c) PROVE Uploads'
    BY <2>11, UploadsKept DEF Begin
  <2>12. ASSUME NEW c \in Commands, JobsEnd(c) PROVE Uploads'
    <3>1. \A d \in Commands : Uploaded(d)' = Uploaded(d)
      <4> SUFFICES ASSUME NEW d \in Commands PROVE Uploaded(d)' = Uploaded(d)
        OBVIOUS
      <4>1. CASE next'[d] = next[d]
        BY <4>1 DEF Uploaded
      <4>2. CASE next'[d] # next[d]
        BY <2>12, <4>2, Entered DEF JobsEnd, TypeOK, Shape
      <4> QED BY <4>1, <4>2
    <3>2. \A d \in Commands : post[d] = "201" => next'[d] = next[d]
      <4>1. c \notin Publish /\ next[c] = 0
        BY <2>12 DEF JobsEnd, Shape
      <4>2. post[c] = "none"
        BY <4>1 DEF Shape
      <4>3. \A d \in Commands : d # c => next'[d] = next[d]
        BY <2>12 DEF JobsEnd, TypeOK
      <4> QED BY <4>2, <4>3
    <3> QED BY <2>12, <3>1, <3>2 DEF JobsEnd, Uploads, Owned, Target
  <2>13. ASSUME NEW c \in Commands, Post(c) PROVE Uploads'
    BY <2>13, UploadsKept DEF Post, TypeOK
  <2>14. ASSUME NEW c \in Commands, TakeAnswer(c) PROVE Uploads'
    <3>1. CASE post[c] # "201"
      BY <2>14, <3>1, UploadsKept DEF TakeAnswer
    <3>2. CASE post[c] = "201"
      <4>1. next[c] \in Nat /\ next[c] >= 1 /\ next'[c] = next[c] + 1 /\ post'[c] = "none"
        BY <2>14, <3>2 DEF TakeAnswer, TypeOK, Shape
      <4>2. 1..(next'[c] - 1) = (1..(next[c] - 1)) \cup {next[c]}
        BY <4>1
      <4>3. Uploaded(c)' = Uploaded(c) \cup {Target(c)}
        BY <4>2 DEF Uploaded, Target
      <4>4. \A d \in Commands : d # c => next'[d] = next[d] /\ post'[d] = post[d]
        BY <2>14, <3>2 DEF TakeAnswer, TypeOK
      <4>5. \A d \in Commands : Owned(d)' = Owned(d)
        BY <2>14 DEF TakeAnswer, Owned
      <4>6. \A d \in Commands : d # c => Uploaded(d)' = Uploaded(d) /\ Target(d)' = Target(d)
        BY <4>4 DEF Uploaded, Target
      <4> QED BY <3>2, <4>1, <4>3, <4>4, <4>5, <4>6 DEF Uploads
    <3> QED BY <3>1, <3>2
  <2>15. ASSUME NEW c \in Commands, UploadTimesOut(c) PROVE Uploads'
    BY <2>15, UploadsKept DEF UploadTimesOut
  <2>20. ASSUME NEW c \in Commands, Die(c) PROVE Uploads'
    BY <2>20, UploadsKept DEF Die
  <2>16. ASSUME NEW c \in Commands, Succeed(c) PROVE Uploads'
    BY <2>16, UploadsKept DEF Succeed
  <2>17. ASSUME NEW c \in Commands, CheckUpload(c) PROVE Uploads'
    BY <2>17, UploadsKept DEF CheckUpload, TypeOK
  <2>18. ASSUME NEW c \in Commands, Save(c) PROVE Uploads'
    <3>1. post[c] = "checked" /\ next' = next /\ \A d \in Commands : d # c => post'[d] = post[d]
      BY <2>18 DEF Save, TypeOK
    <3>2. CASE owner' = owner /\ post'[c] # "201"
      BY <3>1, <3>2, UploadsKept
    <3>3. CASE owner[Target(c)] = NoOne /\ owner' = [owner EXCEPT ![Target(c)] = c] /\ post'[c] = "201"
      <4>1. Target(c) \in Coordinates
        BY <3>1, Named DEF Shape, Target
      <4>2. owner'[Target(c)] = c /\ \A k \in Coordinates : k # Target(c) => owner'[k] = owner[k]
        BY <3>3, <4>1 DEF TypeOK
      <4>3. Owned(c)' = Owned(c) \cup {Target(c)}
        BY <4>1, <4>2 DEF Owned
      <4>4. \A d \in Commands : d # c => Owned(d)' = Owned(d)
        BY <3>3, <4>1, <4>2, ForgeAssumption DEF Owned, ForgeAssumption
      <4>5. \A d \in Commands : Uploaded(d)' = Uploaded(d) /\ Target(d)' = Target(d)
        BY <3>1 DEF Uploaded, Target
      <4> QED BY <3>1, <3>3, <4>3, <4>4, <4>5 DEF Uploads
    <3> QED BY <2>18, <3>2, <3>3 DEF Save, TypeOK
  <2>19. CASE UNCHANGED vars
    BY <2>19, UploadsKept DEF vars
  <2> QED
    BY <2>1, <2>2, <2>3, <2>4, <2>5, <2>6, <2>7, <2>8, <2>9, <2>10, <2>11,
       <2>12, <2>13, <2>14, <2>15, <2>16, <2>17, <2>18, <2>19, <2>20 DEF Next, RunStep
<1> QED BY <1>1, <1>2, TypeCorrect, ShapeHolds, PTL DEF Spec

\* What the user was told rests on what happened, and stays true: the run or the
\* answer of the registry it reports is still there when the next step is done.
THEOREM ToldHolds == Spec => []Told
<1>1. Init => Told
  BY DEF Init, Told, Statuses
<1>2. TypeOK /\ Shape /\ Told /\ [Next]_vars => Told'
  <2> SUFFICES ASSUME TypeOK, Shape, Told, [Next]_vars PROVE Told'
    OBVIOUS
  <2> USE DEF TypeOK, Shape, Told, Statuses, Target, tokens, registry, engine, Hears, Answers, Active
  <2>1. CASE Start
    BY <2>1 DEF Start
  <2>2. CASE Crash
    BY <2>2 DEF Crash
  <2>3. ASSUME NEW t \in Tokens, NEW l \in Labels, CreateToken(t, l) PROVE Told'
    BY <2>3 DEF CreateToken
  <2>4. ASSUME NEW l \in Labels, Revoke(l) PROVE Told'
    BY <2>4 DEF Revoke
  <2>5. ASSUME NEW c \in Commands, NEW t \in Tokens, Send(c, t) PROVE Told'
    BY <2>5 DEF Send
  <2>6. ASSUME NEW c \in Commands, TimeOut(c) PROVE Told'
    BY <2>6 DEF TimeOut
  <2>7. ASSUME NEW c \in Commands, Check(c) PROVE Told'
    BY <2>7 DEF Check
  <2>8. ASSUME NEW c \in Commands, CreateRun(c) PROVE Told'
    BY <2>8 DEF CreateRun
  <2>9. ASSUME NEW c \in Commands, PassOn(c) PROVE Told'
    BY <2>9 DEF PassOn
  <2>10. ASSUME NEW c \in Commands, PassBack(c) PROVE Told'
    BY <2>10 DEF PassBack
  <2>11. ASSUME NEW c \in Commands, Begin(c) PROVE Told'
    BY <2>11 DEF Begin
  <2>12. ASSUME NEW c \in Commands, JobsEnd(c) PROVE Told'
    BY <2>12 DEF JobsEnd
  <2>13. ASSUME NEW c \in Commands, Post(c) PROVE Told'
    BY <2>13 DEF Post
  <2>14. ASSUME NEW c \in Commands, TakeAnswer(c) PROVE Told'
    BY <2>14 DEF TakeAnswer
  <2>15. ASSUME NEW c \in Commands, UploadTimesOut(c) PROVE Told'
    BY <2>15 DEF UploadTimesOut
  <2>20. ASSUME NEW c \in Commands, Die(c) PROVE Told'
    BY <2>20 DEF Die
  <2>16. ASSUME NEW c \in Commands, Succeed(c) PROVE Told'
    BY <2>16 DEF Succeed
  <2>17. ASSUME NEW c \in Commands, CheckUpload(c) PROVE Told'
    BY <2>17 DEF CheckUpload
  <2>18. ASSUME NEW c \in Commands, Save(c) PROVE Told'
    <3>1. Target(c) \in Coordinates
      BY <2>18, Named DEF Save
    <3>2. c # NoOne
      BY ForgeAssumption DEF ForgeAssumption
    <3>3. \A d \in Commands : post[d] = "409" => Target(d) \in Coordinates
      BY Named
    <3>4. \A k \in Coordinates : owner[k] # NoOne => owner'[k] # NoOne
      BY <2>18, <3>1, <3>2 DEF Save
    <3>5. \A d \in Commands : post'[d] = "409" => owner'[Target(d)] # NoOne
      BY <2>18, <3>3, <3>4 DEF Save
    <3> QED BY <2>18, <3>5 DEF Save
  <2>19. CASE UNCHANGED vars
    BY <2>19 DEF vars
  <2> QED
    BY <2>1, <2>2, <2>3, <2>4, <2>5, <2>6, <2>7, <2>8, <2>9, <2>10, <2>11,
       <2>12, <2>13, <2>14, <2>15, <2>16, <2>17, <2>18, <2>19, <2>20 DEF Next, RunStep
<1> QED BY <1>1, <1>2, TypeCorrect, ShapeHolds, PTL DEF Spec

\* A token that was revoked stays out of the table, the engine's own excepted,
\* and what was sent with it has got nowhere.
THEOREM DeadHolds == Spec => []Dead
<1>1. Init => Dead
  BY DEF Init, Dead
<1>2. TypeOK /\ Shape /\ Dead /\ [Next]_vars => Dead'
  <2> SUFFICES ASSUME TypeOK, Shape, Dead, [Next]_vars PROVE Dead'
    OBVIOUS
  <2> USE DEF TypeOK, Shape, Dead, tokens, registry, engine, Answers, Active
  <2>1. CASE Start
    BY <2>1 DEF Start
  <2>2. CASE Crash
    BY <2>2 DEF Crash
  <2>3. ASSUME NEW t \in Tokens, NEW l \in Labels, CreateToken(t, l) PROVE Dead'
    BY <2>3 DEF CreateToken
  <2>4. ASSUME NEW l \in Labels, Revoke(l) PROVE Dead'
    BY <2>4 DEF Revoke, Deleted
  <2>5. ASSUME NEW c \in Commands, NEW t \in Tokens, Send(c, t) PROVE Dead'
    BY <2>5 DEF Send
  <2>6. ASSUME NEW c \in Commands, TimeOut(c) PROVE Dead'
    BY <2>6 DEF TimeOut
  <2>7. ASSUME NEW c \in Commands, Check(c) PROVE Dead'
    BY <2>7, ForgeAssumption DEF Check, Known, ForgeAssumption
  <2>8. ASSUME NEW c \in Commands, CreateRun(c) PROVE Dead'
    BY <2>8 DEF CreateRun
  <2>9. ASSUME NEW c \in Commands, PassOn(c) PROVE Dead'
    BY <2>9 DEF PassOn
  <2>10. ASSUME NEW c \in Commands, PassBack(c) PROVE Dead'
    BY <2>10 DEF PassBack
  <2>11. ASSUME NEW c \in Commands, Begin(c) PROVE Dead'
    BY <2>11 DEF Begin
  <2>12. ASSUME NEW c \in Commands, JobsEnd(c) PROVE Dead'
    BY <2>12 DEF JobsEnd
  <2>13. ASSUME NEW c \in Commands, Post(c) PROVE Dead'
    BY <2>13 DEF Post
  <2>14. ASSUME NEW c \in Commands, TakeAnswer(c) PROVE Dead'
    <3>1. c \in late => card[c] = Internal
      BY <2>14 DEF TakeAnswer
    <3>2. \A d \in Commands : d # c => run'[d] = run[d] /\ post'[d] = post[d]
      BY <2>14 DEF TakeAnswer
    <3>3. UNCHANGED <<tokens, card, req, late>>
      BY <2>14 DEF TakeAnswer
    <3> QED BY <3>1, <3>2, <3>3
  <2>15. ASSUME NEW c \in Commands, UploadTimesOut(c) PROVE Dead'
    BY <2>15 DEF UploadTimesOut
  <2>20. ASSUME NEW c \in Commands, Die(c) PROVE Dead'
    BY <2>20 DEF Die
  <2>16. ASSUME NEW c \in Commands, Succeed(c) PROVE Dead'
    BY <2>16 DEF Succeed
  <2>17. ASSUME NEW c \in Commands, CheckUpload(c) PROVE Dead'
    BY <2>17, ForgeAssumption DEF CheckUpload, Known, Bearer, ForgeAssumption
  <2>18. ASSUME NEW c \in Commands, Save(c) PROVE Dead'
    BY <2>18 DEF Save
  <2>19. CASE UNCHANGED vars
    BY <2>19 DEF vars
  <2> QED
    BY <2>1, <2>2, <2>3, <2>4, <2>5, <2>6, <2>7, <2>8, <2>9, <2>10, <2>11,
       <2>12, <2>13, <2>14, <2>15, <2>16, <2>17, <2>18, <2>19, <2>20 DEF Next, RunStep
<1> QED BY <1>1, <1>2, TypeCorrect, ShapeHolds, PTL DEF Spec

\* For any commands, artifacts and interleaving: a run that is reported as
\* succeeded owns every artifact it names.
THEOREM SuccessIsPublishedHolds == Spec => []SuccessIsPublished
<1>1. TypeOK /\ Shape /\ Uploads => SuccessIsPublished
  <2> SUFFICES ASSUME TypeOK, Shape, Uploads, NEW c \in Commands, run[c] = "succeeded"
               PROVE  Range(Artifacts[c]) \subseteq Owned(c)
    BY DEF SuccessIsPublished
  <2>1. Owned(c) = Uploaded(c) /\ next[c] = Len(Artifacts[c]) + 1
    BY Named DEF TypeOK, Shape, Uploads
  <2>2. 1..(next[c] - 1) = 1..Len(Artifacts[c])
    BY <2>1, Named
  <2> QED BY <2>1, <2>2, Named DEF Uploaded
<1> QED BY <1>1, TypeCorrect, ShapeHolds, UploadsHold, PTL

\* For any instance: what a command owns is a prefix of what it is to upload, and
\* at most one upload ahead of its loop.
THEOREM PublishedIsPrefixHolds == Spec => []PublishedIsPrefix
<1>1. TypeOK /\ Shape /\ Uploads => PublishedIsPrefix
  <2> SUFFICES ASSUME TypeOK, Shape, Uploads, NEW c \in Commands
               PROVE  \E n \in {next[c] - 1, next[c]} :
                        Owned(c) = {Artifacts[c][i] : i \in (1..n) \cap DOMAIN Artifacts[c]}
    BY DEF PublishedIsPrefix
  <2>1. DOMAIN Artifacts[c] = 1..Len(Artifacts[c]) /\ next[c] \in Nat /\ Len(Artifacts[c]) \in Nat
    BY Named DEF TypeOK
  <2>2. CASE post[c] # "201"
    <3>1. (1..(next[c] - 1)) \cap DOMAIN Artifacts[c] = 1..(next[c] - 1)
      BY <2>1 DEF Shape
    <3> QED BY <2>2, <3>1 DEF Uploads, Uploaded
  <2>3. CASE post[c] = "201"
    <3>1. next[c] \in 1..Len(Artifacts[c])
      BY <2>3 DEF Shape
    <3>2. (1..next[c]) \cap DOMAIN Artifacts[c] = (1..(next[c] - 1)) \cup {next[c]}
      BY <2>1, <3>1
    <3> QED BY <2>3, <3>2 DEF Uploads, Uploaded, Target
  <2> QED BY <2>2, <2>3
<1> QED BY <1>1, TypeCorrect, ShapeHolds, UploadsHold, PTL

\* For any instance: the status a user is shown is the truth, and stays it.
THEOREM ToldIsTrueHolds == Spec => []ToldIsTrue
<1>1. TypeOK /\ Shape /\ Uploads /\ Told => ToldIsTrue
  <2> SUFFICES ASSUME TypeOK, Shape, Uploads, Told, NEW c \in Commands
               PROVE  /\ told[c] = "201" => IF c \in Publish THEN Owned(c) # {} ELSE run[c] # "none"
                      /\ told[c] = "409" => \A k \in Range(Artifacts[c]) : owner[k] \notin {NoOne, c}
                      /\ told[c] \in {"401", "422"} => run[c] = "none" /\ Owned(c) = {}
    BY DEF ToldIsTrue
  <2>1. told[c] = "201" => IF c \in Publish THEN Owned(c) # {} ELSE run[c] # "none"
    BY DEF Told, Statuses, Uploads
  <2>2. next[c] \in {0, 1} /\ post[c] # "201" => Owned(c) = {}
    <3>1. next[c] \in {0, 1} => 1..(next[c] - 1) = {}
      OBVIOUS
    <3> QED BY <3>1 DEF Uploads, Uploaded
  <2>3. c \in Publish => Len(Artifacts[c]) = 1 /\ Range(Artifacts[c]) = {Artifacts[c][1]}
    BY Named, ForgeAssumption DEF ForgeAssumption
  <2>4. told[c] = "409" => \A k \in Range(Artifacts[c]) : owner[k] \notin {NoOne, c}
    <3> SUFFICES ASSUME told[c] = "409" PROVE \A k \in Range(Artifacts[c]) : owner[k] \notin {NoOne, c}
      OBVIOUS
    <3>1. c \in Publish /\ post[c] = "409" /\ owner[Target(c)] # NoOne
      BY DEF Told, Statuses
    <3>2. next[c] = 1
      <4>1. next[c] \in 1..1
        BY <2>3, <3>1 DEF Shape
      <4> QED BY <4>1
    <3>3. Range(Artifacts[c]) = {Target(c)} /\ Target(c) \in Coordinates
      BY <2>3, <3>1, <3>2, Named DEF Target
    <3>4. Owned(c) = {}
      BY <2>2, <3>1, <3>2
    <3> QED BY <3>1, <3>3, <3>4 DEF Owned
  <2>5. told[c] \in {"401", "422"} => run[c] = "none" /\ Owned(c) = {}
    <3> SUFFICES ASSUME told[c] \in {"401", "422"} PROVE run[c] = "none" /\ Owned(c) = {}
      OBVIOUS
    <3>1. run[c] = "none" /\ (c \in Publish => post[c] = told[c])
      BY DEF Told, Statuses
    <3>2. CASE c \in Publish
      BY <2>2, <2>3, <3>1, <3>2, Named DEF Shape, TypeOK
    <3>3. CASE c \notin Publish
      BY <2>2, <3>1, <3>3, Named DEF Shape
    <3> QED BY <3>1, <3>2, <3>3
  <2> QED BY <2>1, <2>4, <2>5
<1> QED BY <1>1, TypeCorrect, ShapeHolds, UploadsHold, ToldHolds, PTL

\* For any instance: a command sent with a revoked token has no effect, then or later.
THEOREM RevocationLastsHolds == Spec => []RevocationLasts
<1>1. TypeOK /\ Shape /\ Uploads /\ Dead => RevocationLasts
  <2> SUFFICES ASSUME TypeOK, Shape, Uploads, Dead, NEW c \in late, card[c] # Internal
               PROVE  run[c] = "none" /\ Owned(c) = {}
    BY DEF RevocationLasts
  <2>1. c \in Commands /\ run[c] = "none" /\ post[c] # "201" /\ next[c] \in {0, 1}
    <3>1. c \in Commands /\ run[c] = "none" /\ (c \in Publish => post[c] \in {"none", "sent", "401"})
      BY DEF Dead, TypeOK
    <3>2. CASE c \in Publish
      <4>1. Len(Artifacts[c]) = 1
        BY <3>1, <3>2, Named
      <4>2. post[c] = "none" => next[c] = 0
        BY <3>1, <3>2 DEF Shape
      <4>3. post[c] # "none" => next[c] \in 1..1
        BY <3>1, <4>1 DEF Shape
      <4> QED BY <3>1, <3>2, <4>2, <4>3
    <3>3. CASE c \notin Publish
      BY <3>1, <3>3, Named DEF Shape, TypeOK
    <3> QED BY <3>2, <3>3, <3>1
  <2>2. 1..(next[c] - 1) = {}
    BY <2>1
  <2> QED BY <2>1, <2>2 DEF Uploads, Uploaded
<1> QED BY <1>1, TypeCorrect, ShapeHolds, UploadsHold, DeadHolds, PTL
=============================================================================
