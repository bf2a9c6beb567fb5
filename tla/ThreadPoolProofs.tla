-------------------------- MODULE ThreadPoolProofs --------------------------
(***************************************************************************)
(* Proofs about ThreadPool: how large a pool has to be so that the log     *)
(* readers of all runs cannot hold every thread of it.                     *)
(***************************************************************************)
EXTENDS ThreadPool, FunctionTheorems, FiniteSetTheorems, TLAPS

(* More threads than all runs together have slots.                         *)
EnoughThreads == IsFiniteSet(Runs) /\ Threads > Cardinality(Runs) * MaxConcurrency

LEMMA TypeInit == ASSUME Init PROVE TypeOK
BY DEF Init, TypeOK

LEMMA TimeoutKinds == "timeout" \in Kinds /\ \A k \in Jobs : <<k, "timeout">> \in Work
BY DEF Kinds, Work

LEMMA SubmitType ==
  ASSUME TypeOK, NEW j \in Jobs, NEW kind \in Kinds, Submit(<<j, kind>>)
  PROVE  queue' \in Seq(Work)
<1> DEFINE w == <<j, kind>>
<1>1. w \in Work
  BY DEF Work
<1> HIDE DEF w
<1>2. Append(queue, w) \in Seq(Work)
  BY <1>1 DEF TypeOK
<1> QED  BY <1>2 DEF Submit, w

LEMMA CallsType ==
  ASSUME TypeOK, NEW j \in Jobs, NEW kind \in Kinds,
         \/ LogLine(j, kind)
         \/ \E n \in 0 .. 2 : calls' = [calls EXCEPT ![<<j, kind>>] = n]
         \/ UNCHANGED calls
  PROVE  calls' \in [Work -> 0 .. 2]
BY DEF TypeOK, LogLine

LEMMA TypeStep == ASSUME TypeOK, [Next]_vars PROVE TypeOK'
<1> USE DEF TaskGoto, CancelTimer
<1>1. CASE Take
  BY <1>1 DEF Take, TypeOK
<1>2. ASSUME NEW j \in Jobs,
             Acquire(j) \/ Launch(j) \/ StartStreaming(j) \/ StreamEnds(j) \/ TimerFires(j) \/ PrintLine(j)
      PROVE  TypeOK'
  <2>0. calls' \in [Work -> 0 .. 2]
    BY <1>2, CallsType
       DEF Acquire, Launch, StartStreaming, StreamEnds, TimerFires, PrintLine, Kinds
  <2>1. queue' \in Seq(Work)
    BY <1>2, SubmitType
       DEF Acquire, Launch, StartStreaming, StreamEnds, TimerFires, PrintLine, LogLine, Kinds
  <2>2. busy' \in SUBSET Work
    BY <1>2 DEF Acquire, Launch, StartStreaming, StreamEnds, TimerFires, PrintLine, Done, Leave, TypeOK
  <2>3. /\ task' \in [Jobs -> {"waiting", "starting", "launched", "streaming", "ending", "done"}]
        /\ timer' \in [Jobs -> {"off", "armed", "logging"}]
        /\ container' \in [Jobs -> {"none", "running", "exited", "removed"}]
    BY <1>2 DEF Acquire, Launch, StartStreaming, StreamEnds, TimerFires, PrintLine, TypeOK
  <2> QED  BY <2>0, <2>1, <2>2, <2>3 DEF TypeOK
<1>3. ASSUME NEW j \in Jobs, LineWritten(j) \/ JobEnds(j) \/ Kill(j) \/ Exit(j)
      PROVE  TypeOK'
  <2>1. queue' = queue /\ calls' = calls /\ busy' \in SUBSET Work
    BY <1>3 DEF LineWritten, JobEnds, Kill, Exit, Done, Leave, TypeOK, poolVars
  <2>2. /\ task' \in [Jobs -> {"waiting", "starting", "launched", "streaming", "ending", "done"}]
        /\ timer' \in [Jobs -> {"off", "armed", "logging"}]
        /\ container' \in [Jobs -> {"none", "running", "exited", "removed"}]
    BY <1>3 DEF LineWritten, JobEnds, Kill, Exit, TypeOK
  <2> QED  BY <2>1, <2>2 DEF TypeOK
<1>4. ASSUME NEW j \in Jobs, NEW kind \in Kinds, NextCall(j, kind) PROVE TypeOK'
  <2>1. queue' \in Seq(Work)
    BY <1>4, SubmitType DEF NextCall
  <2>2. calls' \in [Work -> 0 .. 2]
    <3> DEFINE n == calls[<<j, kind>>] - 1
    <3>1. n \in 0 .. 2
      <4>1. <<j, kind>> \in Work
        BY DEF Work
      <4>2. calls[<<j, kind>>] \in 0 .. 2
        BY <4>1 DEF TypeOK
      <4> QED  BY <1>4, <4>2 DEF NextCall
    <3>2. calls' = [calls EXCEPT ![<<j, kind>>] = n]
      BY <1>4 DEF NextCall
    <3> HIDE DEF n
    <3> QED  BY <3>1, <3>2, CallsType
  <2> QED  BY <1>4, <2>1, <2>2 DEF NextCall, Leave, TypeOK
<1>5. ASSUME NEW j \in Jobs, Drop(j) PROVE TypeOK'
  <2>1. calls' \in [Work -> 0 .. 2]
    BY <1>5, TimeoutKinds DEF Drop, TypeOK
  <2> QED  BY <1>5, <2>1 DEF Drop, Leave, TypeOK
<1>6. CASE UNCHANGED vars
  BY <1>6 DEF vars, poolVars, TypeOK
<1> QED  BY <1>1, <1>2, <1>3, <1>4, <1>5, <1>6 DEF Next, Step, AllDone

(* Every variable of the pool and of its jobs keeps its type.              *)
THEOREM TypeCorrect == Spec => []TypeOK
<1>1. Init => TypeOK
  BY TypeInit
<1>2. TypeOK /\ [Next]_vars => TypeOK'
  BY TypeStep
<1> QED  BY <1>1, <1>2, PTL DEF Spec

-----------------------------------------------------------------------------
(* What a task awaits is in the pool once, and the task awaits it.         *)

Awaited == {"start", "launched", "read", "end"}

StateFor == [kind \in Awaited |->
  CASE kind = "start" -> "starting" [] kind = "launched" -> "launched"
    [] kind = "read" -> "streaming" [] kind = "end" -> "ending"]

AwaitedByTask ==
  \A j \in Jobs, kind \in Awaited : InPool(<<j, kind>>) => task[j] = StateFor[kind]

Once(j, kind) ==
  /\ \A i, k \in 1 .. Len(queue) : queue[i] = <<j, kind>> /\ queue[k] = <<j, kind>> => i = k
  /\ \A i \in 1 .. Len(queue) : queue[i] = <<j, kind>> => <<j, kind>> \notin busy

PoolInv == AwaitedByTask /\ \A j \in Jobs, kind \in Awaited : Once(j, kind)

LEMMA PoolInit == ASSUME Init PROVE PoolInv
BY DEF Init, PoolInv, AwaitedByTask, Once, InPool

(* Work that is taken stays in the pool.                                   *)
LEMMA OnceTake ==
  ASSUME TypeOK, Take, NEW j \in Jobs, NEW kind \in Kinds, Once(j, kind)
  PROVE  Once(j, kind)' /\ (InPool(<<j, kind>>)' => InPool(<<j, kind>>))
<1>1. /\ queue # <<>> /\ queue \in Seq(Work)
      /\ busy' = busy \cup {queue[1]}
      /\ Len(queue') = Len(queue) - 1 /\ Len(queue) \in Nat \ {0}
      /\ \A i \in 1 .. Len(queue') : queue'[i] = queue[i + 1] /\ i + 1 \in 1 .. Len(queue)
  BY DEF Take, TypeOK
<1> DEFINE w == <<j, kind>>
<1>2. InPool(w)' => InPool(w)
  BY <1>1 DEF InPool
<1> HIDE DEF w
<1>3. \A i, k \in 1 .. Len(queue') : queue'[i] = w /\ queue'[k] = w => i = k
  <2> SUFFICES ASSUME NEW i \in 1 .. Len(queue'), NEW k \in 1 .. Len(queue'),
                      queue'[i] = w, queue'[k] = w
               PROVE  i = k
    OBVIOUS
  <2>1. queue[i + 1] = w /\ queue[k + 1] = w
    BY <1>1
  <2>2. i + 1 = k + 1
    BY <1>1, <2>1 DEF Once, w
  <2> QED  BY <2>2
<1>4. \A i \in 1 .. Len(queue') : queue'[i] = w => w \notin busy'
  <2> SUFFICES ASSUME NEW i \in 1 .. Len(queue'), queue'[i] = w, w \in busy'
               PROVE  FALSE
    OBVIOUS
  <2>1. queue[i + 1] = w /\ i + 1 \in 1 .. Len(queue)
    BY <1>1
  <2>2. w \notin busy
    BY <2>1 DEF Once, w
  <2>3. queue[1] = w /\ 1 \in 1 .. Len(queue)
    BY <1>1, <2>2
  <2>4. i + 1 = 1
    BY <2>1, <2>3 DEF Once, w
  <2> QED  BY <2>4
<1> QED  BY <1>2, <1>3, <1>4 DEF Once, w

LEMMA AwaitedKinds == Awaited \subseteq Kinds
BY DEF Awaited, Kinds

LEMMA PoolTake == ASSUME TypeOK, PoolInv, Take PROVE PoolInv'
BY OnceTake, AwaitedKinds DEF PoolInv, AwaitedByTask, Take

(* Work that is given up, or never was in the pool, leaves the rest as it  *)
(* is; what is submitted was not in the pool, or had a thread until now.   *)
LEMMA PoolMoves ==
  ASSUME TypeOK, NEW d \in SUBSET Work, NEW w \in Work, NEW j \in Jobs, NEW kind \in Kinds,
         busy' = busy \ d, queue' = queue \/ queue' = Append(queue, w), Once(j, kind),
         w # <<j, kind>> \/ queue' = queue \/ ~ InPool(w) \/ (w \in d /\ w \in busy)
  PROVE  /\ Once(j, kind)'
         /\ InPool(<<j, kind>>)' =>
              \/ InPool(<<j, kind>>) \/ (w = <<j, kind>> /\ queue' = Append(queue, w))
         /\ <<j, kind>> \in d /\ <<j, kind>> \in busy
              /\ (queue' = queue \/ w # <<j, kind>>) => ~ InPool(<<j, kind>>)'
<1> DEFINE x == <<j, kind>>
<1>0. queue \in Seq(Work)
  BY DEF TypeOK
<1>1. CASE queue' = queue
  BY <1>1 DEF Once, InPool
<1>2. CASE queue' = Append(queue, w)
  <2>1. /\ Len(queue) \in Nat /\ Len(queue') = Len(queue) + 1
        /\ \A i \in 1 .. Len(queue) : queue'[i] = queue[i]
        /\ queue'[Len(queue) + 1] = w
    BY <1>0, <1>2
  <2>2. Once(j, kind)'
    <3>1. CASE w # x
      <4>1. \A i \in 1 .. Len(queue') : queue'[i] = x => i \in 1 .. Len(queue) /\ queue[i] = x
        <5> HIDE DEF x
        <5> QED  BY <2>1, <3>1
      <4> QED  BY <4>1 DEF Once
    <3>2. CASE w = x /\ ~ InPool(w)
      <4>1. \A i \in 1 .. Len(queue') : queue'[i] = x => i = Len(queue) + 1
        BY <2>1, <3>2 DEF InPool
      <4>2. x \notin busy'
        BY <3>2 DEF InPool
      <4> QED  BY <4>1, <4>2 DEF Once
    <3>3. CASE w = x /\ w \in d /\ w \in busy
      <4>1. \A i \in 1 .. Len(queue) : queue[i] # x
        BY <3>3 DEF Once
      <4>2. \A i \in 1 .. Len(queue') : queue'[i] = x => i = Len(queue) + 1
        BY <2>1, <4>1
      <4>3. x \notin busy'
        BY <3>3
      <4> QED  BY <4>2, <4>3 DEF Once
    <3>4. CASE queue' = queue
      BY <2>1, <3>4
    <3> QED  BY <3>1, <3>2, <3>3, <3>4
  <2>3. InPool(x)' => InPool(x) \/ w = x
    <3> HIDE DEF x
    <3> QED  BY <2>1 DEF InPool
  <2>4. x \in d /\ x \in busy /\ w # x => ~ InPool(x)'
    <3> SUFFICES ASSUME x \in d, x \in busy, w # x PROVE ~ InPool(x)'
      OBVIOUS
    <3>1. \A i \in 1 .. Len(queue') : queue'[i] # x
      BY <2>1 DEF Once
    <3> QED  BY <3>1 DEF InPool
  <2> QED  BY <1>2, <2>1, <2>2, <2>3, <2>4
<1> QED  BY <1>1, <1>2

LEMMA StateForFacts ==
  /\ StateFor["start"] = "starting" /\ StateFor["launched"] = "launched"
  /\ StateFor["read"] = "streaming" /\ StateFor["end"] = "ending"
BY DEF StateFor, Awaited

(* A task gets what it awaited and awaits the next thing.                  *)
LEMMA PoolAdvance ==
  ASSUME TypeOK, PoolInv, NEW j \in Jobs, NEW prev \in Awaited, NEW next \in Awaited, prev # next,
         Done(j, prev), Submit(<<j, next>>), TaskGoto(j, StateFor[next])
  PROVE  PoolInv'
<1> SUFFICES ASSUME NEW i \in Jobs, NEW kind \in Awaited
             PROVE  (InPool(<<i, kind>>)' => task'[i] = StateFor[kind]) /\ Once(i, kind)'
  BY DEF PoolInv, AwaitedByTask
<1> DEFINE w == <<j, next>>
           d == {<<j, prev>>}
<1>1. w \in Work /\ d \in SUBSET Work
  BY DEF Work, Kinds, Awaited
<1>2. busy' = busy \ d /\ queue' = Append(queue, w) /\ <<j, prev>> \in busy
  BY DEF Done, Leave, Submit
<1>3. task[j] = StateFor[prev] /\ task' = [task EXCEPT ![j] = StateFor[next]]
  BY <1>2 DEF PoolInv, AwaitedByTask, InPool, TaskGoto
<1>4. ~ InPool(w)
  BY <1>3, StateForFacts DEF PoolInv, AwaitedByTask, Awaited
<1>5. Once(i, kind) /\ (InPool(<<i, kind>>) => task[i] = StateFor[kind])
  BY DEF PoolInv, AwaitedByTask
<1>6. /\ Once(i, kind)'
      /\ InPool(<<i, kind>>)' => InPool(<<i, kind>>) \/ w = <<i, kind>>
      /\ <<i, kind>> \in d /\ <<i, kind>> \in busy /\ w # <<i, kind>> => ~ InPool(<<i, kind>>)'
  <2> HIDE DEF w, d
  <2> QED  BY <1>1, <1>2, <1>4, <1>5, PoolMoves, AwaitedKinds
<1>7. InPool(<<i, kind>>)' => task'[i] = StateFor[kind]
  <2>1. CASE i # j
    BY <1>3, <1>5, <1>6, <2>1 DEF TypeOK
  <2>2. CASE i = j /\ kind = next
    BY <1>3, <2>2 DEF TypeOK
  <2>3. CASE i = j /\ kind = prev
    BY <1>2, <1>6, <2>3
  <2>4. CASE i = j /\ kind # next /\ kind # prev
    <3>1. ~ InPool(<<i, kind>>)
      BY <1>3, <1>5, <2>4, StateForFacts DEF Awaited
    <3> QED  BY <1>6, <2>4, <3>1
  <2> QED  BY <2>1, <2>2, <2>3, <2>4
<1> QED  BY <1>6, <1>7

(* Lines and timeouts, which no task awaits, change nothing of this.       *)
LEMMA PoolAside ==
  ASSUME TypeOK, PoolInv, NEW j \in Jobs, NEW kind \in {"line", "timeout"}, task' = task,
         \/ Submit(<<j, kind>>) /\ busy' = busy
         \/ Leave(j, kind) /\ queue' = queue
  PROVE  PoolInv'
<1> SUFFICES ASSUME NEW i \in Jobs, NEW main \in Awaited
             PROVE  (InPool(<<i, main>>)' => task[i] = StateFor[main]) /\ Once(i, main)'
  BY DEF PoolInv, AwaitedByTask
<1> DEFINE w == <<j, kind>>
<1>1. w \in Work /\ w # <<i, main>>
  BY DEF Work, Kinds, Awaited
<1>2. Once(i, main) /\ (InPool(<<i, main>>) => task[i] = StateFor[main])
  BY DEF PoolInv, AwaitedByTask
<1>3. CASE Submit(w) /\ busy' = busy
  <2>1. busy' = busy \ {} /\ queue' = Append(queue, w)
    BY <1>3 DEF Submit
  <2> HIDE DEF w
  <2> QED  BY <1>1, <1>2, <2>1, PoolMoves, AwaitedKinds
<1>4. CASE Leave(j, kind) /\ queue' = queue
  <2>1. busy' = busy \ {w} /\ queue' = queue
    BY <1>4 DEF Leave
  <2> HIDE DEF w
  <2>2. {w} \in SUBSET Work
    BY <1>1
  <2> QED  BY <1>1, <1>2, <2>1, <2>2, PoolMoves, AwaitedKinds
<1> QED  BY <1>3, <1>4

(* A line that makes its next call is in the pool as before.               *)
LEMMA PoolAgain ==
  ASSUME TypeOK, PoolInv, NEW j \in Jobs, NEW kind \in Kinds, NextCall(j, kind)
  PROVE  PoolInv'
<1> SUFFICES ASSUME NEW i \in Jobs, NEW main \in Awaited
             PROVE  (InPool(<<i, main>>)' => task[i] = StateFor[main]) /\ Once(i, main)'
  BY DEF PoolInv, AwaitedByTask, NextCall
<1> DEFINE w == <<j, kind>>
           d == {w}
<1>1. w \in Work /\ d \in SUBSET Work
  BY DEF Work
<1>2. busy' = busy \ d /\ queue' = Append(queue, w) /\ w \in busy /\ w \in d
  BY DEF NextCall, Leave, Submit
<1>3. Once(i, main) /\ (InPool(<<i, main>>) => task[i] = StateFor[main])
  BY DEF PoolInv, AwaitedByTask
<1>4. Once(i, main)' /\ (InPool(<<i, main>>)' => InPool(<<i, main>>) \/ w = <<i, main>>)
  <2> HIDE DEF w, d
  <2> QED  BY <1>1, <1>2, <1>3, PoolMoves, AwaitedKinds
<1>5. w = <<i, main>> => InPool(<<i, main>>)
  BY <1>2 DEF InPool
<1> QED  BY <1>3, <1>4, <1>5

LEMMA PoolStep == ASSUME TypeOK, PoolInv, [Next]_vars PROVE PoolInv'
<1>1. ASSUME NEW j \in Jobs, Acquire(j) PROVE PoolInv'
  <2> SUFFICES ASSUME NEW i \in Jobs, NEW kind \in Awaited
               PROVE  (InPool(<<i, kind>>)' => task'[i] = StateFor[kind]) /\ Once(i, kind)'
    BY DEF PoolInv, AwaitedByTask
  <2> DEFINE w == <<j, "start">>
  <2>1. w \in Work
    BY DEF Work, Kinds
  <2>2. busy' = busy \ {} /\ queue' = Append(queue, w)
    BY <1>1 DEF Acquire, LogLine, Submit
  <2>3. task[j] = "waiting" /\ task' = [task EXCEPT ![j] = "starting"]
    BY <1>1 DEF Acquire, TaskGoto
  <2>4. \A k \in Awaited : ~ InPool(<<j, k>>)
    BY <2>3, StateForFacts DEF PoolInv, AwaitedByTask, Awaited
  <2>5. Once(i, kind) /\ (InPool(<<i, kind>>) => task[i] = StateFor[kind])
    BY DEF PoolInv, AwaitedByTask
  <2>6. ~ InPool(w)
    BY <2>4 DEF Awaited
  <2>7. Once(i, kind)' /\ (InPool(<<i, kind>>)' => InPool(<<i, kind>>) \/ w = <<i, kind>>)
    <3> HIDE DEF w
    <3> QED  BY <2>1, <2>2, <2>5, <2>6, PoolMoves, AwaitedKinds
  <2> QED  BY <2>3, <2>4, <2>5, <2>7, StateForFacts DEF TypeOK
<1>2. ASSUME NEW j \in Jobs, Launch(j) PROVE PoolInv'
  BY <1>2, PoolAdvance, StateForFacts DEF Launch, LogLine, Awaited
<1>3. ASSUME NEW j \in Jobs, StartStreaming(j) PROVE PoolInv'
  BY <1>3, PoolAdvance, StateForFacts DEF StartStreaming, Awaited
<1>4. ASSUME NEW j \in Jobs, StreamEnds(j) PROVE PoolInv'
  BY <1>4, PoolAdvance, StateForFacts DEF StreamEnds, LogLine, Awaited
<1>5. ASSUME NEW j \in Jobs, JobEnds(j) PROVE PoolInv'
  <2> SUFFICES ASSUME NEW i \in Jobs, NEW kind \in Awaited
               PROVE  (InPool(<<i, kind>>)' => task'[i] = StateFor[kind]) /\ Once(i, kind)'
    BY DEF PoolInv, AwaitedByTask
  <2> DEFINE w == <<j, "end">>
             d == {w}
  <2>1. w \in Work /\ d \in SUBSET Work /\ w \in d
    BY DEF Work, Kinds
  <2>2. busy' = busy \ d /\ queue' = queue /\ w \in busy
    BY <1>5 DEF JobEnds, Done, Leave
  <2>3. task[j] = "ending" /\ task' = [task EXCEPT ![j] = "done"]
    BY <1>5, <2>2, StateForFacts DEF JobEnds, TaskGoto, PoolInv, AwaitedByTask, InPool, Awaited
  <2>4. Once(i, kind) /\ (InPool(<<i, kind>>) => task[i] = StateFor[kind])
    BY DEF PoolInv, AwaitedByTask
  <2>5. /\ Once(i, kind)'
        /\ InPool(<<i, kind>>)' => InPool(<<i, kind>>)
        /\ w = <<i, kind>> => ~ InPool(<<i, kind>>)'
    <3>1. kind \in Kinds
      BY AwaitedKinds
    <3> HIDE DEF w, d
    <3>2. /\ Once(i, kind)'
          /\ InPool(<<i, kind>>)' =>
               InPool(<<i, kind>>) \/ (w = <<i, kind>> /\ queue' = Append(queue, w))
          /\ <<i, kind>> \in d /\ <<i, kind>> \in busy => ~ InPool(<<i, kind>>)'
      BY <2>1, <2>2, <2>4, <3>1, PoolMoves
    <3>3. InPool(w)
      BY <2>2 DEF InPool
    <3> QED  BY <2>1, <2>2, <3>2, <3>3
  <2>6. i = j /\ kind # "end" => ~ InPool(<<i, kind>>)
    BY <2>3, <2>4, StateForFacts DEF Awaited
  <2> QED  BY <2>3, <2>4, <2>5, <2>6 DEF TypeOK
<1>6. ASSUME NEW j \in Jobs, PrintLine(j) \/ TimerFires(j) PROVE PoolInv'
  BY <1>6, PoolAside DEF PrintLine, TimerFires, LogLine
<1>7. ASSUME NEW j \in Jobs, LineWritten(j) \/ Kill(j) \/ Drop(j) PROVE PoolInv'
  BY <1>7, PoolAside DEF LineWritten, Kill, Drop, Done
<1>8. CASE UNCHANGED <<task, poolVars>>
  BY <1>8 DEF PoolInv, AwaitedByTask, Once, InPool, poolVars
<1> QED  BY <1>1, <1>2, <1>3, <1>4, <1>5, <1>6, <1>7, <1>8, PoolTake, PoolAgain
         DEF Next, Step, AllDone, Exit, vars

-----------------------------------------------------------------------------
(* A run never has more jobs in its semaphore than it has slots.           *)

SlotsBounded == \A r \in Runs : Cardinality(InSlots(r)) <= MaxConcurrency

LEMMA InSlotsFinite ==
  ASSUME NEW r \in Runs
  PROVE  IsFiniteSet(InSlots(r)) /\ IsFiniteSet(InSlots(r)')
BY JobsAssumption, FS_Subset DEF InSlots

(* A step that takes no slot leaves a run with the slots it had, or fewer. *)
LEMMA SlotsShrink ==
  ASSUME SlotsBounded, TypeOK, TypeOK', \A j \in Jobs : HasSlot(j)' => HasSlot(j)
  PROVE  SlotsBounded'
<1> SUFFICES ASSUME NEW r \in Runs PROVE Cardinality(InSlots(r)') <= MaxConcurrency
  BY DEF SlotsBounded
<1>1. InSlots(r)' \subseteq InSlots(r)
  BY DEF InSlots
<1>2. Cardinality(InSlots(r)') <= Cardinality(InSlots(r))
  BY <1>1, InSlotsFinite, FS_Subset
<1>3. Cardinality(InSlots(r)) \in Nat /\ Cardinality(InSlots(r)') \in Nat
  BY InSlotsFinite, FS_CardinalityType
<1> QED  BY <1>2, <1>3, LimitsAssumption DEF SlotsBounded

LEMMA SlotsStep == ASSUME TypeOK, TypeOK', PoolInv, SlotsBounded, [Next]_vars PROVE SlotsBounded'
<1>1. ASSUME NEW j \in Jobs, Acquire(j) PROVE SlotsBounded'
  <2> SUFFICES ASSUME NEW r \in Runs PROVE Cardinality(InSlots(r)') <= MaxConcurrency
    BY DEF SlotsBounded
  <2>1. task' = [task EXCEPT ![j] = "starting"]
    BY <1>1 DEF Acquire, TaskGoto
  <2>2. Cardinality(InSlots(r)) \in Nat
    BY InSlotsFinite, FS_CardinalityType
  <2>3. CASE RunOf[j] = r
    <3>1. InSlots(r)' = InSlots(r) \cup {j}
      BY <2>1, <2>3 DEF InSlots, HasSlot, TypeOK
    <3>2. Cardinality(InSlots(r)) < MaxConcurrency
      BY <1>1, <2>3 DEF Acquire
    <3>3. Cardinality(InSlots(r)') <= Cardinality(InSlots(r)) + 1
      <4>1. j \notin InSlots(r)
        BY <1>1 DEF Acquire, InSlots, HasSlot
      <4>2. Cardinality(InSlots(r) \cup {j}) = Cardinality(InSlots(r)) + 1
        BY <4>1, InSlotsFinite, FS_AddElement
      <4> QED  BY <2>2, <3>1, <4>2
    <3>4. Cardinality(InSlots(r)') \in Nat
      BY InSlotsFinite, FS_CardinalityType
    <3> QED  BY <2>2, <3>2, <3>3, <3>4, LimitsAssumption
  <2>4. CASE RunOf[j] # r
    <3>1. InSlots(r)' = InSlots(r)
      BY <2>1, <2>4 DEF InSlots, HasSlot, TypeOK
    <3> QED  BY <3>1 DEF SlotsBounded
  <2> QED  BY <2>3, <2>4
<1>2. ASSUME NEW j \in Jobs, Launch(j) \/ StartStreaming(j) \/ StreamEnds(j) PROVE SlotsBounded'
  <2>1. task[j] \in {"starting", "launched", "streaming"}
    BY <1>2, StateForFacts DEF Launch, StartStreaming, StreamEnds, Done, Leave,
       PoolInv, AwaitedByTask, InPool, Awaited
  <2>2. \A i \in Jobs : HasSlot(i)' => HasSlot(i)
    BY <1>2, <2>1 DEF Launch, StartStreaming, StreamEnds, TaskGoto, HasSlot, TypeOK
  <2> QED  BY <2>2, SlotsShrink
<1>3. ASSUME NEW j \in Jobs, JobEnds(j) PROVE SlotsBounded'
  <2>1. \A i \in Jobs : HasSlot(i)' => HasSlot(i)
    BY <1>3 DEF JobEnds, TaskGoto, HasSlot, TypeOK
  <2> QED  BY <2>1, SlotsShrink
<1>4. CASE UNCHANGED task
  BY <1>4 DEF SlotsBounded, InSlots, HasSlot
<1> QED  BY <1>1, <1>2, <1>3, <1>4
         DEF Next, Step, AllDone, vars, Take, LineWritten, TimerFires, Kill, Drop, NextCall, PrintLine, Exit

(* The inductive invariant.                                                *)
THEOREM PoolInvHolds == Spec => [](PoolInv /\ SlotsBounded)
<1>1. Init => PoolInv /\ SlotsBounded
  <2> SUFFICES ASSUME Init PROVE SlotsBounded
    BY PoolInit
  <2>1. \A r \in Runs : InSlots(r) = {}
    BY DEF Init, InSlots, HasSlot
  <2> QED  BY <2>1, FS_EmptySet, LimitsAssumption DEF SlotsBounded
<1>2. TypeOK /\ TypeOK' /\ PoolInv /\ SlotsBounded /\ [Next]_vars => (PoolInv /\ SlotsBounded)'
  BY PoolStep, SlotsStep
<1> QED  BY <1>1, <1>2, TypeCorrect, PTL DEF Spec

-----------------------------------------------------------------------------
(* Runs of at most n jobs in a slot each have at most n times as many in   *)
(* all: number the jobs of each run.                                       *)
LEMMA ReadersBounded ==
  ASSUME TypeOK, PoolInv, SlotsBounded, IsFiniteSet(Runs)
  PROVE  /\ Cardinality(Readers) \in Nat
         /\ Cardinality(Readers) <= Cardinality(Runs) * MaxConcurrency
<1> DEFINE Slot == 1 .. MaxConcurrency
           Numbering(r, f) == f \in Injection(InSlots(r), Slot)
           number == [r \in Runs |-> CHOOSE f : Numbering(r, f)]
           place == [j \in Readers |-> <<RunOf[j], number[RunOf[j]][j]>>]
<1>1. ASSUME NEW r \in Runs PROVE Numbering(r, number[r])
  <2>1. IsFiniteSet(InSlots(r)) /\ Cardinality(InSlots(r)) \in Nat
    BY InSlotsFinite, FS_CardinalityType
  <2>2. PICK g : g \in Bijection(1 .. Cardinality(InSlots(r)), InSlots(r))
    BY <2>1, FS_CardinalityType DEF ExistsBijection
  <2>3. PICK f : f \in Bijection(InSlots(r), 1 .. Cardinality(InSlots(r)))
    BY <2>2, Fun_BijInverse
  <2>4. 1 .. Cardinality(InSlots(r)) \subseteq Slot
    BY <2>1, LimitsAssumption DEF SlotsBounded
  <2>5. f \in Injection(InSlots(r), Slot)
    BY <2>3, <2>4 DEF Bijection, Injection, IsInjective
  <2>6. \E h : Numbering(r, h)
    BY <2>5
  <2> HIDE DEF Numbering
  <2> QED  BY <2>6
<1>2. ASSUME NEW j \in Readers
      PROVE  j \in Jobs /\ RunOf[j] \in Runs /\ j \in InSlots(RunOf[j])
  <2>1. task[j] = "streaming"
    BY StateForFacts DEF Readers, PoolInv, AwaitedByTask, InPool, Awaited
  <2> QED  BY <2>1, JobsAssumption DEF Readers, InSlots, HasSlot
<1>3. place \in Injection(Readers, Runs \X Slot)
  <2> HIDE DEF number
  <2>1. ASSUME NEW j \in Readers PROVE place[j] \in Runs \X Slot
    BY <1>1, <1>2 DEF Injection
  <2>2. ASSUME NEW i \in Readers, NEW j \in Readers, place[i] = place[j] PROVE i = j
    <3>1. RunOf[i] = RunOf[j] /\ number[RunOf[i]][i] = number[RunOf[i]][j]
      BY <2>2
    <3> QED  BY <1>1, <1>2, <3>1 DEF Injection, IsInjective
  <2>3. place \in [Readers -> Runs \X Slot]
    BY <2>1
  <2> HIDE DEF place
  <2> QED  BY <2>2, <2>3 DEF Injection, IsInjective
<1>4. IsFiniteSet(Runs \X Slot) /\ Cardinality(Runs \X Slot) = Cardinality(Runs) * MaxConcurrency
  <2>1. IsFiniteSet(Slot) /\ Cardinality(Slot) = MaxConcurrency
    BY FS_Interval, LimitsAssumption
  <2> HIDE DEF Slot
  <2> QED  BY <2>1, FS_Product
<1> HIDE DEF place
<1>5. IsFiniteSet(Readers) /\ Cardinality(Readers) <= Cardinality(Runs \X Slot)
  BY <1>3, <1>4, FS_Injection
<1> QED  BY <1>4, <1>5, FS_CardinalityType

(* With more threads than all runs together have slots, some thread is     *)
(* always free of readers, so that no log line, and no timeout, waits for  *)
(* a container to exit.                                                    *)
THEOREM ThreadToSpareHolds == Spec => [](EnoughThreads => ThreadToSpare)
<1>1. TypeOK /\ PoolInv /\ SlotsBounded => (EnoughThreads => ThreadToSpare)
  <2> SUFFICES ASSUME TypeOK, PoolInv, SlotsBounded, EnoughThreads PROVE ThreadToSpare
    OBVIOUS
  <2>1. Cardinality(Runs) * MaxConcurrency \in Nat
    BY LimitsAssumption, FS_CardinalityType DEF EnoughThreads
  <2> QED  BY <2>1, ReadersBounded, LimitsAssumption DEF EnoughThreads, ThreadToSpare
<1> QED  BY <1>1, TypeCorrect, PoolInvHolds, PTL

-----------------------------------------------------------------------------
(* Why a timeout that fires kills.                                         *)

(* With enough threads the pool never stands still for a container: while  *)
(* work queues, a thread is free or has work to finish (runner.py:311).    *)
THEOREM PoolGoesOnHolds == Spec => [](EnoughThreads => PoolGoesOn)
<1>1. TypeOK /\ (EnoughThreads => ThreadToSpare) => (EnoughThreads => PoolGoesOn)
  <2> SUFFICES ASSUME TypeOK, ThreadToSpare, Chores = {}
               PROVE  Cardinality(busy) < Threads
    BY DEF PoolGoesOn
  <2> DEFINE owner == [w \in busy |-> w[1]]
  <2>1. ASSUME NEW w \in busy PROVE w[1] \in Readers /\ w = <<w[1], "read">>
    <3>1. w \in Jobs \X Kinds /\ w[2] = "read"
      BY DEF TypeOK, Work, Chores
    <3>2. w[1] \in Jobs /\ w = <<w[1], "read">>
      BY <3>1
    <3> QED  BY <3>2 DEF Readers
  <2>2. owner \in Injection(busy, Readers)
    BY <2>1 DEF Injection, IsInjective
  <2>3. IsFiniteSet(Readers)
    BY JobsAssumption, FS_Subset DEF Readers
  <2>4. Cardinality(busy) <= Cardinality(Readers) /\ IsFiniteSet(busy)
    BY <2>2, <2>3, FS_Injection
  <2> QED
    BY <2>3, <2>4, FS_CardinalityType, LimitsAssumption DEF ThreadToSpare
<1> QED  BY <1>1, TypeCorrect, ThreadToSpareHolds, PTL

(* A step that leaves the line of a timeout to the pool: work other than   *)
(* it may leave a thread, and other work may be added at the end.          *)
Aside(k, d, v) ==
  /\ busy' = busy \ d /\ (queue' = queue \/ queue' = Append(queue, v))
  /\ v # <<k, "timeout">> /\ <<k, "timeout">> \notin d
  /\ Calls(k)' = Calls(k) /\ (timer'[k] = "logging" => timer[k] = "logging")

Concerns(k) == TimerFires(k) \/ NextCall(k, "timeout") \/ Kill(k) \/ Drop(k)

LEMMA OthersAside ==
  ASSUME TypeOK, NEW j \in Jobs, Step(j) \/ PrintLine(j) \/ Exit(j), NEW k \in Jobs, ~ Concerns(k)
  PROVE  \E d \in SUBSET Work, v \in Work : Aside(k, d, v)
<1> USE DEF TypeOK, Submit, LogLine, Done, Leave, CancelTimer, Concerns, Calls
<1>0. \A i \in Jobs, kind \in Kinds : <<i, kind>> \in Work /\ {<<i, kind>>} \in SUBSET Work
  BY DEF Work
<1>k. "timeout" \in Kinds /\ <<k, "timeout">> \in Work
  BY <1>0 DEF Kinds
<1>1. ASSUME NEW kind \in Kinds, UNCHANGED busy, LogLine(j, kind), <<j, kind>> # <<k, "timeout">>,
             timer'[k] = "logging" => timer[k] = "logging"
      PROVE  Aside(k, {}, <<j, kind>>)
  BY <1>0, <1>1, <1>k DEF Aside
<1>2. CASE Acquire(j) \/ PrintLine(j)
  <2>1. \E kind \in {"start", "line"} : LogLine(j, kind) /\ UNCHANGED <<busy, timer>>
    BY <1>2 DEF Acquire, PrintLine
  <2> QED  BY <1>0, <1>1, <2>1 DEF Kinds
<1>3. CASE TimerFires(j)
  <2>1. j # k
    BY <1>3
  <2>2. LogLine(j, "timeout") /\ UNCHANGED busy /\ timer'[k] = timer[k]
    BY <1>3, <2>1 DEF TimerFires
  <2> QED  BY <1>0, <1>1, <2>1, <2>2 DEF Kinds
<1>4. ASSUME NEW kind \in Kinds, NEW v \in Work, v # <<k, "timeout">>, Leave(j, kind),
             queue' = queue \/ queue' = Append(queue, v), <<j, kind>> # <<k, "timeout">>,
             Calls(k)' = Calls(k), timer'[k] = "logging" => timer[k] = "logging"
      PROVE  \E d \in SUBSET Work, u \in Work : Aside(k, d, u)
  <2>1. Aside(k, {<<j, kind>>}, v)
    BY <1>4 DEF Aside
  <2> QED  BY <1>0, <2>1
<1>5. CASE Launch(j)
  <2>1. Leave(j, "start") /\ queue' = Append(queue, <<j, "launched">>) /\ UNCHANGED timer
        /\ calls' = [calls EXCEPT ![<<j, "launched">>] = 2]
    BY <1>5 DEF Launch
  <2> QED  BY <1>0, <1>4, <1>k, <2>1 DEF Kinds
<1>6. CASE StartStreaming(j)
  <2>1. Leave(j, "launched") /\ queue' = Append(queue, <<j, "read">>) /\ UNCHANGED calls
        /\ timer' = [timer EXCEPT ![j] = "armed"]
    BY <1>6 DEF StartStreaming
  <2> QED  BY <1>0, <1>4, <1>k, <2>1 DEF Kinds
<1>7. CASE StreamEnds(j)
  <2>1. Leave(j, "read") /\ queue' = Append(queue, <<j, "end">>)
        /\ timer' = [timer EXCEPT ![j] = "off"] /\ calls' = [calls EXCEPT ![<<j, "end">>] = 2]
    BY <1>7 DEF StreamEnds
  <2> QED  BY <1>0, <1>4, <1>k, <2>1 DEF Kinds
<1>8. CASE LineWritten(j) \/ JobEnds(j)
  <2>1. \E kind \in {"line", "end"} : Leave(j, kind) /\ UNCHANGED <<queue, timer>>
    BY <1>8 DEF LineWritten, JobEnds
  <2>2. UNCHANGED calls
    BY <1>8 DEF LineWritten, JobEnds
  <2> QED  BY <1>0, <1>4, <2>1, <2>2 DEF Kinds
<1>9. CASE Kill(j) \/ Drop(j)
  <2>1. j # k
    BY <1>9
  <2>2. Leave(j, "timeout") /\ UNCHANGED queue /\ timer'[k] = timer[k]
    BY <1>9, <2>1 DEF Kill, Drop
  <2>3. Calls(k)' = Calls(k)
    BY <1>9, <1>k, <2>1 DEF Kill, Drop
  <2> QED  BY <1>0, <1>4, <2>1, <2>2, <2>3 DEF Kinds
<1>10. ASSUME NEW kind \in Kinds, NextCall(j, kind)
       PROVE  \E d \in SUBSET Work, v \in Work : Aside(k, d, v)
  <2>1. <<j, kind>> # <<k, "timeout">>
    BY <1>10
  <2>2. Leave(j, kind) /\ queue' = Append(queue, <<j, kind>>) /\ UNCHANGED timer
    BY <1>10 DEF NextCall
  <2>3. Calls(k)' = Calls(k)
    BY <1>10, <1>k, <2>1 DEF NextCall
  <2> QED  BY <1>0, <1>4, <2>1, <2>2, <2>3
<1>11. CASE Exit(j)
  <2>1. Aside(k, {}, <<j, "line">>)
    BY <1>11 DEF Exit, poolVars, Aside
  <2> QED  BY <1>0, <2>1 DEF Kinds
<1> QED  BY <1>2, <1>3, <1>5, <1>6, <1>7, <1>8, <1>9, <1>10, <1>11 DEF Step

(* Whoever is in the queue keeps its place when work is added.             *)
LEMMA PlaceKept ==
  ASSUME TypeOK, NEW i \in 1 .. Len(queue), NEW w,
         queue' = queue \/ \E v \in Work : queue' = Append(queue, v), queue[i] = w
  PROVE  i \in 1 .. Len(queue') /\ queue'[i] = w
<1>1. CASE queue' = queue
  BY <1>1
<1>2. ASSUME NEW v \in Work, queue' = Append(queue, v)
      PROVE  i \in 1 .. Len(queue') /\ queue'[i] = w
  BY <1>2 DEF TypeOK
<1> QED  BY <1>1, <1>2

(* A thread takes the first, and everyone behind moves up.                 *)
LEMMA PlaceTaken ==
  ASSUME TypeOK, Take, NEW i \in 1 .. Len(queue)
  PROVE  IF i = 1 THEN queue[i] \in busy'
                  ELSE i - 1 \in 1 .. Len(queue') /\ queue'[i - 1] = queue[i]
BY DEF Take, TypeOK

LEMMA TakeKeeps == ASSUME TypeOK, Take, NEW w, InPool(w) PROVE InPool(w)'
<1>1. CASE w \in busy
  BY <1>1 DEF Take, InPool
<1>2. ASSUME NEW i \in 1 .. Len(queue), queue[i] = w PROVE InPool(w)'
  BY <1>2, PlaceTaken DEF InPool
<1> QED  BY <1>1, <1>2 DEF InPool

(* The line of a timeout is in the pool once, and a timer that is set has  *)
(* not logged anything yet.                                                *)
TimerInv ==
  \A k \in Jobs :
    /\ Once(k, "timeout")
    /\ InPool(<<k, "timeout">>) =>
         task[k] \in {"streaming", "ending", "done"} /\ timer[k] # "armed"
    /\ timer[k] # "off" => task[k] = "streaming"

(* What the steps of a job do to its own line: it is submitted once, gives *)
(* way to its next call, or leaves the pool.                               *)
LEMMA OwnLine ==
  ASSUME TypeOK, TimerInv, NEW k \in Jobs, Concerns(k)
  PROVE  Once(k, "timeout")' /\ (Kill(k) \/ Drop(k) => ~ InPool(<<k, "timeout">>)')
<1> DEFINE w == <<k, "timeout">>
           d == {w}
<1>1. w \in Work /\ d \in SUBSET Work /\ w \in d
  BY TimeoutKinds
<1>2. Once(k, "timeout")
  BY DEF TimerInv
<1>3. CASE TimerFires(k)
  <2>1. ~ InPool(w) /\ busy' = busy \ {} /\ queue' = Append(queue, w)
    BY <1>3 DEF TimerInv, TimerFires, LogLine, Submit
  <2>2. Once(k, "timeout")'
    <3> HIDE DEF w
    <3> QED  BY <1>1, <1>2, <2>1, PoolMoves, TimeoutKinds
  <2>3. ~ Kill(k) /\ ~ Drop(k)
    BY <1>3 DEF TimerFires, Kill, Drop, Done, Leave
  <2> QED  BY <2>2, <2>3
<1>4. CASE NextCall(k, "timeout")
  <2>1. w \in busy /\ busy' = busy \ d /\ queue' = Append(queue, w)
    BY <1>4 DEF NextCall, Leave, Submit
  <2>2. Once(k, "timeout")'
    <3> HIDE DEF w, d
    <3> QED  BY <1>1, <1>2, <2>1, PoolMoves, TimeoutKinds
  <2>3. ~ Kill(k) /\ ~ Drop(k)
    BY <1>4 DEF NextCall, Kill, Drop, Done, Dropped
  <2> QED  BY <2>2, <2>3
<1>5. CASE Kill(k) \/ Drop(k)
  <2>1. w \in busy /\ busy' = busy \ d /\ queue' = queue
    BY <1>5 DEF Kill, Drop, Done, Leave
  <2>2. Once(k, "timeout")' /\ ~ InPool(w)'
    <3>1. \A v \in Work : v = w \/ v # w
      OBVIOUS
    <3> HIDE DEF w, d
    <3> QED  BY <1>1, <1>2, <2>1, PoolMoves, TimeoutKinds DEF w
  <2> QED  BY <2>2
<1> QED  BY <1>3, <1>4, <1>5 DEF Concerns

LEMMA TimerStep == ASSUME TypeOK, PoolInv, TimerInv, [Next]_vars PROVE TimerInv'
<1> SUFFICES ASSUME NEW k \in Jobs
             PROVE  /\ Once(k, "timeout")'
                    /\ InPool(<<k, "timeout">>)' =>
                         task'[k] \in {"streaming", "ending", "done"} /\ timer'[k] # "armed"
                    /\ timer'[k] # "off" => task'[k] = "streaming"
  BY DEF TimerInv
<1>0. /\ Once(k, "timeout")
      /\ InPool(<<k, "timeout">>) =>
           task[k] \in {"streaming", "ending", "done"} /\ timer[k] # "armed"
      /\ timer[k] # "off" => task[k] = "streaming"
  BY DEF TimerInv
<1>1. CASE Take
  <2>1. UNCHANGED <<task, timer>>
    BY <1>1 DEF Take
  <2> QED  BY <1>0, <1>1, <2>1, OnceTake, TimeoutKinds
<1>2. CASE Concerns(k)
  <2>1. Once(k, "timeout")'
    BY <1>2, OwnLine
  <2>2. /\ task' = task /\ timer'[k] # "armed"
        /\ TimerFires(k) \/ timer'[k] \in {timer[k], "off"}
    BY <1>2 DEF Concerns, TimerFires, NextCall, Kill, Drop, Leave, Dropped, CancelTimer, TypeOK,
                TimerInv, InPool, Done
  <2>3. TimerFires(k) => task[k] = "streaming"
    BY <1>0 DEF TimerFires
  <2>4. ~ TimerFires(k) => InPool(<<k, "timeout">>)
    BY <1>2 DEF Concerns, NextCall, Kill, Drop, Done, Leave, InPool
  <2> QED  BY <1>0, <2>1, <2>2, <2>3, <2>4
<1>3. ASSUME NEW j \in Jobs, Step(j) \/ PrintLine(j) \/ Exit(j), ~ Concerns(k)
      PROVE  /\ Once(k, "timeout")'
             /\ InPool(<<k, "timeout">>)' =>
                  task'[k] \in {"streaming", "ending", "done"} /\ timer'[k] # "armed"
             /\ timer'[k] # "off" => task'[k] = "streaming"
  <2>1. PICK d \in SUBSET Work, v \in Work : Aside(k, d, v)
    BY <1>3, OthersAside
  <2>2. Once(k, "timeout")' /\ (InPool(<<k, "timeout">>)' => InPool(<<k, "timeout">>))
    BY <1>0, <2>1, PoolMoves, TimeoutKinds DEF Aside
  <2>3. CASE UNCHANGED <<task, timer>>
    BY <1>0, <2>2, <2>3
  <2>4. CASE TimerFires(j) \/ Kill(j)
    <3>1. task' = task /\ timer'[k] = timer[k]
      BY <1>3, <2>4 DEF TimerFires, Kill, CancelTimer, Concerns, TypeOK
    <3> QED  BY <1>0, <2>2, <3>1
  <2>5. CASE Acquire(j) \/ Launch(j) \/ StartStreaming(j) \/ StreamEnds(j) \/ JobEnds(j)
    <3>1. CASE j # k
      <4>1. task'[k] = task[k] /\ timer'[k] = timer[k]
        BY <2>5, <3>1 DEF Acquire, Launch, StartStreaming, StreamEnds, JobEnds, TaskGoto,
                          CancelTimer, TypeOK
      <4> QED  BY <1>0, <2>2, <4>1
    <3>2. CASE j = k
      <4>1. \/ Acquire(k) /\ task[k] = "waiting"
            \/ Launch(k) /\ task[k] = "starting"
            \/ StartStreaming(k) /\ task[k] = "launched"
            \/ StreamEnds(k) /\ task[k] = "streaming"
            \/ JobEnds(k) /\ task[k] = "ending"
        BY <2>5, <3>2, StateForFacts DEF Acquire, Launch, StartStreaming, StreamEnds, JobEnds,
           Done, Leave, PoolInv, AwaitedByTask, InPool, Awaited
      <4> QED  BY <1>0, <2>2, <4>1 DEF Acquire, Launch, StartStreaming, StreamEnds, JobEnds,
               TaskGoto, CancelTimer, TypeOK
    <3> QED  BY <3>1, <3>2
  <2> QED  BY <1>3, <2>3, <2>4, <2>5
           DEF Step, LineWritten, Drop, NextCall, PrintLine, Exit
<1>4. CASE UNCHANGED vars
  BY <1>0, <1>4 DEF vars, poolVars, Once, InPool
<1> QED  BY <1>1, <1>2, <1>3, <1>4 DEF Next, AllDone

(* The line of a timeout is in the pool once, and only while its task may  *)
(* still be streaming or has gone on (runner.py:318-324).                  *)
THEOREM TimerInvHolds == Spec => []TimerInv
<1>1. Init => TimerInv
  BY DEF Init, TimerInv, Once, InPool
<1>2. TypeOK /\ PoolInv /\ TimerInv /\ [Next]_vars => TimerInv'
  BY TimerStep
<1> QED  BY <1>1, <1>2, TypeCorrect, PoolInvHolds, PTL DEF Spec

LEMMA SubmittedLast ==
  ASSUME TypeOK, NEW w \in Work, queue' = Append(queue, w)
  PROVE  Len(queue') \in 1 .. Len(queue') /\ queue'[Len(queue')] = w
BY DEF TypeOK

(* Work that is not the line of k's timeout keeps the line where it is.    *)
LEMMA AsideKeeps ==
  ASSUME TypeOK, NEW k \in Jobs, NEW d \in SUBSET Work, NEW v \in Work, Aside(k, d, v),
         NEW i \in 0 .. Len(queue), Place(k, i)
  PROVE  Place(k, i)'
<1> DEFINE w == <<k, "timeout">>
<1>1. CASE i = 0
  BY <1>1 DEF Place, Aside
<1>2. CASE i > 0
  <2>1. i \in 1 .. Len(queue) /\ queue[i] = w
    BY <1>2 DEF Place, TypeOK
  <2>2. queue' = queue \/ \E u \in Work : queue' = Append(queue, u)
    BY DEF Aside
  <2>3. i \in 1 .. Len(queue') /\ queue'[i] = w
    <3> HIDE DEF w
    <3> QED  BY <2>1, <2>2, PlaceKept
  <2> QED  BY <1>2, <2>3 DEF Place
<1> QED  BY <1>1, <1>2 DEF TypeOK

LEMMA InSomePlace ==
  ASSUME TypeOK, NEW k \in Jobs
  PROVE  InPool(<<k, "timeout">>) <=> \E i \in 0 .. Len(queue) : Place(k, i)
BY DEF InPool, Place, TypeOK

LEMMA QueuesStep == ASSUME TypeOK, TypeOK', TimerInv, TimeoutQueues, [Next]_vars PROVE TimeoutQueues'
<1> SUFFICES ASSUME NEW k \in Jobs, timer'[k] = "logging" PROVE InPool(<<k, "timeout">>)'
  BY DEF TimeoutQueues
<1> DEFINE w == <<k, "timeout">>
<1>1. CASE Take
  <2>1. timer' = timer
    BY <1>1 DEF Take
  <2>2. InPool(w)
    BY <2>1 DEF TimeoutQueues
  <2> QED  BY <1>1, <2>2, TakeKeeps
<1>2. CASE Concerns(k)
  <2>1. ~ Kill(k) /\ ~ Drop(k)
    BY DEF Kill, Drop, Dropped, CancelTimer, TypeOK
  <2>2. queue' = Append(queue, w)
    BY <1>2, <2>1 DEF Concerns, TimerFires, NextCall, LogLine, Submit
  <2>3. Len(queue') \in 1 .. Len(queue') /\ queue'[Len(queue')] = w
    <3>1. w \in Work
      BY TimeoutKinds
    <3> HIDE DEF w
    <3> QED  BY <2>2, <3>1, SubmittedLast
  <2> QED  BY <2>3 DEF InPool
<1>3. ASSUME NEW j \in Jobs, Step(j) \/ PrintLine(j) \/ Exit(j), ~ Concerns(k) PROVE InPool(w)'
  <2>1. PICK d \in SUBSET Work, v \in Work : Aside(k, d, v)
    BY <1>3, OthersAside
  <2>2. InPool(w)
    BY <2>1 DEF Aside, TimeoutQueues
  <2>3. CASE w \in busy
    BY <2>1, <2>3 DEF Aside, InPool
  <2>4. ASSUME NEW i \in 1 .. Len(queue), queue[i] = w PROVE InPool(w)'
    <3>1. queue' = queue \/ \E u \in Work : queue' = Append(queue, u)
      BY <2>1 DEF Aside
    <3>2. i \in 1 .. Len(queue') /\ queue'[i] = w
      <4> HIDE DEF w
      <4> QED  BY <2>4, <3>1, PlaceKept
    <3> QED  BY <3>2 DEF InPool
  <2> QED  BY <2>2, <2>3, <2>4 DEF InPool
<1>4. CASE UNCHANGED vars
  BY <1>4 DEF vars, poolVars, TimeoutQueues, InPool
<1> QED  BY <1>1, <1>2, <1>3, <1>4 DEF Next, AllDone

(* What a step may do to the line of k's timeout when it is at place i.    *)
Nearer(k, i) ==
  \/ i = 0 /\ Calls(k)' = Calls(k) /\ Place(k, 0)'
  \/ i = 0 /\ ~ InPool(<<k, "timeout">>)' /\ timer'[k] = "off"
  \/ i = 0 /\ Calls(k)' = Calls(k) - 1 /\ Place(k, Len(queue))'
  \/ i > 0 /\ Calls(k)' = Calls(k) /\ Take /\ Place(k, i - 1)'
  \/ /\ i > 0 /\ Calls(k)' = Calls(k) /\ ~Take
     /\ Place(k, i)' /\ Chores' \subseteq Chores

LEMMA NearerStep ==
  ASSUME TypeOK, TimerInv, [Next]_vars, vars' # vars,
         NEW k \in Jobs, NEW i \in 0 .. Len(queue), Place(k, i)
  PROVE  Nearer(k, i)
<1> DEFINE w == <<k, "timeout">>
<1>0. Len(queue) \in Nat /\ w \in Work
  BY TimeoutKinds DEF TypeOK
<1>1. CASE i = 0 /\ Take
  BY <1>1 DEF Take, Place, Calls, Nearer
<1>2. CASE i > 0 /\ Take
  <2>1. i \in 1 .. Len(queue) /\ queue[i] = w
    BY <1>0, <1>2 DEF Place
  <2>2. IF i = 1 THEN w \in busy' ELSE i - 1 \in 1 .. Len(queue') /\ queue'[i - 1] = w
    BY <1>2, <2>1, PlaceTaken
  <2>3. Calls(k)' = Calls(k)
    BY <1>2 DEF Take, Calls
  <2> QED  BY <1>2, <2>1, <2>2, <2>3 DEF Place, Nearer
<1>3. CASE Concerns(k)
  <2>1. InPool(w)
    BY <1>0 DEF Place, InPool
  <2>2. ~ TimerFires(k)
    BY <2>1 DEF TimerInv, TimerFires
  <2>3. w \in busy
    BY <1>3, <2>2 DEF Concerns, NextCall, Kill, Drop, Done, Leave
  <2>4. i = 0
    BY <1>0, <2>3 DEF Place, TimerInv, Once
  <2>5. CASE NextCall(k, "timeout")
    <3>1. Len(queue') \in 1 .. Len(queue') /\ queue'[Len(queue')] = w
      <4>1. queue' = Append(queue, w)
        BY <2>5 DEF NextCall, Submit
      <4> HIDE DEF w
      <4> QED  BY <1>0, <4>1, SubmittedLast
    <3>2. Calls(k)' = Calls(k) - 1
      BY <1>0, <2>5 DEF NextCall, Calls, TypeOK
    <3>3. Place(k, Len(queue))'
      BY <3>1 DEF Place
    <3> QED  BY <2>4, <3>2, <3>3 DEF Nearer
  <2>6. CASE Kill(k) \/ Drop(k)
    <3>1. timer'[k] = "off"
      BY <2>6 DEF Kill, Drop, Dropped, CancelTimer, TypeOK
    <3>2. ~ InPool(w)'
      BY <1>3, <2>6, OwnLine
    <3> QED  BY <2>4, <3>1, <3>2 DEF Nearer
  <2> QED  BY <1>3, <2>2, <2>5, <2>6 DEF Concerns
<1>4. ASSUME NEW j \in Jobs, Step(j) \/ PrintLine(j) \/ Exit(j), ~ Concerns(k), ~ Take
      PROVE  Nearer(k, i)
  <2>1. PICK d \in SUBSET Work, v \in Work : Aside(k, d, v)
    BY <1>4, OthersAside
  <2>2. Place(k, i)' /\ Calls(k)' = Calls(k)
    BY <2>1, AsideKeeps DEF Aside
  <2>3. Chores' \subseteq Chores
    BY <2>1 DEF Aside, Chores
  <2> QED  BY <1>0, <1>4, <2>2, <2>3 DEF Nearer
<1> QED  BY <1>0, <1>1, <1>2, <1>3, <1>4 DEF Next, AllDone

(* A timeout that has fired waits for a thread only.  Its line makes three *)
(* calls of the pool at most; no later work gets ahead of a call that      *)
(* waits, and each time a thread takes work the call moves forward.  Other *)
(* work gets ahead of the line only between its calls (logs.py:30-31).     *)
THEOREM TimeoutsAdvance == Spec => []TimeoutQueues /\ TimeoutNearer
<1>1. Init => TimeoutQueues
  BY DEF Init, TimeoutQueues
<1>2. TypeOK /\ TypeOK' /\ TimerInv /\ TimeoutQueues /\ [Next]_vars => TimeoutQueues'
  BY QueuesStep
<1> DEFINE AllNearer == \A j \in Jobs, i \in 0 .. Len(queue) : Place(j, i) => Nearer(j, i)
<1>3. TypeOK /\ TimerInv /\ [Next]_vars => [AllNearer]_vars
  BY NearerStep
<1>4. Spec => [][AllNearer]_vars
  <2> HIDE DEF AllNearer
  <2> QED  BY <1>3, TypeCorrect, TimerInvHolds, PTL DEF Spec
<1>5. Spec => []TimeoutQueues
  BY <1>1, <1>2, TypeCorrect, TimerInvHolds, PTL DEF Spec
<1> QED  BY <1>4, <1>5 DEF TimeoutNearer, Nearer
=============================================================================
