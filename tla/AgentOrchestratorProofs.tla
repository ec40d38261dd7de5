---------------------- MODULE AgentOrchestratorProofs ----------------------
(***************************************************************************)
(* Theorems about AgentOrchestrator for every number of sessions, every    *)
(* pipeline and every assignment of target paths.                          *)
(***************************************************************************)
EXTENDS AgentOrchestrator, TLAPS

USE OrchestratorAssumption

\* A batch has one task or three, and ends within the pipeline.
LEMMA PlanFacts ==
  ASSUME TypeOK, NEW s \in Sessions
  PROVE  /\ Length(s) \in Nat
         /\ BatchWidth(kind[s]) \in {1, 3}
         /\ BatchEnd(s) \in Nat
         /\ BatchEnd(s) <= Length(s)
         /\ BatchEnd(s) <= done[s] + BatchWidth(kind[s])
         /\ BatchEnd(s) = Length(s) \/ BatchEnd(s) = done[s] + BatchWidth(kind[s])
         /\ \A i \in 1 .. Length(s) : Pipeline[kind[s]][i] \in Roles
         /\ \A i, j \in 1 .. Length(s) :
              Pipeline[kind[s]][i] = Pipeline[kind[s]][j] => i = j
<1>1. kind[s] \in Kinds /\ Pipeline[kind[s]] \in Seq(Roles) /\ done[s] \in Nat
  BY DEF TypeOK
<1>2. Length(s) \in Nat /\ BatchWidth(kind[s]) \in {1, 3}
  BY <1>1 DEF Length, BatchWidth
<1>3. /\ BatchEnd(s) \in Nat
      /\ BatchEnd(s) <= Length(s)
      /\ BatchEnd(s) <= done[s] + BatchWidth(kind[s])
      /\ BatchEnd(s) = Length(s) \/ BatchEnd(s) = done[s] + BatchWidth(kind[s])
  BY <1>1, <1>2 DEF BatchEnd
<1>4. \A i \in 1 .. Length(s) : Pipeline[kind[s]][i] \in Roles
  BY <1>1 DEF Length
<1>5. \A i, j \in 1 .. Length(s) :
        Pipeline[kind[s]][i] = Pipeline[kind[s]][j] => i = j
  BY <1>1 DEF Length
<1>6. QED
  BY <1>2, <1>3, <1>4, <1>5

\* The task that a starting session begins next.
LEMMA NextRoleFacts ==
  ASSUME TypeOK, Progress, TasksFollow, NEW s \in Sessions, Starting(s)
  PROVE  /\ begun[s] + 1 \in 1 .. Length(s)
         /\ begun[s] + 1 <= BatchEnd(s)
         /\ NextRole(s) \in Roles
         /\ state[s][NextRole(s)] = "pending"
<1>1. begun[s] \in Nat /\ begun[s] < BatchEnd(s)
  BY DEF Starting, TypeOK
<1>2. begun[s] + 1 \in 1 .. Length(s) /\ begun[s] + 1 <= BatchEnd(s)
  BY <1>1, PlanFacts
<1>3. NextRole(s) \in Roles
  BY <1>2, PlanFacts DEF NextRole
<1>4. \A i \in 1 .. begun[s] : Pipeline[kind[s]][i] # NextRole(s)
  BY <1>1, <1>2, PlanFacts DEF NextRole
<1>5. state[s][NextRole(s)] = "pending"
  BY <1>3, <1>4 DEF TasksFollow
<1>6. QED
  BY <1>2, <1>3, <1>5

\* A running task was begun in the batch its session is in.
LEMMA RunningIsInBatch ==
  ASSUME TypeOK, Progress, TasksFollow, NEW s \in Sessions, NEW r \in Roles, Running(s, r)
  PROVE  \E i \in 1 .. Length(s) :
           /\ done[s] < i /\ i <= begun[s]
           /\ Pipeline[kind[s]][i] = r
<1>1. begun[s] \in Nat /\ done[s] \in Nat /\ begun[s] <= Length(s)
  BY PlanFacts DEF TypeOK, Progress
<1>2. PICK i \in 1 .. begun[s] : Pipeline[kind[s]][i] = r
  BY DEF TasksFollow, Running
<1>3. ~Settled(s, Pipeline[kind[s]][i])
  BY <1>2 DEF Running, Settled
<1>4. done[s] < i
  BY <1>1, <1>2, <1>3 DEF TasksFollow
<1>5. i \in 1 .. Length(s) /\ i <= begun[s]
  BY <1>1, <1>2, PlanFacts
<1>6. QED
  BY <1>2, <1>4, <1>5

LEMMA InitInv == Init => IndInv
<1> SUFFICES ASSUME Init PROVE IndInv
  OBVIOUS
<1>1. TypeOK
  BY DEF Init, TypeOK, Phases, States
<1>2. OneStarts
  BY DEF Init, OneStarts, Starting
<1>3. Progress
  <2>1. ASSUME NEW s \in Sessions
        PROVE  /\ done[s] <= begun[s] /\ begun[s] <= BatchEnd(s)
               /\ done[s] % BatchWidth(kind[s]) = 0
    <3>1. done[s] = 0 /\ begun[s] = 0
      BY DEF Init
    <3>2. BatchWidth(kind[s]) \in {1, 3} /\ BatchEnd(s) \in Nat
      BY <1>1, PlanFacts
    <3>3. QED
      BY <3>1, <3>2
  <2>2. \A s \in Sessions : begun[s] = 0
    BY DEF Init
  <2>3. QED
    BY <2>1, <2>2 DEF Progress
<1>4. TasksFollow
  BY DEF Init, TasksFollow
<1>5. LocksAreOwned /\ LocksAreKept /\ NothingOutlivesSession
  BY DEF Init, LocksAreOwned, LocksAreKept, NothingOutlivesSession, Running
<1>6. SessionIsActive
  BY DEF Init, SessionIsActive, Live
<1>7. QED
  BY <1>1, <1>2, <1>3, <1>4, <1>5, <1>6 DEF IndInv

LEMMA OrchestrateInv ==
  ASSUME IndInv, NEW s \in Sessions, Orchestrate(s)
  PROVE  IndInv'
<1>1. TypeOK'
  BY DEF IndInv, TypeOK, Orchestrate, Phases
<1>2. /\ phase[s] = "new" /\ active = NoOne
      /\ begun[s] = 0 /\ done[s] = 0
      /\ \A t \in Sessions : ~Starting(t)
  BY DEF IndInv, Orchestrate, MayOrchestrate, Quiet, Progress, TypeOK
<1>3. \A t \in Sessions : t # s =>
        /\ kind'[t] = kind[t] /\ target'[t] = target[t] /\ phase'[t] = phase[t]
  BY DEF IndInv, TypeOK, Orchestrate
<1>4. \A r \in Roles : state[s][r] = "pending"
  BY <1>2 DEF IndInv, TasksFollow
<1>5. begun' = begun /\ done' = done /\ state' = state /\ locks' = locks /\ cancelled' = cancelled
  BY DEF Orchestrate
<1>6. \A t \in Sessions : t # s => Starting(t)' = Starting(t)
  BY <1>3, <1>5 DEF Starting, BatchEnd, Length, BatchWidth
<1>7. OneStarts'
  BY <1>2, <1>6 DEF OneStarts
<1>8. Progress'
  <2>1. ASSUME NEW t \in Sessions, t # s
        PROVE  /\ done'[t] <= begun'[t] /\ begun'[t] <= BatchEnd(t)'
               /\ done'[t] = Length(t)' \/ done'[t] % BatchWidth(kind'[t]) = 0
               /\ phase'[t] = "new" => begun'[t] = 0
    BY <1>3, <1>5, <2>1 DEF IndInv, Progress, BatchEnd, Length, BatchWidth
  <2>2. /\ done'[s] <= begun'[s] /\ begun'[s] <= BatchEnd(s)'
        /\ done'[s] = Length(s)' \/ done'[s] % BatchWidth(kind'[s]) = 0
        /\ phase'[s] = "new" => begun'[s] = 0
    <3>1. kind'[s] \in Kinds /\ Len(Pipeline[kind'[s]]) \in Nat
      BY <1>1 DEF TypeOK
    <3>2. BatchWidth(kind'[s]) \in {1, 3}
      BY DEF BatchWidth
    <3>3. begun'[s] <= BatchEnd(s)'
      BY <1>2, <1>5, <3>1, <3>2 DEF BatchEnd, Length
    <3>4. QED
      BY <1>2, <1>5, <3>2, <3>3
  <2>3. QED
    BY <2>1, <2>2 DEF Progress
<1>9. TasksFollow'
  <2>1. ASSUME NEW t \in Sessions, t # s
        PROVE  /\ \A i \in 1 .. done'[t] :
                    state'[t][Pipeline[kind'[t]][i]] \in {"settled", "refused"}
               /\ \A i \in 1 .. begun'[t] : state'[t][Pipeline[kind'[t]][i]] # "pending"
               /\ \A r \in Roles : state'[t][r] # "pending" =>
                    \E i \in 1 .. begun'[t] : Pipeline[kind'[t]][i] = r
    <3>1. /\ \A i \in 1 .. done[t] :
               state[t][Pipeline[kind[t]][i]] \in {"settled", "refused"}
          /\ \A i \in 1 .. begun[t] : state[t][Pipeline[kind[t]][i]] # "pending"
          /\ \A r \in Roles : state[t][r] # "pending" =>
               \E i \in 1 .. begun[t] : Pipeline[kind[t]][i] = r
      BY DEF IndInv, TasksFollow, Settled
    <3>2. kind'[t] = kind[t]
      BY <1>3, <2>1
    <3>3. QED
      BY <1>5, <3>1, <3>2
  <2>2. QED
    BY <1>2, <1>3, <1>4, <1>5, <2>1 DEF TasksFollow, Settled
<1>10. \A t \in Sessions, r \in Roles : Running(t, r) => t # s
  BY <1>4 DEF Running
<1>11. LocksAreOwned'
  BY <1>3, <1>5, <1>10 DEF IndInv, LocksAreOwned, Running
<1>12. LocksAreKept'
  BY <1>3, <1>5, <1>10 DEF IndInv, LocksAreKept, Running
<1>13. NothingOutlivesSession'
  BY <1>3, <1>5, <1>10 DEF IndInv, NothingOutlivesSession, Running
<1>14. SessionIsActive'
  BY <1>2, <1>3, <1>5 DEF IndInv, SessionIsActive, Live, Orchestrate, TypeOK
<1>15. QED
  BY <1>1, <1>7, <1>8, <1>9, <1>11, <1>12, <1>13, <1>14 DEF IndInv

\* A step that leaves the plans and the counters of a session alone leaves
\* its batch alone.
LEMMA BatchIsKept ==
  ASSUME NEW s \in Sessions, kind'[s] = kind[s], done'[s] = done[s]
  PROVE  /\ Length(s)' = Length(s)
         /\ BatchWidth(kind'[s]) = BatchWidth(kind[s])
         /\ BatchEnd(s)' = BatchEnd(s)
         /\ phase'[s] = phase[s] /\ begun'[s] = begun[s] => Starting(s)' = Starting(s)
  BY DEF Length, BatchWidth, BatchEnd, Starting

\* Only one session starts tasks, and when it is done nobody does.
LEMMA BeginsNext ==
  ASSUME IndInv, NEW s \in Sessions, Starting(s),
         begun' = [begun EXCEPT ![s] = @ + 1],
         UNCHANGED <<kind, phase, done>>
  PROVE  OneStarts' /\ Progress'
<1>1. begun[s] + 1 <= BatchEnd(s) /\ begun[s] \in Nat /\ phase[s] = "running"
  BY NextRoleFacts DEF IndInv, TypeOK, Starting
<1>2. /\ begun'[s] = begun[s] + 1
      /\ \A t \in Sessions : t # s => begun'[t] = begun[t]
  BY DEF IndInv, TypeOK
<1>3. \A t \in Sessions : t # s => ~Starting(t)'
  BY <1>2, BatchIsKept DEF IndInv, OneStarts
<1>4. OneStarts'
  BY <1>3 DEF OneStarts
<1>5. ASSUME NEW t \in Sessions
      PROVE  /\ done'[t] <= begun'[t] /\ begun'[t] <= BatchEnd(t)'
             /\ done'[t] = Length(t)' \/ done'[t] % BatchWidth(kind'[t]) = 0
             /\ phase'[t] = "new" => begun'[t] = 0
  <2>1. /\ done[t] <= begun[t] /\ begun[t] <= BatchEnd(t)
        /\ done[t] = Length(t) \/ done[t] % BatchWidth(kind[t]) = 0
        /\ phase[t] = "new" => begun[t] = 0
    BY DEF IndInv, Progress
  <2>2. /\ Length(t)' = Length(t) /\ BatchEnd(t)' = BatchEnd(t)
        /\ BatchWidth(kind'[t]) = BatchWidth(kind[t])
    BY BatchIsKept
  <2>3. done[s] \in Nat
    BY DEF IndInv, TypeOK
  <2>4. QED
    BY <1>1, <1>2, <2>1, <2>2, <2>3
<1>6. QED
  BY <1>4, <1>5 DEF Progress

\* What begins is written down, and nothing else changes.
LEMMA BeginsFollow ==
  ASSUME IndInv, NEW s \in Sessions, Starting(s), NEW v \in {"running", "refused"},
         begun' = [begun EXCEPT ![s] = @ + 1],
         state' = [state EXCEPT ![s][NextRole(s)] = v],
         UNCHANGED <<kind, done>>
  PROVE  TasksFollow'
<1> DEFINE n == NextRole(s)
<1>1. /\ begun[s] + 1 \in 1 .. Length(s) /\ n \in Roles /\ state[s][n] = "pending"
      /\ n = Pipeline[kind[s]][begun[s] + 1] /\ begun[s] \in Nat
  BY NextRoleFacts DEF IndInv, TypeOK, NextRole
<1>2. /\ begun'[s] = begun[s] + 1
      /\ \A t \in Sessions : t # s => begun'[t] = begun[t] /\ state'[t] = state[t]
      /\ \A r \in Roles : state'[s][r] = IF r = n THEN v ELSE state[s][r]
  BY <1>1 DEF IndInv, TypeOK
<1> HIDE DEF n
<1>3. ASSUME NEW t \in Sessions
      PROVE  /\ \A i \in 1 .. done'[t] :
                  state'[t][Pipeline[kind'[t]][i]] \in {"settled", "refused"}
             /\ \A i \in 1 .. begun'[t] : state'[t][Pipeline[kind'[t]][i]] # "pending"
             /\ \A r \in Roles : state'[t][r] # "pending" =>
                  \E i \in 1 .. begun'[t] : Pipeline[kind'[t]][i] = r
  <2>1. /\ \A i \in 1 .. done[t] :
             state[t][Pipeline[kind[t]][i]] \in {"settled", "refused"}
        /\ \A i \in 1 .. begun[t] : state[t][Pipeline[kind[t]][i]] # "pending"
        /\ \A r \in Roles : state[t][r] # "pending" =>
             \E i \in 1 .. begun[t] : Pipeline[kind[t]][i] = r
    BY DEF IndInv, TasksFollow, Settled
  <2>2. CASE t # s
    BY <1>2, <2>1, <2>2
  <2>3. CASE t = s
    <3>1. \A i \in 1 .. begun[s] + 1 : Pipeline[kind[s]][i] \in Roles
      BY <1>1, PlanFacts DEF IndInv
    <3>2. done[s] \in Nat /\ done[s] <= begun[s]
      BY DEF IndInv, TypeOK, Progress
    <3>3. \A i \in 1 .. done[s] : Pipeline[kind[s]][i] # n
      BY <1>1, <2>1, <2>3
    <3>4. \A i \in 1 .. done'[s] :
            state'[s][Pipeline[kind'[s]][i]] \in {"settled", "refused"}
      BY <1>1, <1>2, <2>1, <2>3, <3>1, <3>2, <3>3
    <3>5. \A i \in 1 .. begun'[s] : state'[s][Pipeline[kind'[s]][i]] # "pending"
      <4>1. TAKE i \in 1 .. begun'[s]
      <4>2. CASE i = begun[s] + 1
        BY <1>1, <1>2, <4>2
      <4>3. CASE i \in 1 .. begun[s]
        BY <1>1, <1>2, <2>1, <2>3, <3>1, <4>3
      <4>4. QED
        BY <1>1, <1>2, <4>2, <4>3
    <3>6. \A r \in Roles : state'[s][r] # "pending" =>
            \E i \in 1 .. begun'[s] : Pipeline[kind'[s]][i] = r
      BY <1>1, <1>2, <2>1, <2>3
    <3>7. QED
      BY <2>3, <3>4, <3>5, <3>6
  <2>4. QED
    BY <2>2, <2>3
<1>4. QED
  BY <1>3 DEF TasksFollow, Settled

LEMMA StartTaskInv ==
  ASSUME IndInv, NEW s \in Sessions, StartTask(s)
  PROVE  IndInv'
<1> DEFINE n == NextRole(s)
<1>1. n \in Roles /\ state[s][n] = "pending" /\ phase[s] = "running"
  BY NextRoleFacts DEF IndInv, StartTask, Starting
<1>2. TypeOK'
  <2>1. state' \in [Sessions -> [Roles -> States]] /\ begun' \in [Sessions -> Nat]
    BY <1>1 DEF IndInv, TypeOK, StartTask, States
  <2>2. locks' \in [Paths -> (Roles \X Sessions) \cup {NoOne}]
    BY <1>1 DEF IndInv, TypeOK, StartTask, Acquired
  <2>3. QED
    BY <2>1, <2>2 DEF IndInv, TypeOK, StartTask
<1>3. OneStarts' /\ Progress' /\ TasksFollow'
  BY BeginsNext, BeginsFollow DEF StartTask
<1>4. /\ state'[s][n] = "running"
      /\ \A t \in Sessions, r \in Roles : <<r, t>> # <<n, s>> => state'[t][r] = state[t][r]
      /\ \A p \in Paths :
           locks'[p] = IF p \in target[s][n] THEN <<n, s>> ELSE locks[p]
      /\ \A p \in target[s][n] :
           p \notin Protected /\ locks[p] \in {NoOne} \cup ({n} \X Sessions)
      /\ target' = target /\ phase' = phase /\ cancelled' = cancelled
  BY <1>1 DEF IndInv, TypeOK, StartTask, Acquired, MayAcquire, Available
<1>5. \A t \in Sessions, r \in Roles : target[t][r] \subseteq Paths
  BY DEF IndInv, TypeOK
<1> HIDE DEF n
<1>6. LocksAreOwned'
  BY <1>1, <1>4 DEF IndInv, LocksAreOwned, Running
<1>7. LocksAreKept'
  <2>1. ASSUME NEW t \in Sessions, NEW r \in Roles, state'[t][r] = "running"
        PROVE  /\ target[t][r] \cap Protected = {}
               /\ cancelled = {} => \A p \in target[t][r] : locks'[p] = <<r, t>>
    <3>1. CASE <<r, t>> = <<n, s>>
      BY <1>4, <1>5, <3>1
    <3>2. CASE <<r, t>> # <<n, s>>
      <4>1. Running(t, r)
        BY <1>4, <2>1, <3>2 DEF Running
      <4>2. /\ target[t][r] \cap Protected = {}
            /\ cancelled = {} => \A p \in target[t][r] : locks[p] = <<r, t>>
        BY <4>1 DEF IndInv, LocksAreKept
      <4>3. cancelled = {} => t = s
        BY <1>1, <4>1 DEF IndInv, NothingOutlivesSession, SessionIsActive, Live
      <4>4. cancelled = {} => \A p \in target[t][r] : p \notin target[s][n]
        <5>1. SUFFICES ASSUME cancelled = {}, NEW p \in target[t][r], p \in target[s][n]
                       PROVE  FALSE
          OBVIOUS
        <5>2. locks[p] = <<r, t>> /\ locks[p] \in {NoOne} \cup ({n} \X Sessions)
          BY <1>4, <4>2, <5>1
        <5>3. r = n
          BY <5>2
        <5>4. QED
          BY <3>2, <4>3, <5>1, <5>3
      <4>5. QED
        BY <1>4, <1>5, <4>2, <4>4
    <3>3. QED
      BY <3>1, <3>2
  <2>2. QED
    BY <1>4, <2>1 DEF LocksAreKept, Running
<1>8. NothingOutlivesSession'
  BY <1>1, <1>4 DEF IndInv, NothingOutlivesSession, Running
<1>9. SessionIsActive'
  BY DEF IndInv, SessionIsActive, Live, StartTask
<1>10. QED
  BY <1>2, <1>3, <1>6, <1>7, <1>8, <1>9 DEF IndInv

LEMMA RefuseTaskInv ==
  ASSUME IndInv, NEW s \in Sessions, RefuseTask(s)
  PROVE  IndInv'
<1> DEFINE n == NextRole(s)
<1>1. n \in Roles /\ state[s][n] = "pending"
  BY NextRoleFacts DEF IndInv, RefuseTask, Starting
<1>2. TypeOK'
  BY <1>1 DEF IndInv, TypeOK, RefuseTask, States
<1>3. OneStarts' /\ Progress' /\ TasksFollow'
  BY BeginsNext, BeginsFollow DEF RefuseTask
<1>4. \A t \in Sessions, r \in Roles : Running(t, r)' = Running(t, r)
  BY <1>1 DEF IndInv, TypeOK, RefuseTask, Running
<1>5. target' = target /\ locks' = locks /\ phase' = phase /\ cancelled' = cancelled
  BY DEF RefuseTask
<1>6. LocksAreOwned' /\ LocksAreKept' /\ NothingOutlivesSession'
  BY <1>4, <1>5 DEF IndInv, LocksAreOwned, LocksAreKept, NothingOutlivesSession
<1>7. SessionIsActive'
  BY DEF IndInv, SessionIsActive, Live, RefuseTask
<1>8. QED
  BY <1>2, <1>3, <1>6, <1>7 DEF IndInv

\* A running task settles and its locks are released; a session whose phase
\* moves on has no other task at work.
LEMMA SettlesInv ==
  ASSUME IndInv, NEW s \in Sessions, NEW r \in Roles, Quiet, Running(s, r),
         state' = [state EXCEPT ![s][r] = "settled"],
         locks' = Released(s, r),
         \/ phase' = phase
         \/ phase' = [phase EXCEPT ![s] = "closing"] /\ kind[s] \in Sequential,
         UNCHANGED <<active, shown, kind, target, begun, done, cancelled>>
  PROVE  IndInv'
<1>1. TypeOK'
  BY DEF IndInv, TypeOK, States, Phases, Released
<1>2. /\ state'[s][r] = "settled" /\ phase[s] = "running"
      /\ \A t \in Sessions, q \in Roles : t # s \/ q # r => state'[t][q] = state[t][q]
      /\ \A p \in Paths : locks'[p] = IF locks[p] = <<r, s>> THEN NoOne ELSE locks[p]
      /\ \A t \in Sessions : phase'[t] = phase[t] \/ (t = s /\ phase'[t] = "closing")
      /\ kind' = kind /\ target' = target /\ done' = done /\ begun' = begun
  <2>1. state \in [Sessions -> [Roles -> States]] /\ phase \in [Sessions -> Phases]
    BY DEF IndInv, TypeOK
  <2>2. phase[s] = "running"
    BY DEF IndInv, NothingOutlivesSession
  <2>3. /\ state'[s][r] = "settled"
        /\ \A t \in Sessions, q \in Roles :
             t # s \/ q # r => state'[t][q] = state[t][q]
    BY <2>1
  <2>4. ASSUME NEW t \in Sessions
        PROVE  phase'[t] = phase[t] \/ (t = s /\ phase'[t] = "closing")
    <3>1. CASE phase' = phase
      BY <3>1
    <3>2. CASE phase' = [phase EXCEPT ![s] = "closing"]
      BY <2>1, <3>2
    <3>3. QED
      BY <3>1, <3>2
  <2>5. QED
    BY <2>2, <2>3, <2>4 DEF Released
<1>3. OneStarts'
  BY <1>2, BatchIsKept DEF Quiet, OneStarts, Starting
<1>4. Progress'
  <2>1. ASSUME NEW t \in Sessions
        PROVE  /\ done'[t] <= begun'[t] /\ begun'[t] <= BatchEnd(t)'
               /\ done'[t] = Length(t)' \/ done'[t] % BatchWidth(kind'[t]) = 0
               /\ phase'[t] = "new" => begun'[t] = 0
    <3>1. /\ done[t] <= begun[t] /\ begun[t] <= BatchEnd(t)
          /\ done[t] = Length(t) \/ done[t] % BatchWidth(kind[t]) = 0
          /\ phase[t] = "new" => begun[t] = 0
      BY DEF IndInv, Progress
    <3>2. QED
      BY <1>2, <3>1, BatchIsKept
  <2>2. QED
    BY <2>1 DEF Progress
<1>5. TasksFollow'
  <2>1. ASSUME NEW t \in Sessions
        PROVE  /\ \A i \in 1 .. done[t] :
                    state'[t][Pipeline[kind[t]][i]] \in {"settled", "refused"}
               /\ \A i \in 1 .. begun[t] : state'[t][Pipeline[kind[t]][i]] # "pending"
               /\ \A q \in Roles : state'[t][q] # "pending" =>
                    \E i \in 1 .. begun[t] : Pipeline[kind[t]][i] = q
    <3>1. /\ \A i \in 1 .. done[t] :
               state[t][Pipeline[kind[t]][i]] \in {"settled", "refused"}
          /\ \A i \in 1 .. begun[t] : state[t][Pipeline[kind[t]][i]] # "pending"
          /\ \A q \in Roles : state[t][q] # "pending" =>
               \E i \in 1 .. begun[t] : Pipeline[kind[t]][i] = q
      BY DEF IndInv, TasksFollow, Settled
    <3>3. /\ done[t] \in Nat /\ begun[t] \in Nat
          /\ done[t] <= begun[t] /\ begun[t] <= BatchEnd(t)
      BY DEF IndInv, TypeOK, Progress
    <3>2. \A i \in 1 .. begun[t] : Pipeline[kind[t]][i] \in Roles
      BY <3>3, PlanFacts DEF IndInv
    <3>4. \A i \in 1 .. done[t] :
            state'[t][Pipeline[kind[t]][i]] \in {"settled", "refused"}
      BY <1>2, <3>1, <3>2, <3>3
    <3>5. QED
      BY <1>2, <3>1, <3>2, <3>4 DEF Running
  <2>2. QED
    BY <2>1 DEF TasksFollow, Settled
<1>6. LocksAreOwned'
  <2>1. SUFFICES ASSUME NEW p \in Paths, NEW q \in Roles, NEW t \in Sessions,
                        locks'[p] = <<q, t>>
                 PROVE  state'[t][q] = "running" /\ p \in target[t][q]
    BY <1>2 DEF LocksAreOwned, Running
  <2>2. locks[p] = <<q, t>> /\ (t # s \/ q # r)
    <3>1. <<q, t>> \in Roles \X Sessions
      OBVIOUS
    <3>2. locks[p] # <<r, s>>
      BY <1>2, <2>1, <3>1
    <3>3. QED
      BY <1>2, <2>1, <3>2
  <2>3. state[t][q] = "running" /\ p \in target[t][q]
    BY <2>2 DEF IndInv, LocksAreOwned, Running
  <2>4. QED
    BY <1>2, <2>2, <2>3
<1>7. LocksAreKept'
  <2>1. \A t \in Sessions, q \in Roles : target[t][q] \subseteq Paths
    BY DEF IndInv, TypeOK
  <2>2. QED
    <3>1. SUFFICES ASSUME NEW t \in Sessions, NEW q \in Roles, state'[t][q] = "running"
                   PROVE  /\ target[t][q] \cap Protected = {}
                          /\ cancelled = {} => \A p \in target[t][q] : locks'[p] = <<q, t>>
      BY <1>2 DEF LocksAreKept, Running
    <3>2. (t # s \/ q # r) /\ Running(t, q)
      BY <1>2, <3>1 DEF Running
    <3>3. /\ target[t][q] \cap Protected = {}
          /\ cancelled = {} => \A p \in target[t][q] : locks[p] = <<q, t>>
      BY <3>2 DEF IndInv, LocksAreKept
    <3>4. <<q, t>> # <<r, s>>
      BY <3>2
    <3>5. cancelled = {} => \A p \in target[t][q] : locks'[p] = locks[p]
      BY <1>2, <2>1, <3>3, <3>4
    <3>6. QED
      BY <3>3, <3>5
<1>8. NothingOutlivesSession'
  <2>1. SUFFICES ASSUME NEW t \in Sessions, NEW q \in Roles, Running(t, q)'
                 PROVE  phase'[t] = "running"
    BY DEF NothingOutlivesSession
  <2>2. Running(t, q) /\ (t # s \/ q # r)
    BY <1>2, <2>1 DEF Running
  <2>3. CASE phase' = phase \/ t # s
    BY <1>2, <2>2, <2>3 DEF IndInv, NothingOutlivesSession
  <2>4. CASE kind[s] \in Sequential /\ t = s
    <3>1. PICK i \in 1 .. Length(s) :
            done[s] < i /\ i <= begun[s] /\ Pipeline[kind[s]][i] = r
      BY RunningIsInBatch DEF IndInv
    <3>2. PICK j \in 1 .. Length(s) :
            done[s] < j /\ j <= begun[s] /\ Pipeline[kind[s]][j] = q
      BY <2>2, <2>4, RunningIsInBatch DEF IndInv
    <3>3. BatchEnd(s) <= done[s] + 1 /\ BatchEnd(s) \in Nat
      BY <2>4, PlanFacts DEF IndInv, BatchWidth
    <3>4. begun[s] <= BatchEnd(s) /\ begun[s] \in Nat /\ done[s] \in Nat
      BY DEF IndInv, Progress, TypeOK
    <3>6. Length(s) \in Nat
      BY PlanFacts DEF IndInv
    <3>7. i = j
      BY <3>1, <3>2, <3>3, <3>4, <3>6
    <3>5. QED
      BY <2>2, <2>4, <3>1, <3>2, <3>7
  <2>5. QED
    BY <2>3, <2>4
<1>9. SessionIsActive'
  BY <1>2 DEF IndInv, SessionIsActive, Live
<1>10. QED
  BY <1>1, <1>3, <1>4, <1>5, <1>6, <1>7, <1>8, <1>9 DEF IndInv

\* When the results of a batch are collected, all its tasks are settled.
LEMMA BatchEndsInv ==
  ASSUME IndInv, NEW s \in Sessions, BatchEnds(s)
  PROVE  IndInv'
<1>1. /\ phase[s] = "running" /\ begun[s] \in Nat /\ done[s] \in Nat
      /\ done[s] <= begun[s] /\ BatchEnd(s) \in Nat /\ begun[s] = BatchEnd(s)
      /\ BatchSettled(s)
  <2>1. begun[s] \in Nat /\ done[s] \in Nat /\ done[s] <= begun[s] /\ begun[s] <= BatchEnd(s)
    BY DEF IndInv, TypeOK, Progress
  <2>2. BatchEnd(s) \in Nat
    BY PlanFacts DEF IndInv
  <2>3. ~(begun[s] < BatchEnd(s)) /\ phase[s] = "running" /\ BatchSettled(s)
    BY DEF BatchEnds, Quiet, Starting
  <2>4. QED
    BY <2>1, <2>2, <2>3
<1>2. TypeOK'
  BY <1>1 DEF IndInv, TypeOK, BatchEnds, AfterBatch, Phases
<1>3. /\ done'[s] = BatchEnd(s)
      /\ phase'[s] = IF begun[s] = Length(s) THEN "closing" ELSE "running"
      /\ \A t \in Sessions : t # s => done'[t] = done[t] /\ phase'[t] = phase[t]
      /\ kind' = kind /\ target' = target /\ begun' = begun /\ state' = state
      /\ locks' = locks /\ cancelled' = cancelled /\ active' = active
  BY DEF IndInv, TypeOK, BatchEnds, AfterBatch
<1>4. OneStarts'
  <2>1. \A t \in Sessions : t # s => ~Starting(t)'
    BY <1>3, BatchIsKept DEF BatchEnds, Quiet
  <2>2. QED
    BY <2>1 DEF OneStarts
<1>5. Progress'
  <2>1. ASSUME NEW t \in Sessions
        PROVE  /\ done'[t] <= begun'[t] /\ begun'[t] <= BatchEnd(t)'
               /\ done'[t] = Length(t)' \/ done'[t] % BatchWidth(kind'[t]) = 0
               /\ phase'[t] = "new" => begun'[t] = 0
    <3>1. /\ done[t] <= begun[t] /\ begun[t] <= BatchEnd(t)
          /\ done[t] = Length(t) \/ done[t] % BatchWidth(kind[t]) = 0
          /\ phase[t] = "new" => begun[t] = 0
      BY DEF IndInv, Progress
    <3>2. CASE t # s
      BY <1>3, <3>1, <3>2, BatchIsKept
    <3>3. CASE t = s
      <4>1. /\ Length(s) \in Nat /\ BatchWidth(kind[s]) \in {1, 3}
            /\ BatchEnd(s) <= Length(s)
            /\ BatchEnd(s) = Length(s) \/ BatchEnd(s) = done[s] + BatchWidth(kind[s])
            /\ BatchEnd(s) <= done[s] + BatchWidth(kind[s])
        BY PlanFacts DEF IndInv
      <4>2. /\ Length(s)' = Length(s)
            /\ BatchWidth(kind'[s]) = BatchWidth(kind[s])
        BY <1>3 DEF Length
      <4>3. BatchEnd(s)' = Length(s) \/ BatchEnd(s)' = BatchEnd(s) + BatchWidth(kind[s])
        BY <1>3, <4>2 DEF BatchEnd
      <4>4. done'[s] = Length(s) \/ done'[s] % BatchWidth(kind[s]) = 0
        <5>1. CASE BatchWidth(kind[s]) = 1
          BY <1>1, <1>3, <5>1
        <5>2. CASE BatchWidth(kind[s]) = 3
          BY <1>1, <1>3, <3>1, <3>3, <4>1, <5>2
        <5>3. QED
          BY <4>1, <5>1, <5>2
      <4>5. QED
        BY <1>1, <1>3, <3>3, <4>1, <4>2, <4>3, <4>4
    <3>4. QED
      BY <3>2, <3>3
  <2>2. QED
    BY <2>1 DEF Progress
<1>6. TasksFollow'
  <2>1. ASSUME NEW t \in Sessions
        PROVE  \A i \in 1 .. done'[t] : Settled(t, Pipeline[kind[t]][i])
    <3>1. \A i \in 1 .. done[t] : Settled(t, Pipeline[kind[t]][i])
      BY DEF IndInv, TasksFollow
    <3>2. \A i \in done[s] + 1 .. BatchEnd(s) : Settled(s, Pipeline[kind[s]][i])
      BY <1>1 DEF BatchSettled
    <3>3. QED
      BY <1>1, <1>3, <3>1, <3>2
  <2>2. /\ \A t \in Sessions : \A i \in 1 .. done'[t] : Settled(t, Pipeline[kind[t]][i])'
        /\ \A t \in Sessions : \A i \in 1 .. begun'[t] :
             state'[t][Pipeline[kind'[t]][i]] # "pending"
    BY <1>3, <2>1 DEF IndInv, TasksFollow, Settled
  <2>3. \A t \in Sessions : \A r \in Roles : state'[t][r] # "pending" =>
          \E i \in 1 .. begun'[t] : Pipeline[kind'[t]][i] = r
    BY <1>3 DEF IndInv, TasksFollow
  <2>4. QED
    BY <2>2, <2>3 DEF TasksFollow
<1>7. LocksAreOwned' /\ LocksAreKept'
  BY <1>3 DEF IndInv, LocksAreOwned, LocksAreKept, Running
<1>8. NothingOutlivesSession'
  <2>1. SUFFICES ASSUME NEW t \in Sessions, NEW q \in Roles, Running(t, q)
                 PROVE  phase'[t] = "running"
    BY <1>3 DEF NothingOutlivesSession, Running
  <2>2. CASE t # s
    BY <1>3, <2>1, <2>2 DEF IndInv, NothingOutlivesSession
  <2>3. CASE t = s
    <3>1. PICK i \in 1 .. Length(s) :
            done[s] < i /\ i <= begun[s] /\ Pipeline[kind[s]][i] = q
      BY <2>1, <2>3, RunningIsInBatch DEF IndInv
    <3>2. i \in done[s] + 1 .. BatchEnd(s)
      BY <1>1, <3>1, PlanFacts DEF IndInv
    <3>3. Settled(s, q)
      BY <1>1, <3>1, <3>2 DEF BatchSettled
    <3>4. QED
      BY <2>1, <2>3, <3>3 DEF Settled, Running
  <2>4. QED
    BY <2>2, <2>3
<1>9. SessionIsActive'
  BY <1>1, <1>3 DEF IndInv, SessionIsActive, Live, BatchEnds
<1>10. QED
  BY <1>2, <1>4, <1>5, <1>6, <1>7, <1>8, <1>9 DEF IndInv

\* Releasing a session releases what its tasks hold, and nothing else.
LEMMA SessionReleasedFacts ==
  ASSUME TypeOK, NEW s \in Sessions, locks' = SessionReleased(s)
  PROVE  /\ locks' \in [Paths -> (Roles \X Sessions) \cup {NoOne}]
         /\ \A p \in Paths, r \in Roles, t \in Sessions :
              locks'[p] = <<r, t>> => locks[p] = <<r, t>>
         /\ \A p \in Paths, r \in Roles, t \in Sessions :
              t # s /\ locks[p] = <<r, t>> => locks'[p] = <<r, t>>
<1>1. locks' \in [Paths -> (Roles \X Sessions) \cup {NoOne}]
  BY DEF TypeOK, SessionReleased
<1>2. \A p \in Paths : locks'[p] = IF locks[p] \in Roles \X {s} THEN NoOne ELSE locks[p]
  BY DEF SessionReleased
<1>3. \A r \in Roles, t \in Sessions : <<r, t>> # NoOne
  OBVIOUS
<1>4. \A r \in Roles, t \in Sessions : t # s => <<r, t>> \notin Roles \X {s}
  OBVIOUS
<1>5. QED
  BY <1>1, <1>2, <1>3, <1>4

LEMMA FinishInv ==
  ASSUME IndInv, NEW s \in Sessions, Finish(s)
  PROVE  IndInv'
<1>1. TypeOK'
  BY SessionReleasedFacts DEF IndInv, TypeOK, Finish, Phases
<1>2. /\ phase[s] = "closing" /\ phase'[s] = "ended" /\ Quiet
      /\ \A t \in Sessions : t # s => phase'[t] = phase[t]
      /\ kind' = kind /\ target' = target /\ begun' = begun /\ done' = done
      /\ state' = state /\ cancelled' = cancelled /\ active' = NoOne
      /\ locks' = SessionReleased(s)
  BY DEF IndInv, TypeOK, Finish
<1>3. \A r \in Roles : ~Running(s, r)
  BY <1>2 DEF IndInv, NothingOutlivesSession
<1>4. OneStarts'
  BY <1>2, BatchIsKept DEF Quiet, OneStarts, Starting
<1>5. Progress' /\ TasksFollow'
  BY <1>2 DEF IndInv, Progress, TasksFollow, Settled, BatchEnd, Length
<1>6. LocksAreOwned'
  BY <1>2, SessionReleasedFacts DEF IndInv, LocksAreOwned, Running
<1>7. LocksAreKept'
  <2>1. \A t \in Sessions, q \in Roles : target[t][q] \subseteq Paths
    BY DEF IndInv, TypeOK
  <2>2. QED
    BY <1>2, <1>3, <2>1, SessionReleasedFacts DEF IndInv, LocksAreKept, Running
<1>8. NothingOutlivesSession'
  BY <1>2, <1>3 DEF IndInv, NothingOutlivesSession, Running
<1>9. SessionIsActive'
  BY <1>2 DEF IndInv, SessionIsActive, Live
<1>10. QED
  BY <1>1, <1>4, <1>5, <1>6, <1>7, <1>8, <1>9 DEF IndInv

LEMMA CancelInv ==
  ASSUME IndInv, Cancel
  PROVE  IndInv'
<1>1. active \in Sessions
  BY DEF IndInv, TypeOK, Cancel
<1>2. /\ phase' = phase /\ kind' = kind /\ target' = target /\ begun' = begun
      /\ done' = done /\ state' = state /\ locks' = SessionReleased(active)
      /\ cancelled' # {}
  BY <1>1 DEF Cancel
<1>3. TypeOK'
  BY <1>1, SessionReleasedFacts DEF IndInv, TypeOK, Cancel
<1>4. OneStarts' /\ Progress' /\ TasksFollow' /\ NothingOutlivesSession'
  BY <1>2 DEF IndInv, OneStarts, Starting, Progress, TasksFollow, Settled, BatchEnd,
              Length, NothingOutlivesSession, Running
<1>5. LocksAreOwned'
  BY <1>1, <1>2, SessionReleasedFacts DEF IndInv, LocksAreOwned, Running
<1>6. LocksAreKept' /\ SessionIsActive'
  BY <1>2 DEF IndInv, LocksAreKept, SessionIsActive, Running
<1>7. QED
  BY <1>3, <1>4, <1>5, <1>6 DEF IndInv

LEMMA NextInv == IndInv /\ [Next]_vars => IndInv'
<1> SUFFICES ASSUME IndInv, [Next]_vars PROVE IndInv'
  OBVIOUS
<1>1. CASE Cancel
  BY <1>1, CancelInv
<1>2. ASSUME NEW s \in Sessions, Orchestrate(s) PROVE IndInv'
  BY <1>2, OrchestrateInv
<1>3. ASSUME NEW s \in Sessions, StartTask(s) PROVE IndInv'
  BY <1>3, StartTaskInv
<1>4. ASSUME NEW s \in Sessions, RefuseTask(s) PROVE IndInv'
  BY <1>4, RefuseTaskInv
<1>5. ASSUME NEW s \in Sessions, BatchEnds(s) PROVE IndInv'
  BY <1>5, BatchEndsInv
<1>6. ASSUME NEW s \in Sessions, Finish(s) PROVE IndInv'
  BY <1>6, FinishInv
<1>7. ASSUME NEW s \in Sessions, NEW r \in Roles, TaskSettles(s, r) PROVE IndInv'
  BY <1>7, SettlesInv DEF TaskSettles, Running
<1>8. ASSUME NEW s \in Sessions, NEW r \in Roles, TaskThrows(s, r) PROVE IndInv'
  BY <1>8, SettlesInv DEF TaskThrows, ThrowEnds, Running
<1>9. CASE UNCHANGED vars
  <2>1. TypeOK'
    BY <1>9 DEF vars, IndInv, TypeOK
  <2>2. OneStarts' /\ Progress' /\ TasksFollow'
    BY <1>9 DEF vars, IndInv, OneStarts, Starting, Progress, TasksFollow, Settled,
                BatchEnd, Length
  <2>3. LocksAreOwned' /\ LocksAreKept' /\ NothingOutlivesSession' /\ SessionIsActive'
    BY <1>9 DEF vars, IndInv, LocksAreOwned, LocksAreKept, NothingOutlivesSession,
                SessionIsActive, Live, Running
  <2>4. QED
    BY <2>1, <2>2, <2>3 DEF IndInv
<1>10. QED
  BY <1>1, <1>2, <1>3, <1>4, <1>5, <1>6, <1>7, <1>8, <1>9 DEF Next

(* The inductive invariant holds in every reachable state.                 *)
THEOREM Invariance == Spec => []IndInv
  BY InitInv, NextInv, PTL DEF Spec

(* Every variable of the orchestrator and every lock keeps its type.       *)
THEOREM TypeCorrect == Spec => []TypeOK
<1>1. IndInv => TypeOK
  BY DEF IndInv
<1>2. QED
  BY <1>1, Invariance, PTL

(* A lock never outlives the task that took it (acquire, release,          *)
(* releaseSession), whatever is cancelled, refused or thrown.              *)
THEOREM NoLockLeaks == Spec => []LocksAreOwned
<1>1. IndInv => LocksAreOwned
  BY DEF IndInv
<1>2. QED
  BY <1>1, Invariance, PTL

(* Before the first cancel, two agents at work never share a path, and     *)
(* none ever works on a protected one (FileOwnershipService.acquire).      *)
THEOREM PathsAreExclusive == Spec => []ExclusivePaths
<1>1. ASSUME IndInv PROVE ExclusivePaths
  <2>1. SUFFICES ASSUME NEW s \in Sessions, NEW t \in Sessions,
                        NEW q \in Roles, NEW r \in Roles, Running(s, r)
                 PROVE  /\ target[s][r] \cap Protected = {}
                        /\ (cancelled = {} /\ Running(t, q) /\ <<t, q>> # <<s, r>>) =>
                             target[s][r] \cap target[t][q] = {}
    BY DEF ExclusivePaths
  <2>2. target[s][r] \cap Protected = {}
    BY <1>1, <2>1 DEF IndInv, LocksAreKept
  <2>3. SUFFICES ASSUME cancelled = {}, Running(t, q),
                        NEW p \in target[s][r], p \in target[t][q]
                 PROVE  <<t, q>> = <<s, r>>
    BY <2>2
  <2>4. locks[p] = <<r, s>> /\ locks[p] = <<q, t>>
    BY <1>1, <2>1, <2>3 DEF IndInv, LocksAreKept
  <2>5. QED
    BY <2>4
<1>2. QED
  BY <1>1, Invariance, PTL

(* orchestrate() reports and returns only when none of its agents is at    *)
(* work any more (Promise.allSettled, and the throw in sequential mode).   *)
THEOREM SessionsWaitForTasks == Spec => []NothingOutlivesSession
<1>1. IndInv => NothingOutlivesSession
  BY DEF IndInv
<1>2. QED
  BY <1>1, Invariance, PTL

(* Before the first cancel, the active plan is that of the one session at  *)
(* work, and lists its tasks (activePlan in orchestrate and executeTask).  *)
THEOREM PlanIsOfSession == Spec => []SessionIsActive
<1>1. IndInv => SessionIsActive
  BY DEF IndInv
<1>2. QED
  BY <1>1, Invariance, PTL

(* Before the first cancel orchestrate() lets in one session at a time.    *)
THEOREM OneSessionUntilCancelled == Spec => []OneUntilCancelled
<1>1. IndInv => OneUntilCancelled
  BY DEF IndInv, SessionIsActive, OneUntilCancelled, OneSessionRuns
<1>2. QED
  BY <1>1, Invariance, PTL

\* Positions of different batches: what was begun after the end of the one
\* is in no batch before it.
LEMMA EarlierBatch ==
  ASSUME NEW w \in {1, 3}, NEW d \in Nat, NEW i \in Nat \ {0}, NEW j \in Nat \ {0},
         d % w = 0, (i - 1) \div w < (j - 1) \div w, j <= d + w
  PROVE  i <= d
<1>1. CASE w = 1
  BY <1>1
<1>2. CASE w = 3
  BY <1>2
<1>3. QED
  BY <1>1, <1>2

(* An agent starts only when every task of the earlier batches is settled  *)
(* (the await in executeSequential and in executeParallel).                *)
THEOREM BatchOrder == Spec => []BatchesInOrder
<1>1. ASSUME IndInv PROVE BatchesInOrder
  <2>1. SUFFICES ASSUME NEW s \in Sessions,
                        NEW i \in DOMAIN Pipeline[kind[s]], NEW j \in DOMAIN Pipeline[kind[s]],
                        (i - 1) \div BatchWidth(kind[s]) < (j - 1) \div BatchWidth(kind[s]),
                        state[s][Pipeline[kind[s]][j]] # "pending"
                 PROVE  Settled(s, Pipeline[kind[s]][i])
    BY DEF BatchesInOrder
  <2>2. i \in 1 .. Length(s) /\ j \in 1 .. Length(s)
    BY <1>1 DEF IndInv, TypeOK, Length
  <2>3. PICK k \in 1 .. begun[s] : Pipeline[kind[s]][k] = Pipeline[kind[s]][j]
    BY <1>1, <2>1, <2>2, PlanFacts DEF IndInv, TasksFollow
  <2>4. /\ begun[s] \in Nat /\ done[s] \in Nat /\ Length(s) \in Nat
        /\ begun[s] <= BatchEnd(s) /\ BatchEnd(s) \in Nat /\ BatchEnd(s) <= Length(s)
        /\ BatchEnd(s) <= done[s] + BatchWidth(kind[s])
        /\ BatchWidth(kind[s]) \in {1, 3}
    BY <1>1, PlanFacts DEF IndInv, TypeOK, Progress
  <2>5. j = k
    BY <1>1, <2>2, <2>3, <2>4, PlanFacts DEF IndInv
  <2>6. j <= done[s] + BatchWidth(kind[s])
    BY <2>3, <2>4, <2>5
  <2>7. done[s] = Length(s) \/ done[s] % BatchWidth(kind[s]) = 0
    BY <1>1 DEF IndInv, Progress
  <2>8. i \in 1 .. done[s]
    <3>1. CASE done[s] = Length(s)
      BY <2>2, <2>4, <3>1
    <3>2. CASE done[s] % BatchWidth(kind[s]) = 0
      <4>1. i \in Nat \ {0} /\ j \in Nat \ {0}
        BY <2>2, <2>4
      <4>2. i <= done[s]
        BY <2>1, <2>4, <2>6, <3>2, <4>1, EarlierBatch
      <4>3. QED
        BY <2>4, <4>1, <4>2
    <3>3. QED
      BY <2>7, <3>1, <3>2
  <2>9. QED
    BY <1>1, <2>8 DEF IndInv, TasksFollow
<1>2. QED
  BY <1>1, Invariance, PTL

\* Default paths are free for the taking: no protected one, and none that two
\* tasks of one batch share.
DefaultsAreApart ==
  /\ \A r \in Roles : Default[r] \cap Protected = {}
  /\ \A k \in Kinds : \A i, j \in DOMAIN Pipeline[k] :
       /\ i # j
       /\ (i - 1) \div BatchWidth(k) = (j - 1) \div BatchWidth(k)
       => Default[Pipeline[k][i]] \cap Default[Pipeline[k][j]] = {}

LEMMA SameBatch ==
  ASSUME NEW w \in {1, 3}, NEW d \in Nat, NEW i \in Nat, NEW j \in Nat,
         d % w = 0, d < i, i <= d + w, d < j, j <= d + w
  PROVE  (i - 1) \div w = (j - 1) \div w
<1>1. CASE w = 1
  BY <1>1
<1>2. CASE w = 3
  <2>1. PICK m \in Nat : d = 3 * m
    <3>1. d \div 3 \in Nat /\ d = 3 * (d \div 3)
      BY <1>2
    <3>2. QED
      BY <3>1
  <2>2. (i - 1) \div 3 = m
    BY <1>2, <2>1
  <2>3. (j - 1) \div 3 = m
    BY <1>2, <2>1
  <2>4. QED
    BY <1>2, <2>2, <2>3
<1>3. QED
  BY <1>1, <1>2

\* Before the first cancel, whoever holds a path that the next task of a
\* session wants is a task of the same batch.
LEMMA HolderIsInBatch ==
  ASSUME IndInv, cancelled = {}, NEW s \in Sessions, Starting(s),
         NEW p \in Paths, NEW q \in Roles, NEW t \in Sessions, locks[p] = <<q, t>>
  PROVE  /\ t = s /\ p \in target[s][q]
         /\ \E i \in DOMAIN Pipeline[kind[s]] :
              /\ Pipeline[kind[s]][i] = q /\ i # begun[s] + 1
              /\ (i - 1) \div BatchWidth(kind[s]) = begun[s] \div BatchWidth(kind[s])
<1>1. Running(t, q) /\ p \in target[t][q]
  BY DEF IndInv, LocksAreOwned
<1>2. phase[t] = "running" /\ phase[s] = "running"
  BY <1>1 DEF IndInv, NothingOutlivesSession, Starting
<1>3. t = s
  BY <1>2 DEF IndInv, SessionIsActive, Live
<1>4. PICK i \in 1 .. Length(s) :
        done[s] < i /\ i <= begun[s] /\ Pipeline[kind[s]][i] = q
  BY <1>1, <1>3, RunningIsInBatch DEF IndInv
<1>5. /\ begun[s] \in Nat /\ done[s] \in Nat /\ done[s] <= begun[s]
      /\ BatchEnd(s) \in Nat /\ Length(s) \in Nat /\ BatchEnd(s) <= Length(s)
      /\ BatchEnd(s) <= done[s] + BatchWidth(kind[s])
      /\ BatchWidth(kind[s]) \in {1, 3}
      /\ begun[s] + 1 <= BatchEnd(s)
  BY PlanFacts, NextRoleFacts DEF IndInv, TypeOK, Progress
<1>6. done[s] % BatchWidth(kind[s]) = 0
  BY <1>5 DEF IndInv, Progress
<1>7. /\ i \in Nat /\ begun[s] + 1 \in Nat
      /\ i <= done[s] + BatchWidth(kind[s])
      /\ done[s] < begun[s] + 1
      /\ begun[s] + 1 <= done[s] + BatchWidth(kind[s])
      /\ i # begun[s] + 1
  BY <1>4, <1>5
<1>8. (i - 1) \div BatchWidth(kind[s]) = (begun[s] + 1 - 1) \div BatchWidth(kind[s])
  BY <1>4, <1>5, <1>6, <1>7, SameBatch, SMTT(30)
<1>9. begun[s] + 1 - 1 = begun[s]
  BY <1>5
<1>10. i \in DOMAIN Pipeline[kind[s]]
  BY <1>4 DEF Length, IndInv, TypeOK
<1>11. QED
  BY <1>1, <1>3, <1>4, <1>7, <1>8, <1>9, <1>10

LEMMA DefaultsStep ==
  ASSUME DefaultsAreApart, IndInv, DefaultsNeverRefused, [Next]_vars
  PROVE  DefaultsNeverRefused'
<1> SUFFICES ASSUME cancelled' = {}, NEW s \in Sessions, NEW r \in Roles, target'[s] = Default
             PROVE  state'[s][r] # "refused"
  BY DEF DefaultsNeverRefused
<1>1. cancelled = {}
  BY DEF Next, vars, Cancel, Orchestrate, StartTask, RefuseTask, BatchEnds, Finish,
         TaskSettles, TaskThrows
<1>2. CASE Cancel
  BY <1>1, <1>2 DEF Cancel, DefaultsNeverRefused
<1>3. ASSUME NEW t \in Sessions, Orchestrate(t) PROVE state'[s][r] # "refused"
  <2>1. state' = state /\ phase[t] = "new"
    BY <1>3 DEF Orchestrate, MayOrchestrate
  <2>2. CASE s = t
    <3>1. begun[s] = 0
      BY <2>1, <2>2 DEF IndInv, Progress
    <3>2. state[s][r] = "pending"
      BY <3>1 DEF IndInv, TasksFollow
    <3>3. QED
      BY <2>1, <3>2
  <2>3. CASE s # t
    <3>1. target'[s] = target[s]
      BY <1>3, <2>3 DEF Orchestrate, IndInv, TypeOK
    <3>2. QED
      BY <1>1, <2>1, <3>1 DEF DefaultsNeverRefused
  <2>4. QED
    BY <2>2, <2>3
<1>4. ASSUME NEW t \in Sessions, StartTask(t) PROVE state'[s][r] # "refused"
  <2>1. state[s][r] # "refused"
    BY <1>1, <1>4 DEF StartTask, DefaultsNeverRefused
  <2>2. state'[s][r] \in {state[s][r], "running"}
    BY <1>4 DEF StartTask, IndInv, TypeOK
  <2>3. QED
    BY <2>1, <2>2
<1>5. ASSUME NEW t \in Sessions, NEW q \in Roles, TaskSettles(t, q) \/ TaskThrows(t, q)
      PROVE  state'[s][r] # "refused"
  <2>1. state[s][r] # "refused"
    BY <1>1, <1>5 DEF TaskSettles, TaskThrows, DefaultsNeverRefused
  <2>2. state'[s][r] \in {state[s][r], "settled"}
    <3>1. state' = [state EXCEPT ![t][q] = "settled"]
      BY <1>5 DEF TaskSettles, TaskThrows
    <3>2. state \in [Sessions -> [Roles -> States]]
      BY DEF IndInv, TypeOK
    <3>3. QED
      BY <3>1, <3>2
  <2>3. QED
    BY <2>1, <2>2
<1>6. ASSUME NEW t \in Sessions, RefuseTask(t) PROVE state'[s][r] # "refused"
  <2> DEFINE n == NextRole(t)
  <2>1. /\ Starting(t) /\ target' = target /\ n \in Roles
        /\ begun[t] + 1 \in DOMAIN Pipeline[kind[t]] /\ begun[t] \in Nat
        /\ n = Pipeline[kind[t]][begun[t] + 1]
    BY <1>6, NextRoleFacts DEF RefuseTask, IndInv, NextRole, Length, TypeOK
  <2>2. state[s][r] # "refused"
    BY <1>1, <2>1 DEF DefaultsNeverRefused
  <2>3. CASE s # t \/ r # n
    BY <1>6, <2>1, <2>2, <2>3 DEF RefuseTask, IndInv, TypeOK
  <2>4. CASE s = t /\ r = n
    <3>1. target[t] = Default
      BY <2>1, <2>4
    <3>2. PICK p \in Default[n] : p \in Protected \/ ~Available(p, n, t)
      BY <1>6, <3>1 DEF RefuseTask, MayAcquire
    <3>3. p \in Paths /\ p \notin Protected
      BY <2>1, <3>2 DEF DefaultsAreApart
    <3>4. PICK q \in Roles, u \in Sessions : locks[p] = <<q, u>>
      BY <3>2, <3>3 DEF Available, IndInv, TypeOK
    <3>5. p \in Default[q]
      BY <1>1, <2>1, <3>1, <3>3, <3>4, HolderIsInBatch
    <3>6. PICK i \in DOMAIN Pipeline[kind[t]] :
            /\ Pipeline[kind[t]][i] = q /\ i # begun[t] + 1
            /\ (i - 1) \div BatchWidth(kind[t]) = begun[t] \div BatchWidth(kind[t])
      BY <1>1, <2>1, <3>3, <3>4, HolderIsInBatch
    <3>7. begun[t] + 1 - 1 = begun[t] /\ kind[t] \in Kinds
      BY <2>1 DEF IndInv, TypeOK
    <3>8. Default[q] \cap Default[n] = {}
      <4> DEFINE j == begun[t] + 1
      <4>0. j - 1 = begun[t]
        BY <2>1
      <4> HIDE DEF j
      <4>1. (i - 1) \div BatchWidth(kind[t]) = (j - 1) \div BatchWidth(kind[t])
        BY <3>6, <4>0
      <4> USE DEF j
      <4>2. j \in DOMAIN Pipeline[kind[t]] /\ i # j /\ n = Pipeline[kind[t]][j]
        BY <2>1, <3>6
      <4> HIDE DEF j, n
      <4>3. QED
        BY <3>6, <3>7, <4>1, <4>2 DEF DefaultsAreApart
    <3>9. QED
      BY <3>2, <3>5, <3>8
  <2>5. QED
    BY <2>3, <2>4
<1>7. ASSUME NEW t \in Sessions, BatchEnds(t) \/ Finish(t) PROVE state'[s][r] # "refused"
  BY <1>1, <1>7 DEF BatchEnds, Finish, DefaultsNeverRefused
<1>8. CASE UNCHANGED vars
  BY <1>1, <1>8 DEF vars, DefaultsNeverRefused
<1>9. QED
  BY <1>2, <1>3, <1>4, <1>5, <1>6, <1>7, <1>8 DEF Next

(* When the default paths of a batch are apart, as defaultPathsForRole's   *)
(* are, and nobody cancels, no task with default paths is ever refused.    *)
THEOREM DefaultsSuffice ==
  ASSUME DefaultsAreApart
  PROVE  Spec => []DefaultsNeverRefused
<1>1. Init => DefaultsNeverRefused
  BY DEF Init, DefaultsNeverRefused
<1>2. IndInv /\ DefaultsNeverRefused /\ [Next]_vars => DefaultsNeverRefused'
  BY DefaultsStep
<1>3. QED
  BY <1>1, <1>2, Invariance, PTL DEF Spec
=============================================================================
