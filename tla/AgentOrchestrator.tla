------------------------- MODULE AgentOrchestrator -------------------------
(***************************************************************************)
(* The multi-agent orchestrator of the desktop shell                       *)
(* (agents/agent-orchestrator.ts) with the file ownership service it uses  *)
(* (agents/file-ownership.service.ts).                                     *)
(*                                                                         *)
(* A session is one call of orchestrate(): it plans one task per role of   *)
(* a pipeline and runs them in batches, of three tasks in parallel mode    *)
(* and of one in sequential mode.  A task first locks its target paths; a  *)
(* task that cannot is settled as failed without having run ("refused").   *)
(* The code is one JavaScript thread: what runs between two awaits is      *)
(* atomic.  The starts of a batch are separate steps here, but while a     *)
(* session is Starting nothing else moves.  The runner (a model provider)  *)
(* is external: it answers, with success or failure, or it throws.         *)
(*                                                                         *)
(* cancel() frees the locks and the plan of the active session; the run    *)
(* itself is not told, and goes on.  MaxCancels bounds how many sessions   *)
(* the user cancels.                                                       *)
(*                                                                         *)
(* A definition named "...Slip" is a mistake one could make in the         *)
(* definition below it; the specification uses none.                       *)
(***************************************************************************)
EXTENDS Integers, Sequences, FiniteSets

CONSTANTS Sessions,      \* the calls of orchestrate()
          Roles, Kinds,  \* the agents, and the kinds of request
          Pipeline,      \* the roles a request of each kind goes through
          Sequential,    \* the kinds that are executed one task at a time
          Paths, Protected,
          Targets,       \* the assignments of target paths to roles
          Default,       \* the one used when the caller names no path
          MaxCancels,
          NoOne

ASSUME OrchestratorAssumption ==
  /\ Pipeline \in [Kinds -> Seq(Roles)]
  /\ \A k \in Kinds : \A i, j \in DOMAIN Pipeline[k] :
       Pipeline[k][i] = Pipeline[k][j] => i = j
  /\ Sequential \subseteq Kinds
  /\ Protected \subseteq Paths
  /\ Targets \subseteq [Roles -> SUBSET Paths] /\ Default \in Targets
  /\ MaxCancels \in Nat
  /\ NoOne \notin Sessions /\ NoOne \notin Roles \X Sessions

VARIABLES active,    \* activePlan: the session it belongs to
          shown,     \* the session whose tasks activePlan lists
          kind,      \* the kind of request of each session
          target,    \* the target paths of each task of each session
          phase,     \* how far the call of orchestrate() is
          begun,     \* tasks of the session that executeTask was called for
          done,      \* tasks whose results the session has collected
          state,     \* what became of each task
          locks,     \* FileOwnershipService.locks
          cancelled  \* the sessions the user cancelled

vars == <<active, shown, kind, target, phase, begun, done, state, locks, cancelled>>

Phases == {"new", "running", "closing", "ended"}
States == {"pending", "running", "settled", "refused"}

TypeOK ==
  /\ active \in Sessions \cup {NoOne}
  /\ shown \in Sessions \cup {NoOne}
  /\ kind \in [Sessions -> Kinds]
  /\ target \in [Sessions -> Targets]
  /\ phase \in [Sessions -> Phases]
  /\ begun \in [Sessions -> Nat]
  /\ done \in [Sessions -> Nat]
  /\ state \in [Sessions -> [Roles -> States]]
  /\ locks \in [Paths -> (Roles \X Sessions) \cup {NoOne}]
  /\ cancelled \subseteq Sessions

Init ==
  /\ active = NoOne
  /\ shown = NoOne
  /\ kind \in {[s \in Sessions |-> k] : k \in Kinds}
  /\ target = [s \in Sessions |-> Default]
  /\ phase = [s \in Sessions |-> "new"]
  /\ begun = [s \in Sessions |-> 0]
  /\ done = [s \in Sessions |-> 0]
  /\ state = [s \in Sessions |-> [r \in Roles |-> "pending"]]
  /\ locks = [p \in Paths |-> NoOne]
  /\ cancelled = {}
-----------------------------------------------------------------------------
(* The plan and its batches.                                               *)

Length(s) == Len(Pipeline[kind[s]])

BatchWidthSlip(k) == IF k \in Sequential THEN 1 ELSE Len(Pipeline[k])
BatchWidth(k) == IF k \in Sequential THEN 1 ELSE 3

\* The last task of the batch that session s is in.
BatchEnd(s) ==
  LET end == done[s] + BatchWidth(kind[s])
  IN  IF end < Length(s) THEN end ELSE Length(s)

\* The synchronous part of a batch: its executeTask calls.
Starting(s) == phase[s] = "running" /\ begun[s] < BatchEnd(s)
Quiet == \A s \in Sessions : ~Starting(s)

NextRole(s) == Pipeline[kind[s]][begun[s] + 1]

SettledSlip(s, r) == state[s][r] = "settled"
Settled(s, r) == state[s][r] \in {"settled", "refused"}

BatchSettled(s) ==
  \A i \in done[s] + 1 .. BatchEnd(s) : Settled(s, Pipeline[kind[s]][i])
-----------------------------------------------------------------------------
(* FileOwnershipService.                                                   *)

AvailableSlip(p, r, s) == locks[p] \in {NoOne} \cup (Roles \X {s})
Available(p, r, s) == locks[p] \in {NoOne} \cup ({r} \X Sessions)

MayAcquire(s, r) ==
  \A p \in target[s][r] : p \notin Protected /\ Available(p, r, s)

Acquired(s, r) ==
  [p \in Paths |-> IF p \in target[s][r] THEN <<r, s>> ELSE locks[p]]

ReleasedSlip(s, r) ==
  [p \in Paths |-> IF locks[p] = <<r, s>> /\ active = s THEN NoOne ELSE locks[p]]
Released(s, r) ==
  [p \in Paths |-> IF locks[p] = <<r, s>> THEN NoOne ELSE locks[p]]

SessionReleased(s) ==
  [p \in Paths |-> IF locks[p] \in Roles \X {s} THEN NoOne ELSE locks[p]]
-----------------------------------------------------------------------------
MayOrchestrateSlip(s) == phase[s] = "new"
MayOrchestrate(s) == phase[s] = "new" /\ active = NoOne

(* orchestrate(): refused while a plan is active; the caller chooses the   *)
(* request and may name the target paths.                                  *)
Orchestrate(s) ==
  /\ Quiet /\ MayOrchestrate(s)
  /\ active' = s
  /\ shown' = s
  /\ \E k \in Kinds, t \in Targets :
       /\ kind' = [kind EXCEPT ![s] = k]
       /\ target' = [target EXCEPT ![s] = t]
  /\ phase' = [phase EXCEPT ![s] = "running"]
  /\ UNCHANGED <<begun, done, state, locks, cancelled>>

(* executeTask() up to its await, when acquire() succeeds.                 *)
StartTask(s) ==
  /\ Starting(s) /\ MayAcquire(s, NextRole(s))
  /\ begun' = [begun EXCEPT ![s] = @ + 1]
  /\ state' = [state EXCEPT ![s][NextRole(s)] = "running"]
  /\ locks' = Acquired(s, NextRole(s))
  /\ UNCHANGED <<active, shown, kind, target, phase, done, cancelled>>

(* executeTask() when acquire() fails.                                     *)
RefuseTask(s) ==
  /\ Starting(s) /\ ~MayAcquire(s, NextRole(s))
  /\ begun' = [begun EXCEPT ![s] = @ + 1]
  /\ state' = [state EXCEPT ![s][NextRole(s)] = "refused"]
  /\ UNCHANGED <<active, shown, kind, target, phase, done, locks, cancelled>>

(* The runner answers, and executeTask() releases the task's locks.  In a  *)
(* parallel batch Promise.allSettled turns a throw into a failed result,   *)
(* which is the same step.                                                 *)
TaskSettles(s, r) ==
  /\ Quiet /\ state[s][r] = "running"
  /\ state' = [state EXCEPT ![s][r] = "settled"]
  /\ locks' = Released(s, r)
  /\ UNCHANGED <<active, shown, kind, target, phase, begun, done, cancelled>>

ThrowEnds(s) == kind[s] \in Sequential

(* The runner throws and executeSequential() does not catch it: the error  *)
(* ends the session, its later tasks never run.                            *)
TaskThrows(s, r) ==
  /\ Quiet /\ state[s][r] = "running" /\ ThrowEnds(s)
  /\ state' = [state EXCEPT ![s][r] = "settled"]
  /\ locks' = Released(s, r)
  /\ phase' = [phase EXCEPT ![s] = "closing"]
  /\ UNCHANGED <<active, shown, kind, target, begun, done, cancelled>>

AfterBatch(s) == IF begun[s] = Length(s) THEN "closing" ELSE "running"

(* The results of a batch are collected, and written into whatever plan    *)
(* is active by then.                                                      *)
BatchEnds(s) ==
  /\ Quiet /\ phase[s] = "running" /\ BatchSettled(s)
  /\ done' = [done EXCEPT ![s] = BatchEnd(s)]
  /\ shown' = IF active = NoOne THEN shown ELSE s
  /\ phase' = [phase EXCEPT ![s] = AfterBatch(s)]
  /\ UNCHANGED <<active, kind, target, begun, state, locks, cancelled>>

(* The finally block of orchestrate(), after the notification was sent or  *)
(* the error passed through.  It clears the active plan, whoever's it is.  *)
Finish(s) ==
  /\ Quiet /\ phase[s] = "closing"
  /\ phase' = [phase EXCEPT ![s] = "ended"]
  /\ locks' = SessionReleased(s)
  /\ active' = NoOne
  /\ UNCHANGED <<shown, kind, target, begun, done, state, cancelled>>

(* cancel(): the session is forgotten, its run is not stopped.             *)
Cancel ==
  /\ Quiet /\ active # NoOne /\ Cardinality(cancelled) < MaxCancels
  /\ locks' = SessionReleased(active)
  /\ cancelled' = cancelled \cup {active}
  /\ active' = NoOne
  /\ UNCHANGED <<shown, kind, target, phase, begun, done, state>>

Next ==
  \/ Cancel
  \/ \E s \in Sessions :
       \/ Orchestrate(s) \/ StartTask(s) \/ RefuseTask(s) \/ BatchEnds(s) \/ Finish(s)
       \/ \E r \in Roles : TaskSettles(s, r) \/ TaskThrows(s, r)

Spec == Init /\ [][Next]_vars

(* Fairness: the event loop runs what is ready, and the calls of the       *)
(* runner answer or throw.  Nobody has to call orchestrate() or cancel().  *)
Proceed(s) ==
  \/ StartTask(s) \/ RefuseTask(s) \/ BatchEnds(s) \/ Finish(s)
  \/ \E r \in Roles : TaskSettles(s, r) \/ TaskThrows(s, r)

Fairness == \A s \in Sessions : WF_vars(Proceed(s))

FairSpec == Spec /\ Fairness
-----------------------------------------------------------------------------
(* Properties.                                                             *)

Live(s) == phase[s] \in {"running", "closing"}
Running(s, r) == state[s][r] = "running"

(* A lock never outlives the task that took it: whoever owns a path is     *)
(* running and has the path among its targets, whatever was cancelled or   *)
(* thrown in between.  (acquire, release, releaseSession)                  *)
LocksAreOwned ==
  \A p \in Paths, r \in Roles, s \in Sessions :
    locks[p] = <<r, s>> => Running(s, r) /\ p \in target[s][r]

(* As long as nobody cancels, two agents that run at the same time never   *)
(* work on the same path, and none works on a protected one.               *)
ExclusivePaths ==
  \A s, t \in Sessions, q, r \in Roles :
    Running(s, r) =>
      /\ target[s][r] \cap Protected = {}
      /\ (cancelled = {} /\ Running(t, q) /\ <<t, q>> # <<s, r>>) =>
           target[s][r] \cap target[t][q] = {}

(* A session whose results are being reported, or that has returned, has   *)
(* no agent at work: executeParallel waits for every task, thrown or not.  *)
NothingOutlivesSession ==
  \A s \in Sessions, r \in Roles : Running(s, r) => phase[s] = "running"

(* No agent starts before every task of the batches before its own is      *)
(* settled: an architect's result is there before a reviewer begins.       *)
BatchesInOrder ==
  \A s \in Sessions : \A i, j \in DOMAIN Pipeline[kind[s]] :
    /\ (i - 1) \div BatchWidth(kind[s]) < (j - 1) \div BatchWidth(kind[s])
    /\ state[s][Pipeline[kind[s]][j]] # "pending"
    => Settled(s, Pipeline[kind[s]][i])

(* As long as nobody cancels, the plan on display is the plan of the one   *)
(* session that is at work, and lists that session's tasks.                *)
SessionIsActive ==
  cancelled = {} =>
    /\ \A s \in Sessions : Live(s) <=> active = s
    /\ active # NoOne => shown = active

(* The default paths were chosen so that the tasks of a plan do not stand  *)
(* in each other's way: as long as nobody cancels, every task of a session *)
(* that names no path of its own gets its files.  (defaultPathsForRole)    *)
DefaultsNeverRefused ==
  cancelled = {} =>
    \A s \in Sessions, r \in Roles :
      target[s] = Default => state[s][r] # "refused"

(* Every session that was started returns, with its plan or an error, so   *)
(* that again and again none is running: no task waits for a lock, and a   *)
(* refused or thrown task does not hold up its batch.  (orchestrate)       *)
EverySessionEnds ==
  []<>(\A s \in Sessions : phase[s] \in {"new", "ended"})

(* What orchestrate() tells a caller it refuses: "Only one multi-agent     *)
(* session can run at a time."  Sessions the user gave up do not count.    *)
OneSessionRuns ==
  \A s, t \in Sessions \ cancelled : Live(s) /\ Live(t) => s = t

(* Only a cancel can let in a second one.                                  *)
OneUntilCancelled == cancelled = {} => OneSessionRuns

(* What the audit event of a Kanban task sent to the agents says when the  *)
(* plan returns: "Kanban task completed by AI Builder".                    *)
BuilderRuns ==
  \A s \in Sessions :
    phase[s] = "closing" /\ (\A r \in Roles : target[s][r] \cap Protected = {})
      => state[s]["builder"] # "refused"
-----------------------------------------------------------------------------
(* Why they hold.  The counters of a session say which of its tasks have   *)
(* begun and which are settled; before the first cancel, the locks are     *)
(* exactly the target paths of the running tasks.                          *)

OneStarts == \A s, t \in Sessions : Starting(s) /\ Starting(t) => s = t

Progress ==
  \A s \in Sessions :
    /\ done[s] <= begun[s] /\ begun[s] <= BatchEnd(s)
    /\ done[s] = Length(s) \/ done[s] % BatchWidth(kind[s]) = 0
    /\ phase[s] = "new" => begun[s] = 0

TasksFollow ==
  \A s \in Sessions :
    /\ \A i \in 1 .. done[s] : Settled(s, Pipeline[kind[s]][i])
    /\ \A i \in 1 .. begun[s] : state[s][Pipeline[kind[s]][i]] # "pending"
    /\ \A r \in Roles : state[s][r] # "pending" =>
         \E i \in 1 .. begun[s] : Pipeline[kind[s]][i] = r

LocksAreKept ==
  \A s \in Sessions, r \in Roles :
    Running(s, r) =>
      /\ target[s][r] \cap Protected = {}
      /\ cancelled = {} => \A p \in target[s][r] : locks[p] = <<r, s>>

(* The inductive invariant. AgentOrchestratorProofs proves that it is one, *)
(* and that the properties above follow from it.                           *)
IndInv ==
  /\ TypeOK
  /\ OneStarts
  /\ Progress
  /\ TasksFollow
  /\ LocksAreOwned
  /\ LocksAreKept
  /\ NothingOutlivesSession
  /\ SessionIsActive
=============================================================================
