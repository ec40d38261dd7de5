-------------------------- MODULE PhantomScheduler --------------------------
(***************************************************************************)
(* The scheduler of unattended work (desktop-shell:                        *)
(* phantom/phantom-scheduler.service.ts).                                  *)
(*                                                                         *)
(* Every session that is started starts a loop of its own; between two     *)
(* looks a loop sleeps or works on a task.  A loop asks for the session    *)
(* that is active when it looks, not for the one it was started with: one  *)
(* that slept while its session was replaced works beside the new loop.    *)
(* A loop is named after the session that started it.                      *)
(*                                                                         *)
(* A definition named "...Slip" is a mistake one could make in the         *)
(* definition below it; the specification uses none.                       *)
(***************************************************************************)
EXTENDS FiniteSets, Naturals, Sequences

CONSTANTS PhantomSessions, Tasks, NoSession, NoTask

VARIABLES activeSession, \* the session that was started last
          status,        \* of a session
          tasks,         \* its tasks, in the order they were queued
          taskState,     \* of a task
          loopPc,        \* a loop: none, between, building, breaking, over
          work,          \* the task a loop executes
          takers         \* history: the loops that took a task

phantomVars == <<activeSession, status, tasks, taskState, loopPc, work, takers>>

PhantomTypeOK ==
  /\ activeSession \in PhantomSessions \cup {NoSession}
  /\ status \in [PhantomSessions -> {"new", "running", "completed"}]
  /\ tasks \in [PhantomSessions -> Seq(Tasks)]
  /\ taskState \in [Tasks -> {"unknown", "queued", "building", "breaking", "finished"}]
  /\ loopPc \in [PhantomSessions -> {"none", "between", "building", "breaking", "over"}]
  /\ work \in [PhantomSessions -> Tasks \cup {NoTask}]
  /\ takers \in [Tasks -> SUBSET PhantomSessions]

PhantomInit ==
  /\ activeSession = NoSession
  /\ status = [s \in PhantomSessions |-> "new"]
  /\ tasks = [s \in PhantomSessions |-> <<>>]
  /\ taskState = [t \in Tasks |-> "unknown"]
  /\ loopPc = [s \in PhantomSessions |-> "none"]
  /\ work = [s \in PhantomSessions |-> NoTask]
  /\ takers = [t \in Tasks |-> {}]

SessionRuns == activeSession # NoSession /\ status[activeSession] = "running"
-----------------------------------------------------------------------------
StartSession(s) ==
  /\ status[s] = "new" /\ ~SessionRuns
  /\ activeSession' = s
  /\ status' = [status EXCEPT ![s] = "running"]
  /\ loopPc' = [loopPc EXCEPT ![s] = "between"]
  /\ UNCHANGED <<tasks, taskState, work, takers>>

EndSession ==
  /\ activeSession # NoSession
  /\ status' = [status EXCEPT ![activeSession] = "completed"]
  /\ UNCHANGED <<activeSession, tasks, taskState, loopPc, work, takers>>

(* Also to a session that has ended: it waits there for good.              *)
QueueTask(t) ==
  /\ activeSession # NoSession /\ taskState[t] = "unknown"
  /\ tasks' = [tasks EXCEPT ![activeSession] = Append(@, t)]
  /\ taskState' = [taskState EXCEPT ![t] = "queued"]
  /\ UNCHANGED <<activeSession, status, loopPc, work, takers>>

(* runQueue, one look: the first task that is queued, which it claims      *)
(* before it awaits anything.                                              *)
Found(t) ==
  LET queue == tasks[activeSession]
  IN  \E i \in DOMAIN queue :
        /\ queue[i] = t /\ taskState[t] = "queued"
        /\ \A j \in 1 .. i - 1 : taskState[queue[j]] # "queued"

ClaimedSlip(t) == taskState
Claimed(t) == [taskState EXCEPT ![t] = "building"]

Take(l) ==
  /\ loopPc[l] = "between" /\ SessionRuns
  /\ loopPc' = [loopPc EXCEPT ![l] = "building"]
  /\ \E t \in Tasks :
       /\ Found(t)
       /\ taskState' = Claimed(t)
       /\ work' = [work EXCEPT ![l] = t]
       /\ takers' = [takers EXCEPT ![t] = @ \cup {l}]
  /\ UNCHANGED <<activeSession, status, tasks>>

IdleSlip == "over"
Idle == "between"

Sleep(l) ==
  /\ loopPc[l] = "between" /\ SessionRuns /\ \A t \in Tasks : ~Found(t)
  /\ loopPc' = [loopPc EXCEPT ![l] = Idle]
  /\ UNCHANGED <<activeSession, status, tasks, taskState, work, takers>>

Leave(l) ==
  /\ loopPc[l] = "between" /\ ~SessionRuns
  /\ loopPc' = [loopPc EXCEPT ![l] = "over"]
  /\ UNCHANGED <<activeSession, status, tasks, taskState, work, takers>>

(* executeTask after its two awaits.                                       *)
Built(l) ==
  /\ loopPc[l] = "building"
  /\ taskState' = [taskState EXCEPT ![work[l]] = "breaking"]
  /\ loopPc' = [loopPc EXCEPT ![l] = "breaking"]
  /\ UNCHANGED <<activeSession, status, tasks, work, takers>>

Broken(l) ==
  /\ loopPc[l] \in {"building", "breaking"}
  /\ taskState' = [taskState EXCEPT ![work[l]] = "finished"]
  /\ work' = [work EXCEPT ![l] = NoTask]
  /\ loopPc' = [loopPc EXCEPT ![l] = "between"]
  /\ UNCHANGED <<activeSession, status, tasks, takers>>

Loop(l) == Take(l) \/ Sleep(l) \/ Leave(l) \/ Built(l) \/ Broken(l)

PhantomNext ==
  \/ \E s \in PhantomSessions : StartSession(s) \/ Loop(s)
  \/ EndSession
  \/ \E t \in Tasks : QueueTask(t)

(* Fairness: timers fire, and the attacks on a build come to an end.       *)
PhantomFairness == \A l \in PhantomSessions : WF_phantomVars(Loop(l))

PhantomSpec == PhantomInit /\ [][PhantomNext]_phantomVars

PhantomFairSpec == PhantomSpec /\ PhantomFairness
-----------------------------------------------------------------------------
(* Properties.                                                             *)

(* However sessions end and begin while loops sleep or work, no task is    *)
(* executed twice. (runQueue, executeTask)                                 *)
ExecutedOnce == \A t \in Tasks : Cardinality(takers[t]) <= 1

(* A task that is queued in a running session is executed, unless the      *)
(* session ends first: again and again none waits there. (runQueue)        *)
Waits(t) ==
  /\ taskState[t] = "queued" /\ SessionRuns
  /\ \E i \in DOMAIN tasks[activeSession] : tasks[activeSession][i] = t

QueuedIsServed == []<>(\A t \in Tasks : ~Waits(t))
-----------------------------------------------------------------------------
(* Why no task is executed twice.                                          *)

BegunStates == {"building", "breaking", "finished"}

TakenIsUnderway ==
  \A t \in Tasks :
    /\ Cardinality(takers[t]) <= 1
    /\ takers[t] # {} => taskState[t] \in BegunStates

WorkIsTaken ==
  \A l \in PhantomSessions :
    loopPc[l] \in {"building", "breaking"} => work[l] \in Tasks /\ takers[work[l]] # {}

(* The inductive invariant.                                                *)
PhantomIndInv == PhantomTypeOK /\ TakenIsUnderway /\ WorkIsTaken
=============================================================================
