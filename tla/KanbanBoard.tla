----------------------------- MODULE KanbanBoard -----------------------------
(***************************************************************************)
(* The Kanban board of the desktop and the hand-off of a card to the       *)
(* agents (desktop-shell: kanban/kanban.service.ts,                        *)
(* kanban/task-handoff.service.ts, sendKanbanTaskToAgents and the drag     *)
(* handlers of app/event-handlers.ts).                                     *)
(*                                                                         *)
(* A change is made in memory at once; the whole board is then written to  *)
(* the store, and whoever changed it waits for that write alone.  Writes   *)
(* under way may reach the store in any order, or fail.  The orchestrator  *)
(* runs one plan at a time and refuses a second one; it is modelled in     *)
(* AgentOrchestrator, and here only says whether a plan is active.         *)
(*                                                                         *)
(* A definition named "...Slip" is a mistake one could make in the         *)
(* definition below it; the specification uses none.                       *)
(***************************************************************************)
EXTENDS Naturals, Sequences, SequencesExt

CONSTANTS Handoffs,  \* the calls of sendToAgents
          Cards, NoHandoff,
          MaxSaves  \* bound: nothing is begun while so many are under way

ASSUME HandoffsAssumption == NoHandoff \notin Handoffs

VARIABLES column,     \* KanbanService.tasks: where each card is
          savedBoard, \* the board in the store
          saves,      \* setItem calls under way, in the order they were made
          stale,      \* history: an older write landed last, or the last failed
          plan,       \* the hand-off whose plan is active
          handoffPc,  \* how far a hand-off is
          task,       \* its card
          disturbed   \* history: hand-offs whose card others moved meanwhile

boardVars == <<column, savedBoard, saves, stale, plan, handoffPc, task, disturbed>>

Columns == {"todo", "ai-builder", "review"}
Boards == [Cards -> Columns \cup {"none"}]
HandoffSteps == {"new", "storing", "calling", "running", "settling", "catching", "done", "killed"}

BoardTypeOK ==
  /\ column \in Boards /\ savedBoard \in Boards
  /\ saves \in Seq([by : Handoffs \cup {NoHandoff}, image : Boards, overtaken : BOOLEAN])
  /\ stale \in BOOLEAN
  /\ plan \in Handoffs \cup {NoHandoff}
  /\ handoffPc \in [Handoffs -> HandoffSteps]
  /\ task \in [Handoffs -> Cards \cup {NoHandoff}]
  /\ disturbed \subseteq Handoffs

BoardInit ==
  /\ column = [t \in Cards |-> "none"] /\ savedBoard = column
  /\ saves = <<>> /\ stale = FALSE
  /\ plan = NoHandoff
  /\ handoffPc = [h \in Handoffs |-> "new"]
  /\ task = [h \in Handoffs |-> NoHandoff]
  /\ disturbed = {}
-----------------------------------------------------------------------------
Underway(h) == handoffPc[h] \notin {"new", "done", "killed"}
WorkOn(t) == {h \in Handoffs : Underway(h) /\ task[h] = t}

(* createTask and updateTask up to their await.                            *)
ChangedSlip(t, c) == [savedBoard EXCEPT ![t] = c]
Changed(t, c) == [column EXCEPT ![t] = c]

SavedSlip == column
Saved == column'

Update(by, t, c) ==
  /\ column' = Changed(t, c)
  /\ saves' = Append(saves, [by |-> by, image |-> Saved, overtaken |-> FALSE])

MayWrite == Len(saves) < MaxSaves

Create(t) ==
  /\ column[t] = "none" /\ MayWrite
  /\ Update(NoHandoff, t, "todo")
  /\ UNCHANGED <<savedBoard, stale, plan, handoffPc, task, disturbed>>

(* A card is dropped on a column.                                          *)
Move(t, c) ==
  /\ column[t] # "none" /\ MayWrite
  /\ Update(NoHandoff, t, c)
  /\ disturbed' = disturbed \cup WorkOn(t)
  /\ UNCHANGED <<savedBoard, stale, plan, handoffPc, task>>

(* "Send to AI": the first updateTask of sendToAgents.                     *)
SendToAgents(h, t) ==
  /\ handoffPc[h] = "new" /\ column[t] # "none" /\ MayWrite
  /\ Update(h, t, "ai-builder")
  /\ handoffPc' = [handoffPc EXCEPT ![h] = "storing"]
  /\ task' = [task EXCEPT ![h] = t]
  /\ disturbed' = disturbed \cup WorkOn(t) \cup {g \in {h} : WorkOn(t) # {}}
  /\ UNCHANGED <<savedBoard, stale, plan>>

(* Back to the board, from sendToAgents or from the catch of its caller.   *)
ToReview(h, next) ==
  /\ Update(h, task[h], "review")
  /\ handoffPc' = [handoffPc EXCEPT ![h] = next]

(* orchestrate() takes the card, or refuses: "Only one multi-agent         *)
(* session can run at a time."                                             *)
AcceptCard(h) ==
  /\ handoffPc[h] = "calling" /\ plan = NoHandoff
  /\ plan' = h
  /\ handoffPc' = [handoffPc EXCEPT ![h] = "running"]
  /\ UNCHANGED <<column, savedBoard, saves, stale, task, disturbed>>

CaughtSlip(h) == handoffPc' = [handoffPc EXCEPT ![h] = "done"] /\ UNCHANGED <<column, saves>>
Caught(h) == ToReview(h, "catching")

Refuse(h) ==
  /\ handoffPc[h] = "calling" /\ plan # NoHandoff
  /\ Caught(h)
  /\ UNCHANGED <<savedBoard, stale, plan, task, disturbed>>

(* The plan resolves or throws; the finally block frees the orchestrator.  *)
Return(h) ==
  /\ handoffPc[h] = "running"
  /\ plan' = NoHandoff
  /\ ToReview(h, "settling") \/ Caught(h)
  /\ UNCHANGED <<savedBoard, stale, task, disturbed>>

(* The user cancels the active plan; its run goes on.                      *)
CancelPlan ==
  /\ plan # NoHandoff /\ plan' = NoHandoff
  /\ UNCHANGED <<column, savedBoard, saves, stale, handoffPc, task, disturbed>>

(* A write settles; older ones that land later bring back what they saw.   *)
Others(i) ==
  [j \in DOMAIN saves |-> [saves[j] EXCEPT !.overtaken = @ \/ j < i]]

Resumed(h) ==
  CASE handoffPc[h] = "storing" -> "calling"
    [] handoffPc[h] \in {"settling", "catching"} -> "done"

LandBoard(i) ==
  LET w == saves[i]
  IN  /\ savedBoard' = w.image
      /\ stale' = w.overtaken
      /\ saves' = RemoveAt(Others(i), i)
      /\ handoffPc' = [h \in Handoffs |-> IF h = w.by THEN Resumed(h) ELSE handoffPc[h]]
      /\ UNCHANGED <<column, plan, task, disturbed>>

(* A write fails: its caller's updateTask throws after all.                *)
DropBoard(i) ==
  LET h == saves[i].by
  IN  /\ stale' = TRUE
      /\ IF h # NoHandoff /\ handoffPc[h] \in {"storing", "settling"}
         THEN /\ column' = [column EXCEPT ![task[h]] = "review"]
              /\ saves' = Append(RemoveAt(Others(i), i),
                                  [by |-> h, image |-> Saved, overtaken |-> FALSE])
              /\ handoffPc' = [handoffPc EXCEPT ![h] = "catching"]
         ELSE /\ saves' = RemoveAt(Others(i), i)
              /\ handoffPc' = IF h = NoHandoff THEN handoffPc ELSE [handoffPc EXCEPT ![h] = "done"]
              /\ UNCHANGED column
      /\ UNCHANGED <<savedBoard, plan, task, disturbed>>

(* The application is closed and opened again: load().                     *)
ReopenBoard ==
  /\ column' = savedBoard
  /\ saves' = <<>> /\ stale' = FALSE
  /\ plan' = NoHandoff
  /\ handoffPc' = [h \in Handoffs |-> IF Underway(h) THEN "killed" ELSE handoffPc[h]]
  /\ UNCHANGED <<savedBoard, task, disturbed>>

SettleBoard(by) == \E i \in DOMAIN saves : saves[i].by = by /\ (LandBoard(i) \/ DropBoard(i))
HandoffProceeds(h) == AcceptCard(h) \/ Refuse(h) \/ Return(h) \/ SettleBoard(h)

BoardNext ==
  \/ \E t \in Cards : Create(t) \/ \E c \in Columns : Move(t, c)
  \/ \E h \in Handoffs : HandoffProceeds(h) \/ \E t \in Cards : SendToAgents(h, t)
  \/ SettleBoard(NoHandoff) \/ CancelPlan \/ ReopenBoard

(* Fairness: the store answers, and so do the agents.                      *)
BoardFairness == \A h \in Handoffs : WF_boardVars(HandoffProceeds(h))

BoardSpec == BoardInit /\ [][BoardNext]_boardVars

BoardFairSpec == BoardSpec /\ BoardFairness
-----------------------------------------------------------------------------
(* Properties.                                                             *)

(* A card that was handed off comes to review, also when the agents refuse *)
(* it, when they throw and when the store does not take a write; only the  *)
(* end of the program leaves it where it was. (sendKanbanTaskToAgents)     *)
HandoffReachesReview ==
  \A h \in Handoffs :
    handoffPc[h] = "storing" ~> \/ handoffPc[h] = "killed"
                         \/ \E t \in Cards : t = task[h] /\ column[t] = "review"

(* While agents work on a card nobody else touched it is shown with them,  *)
(* whatever happens to other cards and in which order writes land.         *)
(* (updateTask)                                                            *)
AtWorkIsShown ==
  \A h \in Handoffs :
    handoffPc[h] = "running" /\ h \notin disturbed => column[task[h]] = "ai-builder"

(* When nothing is under way the store holds the board, unless a write     *)
(* failed or was overtaken by a later one. (persist)                       *)
StoredCatchesUp == saves = <<>> /\ ~stale => savedBoard = column
-----------------------------------------------------------------------------
(* Why the invariants hold.                                                *)

Storing == {"storing", "settling", "catching"}

\* A hand-off has one write under way at most, for which it waits.
WritersWait ==
  /\ \A i \in DOMAIN saves : saves[i].by # NoHandoff => handoffPc[saves[i].by] \in Storing
  /\ \A i, j \in DOMAIN saves : saves[i].by = saves[j].by /\ saves[i].by # NoHandoff => i = j

\* Who shares a card is known to be disturbed.
SharedIsDisturbed ==
  \A g, h \in Handoffs :
    Underway(g) /\ Underway(h) /\ task[g] = task[h] /\ g # h => h \in disturbed

SentIsShown ==
  \A h \in Handoffs :
    handoffPc[h] \in {"storing", "calling", "running"} /\ h \notin disturbed
    => column[task[h]] = "ai-builder"

\* Either the last write is still under way, and has the board; or what is
\* under way is older than what the store has taken.
NewestIsBoard ==
  \/ /\ saves # <<>>
     /\ saves[Len(saves)].image = column /\ ~saves[Len(saves)].overtaken
  \/ /\ \A i \in DOMAIN saves : saves[i].overtaken
     /\ ~stale => savedBoard = column

(* The inductive invariant.                                                *)
BoardIndInv ==
  /\ BoardTypeOK
  /\ \A h \in Handoffs : handoffPc[h] # "new" => task[h] \in Cards
  /\ WritersWait /\ SharedIsDisturbed /\ SentIsShown /\ NewestIsBoard
=============================================================================
