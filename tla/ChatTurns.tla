------------------------------ MODULE ChatTurns ------------------------------
(***************************************************************************)
(* The chat of the desktop (desktop-shell: runChatOrchestrator,            *)
(* appendChatMessage and continueSuggestedSkill of app/event-handlers.ts,  *)
(* runOclushionChatTurn of chat-orchestrator.ts, and the sessions that     *)
(* chat/chat-session.service.ts stores and chat/sidebar.controller.ts      *)
(* activates).                                                             *)
(*                                                                         *)
(* A turn takes a prompt from the input, may stop to suggest a skill,      *)
(* appends the prompt to the active session, sends it to a model with what *)
(* is shown of the session, and appends the answer.  An append is not      *)
(* waited for: its continuation shows the stored message behind what was   *)
(* shown when it began.  The developer activates sessions all the while;   *)
(* a new or a deleted session activates one too.                           *)
(*                                                                         *)
(* A session is the set of its messages, which are read in the order they  *)
(* were created in.  Titles, the cut to the last twelve messages and what  *)
(* the sanitizer does to them are left out.                                *)
(*                                                                         *)
(* A definition named "...Slip" is a mistake one could make in the         *)
(* definition below it; the specification uses none.                       *)
(***************************************************************************)
EXTENDS Naturals, FiniteSets

CONSTANTS Sessions,
          Turns,     \* prompts the developer types
          NoLoad,    \* no load of a session is under way
          MaxLoads, MaxAppends   \* bounds: calls of the store under way at once

VARIABLES chatRunning, \* chatOrchestratorRunning
          active,      \* activeChatSession
          shown,       \* activeChatMessages
          stored,      \* the messages of each session in the database
          turn,        \* how far each turn is
          appends,     \* calls of appendMessage under way
          loads,       \* calls of loadSession: what they have read
          disturbed    \* history: appends or loads overlapped, or one failed

chatVars == <<chatRunning, active, shown, stored, turn, appends, loads, disturbed>>

Messages == [turn : Turns, role : {"user", "assistant"}]
Appends == [message : Messages, to : Sessions, before : SUBSET Messages, landed : BOOLEAN]

ChatTypeOK ==
  /\ chatRunning \in BOOLEAN
  /\ active \in Sessions
  /\ shown \subseteq Messages
  /\ stored \in [Sessions -> SUBSET Messages]
  /\ turn \in [Turns -> {"typed", "asking", "suggested", "prompted", "called", "over"}]
  /\ appends \subseteq Appends
  /\ loads \in [Sessions -> (SUBSET Messages) \cup {NoLoad}]
  /\ disturbed \in BOOLEAN

(* The controllers are initialized: a session is active.                   *)
ChatInit ==
  /\ chatRunning = FALSE
  /\ active \in Sessions
  /\ shown = {}
  /\ stored = [s \in Sessions |-> {}]
  /\ turn = [t \in Turns |-> "typed"]
  /\ appends = {}
  /\ loads = [s \in Sessions |-> NoLoad]
  /\ disturbed = FALSE
-----------------------------------------------------------------------------
(* appendChatMessage: the active session and what is shown of it are read  *)
(* now and used when the message is stored.                                *)
AppendMessage(message) ==
  /\ Cardinality(appends) < MaxAppends
  /\ appends' = appends \cup
       {[message |-> message, to |-> active, before |-> shown, landed |-> FALSE]}
  /\ disturbed' = (disturbed \/ appends # {} \/ \E s \in Sessions : loads[s] # NoLoad)

Land(a) ==
  /\ ~a.landed
  /\ stored' = [stored EXCEPT ![a.to] = @ \cup {a.message}]
  /\ appends' = (appends \ {a}) \cup {[a EXCEPT !.landed = TRUE]}
  /\ UNCHANGED <<chatRunning, active, shown, turn, loads, disturbed>>

MayShowSlip(a) == TRUE
MayShow(a) == a.landed

Show(a) ==
  /\ MayShow(a)
  /\ shown' = a.before \cup {a.message}
  /\ appends' = appends \ {a}
  /\ UNCHANGED <<chatRunning, active, stored, turn, loads, disturbed>>

(* The insertion fails, or the update of the session behind it.            *)
RejectAppend(a) ==
  /\ appends' = appends \ {a}
  /\ disturbed' = (disturbed \/ a.landed)
  /\ UNCHANGED <<chatRunning, active, shown, stored, turn, loads>>
-----------------------------------------------------------------------------
(* ChatSidebarController.activate: the messages are read, ...              *)
Load(s) ==
  /\ loads[s] = NoLoad
  /\ Cardinality({u \in Sessions : loads[u] # NoLoad}) < MaxLoads
  /\ loads' = [loads EXCEPT ![s] = stored[s]]
  /\ disturbed' = (disturbed \/ appends # {})
  /\ UNCHANGED <<chatRunning, active, shown, stored, turn, appends>>

(* ... and shown when they have arrived.                                   *)
Activate(s) ==
  /\ loads[s] # NoLoad
  /\ active' = s /\ shown' = loads[s]
  /\ loads' = [loads EXCEPT ![s] = NoLoad]
  /\ UNCHANGED <<chatRunning, stored, turn, appends, disturbed>>
-----------------------------------------------------------------------------
(* runChatOrchestrator, called with what is in the input.                  *)
SendPrompt(t) ==
  /\ turn[t] = "typed" /\ ~chatRunning
  /\ chatRunning' = TRUE
  /\ turn' = [turn EXCEPT ![t] = "asking"]
  /\ UNCHANGED <<active, shown, stored, appends, loads, disturbed>>

(* A skill is suggested: the function returns.                             *)
Suggest(t) ==
  /\ turn[t] = "asking"
  /\ turn' = [turn EXCEPT ![t] = "suggested"]
  /\ UNCHANGED <<chatRunning, active, shown, stored, appends, loads, disturbed>>

(* The prompt leaves the input.                                            *)
Prompt(t) ==
  /\ turn' = [turn EXCEPT ![t] = "prompted"]
  /\ AppendMessage([turn |-> t, role |-> "user"])

NoSuggestion(t) ==
  /\ turn[t] = "asking"
  /\ Prompt(t)
  /\ UNCHANGED <<chatRunning, active, shown, stored, loads>>

(* continueSuggestedSkill: the prompt goes back to the input, and          *)
(* runChatOrchestrator is called again, which returns if it is running.    *)
Continue(t) ==
  /\ turn[t] = "suggested"
  /\ IF chatRunning
     THEN /\ turn' = [turn EXCEPT ![t] = "typed"]
          /\ UNCHANGED <<appends, disturbed>>
     ELSE Prompt(t)
  /\ chatRunning' = TRUE
  /\ UNCHANGED <<active, shown, stored, loads>>

(* The contexts are there and the model is called, with what is shown now. *)
CallModel(t) ==
  /\ turn[t] = "prompted"
  /\ turn' = [turn EXCEPT ![t] = "called"]
  /\ UNCHANGED <<chatRunning, active, shown, stored, appends, loads, disturbed>>

FreedSlip == chatRunning
Freed == FALSE

AnswerTurn(t) ==
  /\ turn[t] = "called"
  /\ turn' = [turn EXCEPT ![t] = "over"]
  /\ chatRunning' = FALSE
  /\ AppendMessage([turn |-> t, role |-> "assistant"])
  /\ UNCHANGED <<active, shown, stored, loads>>

Throw(t) ==
  /\ turn[t] \in {"prompted", "called"}
  /\ turn' = [turn EXCEPT ![t] = "over"]
  /\ chatRunning' = Freed
  /\ UNCHANGED <<active, shown, stored, appends, loads, disturbed>>
-----------------------------------------------------------------------------
Proceed(t) == Suggest(t) \/ NoSuggestion(t) \/ CallModel(t) \/ AnswerTurn(t) \/ Throw(t)

ChatNext ==
  \/ \E t \in Turns : SendPrompt(t) \/ Continue(t) \/ Proceed(t)
  \/ \E a \in appends : Land(a) \/ Show(a) \/ RejectAppend(a)
  \/ \E s \in Sessions : Load(s) \/ Activate(s)

ChatSpec == ChatInit /\ [][ChatNext]_chatVars

(* Fairness: what a turn awaits comes or fails. Nothing is assumed of the  *)
(* developer.                                                              *)
ChatFairSpec == ChatSpec /\ \A t \in Turns : WF_chatVars(Proceed(t))
-----------------------------------------------------------------------------
(* Properties.                                                             *)

TurnUnderWay(t) == turn[t] \in {"asking", "suggested", "prompted", "called"}

(* While no prompt is under way one can be sent.  The dialog with the      *)
(* suggestion asks "Install it before sending this prompt?" and offers to  *)
(* continue with or without it, so that answering it should send the       *)
(* prompt; the code still holds its flag then, and nobody ever lowers it.  *)
(* (runChatOrchestrator, continueSuggestedSkill)                           *)
ChatIsFree == chatRunning => \E t \in Turns : TurnUnderWay(t)

(* Prompts go one at a time, and the flag is up while one is under way: no *)
(* second prompt is sent before the first is answered or fails, whichever  *)
(* session is shown meanwhile.  (runChatOrchestrator)                      *)
OnePrompt ==
  \A t \in Turns : TurnUnderWay(t) =>
    chatRunning /\ \A u \in Turns : TurnUnderWay(u) => u = t

(* Nothing but a continued suggestion blocks the chat.                     *)
OnlySuggestionsBlock ==
  [][ChatIsFree /\ ~ChatIsFree' => \E t \in Turns : Continue(t)]_chatVars

(* And it always does: a suggested prompt goes back to the input, so that  *)
(* the call of runChatOrchestrator behind it never sends one.              *)
(* (continueSuggestedSkill)                                                *)
SuggestionIsNeverSent ==
  [][\A t \in Turns : Continue(t) => turn'[t] = "typed" /\ ~ChatIsFree']_chatVars

(* A prompt that has left the input is answered or fails, and the chat is  *)
(* free again. (runChatOrchestrator)                                       *)
EveryTurnEnds ==
  (\E t \in Turns : turn[t] \in {"prompted", "called"}) ~> ~chatRunning

(* As long as appends and loads do not overlap and none fails, what is     *)
(* shown, and told to a model with the next prompt, is what is stored of   *)
(* the active session, but for a message whose continuation is still to    *)
(* run. (appendChatMessage, activate)                                      *)
ShownIsStored ==
  ~disturbed =>
    /\ shown \subseteq stored[active]
    /\ \A m \in stored[active] \ shown : \E a \in appends : a.message = m
-----------------------------------------------------------------------------
(* Why what is shown is stored.                                            *)

\* As long as nothing overlaps there is one append at most, no load beside
\* it, and both are about what is shown and stored now.
OneCallAtATime ==
  /\ \A a, b \in appends : a = b
  /\ appends # {} => \A s \in Sessions : loads[s] = NoLoad
  /\ \A a \in appends : /\ a.to = active /\ a.before = shown
                        /\ a.landed => a.message \in stored[active]
  /\ \A s \in Sessions : loads[s] # NoLoad => loads[s] = stored[s]

ShownOrLanded ==
  /\ shown \subseteq stored[active]
  /\ \A m \in stored[active] \ shown : \E a \in appends : a.landed /\ a.message = m

(* The inductive invariant.                                                *)
ChatIndInv == ChatTypeOK /\ (~disturbed => OneCallAtATime /\ ShownOrLanded)
=============================================================================
