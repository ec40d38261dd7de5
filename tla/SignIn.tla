-------------------------------- MODULE SignIn --------------------------------
(***************************************************************************)
(* Signing in to the desktop through single sign-on: the table of flows in *)
(* the memory of the control API (control-api: auth/sso.service.ts and its *)
(* routes in routes/desktop.ts) and the screen that asks it every two      *)
(* seconds whether the browser has come back (desktop-shell:               *)
(* handleSSOLogin, pollSSO and the handlers of attachAuthInteractions in   *)
(* app/event-handlers.ts).                                                 *)
(*                                                                         *)
(* The timer of an attempt neither waits for the answer to its last poll   *)
(* nor stops when the user leaves the screen.  A poll that gets no answer  *)
(* throws out of the timer's callback, past the comparison that ends the   *)
(* attempt.  The flow's age is not modelled: an entry may be forgotten at  *)
(* any time, by the cleanup or because the API is started again.           *)
(*                                                                         *)
(* A definition named "...Slip" is a mistake one could make in the         *)
(* definition below it; the specification uses none.                       *)
(***************************************************************************)
EXTENDS Naturals

CONSTANTS Attempts,   \* submissions of a domain, each with a flow of its own
          MaxAttempts,\* maxAttempts: polls after which an attempt gives up
          MaxOpen     \* bound: polls of one attempt under way at once

VARIABLES flows,      \* SSOService.flows
          mode,       \* authSSOMode
          stage,      \* how far handleSSOLogin of an attempt is
          attempts,   \* its counter
          polls,      \* its requests on the way there, its answers on the way back
          session,    \* the application shows a session
          lossy       \* the network still loses requests and answers

vars == <<flows, mode, stage, attempts, polls, session, lossy>>

Ways == {"sent", "pending", "completed"}

TypeOK ==
  /\ flows \in [Attempts -> {"none", "pending", "completed"}]
  /\ mode \in {"hidden", "domain", "waiting"}
  /\ stage \in [Attempts -> {"new", "asking", "refused", "polling", "stopped"}]
  /\ attempts \in [Attempts -> 0 .. MaxAttempts + 1]
  /\ polls \in [Attempts -> [Ways -> 0 .. MaxOpen]]
  /\ session \in BOOLEAN
  /\ lossy \in BOOLEAN

Init ==
  /\ flows = [a \in Attempts |-> "none"]
  /\ mode = "hidden"
  /\ stage = [a \in Attempts |-> "new"]
  /\ attempts = [a \in Attempts |-> 0]
  /\ polls = [a \in Attempts |-> [w \in Ways |-> 0]]
  /\ session = FALSE
  /\ lossy = TRUE
-----------------------------------------------------------------------------
(* The screen: "Sign in with SSO", "Back" or "Cancel", "Continue".         *)
Toggle ==
  /\ mode = "hidden" /\ mode' = "domain"
  /\ UNCHANGED <<flows, stage, attempts, polls, session, lossy>>

Leave ==
  /\ mode # "hidden" /\ mode' = "hidden"
  /\ UNCHANGED <<flows, stage, attempts, polls, session, lossy>>

Submit(a) ==
  /\ mode = "domain" /\ stage[a] = "new"
  /\ mode' = "waiting"
  /\ stage' = [stage EXCEPT ![a] = "asking"]
  /\ UNCHANGED <<flows, attempts, polls, session, lossy>>

(* startSSOFlow gets its answer: the browser is opened, the timer set.     *)
Authorize(a) ==
  /\ stage[a] = "asking"
  /\ flows' = [flows EXCEPT ![a] = "pending"]
  /\ stage' = [stage EXCEPT ![a] = "polling"]
  /\ UNCHANGED <<mode, attempts, polls, session, lossy>>

(* It fails, perhaps after the API has made the flow; the screen comes     *)
(* back to the domain, also when the user has left it.                     *)
Refuse(a) ==
  /\ stage[a] = "asking"
  /\ flows' \in {flows, [flows EXCEPT ![a] = "pending"]}
  /\ stage' = [stage EXCEPT ![a] = "refused"]
  /\ mode' = "domain"
  /\ UNCHANGED <<attempts, polls, session, lossy>>
-----------------------------------------------------------------------------
(* The API.                                                                *)

(* The user comes back from the identity provider, in time or late, once   *)
(* or again: the flow is completed even when its entry is gone.            *)
Callback(a) ==
  /\ stage[a] \in {"polling", "stopped"}
  /\ flows' = [flows EXCEPT ![a] = "completed"]
  /\ UNCHANGED <<mode, stage, attempts, polls, session, lossy>>

(* The cleanup deletes an old entry.  A restart forgets them all, which    *)
(* one such step after the other shows as well.                            *)
Forget(a) ==
  /\ flows[a] # "none"
  /\ flows' = [flows EXCEPT ![a] = "none"]
  /\ UNCHANGED <<mode, stage, attempts, polls, session, lossy>>

Move(a, from, to) ==
  /\ polls[a][from] > 0
  /\ polls' = [polls EXCEPT ![a][from] = @ - 1, ![a][to] = @ + 1]

(* pollFlow hands the session out and forgets it.                          *)
Poll(a) ==
  /\ IF flows[a] = "completed"
     THEN /\ Move(a, "sent", "completed")
          /\ flows' = [flows EXCEPT ![a] = "none"]
     ELSE Move(a, "sent", "pending") /\ UNCHANGED flows
  /\ UNCHANGED <<mode, stage, attempts, session, lossy>>

(* The API answers with an error, its rate limit for one.                  *)
Decline(a) ==
  /\ Move(a, "sent", "pending")
  /\ UNCHANGED <<flows, mode, stage, attempts, session, lossy>>

(* A request or its answer is lost, and with it the session it carried.    *)
Lose(a) ==
  /\ lossy
  /\ \E w \in Ways : polls[a][w] > 0 /\ polls' = [polls EXCEPT ![a][w] = @ - 1]
  /\ UNCHANGED <<flows, mode, stage, attempts, session, lossy>>

Settle ==
  /\ lossy /\ lossy' = FALSE
  /\ UNCHANGED <<flows, mode, stage, attempts, polls, session>>
-----------------------------------------------------------------------------
(* The timer fires.                                                        *)
Open(a) == polls[a]["sent"] + polls[a]["pending"] + polls[a]["completed"]

Tick(a) ==
  /\ stage[a] = "polling" /\ Open(a) < MaxOpen
  /\ attempts' = [attempts EXCEPT ![a] = IF @ > MaxAttempts THEN @ ELSE @ + 1]
  /\ polls' = [polls EXCEPT ![a]["sent"] = @ + 1]
  /\ UNCHANGED <<flows, mode, stage, session, lossy>>

(* Its callback goes on with an answer.                                    *)
ExhaustedSlip(a) == attempts[a] = MaxAttempts
Exhausted(a) == attempts[a] >= MaxAttempts

SignedIn(a) ==
  /\ polls[a]["completed"] > 0
  /\ polls' = [polls EXCEPT ![a]["completed"] = @ - 1]
  /\ stage' = [stage EXCEPT ![a] = "stopped"]
  /\ mode' = "hidden"
  /\ session' = TRUE
  /\ UNCHANGED <<flows, attempts, lossy>>

NotYet(a) ==
  /\ polls[a]["pending"] > 0
  /\ polls' = [polls EXCEPT ![a]["pending"] = @ - 1]
  /\ IF Exhausted(a)
     THEN stage' = [stage EXCEPT ![a] = "stopped"] /\ mode' = "domain"
     ELSE UNCHANGED <<stage, mode>>
  /\ UNCHANGED <<flows, attempts, session, lossy>>
-----------------------------------------------------------------------------
Proceeds(a) ==
  \/ Authorize(a) \/ Refuse(a)
  \/ Tick(a) \/ Poll(a) \/ Decline(a)
  \/ SignedIn(a) \/ NotYet(a)

Next ==
  \/ Toggle \/ Leave \/ Settle
  \/ \E a \in Attempts :
       Submit(a) \/ Callback(a) \/ Forget(a) \/ Lose(a) \/ Proceeds(a)

(* Fairness: the timer fires, requests that are not lost are answered, and *)
(* from some time on none is lost.                                         *)
Fairness == WF_vars(Settle) /\ \A a \in Attempts : WF_vars(Proceeds(a))

Spec == Init /\ [][Next]_vars

FairSpec == Spec /\ Fairness
-----------------------------------------------------------------------------
(* Properties.                                                             *)

(* While the screen waits there is an attempt to wait for, so it is never  *)
(* shown to a user for whom nothing is under way any more, however the     *)
(* answers to several attempts overtake each other.                        *)
(* (handleSSOLogin, pollSSO)                                               *)
WaitingIsServed ==
  mode = "waiting" => \E a \in Attempts : stage[a] \in {"asking", "polling"}

(* The waiting screen does not stay for ever, although lost polls skip the *)
(* comparison and the one that should have ended it may be among them.     *)
(* (handleSSOLogin)                                                        *)
WaitEnds == []<>(mode # "waiting")
-----------------------------------------------------------------------------
(* Why the screen is served, and its numbers keep their bounds.            *)

PollsAreBounded == \A a \in Attempts : Open(a) <= MaxOpen

(* The inductive invariant.                                                *)
SignInInv == TypeOK /\ PollsAreBounded /\ WaitingIsServed
=============================================================================
