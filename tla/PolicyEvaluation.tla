-------------------------- MODULE PolicyEvaluation --------------------------
(***************************************************************************)
(* The decision about a request (packages/policy-runtime/src/index.ts).    *)
(*                                                                         *)
(* The enabled rules of a snapshot are sorted once and looked at one after *)
(* the other.  Every rule with a time range reads the clock when it is its *)
(* turn: the minute may change in the middle of a decision.  The first     *)
(* pass finds the rules that match; effect and entity types follow from    *)
(* them.                                                                   *)
(*                                                                         *)
(* A definition named "...Slip" is a mistake one could make in the         *)
(* definition below it; the specification uses none.                       *)
(***************************************************************************)
EXTENDS Integers, FiniteSets

CONSTANTS Rules,       \* the rules a snapshot may have, as data
          NumRules,    \* how many it has
          Contexts,    \* what is asked: action, actor and detected types
          Day, Week,   \* the minutes of a day and the days of a week
          MaxTicks     \* bound: minutes that pass during one decision

VARIABLES snapshot,  \* the sorted rules
          scoped,    \* is it of the organization and the module asked for?
          ctx,       \* the context
          clock,     \* minute and day, in UTC
          ticks,     \* how often the clock moved
          next,      \* the rule whose turn it is
          matched,   \* the rules that matched
          held,      \* history: rules that cover the request ever since
          answer     \* the decision

decisionVars == <<snapshot, scoped, ctx, clock, ticks, next, matched, held, answer>>

Indices == 1 .. NumRules
Effects == {"ALLOW", "TOKENIZE", "REQUIRE_APPROVAL", "BLOCK"}
Clocks == [minute : 0 .. Day - 1, day : 0 .. Week - 1]
Undecided == [effect |-> "none", tokenize |-> {}]

(* A window begins and ends with a number of minutes: the schema admits    *)
(* more of them than a day has (shared/src/index.ts:214).                  *)
ASSUME DecisionAssumption ==
  /\ Day \in Nat \ {0} /\ Week \in Nat \ {0} /\ NumRules \in Nat /\ MaxTicks \in Nat
  /\ \A rule \in Rules :
       /\ rule.effect \in Effects
       /\ \A w \in rule.windows : w.start \in Nat /\ w.end \in Nat

effectWeight == [ALLOW |-> 0, TOKENIZE |-> 1, REQUIRE_APPROVAL |-> 2, BLOCK |-> 3]
-----------------------------------------------------------------------------
(* What a condition says. An empty list places no condition.               *)

TimeRange(w, t) ==
  /\ w.days # {} => t.day \in w.days
  /\ IF w.start <= w.end THEN w.start <= t.minute /\ t.minute <= w.end
                         ELSE w.start <= t.minute \/ t.minute <= w.end

ActorMatch(actors) == actors # {} => ctx.actor \in actors

Matches(rule, t) ==
  /\ rule.enabled
  /\ rule.actions # {} => ctx.action \in rule.actions
  /\ rule.types # {} => rule.types \cap ctx.types # {}
  /\ ActorMatch(rule.actors)
  /\ \A w \in rule.windows : TimeRange(w, t)

(* The same in other words: a window, if its times are times of the day,   *)
(* is an arc of the circle of the day.                                     *)
InArc(w, minute) ==
  /\ {w.start, w.end} \subseteq 0 .. Day - 1
  /\ (minute - w.start) % Day <= (w.end - w.start) % Day

Covers(rule, t) ==
  /\ rule.enabled
  /\ rule.actions = {} \/ ctx.action \in rule.actions
  /\ rule.types = {} \/ \E type \in ctx.types : type \in rule.types
  /\ rule.actors = {} \/ ctx.actor \in rule.actors
  /\ \A w \in rule.windows : (w.days = {} \/ t.day \in w.days) /\ InArc(w, t.minute)

Covering(t) == {i \in Indices : Covers(snapshot[i], t)}
-----------------------------------------------------------------------------
DecisionTypeOK ==
  /\ snapshot \in [Indices -> Rules] /\ scoped \in BOOLEAN
  /\ ctx \in Contexts /\ clock \in Clocks /\ ticks \in 0 .. MaxTicks
  /\ next \in 1 .. NumRules + 1
  /\ matched \subseteq Indices /\ held \subseteq Indices
  /\ answer.effect \in Effects \cup {"none"} /\ answer.tokenize \subseteq ctx.types

DecisionInit ==
  /\ snapshot \in [Indices -> Rules] /\ scoped \in BOOLEAN
  /\ ctx \in Contexts /\ clock \in Clocks /\ ticks = 0
  /\ next = 1 /\ matched = {} /\ held = Covering(clock)
  /\ answer = Undecided

Deciding == answer = Undecided

(* A minute passes.                                                        *)
Later(t) ==
  IF t.minute + 1 < Day THEN [t EXCEPT !.minute = @ + 1]
  ELSE [minute |-> 0, day |-> (t.day + 1) % Week]

Tick ==
  /\ Deciding /\ ticks < MaxTicks
  /\ clock' = Later(clock) /\ ticks' = ticks + 1
  /\ held' = held \cap Covering(clock')
  /\ UNCHANGED <<snapshot, scoped, ctx, next, matched, answer>>

(* matches().                                                              *)
Look ==
  /\ Deciding /\ scoped /\ next <= NumRules
  /\ matched' = IF Matches(snapshot[next], clock) THEN matched \cup {next} ELSE matched
  /\ next' = next + 1
  /\ UNCHANGED <<snapshot, scoped, ctx, clock, ticks, held, answer>>

(* evaluatePolicy once the matching rules are known.                       *)
StrongestSlip == IF matched = {} THEN "ALLOW"
                 ELSE snapshot[CHOOSE i \in matched : \A j \in matched : i <= j].effect
Strongest ==
  IF matched = {} THEN "ALLOW"
  ELSE CHOOSE e \in Effects :
         /\ \E i \in matched : snapshot[i].effect = e
         /\ \A i \in matched : effectWeight[snapshot[i].effect] <= effectWeight[e]

TokenizeTypes ==
  {type \in ctx.types : \E i \in matched :
     snapshot[i].effect = "TOKENIZE" /\ (snapshot[i].types = {} \/ type \in snapshot[i].types)}

Decide ==
  /\ Deciding /\ scoped /\ next > NumRules
  /\ answer' = [effect |-> Strongest,
                tokenize |-> IF Strongest = "TOKENIZE" THEN TokenizeTypes ELSE {}]
  /\ UNCHANGED <<snapshot, scoped, ctx, clock, ticks, next, matched, held>>

(* "snapshot_scope_mismatch"                                               *)
RefuseScope ==
  /\ Deciding /\ ~scoped
  /\ answer' = [effect |-> "BLOCK", tokenize |-> {}]
  /\ UNCHANGED <<snapshot, scoped, ctx, clock, ticks, next, matched, held>>

DecisionNext == Tick \/ Look \/ Decide \/ RefuseScope

DecisionSpec == DecisionInit /\ [][DecisionNext]_decisionVars
-----------------------------------------------------------------------------
(* Properties.                                                             *)

AsStrict ==
  ~Deciding =>
    \A i \in held : effectWeight[answer.effect] >= effectWeight[snapshot[i].effect]

AllTokenized ==
  answer.effect = "TOKENIZE" =>
    \A i \in held, type \in ctx.types :
      snapshot[i].effect = "TOKENIZE" /\ (type \in snapshot[i].types \/ snapshot[i].types = {})
      => type \in answer.tokenize

(* The decision is at least as strict as every rule that covers the        *)
(* request all the time it takes, whatever other rules allow, whatever     *)
(* their order and whenever the minute changes; and when the request is    *)
(* let through with tokens, every detected type is replaced that such a    *)
(* rule asks to replace. (evaluatePolicy)                                  *)
CoveredIsProtected == AsStrict /\ AllTokenized
-----------------------------------------------------------------------------
(* Why they hold.                                                          *)

HeldWasMatched == \A i \in held : scoped /\ i < next => i \in matched

(* The inductive invariant.                                                *)
DecisionIndInv ==
  /\ DecisionTypeOK
  /\ held \subseteq Covering(clock)
  /\ HeldWasMatched
  /\ CoveredIsProtected
=============================================================================
