-------------------------- MODULE ExecutionProofs --------------------------
(***************************************************************************)
(* Theorems about PolicyEvaluation, McpServers, ChatTurns and WorkflowRun  *)
(* for every number of rules, calls, servers, sessions and turns, and for  *)
(* every set of finite graphs.                                             *)
(***************************************************************************)
EXTENDS PolicyEvaluation, McpServers, ChatTurns, WorkflowRun,
        FiniteSetTheorems, SequenceTheorems, TLAPS

USE DecisionAssumption
-----------------------------------------------------------------------------
(* The decision about a request.                                           *)

\* What % makes of a number that is at most once around the circle away.
LEMMA AroundTheCircle ==
  ASSUME NEW x \in Int, NEW n \in Nat \ {0}, -n < x, x < n
  PROVE  x % n = IF x >= 0 THEN x ELSE x + n
OBVIOUS

LEMMA ModRange ==
  ASSUME NEW x \in Int, NEW n \in Nat \ {0}
  PROVE  x % n \in 0 .. n - 1
OBVIOUS

\* Whoever lies on the arc of a window is let through by timeRangeMatches,
\* also when the window wraps around midnight.
LEMMA ArcIsTimeRange ==
  ASSUME NEW w, NEW t, t.minute \in 0 .. Day - 1,
         w.days = {} \/ t.day \in w.days, InArc(w, t.minute)
  PROVE  TimeRange(w, t)
<1> SUFFICES ASSUME NEW a, a = w.start, NEW b, b = w.end, NEW m, m = t.minute
             PROVE  TimeRange(w, t)
  OBVIOUS
<1>1. a \in 0 .. Day - 1 /\ b \in 0 .. Day - 1 /\ m \in 0 .. Day - 1 /\ Day \in Nat \ {0}
  BY DEF InArc
<1>2. (m - a) % Day = IF m - a >= 0 THEN m - a ELSE m - a + Day
  <2>1. m - a \in Int /\ -Day < m - a /\ m - a < Day
    BY <1>1
  <2>2. QED
    BY <1>1, <2>1, AroundTheCircle
<1>3. (b - a) % Day = IF b - a >= 0 THEN b - a ELSE b - a + Day
  <2>1. b - a \in Int /\ -Day < b - a /\ b - a < Day
    BY <1>1
  <2>2. QED
    BY <1>1, <2>1, AroundTheCircle
<1>4. (m - a) % Day <= (b - a) % Day
  BY DEF InArc
<1>5. IF a <= b THEN a <= m /\ m <= b ELSE a <= m \/ m <= b
  BY <1>1, <1>2, <1>3, <1>4
<1>6. QED
  BY <1>5 DEF TimeRange

\* A rule that covers the request matches it.
LEMMA CoversIsMatched ==
  ASSUME NEW rule \in Rules, NEW t \in Clocks, Covers(rule, t)
  PROVE  Matches(rule, t)
<1>1. ASSUME NEW w \in rule.windows
      PROVE  TimeRange(w, t)
  <2>1. t.minute \in 0 .. Day - 1
    BY DEF Clocks
  <2>2. (w.days = {} \/ t.day \in w.days) /\ InArc(w, t.minute)
    BY DEF Covers
  <2>3. QED
    BY <2>1, <2>2, ArcIsTimeRange
<1>2. QED
  BY <1>1 DEF Covers, Matches, ActorMatch

\* The strongest effect is that of a rule that matched, and no rule that
\* matched has a stronger one.
LEMMA StrongestIsStrongest ==
  ASSUME snapshot \in [Indices -> Rules], matched \subseteq Indices, matched # {}
  PROVE  /\ Strongest \in Effects
         /\ \A i \in matched : effectWeight[snapshot[i].effect] <= effectWeight[Strongest]
<1> DEFINE effect(i) == snapshot[i].effect
           Fits(e) == /\ \E i \in matched : effect(i) = e
                      /\ \A i \in matched : effectWeight[effect(i)] <= effectWeight[e]
<1>1. \A i \in matched : effect(i) \in Effects
  OBVIOUS
<1>2. /\ effectWeight["ALLOW"] = 0 /\ effectWeight["TOKENIZE"] = 1
      /\ effectWeight["REQUIRE_APPROVAL"] = 2 /\ effectWeight["BLOCK"] = 3
  BY DEF effectWeight
<1> HIDE DEF effect
<1>3. \E e \in Effects : Fits(e)
  <2>1. CASE \E i \in matched : effect(i) = "BLOCK"
    BY <1>1, <1>2, <2>1 DEF Effects
  <2>2. CASE /\ \A i \in matched : effect(i) # "BLOCK"
             /\ \E i \in matched : effect(i) = "REQUIRE_APPROVAL"
    BY <1>1, <1>2, <2>2 DEF Effects
  <2>3. CASE /\ \A i \in matched : effect(i) \notin {"BLOCK", "REQUIRE_APPROVAL"}
             /\ \E i \in matched : effect(i) = "TOKENIZE"
    BY <1>1, <1>2, <2>3 DEF Effects
  <2>4. CASE \A i \in matched : effect(i) \notin {"BLOCK", "REQUIRE_APPROVAL", "TOKENIZE"}
    BY <1>1, <1>2, <2>4 DEF Effects
  <2>5. QED
    BY <2>1, <2>2, <2>3, <2>4
<1>4. Strongest = CHOOSE e \in Effects : Fits(e)
  BY DEF Strongest, effect
<1> HIDE DEF Fits
<1>5. Strongest \in Effects /\ Fits(Strongest)
  BY <1>3, <1>4
<1>6. QED
  BY <1>5 DEF Fits, effect

LEMMA DecisionInitInv == DecisionInit => DecisionIndInv
<1> SUFFICES ASSUME DecisionInit PROVE DecisionIndInv
  OBVIOUS
<1>1. DecisionTypeOK
  BY DEF DecisionInit, DecisionTypeOK, Covering, Undecided, Indices
<1>2. HeldWasMatched
  BY DEF DecisionInit, HeldWasMatched, Covering, Indices
<1>3. CoveredIsProtected
  BY DEF DecisionInit, CoveredIsProtected, AsStrict, AllTokenized, Deciding, Undecided
<1>4. QED
  BY <1>1, <1>2, <1>3 DEF DecisionInit, DecisionIndInv

LEMMA TickInv ==
  ASSUME DecisionIndInv, Tick
  PROVE  DecisionIndInv'
<1>1. /\ Deciding /\ ticks < MaxTicks /\ ticks' = ticks + 1
      /\ clock' = Later(clock) /\ held' = held \cap Covering(clock')
      /\ UNCHANGED <<snapshot, scoped, ctx, next, matched, answer>>
  BY DEF Tick
<1>2. clock' \in Clocks
  <2>1. clock \in Clocks /\ clock.minute \in 0 .. Day - 1 /\ clock.day \in 0 .. Week - 1
    BY DEF DecisionIndInv, DecisionTypeOK, Clocks
  <2>2. (clock.day + 1) % Week \in 0 .. Week - 1
    <3>1. clock.day + 1 \in Int
      BY <2>1
    <3>2. QED
      BY <3>1, ModRange
  <2>3. CASE clock.minute + 1 < Day
    BY <1>1, <2>1, <2>3 DEF Later, Clocks
  <2>4. CASE ~(clock.minute + 1 < Day)
    <3>1. clock' = [minute |-> 0, day |-> (clock.day + 1) % Week]
      BY <1>1, <2>4 DEF Later
    <3>2. QED
      BY <2>2, <3>1 DEF Clocks
  <2>5. QED
    BY <2>3, <2>4
<1>3. DecisionTypeOK'
  BY <1>1, <1>2 DEF DecisionIndInv, DecisionTypeOK
<1>4. held' \subseteq Covering(clock)'
  BY <1>1 DEF Covering, Covers
<1>5. HeldWasMatched'
  BY <1>1 DEF DecisionIndInv, HeldWasMatched
<1>6. CoveredIsProtected'
  BY <1>1 DEF CoveredIsProtected, AsStrict, AllTokenized, Deciding, Undecided
<1>7. QED
  BY <1>3, <1>4, <1>5, <1>6 DEF DecisionIndInv

LEMMA LookInv ==
  ASSUME DecisionIndInv, Look
  PROVE  DecisionIndInv'
<1>1. /\ Deciding /\ next <= NumRules /\ next' = next + 1
      /\ matched' = IF Matches(snapshot[next], clock) THEN matched \cup {next} ELSE matched
      /\ UNCHANGED <<snapshot, scoped, ctx, clock, ticks, held, answer>>
  BY DEF Look
<1>2. next \in 1 .. NumRules + 1 /\ snapshot \in [Indices -> Rules] /\ clock \in Clocks
  BY DEF DecisionIndInv, DecisionTypeOK
<1>3. next \in Indices
  BY <1>1, <1>2 DEF Indices
<1>4. DecisionTypeOK'
  BY <1>1, <1>3 DEF DecisionIndInv, DecisionTypeOK, Indices
<1>5. held' \subseteq Covering(clock)'
  BY <1>1 DEF DecisionIndInv, Covering, Covers
<1>6. next \in held => next \in matched'
  BY <1>1, <1>2, <1>3, CoversIsMatched DEF DecisionIndInv, Covering
<1>7. HeldWasMatched'
  <2> SUFFICES ASSUME NEW i \in held, scoped, i < next + 1
               PROVE  i \in matched'
    BY <1>1 DEF HeldWasMatched
  <2>1. i \in Int
    BY DEF DecisionIndInv, DecisionTypeOK, Indices
  <2>2. i < next \/ i = next
    BY <1>2, <2>1
  <2>3. i < next => i \in matched
    BY DEF DecisionIndInv, HeldWasMatched
  <2>4. QED
    BY <1>1, <1>6, <2>2, <2>3
<1>8. CoveredIsProtected'
  BY <1>1 DEF CoveredIsProtected, AsStrict, AllTokenized, Deciding, Undecided
<1>9. QED
  BY <1>4, <1>5, <1>7, <1>8 DEF DecisionIndInv

\* When every rule has been looked at, those that cover the request are among
\* those that matched.
LEMMA DecideInv ==
  ASSUME DecisionIndInv, Decide
  PROVE  DecisionIndInv'
<1> SUFFICES ASSUME NEW effect, effect = Strongest
             PROVE  DecisionIndInv'
  OBVIOUS
<1>1. /\ scoped /\ next > NumRules
      /\ answer' = [effect |-> effect,
                    tokenize |-> IF effect = "TOKENIZE" THEN TokenizeTypes ELSE {}]
      /\ UNCHANGED <<snapshot, scoped, ctx, clock, ticks, next, matched, held>>
  BY DEF Decide
<1>2. held \subseteq matched
  <2>1. \A i \in held : i \in 1 .. NumRules
    BY DEF DecisionIndInv, DecisionTypeOK, Indices
  <2>2. next \in Int
    BY DEF DecisionIndInv, DecisionTypeOK
  <2>3. \A i \in held : i < next
    BY <1>1, <2>1, <2>2
  <2>4. QED
    BY <1>1, <2>3 DEF DecisionIndInv, HeldWasMatched
<1>3. snapshot \in [Indices -> Rules] /\ matched \subseteq Indices
  BY DEF DecisionIndInv, DecisionTypeOK
<1>4. /\ effect \in Effects
      /\ \A i \in matched : effectWeight[snapshot[i].effect] <= effectWeight[effect]
  <2>1. CASE matched = {}
    BY <2>1 DEF Strongest, Effects
  <2>2. CASE matched # {}
    BY <1>3, <2>2, StrongestIsStrongest
  <2>3. QED
    BY <2>1, <2>2
<1>5. TokenizeTypes \subseteq ctx.types
  BY DEF TokenizeTypes
<1>6. DecisionTypeOK'
  BY <1>1, <1>4, <1>5 DEF DecisionIndInv, DecisionTypeOK
<1>7. held' \subseteq Covering(clock)' /\ HeldWasMatched'
  BY <1>1 DEF DecisionIndInv, Covering, Covers, HeldWasMatched
<1>8. AsStrict'
  <2>1. \A i \in held : effectWeight[snapshot[i].effect] \in Nat
    BY <1>2, <1>3 DEF effectWeight, Effects
  <2>2. effectWeight[effect] \in Nat
    BY <1>4 DEF effectWeight, Effects
  <2>3. \A i \in held : effectWeight[effect] >= effectWeight[snapshot[i].effect]
    BY <1>2, <1>4, <2>1, <2>2
  <2>4. QED
    BY <1>1, <2>3 DEF AsStrict
<1>9. AllTokenized'
  BY <1>1, <1>2 DEF AllTokenized, TokenizeTypes
<1>10. QED
  BY <1>6, <1>7, <1>8, <1>9 DEF DecisionIndInv, CoveredIsProtected

LEMMA RefuseScopeInv ==
  ASSUME DecisionIndInv, RefuseScope
  PROVE  DecisionIndInv'
<1>1. /\ answer' = [effect |-> "BLOCK", tokenize |-> {}]
      /\ UNCHANGED <<snapshot, scoped, ctx, clock, ticks, next, matched, held>>
  BY DEF RefuseScope
<1>2. DecisionTypeOK'
  BY <1>1 DEF DecisionIndInv, DecisionTypeOK, Effects
<1>3. held' \subseteq Covering(clock)' /\ HeldWasMatched'
  BY <1>1 DEF DecisionIndInv, Covering, Covers, HeldWasMatched
<1>4. \A i \in held : effectWeight["BLOCK"] >= effectWeight[snapshot[i].effect]
  <2>1. \A i \in held : snapshot[i].effect \in Effects
    BY DEF DecisionIndInv, DecisionTypeOK
  <2>2. QED
    BY <2>1 DEF effectWeight, Effects
<1>5. CoveredIsProtected'
  BY <1>1, <1>4 DEF CoveredIsProtected, AsStrict, AllTokenized
<1>6. QED
  BY <1>2, <1>3, <1>5 DEF DecisionIndInv

LEMMA DecisionNextInv == DecisionIndInv /\ [DecisionNext]_decisionVars => DecisionIndInv'
<1> SUFFICES ASSUME DecisionIndInv, [DecisionNext]_decisionVars
             PROVE  DecisionIndInv'
  OBVIOUS
<1>1. CASE DecisionNext
  BY <1>1, TickInv, LookInv, DecideInv, RefuseScopeInv DEF DecisionNext
<1>2. CASE UNCHANGED decisionVars
  <2>1. DecisionTypeOK' /\ HeldWasMatched'
    BY <1>2 DEF decisionVars, DecisionIndInv, DecisionTypeOK, HeldWasMatched
  <2>2. held' \subseteq Covering(clock)'
    BY <1>2 DEF decisionVars, DecisionIndInv, Covering, Covers
  <2>3. CoveredIsProtected'
    BY <1>2 DEF decisionVars, DecisionIndInv, CoveredIsProtected, AsStrict, AllTokenized, Deciding
  <2>4. QED
    BY <2>1, <2>2, <2>3 DEF DecisionIndInv
<1>3. QED
  BY <1>1, <1>2

\* Every variable of the decision keeps its type.
THEOREM DecisionTypeCorrect == DecisionSpec => []DecisionTypeOK
<1>1. DecisionIndInv => DecisionTypeOK
  BY DEF DecisionIndInv
<1>2. QED
  BY <1>1, DecisionInitInv, DecisionNextInv, PTL DEF DecisionSpec

\* The decision is at least as strict as every rule that covers the request
\* all the time it takes, and replaces what such rules ask to replace.
\* (evaluatePolicy)
THEOREM CoveredRequestsAreProtected == DecisionSpec => []CoveredIsProtected
<1>1. DecisionIndInv => CoveredIsProtected
  BY DEF DecisionIndInv
<1>2. QED
  BY <1>1, DecisionInitInv, DecisionNextInv, PTL DEF DecisionSpec
-----------------------------------------------------------------------------
(* The servers of the MCP client.                                          *)

LEMMA McpInitInv == McpInit => McpIndInv
<1> SUFFICES ASSUME McpInit PROVE McpIndInv
  OBVIOUS
<1>1. McpTypeOK
  BY DEF McpInit, McpTypeOK, CallSteps
<1>2. StepsFitKinds /\ OneAtATime /\ HalfWayIsKnown
  BY DEF McpInit, StepsFitKinds, OneAtATime, HalfWayIsKnown, Active, Touches, Starts, Stops,
         OfOneServer
<1>3. QED
  BY <1>1, <1>2 DEF McpIndInv

\* What a call that is under way knows, and what its next step leaves alone.
LEMMA McpStepOthers ==
  ASSUME McpIndInv, NEW c \in Calls, Active(c), NEW to \in CallSteps \ {"new"},
         callPc' = [callPc EXCEPT ![c] = to], op' = op, raced' = raced
  PROVE  /\ op[c] \in Ops /\ op[c].server \in Servers /\ callPc'[c] = to
         /\ \A d \in Calls \ {c} : callPc'[d] = callPc[d]
         /\ OneAtATime'
<1>1. op[c] \in Ops /\ op[c].server \in Servers
  BY DEF McpIndInv, StepsFitKinds, Ops
<1>2. callPc'[c] = to /\ \A d \in Calls \ {c} : callPc'[d] = callPc[d]
  BY DEF McpIndInv, McpTypeOK
<1>3. \A d \in Calls, s \in Servers : Touches(d, s)' => Touches(d, s)
  BY <1>2 DEF Touches, Active
<1>4. OneAtATime'
  BY <1>3 DEF McpIndInv, OneAtATime
<1>5. QED
  BY <1>1, <1>2, <1>4

\* A step that neither starts nor stops a server nor ends what does.
LEMMA QuietStepInv ==
  ASSUME McpIndInv, NEW c \in Calls, NEW to \in CallSteps \ {"new", "insert", "closing", "forget"},
         Active(c), callPc[c] \notin {"insert", "closing", "forget"},
         callPc' = [callPc EXCEPT ![c] = to], registered' \subseteq Servers,
         UNCHANGED <<running, tools, op, raced>>,
         to \in OfOneServer => op[c].kind \in Changes \ {"stopAll"},
         to \in {"drain", "draining"} => op[c].kind = "stopAll",
         to \in {"validate", "validating", "send", "answer"} => op[c].kind # "stopAll"
  PROVE  McpIndInv'
<1>1. /\ op[c] \in Ops /\ op[c].server \in Servers /\ callPc'[c] = to
      /\ \A d \in Calls \ {c} : callPc'[d] = callPc[d]
      /\ OneAtATime'
  BY McpStepOthers
<1>2. McpTypeOK'
  BY DEF McpIndInv, McpTypeOK
<1>3. StepsFitKinds'
  BY <1>1 DEF McpIndInv, StepsFitKinds, Active
<1>4. \A d \in Calls, s \in Servers :
        (Starts(d, s)' <=> Starts(d, s)) /\ (Stops(d, s)' <=> Stops(d, s))
  BY <1>1 DEF Starts, Stops
<1>5. HalfWayIsKnown'
  BY <1>4 DEF McpIndInv, HalfWayIsKnown
<1>6. QED
  BY <1>1, <1>2, <1>3, <1>5 DEF McpIndInv

\* A call begins: whoever works on one of its servers races with it.
LEMMA BeginCallInv ==
  ASSUME McpIndInv, NEW c \in Calls, NEW k \in CallKinds, NEW s \in Servers, Begin(c, k, s)
  PROVE  McpIndInv'
<1> DEFINE new == [kind |-> k, server |-> s]
           met == {t \in Servers : /\ k \in Changes /\ (t = s \/ k = "stopAll")
                                   /\ \E d \in Calls : Touches(d, t)}
<1>1. /\ callPc[c] = "new" /\ callPc' = [callPc EXCEPT ![c] = First(k)]
      /\ op' = [op EXCEPT ![c] = new] /\ raced' = raced \cup met
      /\ UNCHANGED <<registered, running, tools>>
  BY DEF Begin, AtStep, Goto
<1>2. \/ First(k) \in {"lookup", "unlink", "ask"} /\ k \in Changes \ {"stopAll"}
      \/ First(k) = "drain" /\ k = "stopAll"
      \/ First(k) \in {"validate", "send"} /\ k # "stopAll"
  <2>1. CASE k \in {"connect", "restart"}
    <3>1. First(k) = "lookup"
      BY <2>1 DEF First
    <3>2. QED
      BY <2>1, <3>1 DEF Changes
  <2>2. CASE k \in {"disconnect"}
    <3>1. First(k) = "unlink"
      BY <2>2 DEF First
    <3>2. QED
      BY <2>2, <3>1 DEF Changes
  <2>3. CASE k \in {"unregister"}
    <3>1. First(k) = "ask"
      BY <2>3 DEF First
    <3>2. QED
      BY <2>3, <3>1 DEF Changes
  <2>4. CASE k \in {"stopAll"}
    <3>1. First(k) = "drain"
      BY <2>4 DEF First
    <3>2. QED
      BY <2>4, <3>1 DEF Changes
  <2>5. CASE k \in {"callTool"}
    <3>1. First(k) = "validate"
      BY <2>5 DEF First
    <3>2. QED
      BY <2>5, <3>1 DEF Changes
  <2>6. CASE k \in {"ping", "shutdown"}
    <3>1. First(k) = "send"
      BY <2>6 DEF First
    <3>2. QED
      BY <2>6, <3>1 DEF Changes
  <2>7. QED
    BY <2>1, <2>2, <2>3, <2>4, <2>5, <2>6 DEF CallKinds, Changes
<1>3. /\ callPc'[c] = First(k) /\ op'[c] = new
      /\ \A d \in Calls \ {c} : callPc'[d] = callPc[d] /\ op'[d] = op[d]
  BY <1>1 DEF McpIndInv, McpTypeOK
<1>4. McpTypeOK'
  <2>1. First(k) \in CallSteps /\ new \in Ops
    BY <1>2 DEF CallSteps, Ops
  <2>2. QED
    BY <1>1, <2>1 DEF McpIndInv, McpTypeOK, Ops
<1>5. StepsFitKinds'
  BY <1>2, <1>3 DEF McpIndInv, StepsFitKinds, Active, Ops, OfOneServer
<1>6. /\ \A d \in Calls \ {c}, t \in Servers : Touches(d, t)' <=> Touches(d, t)
      /\ \A t \in Servers : Touches(c, t)' => k \in Changes /\ (t = s \/ k = "stopAll")
      /\ \A t \in Servers : ~Touches(c, t)
  BY <1>1, <1>3 DEF Touches, Active
<1>7. OneAtATime'
  BY <1>1, <1>6 DEF McpIndInv, OneAtATime
<1>8. HalfWayIsKnown'
  <2>1. \A d \in Calls, t \in Servers : /\ Starts(d, t)' <=> Starts(d, t)
                                        /\ Stops(d, t)' <=> Stops(d, t)
    BY <1>1, <1>2, <1>3 DEF Starts, Stops
  <2>2. QED
    BY <1>1, <2>1 DEF McpIndInv, HalfWayIsKnown
<1>9. QED
  BY <1>4, <1>5, <1>7, <1>8 DEF McpIndInv

LEMMA QuietCallsInv ==
  ASSUME McpIndInv, NEW c \in Calls,
         \/ Lookup(c) \/ Ask(c) \/ Erase(c) \/ Validate(c) \/ Validated(c)
         \/ SendMessage(c) \/ Reply(c) \/ Drain(c) \/ Drained(c)
         \/ Open(c)
  PROVE  McpIndInv'
<1> USE DEF AtStep, Goto, Active, OfOneServer, CallSteps
<1>1. registered \subseteq Servers /\ callPc[c] \in CallSteps
  BY DEF McpIndInv, McpTypeOK
<1>2. /\ callPc[c] \in OfOneServer => op[c].kind \in Changes \ {"stopAll"}
      /\ callPc[c] \in {"drain", "draining"} => op[c].kind = "stopAll"
      /\ callPc[c] \in {"validate", "validating", "send", "answer"} => op[c].kind # "stopAll"
  BY DEF McpIndInv, StepsFitKinds
<1>3. CASE Lookup(c) \/ Ask(c) \/ Open(c)
  BY <1>1, <1>2, <1>3, QuietStepInv DEF Lookup, Ask, Open, Opened
<1>4. CASE Erase(c)
  <2>1. registered' \subseteq Servers /\ callPc[c] = "erase"
    BY <1>1, <1>4 DEF Erase
  <2>2. QED
    BY <1>4, <2>1, QuietStepInv DEF Erase
<1>5. CASE Validate(c)
  BY <1>1, <1>2, <1>5, QuietStepInv DEF Validate
<1>6. CASE Drain(c) \/ Drained(c)
  BY <1>1, <1>2, <1>6, QuietStepInv DEF Drain, Drained
<1>7. CASE SendMessage(c) \/ Reply(c)
  BY <1>1, <1>2, <1>7, QuietStepInv DEF SendMessage, Reply, AfterSend, Changes
<1>8. CASE Validated(c)
  BY <1>1, <1>2, <1>8, QuietStepInv DEF Validated
<1>9. QED
  BY <1>3, <1>4, <1>5, <1>6, <1>7, <1>8

\* While no other call is at work on a server, and none raced, what its own
\* call does decides whether its tools match.
LEMMA OwnerDecides ==
  ASSUME McpIndInv, NEW c \in Calls, callPc[c] \in OfOneServer,
         NEW to \in CallSteps \ {"new"}, callPc' = [callPc EXCEPT ![c] = to],
         op' = op, raced' = raced,
         NEW s, s = op[c].server,
         running' \ {s} = running \ {s}, tools' \ {s} = tools \ {s},
         s \notin raced =>
           /\ to = "insert" => s \in tools'
           /\ to \in {"closing", "forget"} => s \notin running'
           /\ to \notin {"insert", "closing", "forget"} => (s \in tools' <=> s \in running')
  PROVE  HalfWayIsKnown'
<1>1. /\ op[c] \in Ops /\ s \in Servers /\ callPc'[c] = to
      /\ \A d \in Calls \ {c} : callPc'[d] = callPc[d]
  BY McpStepOthers DEF Active, OfOneServer
<1>2. Touches(c, s)
  BY DEF McpIndInv, StepsFitKinds, Touches, Active, OfOneServer
<1>3. \A d \in Calls, t \in Servers : Starts(d, t) \/ Stops(d, t) => Touches(d, t)
  BY DEF McpIndInv, StepsFitKinds, Touches, Active, OfOneServer, Starts, Stops
<1> SUFFICES ASSUME NEW t \in Servers \ raced
             PROVE  /\ \A d \in Calls : /\ Starts(d, t)' => t \in tools'
                                        /\ Stops(d, t)' => t \notin running'
                    /\ (\A d \in Calls : ~Starts(d, t)' /\ ~Stops(d, t)')
                       => (t \in tools' <=> t \in running')
  BY DEF HalfWayIsKnown
<1>4. CASE t = s
  <2>1. \A d \in Calls : d # c => ~Starts(d, t) /\ ~Stops(d, t)
    BY <1>2, <1>3, <1>4 DEF McpIndInv, OneAtATime
  <2>2. \A d \in Calls : d # c => ~Starts(d, t)' /\ ~Stops(d, t)'
    BY <1>1, <2>1 DEF Starts, Stops
  <2>3. /\ Starts(c, t)' <=> to = "insert"
        /\ Stops(c, t)' <=> to \in {"closing", "forget"}
    BY <1>1, <1>4 DEF Starts, Stops
  <2>4. QED
    BY <1>4, <2>2, <2>3
<1>5. CASE t # s
  <2>1. \A d \in Calls : (Starts(d, t)' <=> Starts(d, t)) /\ (Stops(d, t)' <=> Stops(d, t))
    BY <1>1, <1>5 DEF Starts, Stops
  <2>2. (t \in tools' <=> t \in tools) /\ (t \in running' <=> t \in running)
    BY <1>5
  <2>3. QED
    BY <2>1, <2>2 DEF McpIndInv, HalfWayIsKnown
<1>6. QED
  BY <1>4, <1>5

\* Whether the tools match is known of the server a call begins to work on.
LEMMA OwnerKnows ==
  ASSUME McpIndInv, NEW c \in Calls, callPc[c] \in OfOneServer, op[c].server \notin raced
  PROVE  LET s == op[c].server
         IN  /\ callPc[c] = "insert" => s \in tools
             /\ callPc[c] \in {"closing", "forget"} => s \notin running
             /\ callPc[c] \notin {"insert", "closing", "forget"} => (s \in tools <=> s \in running)
<1> SUFFICES ASSUME NEW s, s = op[c].server
             PROVE  /\ callPc[c] = "insert" => s \in tools
                    /\ callPc[c] \in {"closing", "forget"} => s \notin running
                    /\ callPc[c] \notin {"insert", "closing", "forget"}
                       => (s \in tools <=> s \in running)
  OBVIOUS
<1>1. Touches(c, s) /\ s \in Servers \ raced
  BY DEF McpIndInv, StepsFitKinds, Ops, Touches, Active, OfOneServer
<1>2. \A d \in Calls : Starts(d, s) \/ Stops(d, s) => Touches(d, s)
  BY DEF McpIndInv, StepsFitKinds, Touches, Active, OfOneServer, Starts, Stops
<1>3. \A d \in Calls : Starts(d, s) \/ Stops(d, s) => d = c
  BY <1>1, <1>2 DEF McpIndInv, OneAtATime
<1>4. /\ Starts(c, s) <=> callPc[c] = "insert"
      /\ Stops(c, s) <=> callPc[c] \in {"closing", "forget"}
  BY DEF Starts, Stops
<1>5. QED
  BY <1>1, <1>3, <1>4 DEF McpIndInv, HalfWayIsKnown

\* The steps that start and stop a server: the call that takes them is the
\* only one at work on it, or the server raced.
LEMMA ServerStepsInv ==
  ASSUME McpIndInv, NEW c \in Calls,
         Register(c) \/ Insert(c) \/ Unlink(c) \/ Closed(c)
  PROVE  McpIndInv'
<1> SUFFICES ASSUME NEW s, s = op[c].server
             PROVE  McpIndInv'
  OBVIOUS
<1>1. callPc[c] \in OfOneServer /\ Active(c)
  BY DEF Register, Insert, Unlink, Closed, AtStep, OfOneServer, Active
<1>2. /\ s \in Servers /\ op[c] \in Ops /\ op[c].kind \in Changes \ {"stopAll"}
  BY <1>1 DEF McpIndInv, StepsFitKinds, Ops
<1>3. PICK to \in {"insert", "done", "closing", "forget"} :
        /\ callPc' = [callPc EXCEPT ![c] = to]
        /\ op' = op /\ raced' = raced /\ registered' = registered
        /\ running' \ {s} = running \ {s} /\ tools' \ {s} = tools \ {s}
        /\ running' \subseteq Servers /\ tools' \subseteq Servers
        /\ s \notin raced =>
             /\ to = "insert" => s \in tools'
             /\ to \in {"closing", "forget"} => s \notin running'
             /\ to \notin {"insert", "closing", "forget"} => (s \in tools' <=> s \in running')
  <2>1. running \subseteq Servers /\ tools \subseteq Servers
    BY DEF McpIndInv, McpTypeOK
  <2>2. CASE Register(c)
    <3>1. /\ callPc' = [callPc EXCEPT ![c] = "insert"]
          /\ tools' = tools \cup {s} /\ UNCHANGED <<running, op, raced, registered>>
      BY <2>2 DEF Register, Goto
    <3>2. QED
      BY <1>2, <2>1, <3>1
  <2>3. CASE Insert(c)
    <3>1. /\ callPc[c] = "insert" /\ callPc' = [callPc EXCEPT ![c] = "done"]
          /\ running' = running \cup {s} /\ UNCHANGED <<tools, op, raced, registered>>
      BY <2>3 DEF Insert, Goto, AtStep
    <3>2. s \notin raced => s \in tools
      BY <1>1, <3>1, OwnerKnows
    <3>3. QED
      BY <1>2, <2>1, <3>1, <3>2
  <2>4. CASE Unlink(c)
    <3>1. /\ \E to \in {"closing", "forget"} : callPc' = [callPc EXCEPT ![c] = to]
          /\ running' = running \ {s} /\ UNCHANGED <<tools, op, raced, registered>>
      BY <2>4 DEF Unlink, Goto
    <3>2. QED
      BY <1>2, <2>1, <3>1
  <2>5. CASE Closed(c)
    <3>1. /\ callPc[c] = "closing" /\ callPc' = [callPc EXCEPT ![c] = "forget"]
          /\ UNCHANGED <<running, tools, op, raced, registered>>
      BY <2>5 DEF Closed, Goto, AtStep
    <3>2. s \notin raced => s \notin running
      BY <1>1, <3>1, OwnerKnows
    <3>3. QED
      BY <2>1, <3>1, <3>2
  <2>6. QED
    BY <2>2, <2>3, <2>4, <2>5
<1>4. to \in CallSteps \ {"new"}
  BY DEF CallSteps
<1>5. HalfWayIsKnown'
  BY <1>1, <1>3, <1>4, OwnerDecides
<1>6. /\ callPc'[c] = to /\ \A d \in Calls \ {c} : callPc'[d] = callPc[d]
      /\ OneAtATime'
  BY <1>1, <1>3, <1>4, McpStepOthers
<1>7. McpTypeOK'
  BY <1>3, <1>4 DEF McpIndInv, McpTypeOK
<1>8. StepsFitKinds'
  BY <1>2, <1>3, <1>6 DEF McpIndInv, StepsFitKinds, Active, OfOneServer
<1>9. QED
  BY <1>5, <1>6, <1>7, <1>8 DEF McpIndInv

\* The tools of a server that stopped are forgotten; a restart begins anew.
LEMMA ForgetInv ==
  ASSUME McpIndInv, NEW c \in Calls, Forget(c)
  PROVE  McpIndInv'
<1> SUFFICES ASSUME NEW s, s = op[c].server, NEW k, k = op[c].kind
             PROVE  McpIndInv'
  OBVIOUS
<1>1. /\ callPc[c] = "forget" /\ tools' = tools \ {s}
      /\ op' = IF k = "restart" THEN [op EXCEPT ![c].kind = "connect"] ELSE op
      /\ UNCHANGED <<registered, running, raced>>
  BY DEF Forget, AtStep
<1>2. /\ s \in Servers /\ op[c] \in Ops /\ k \in Changes \ {"stopAll"}
  BY <1>1 DEF McpIndInv, StepsFitKinds, Ops, Active, OfOneServer
<1>3. PICK to \in {"lookup", "erase", "done"} : callPc' = [callPc EXCEPT ![c] = to]
  <2>1. CASE k = "restart"
    BY <2>1 DEF Forget, Goto
  <2>2. CASE k = "unregister"
    BY <2>2 DEF Forget, Goto
  <2>3. CASE k \notin {"restart", "unregister"}
    BY <2>3 DEF Forget, Goto
  <2>4. QED
    BY <2>1, <2>2, <2>3
<1>4. /\ callPc'[c] = to
      /\ \A d \in Calls \ {c} : callPc'[d] = callPc[d] /\ op'[d] = op[d]
  BY <1>1, <1>3 DEF McpIndInv, McpTypeOK
<1>5. op'[c] \in Ops /\ op'[c].server = s /\ op'[c].kind \in Changes \ {"stopAll"}
  <2>1. CASE k = "restart"
    <3>1. op'[c] = [op[c] EXCEPT !.kind = "connect"]
      BY <1>1, <2>1 DEF McpIndInv, McpTypeOK
    <3>2. QED
      BY <1>2, <3>1 DEF Ops, CallKinds, Changes
  <2>2. CASE k # "restart"
    BY <1>1, <1>2, <2>2
  <2>3. QED
    BY <2>1, <2>2
<1>6. McpTypeOK'
  <2>1. op' \in [Calls -> Ops \cup {NoOp}]
    <3>1. DOMAIN op' = Calls /\ op' = [d \in Calls |-> op'[d]]
      BY <1>1 DEF McpIndInv, McpTypeOK
    <3>2. \A d \in Calls : op'[d] \in Ops \cup {NoOp}
      BY <1>4, <1>5 DEF McpIndInv, McpTypeOK, Ops
    <3>3. QED
      BY <3>1, <3>2
  <2>2. callPc' \in [Calls -> CallSteps]
    BY <1>3 DEF McpIndInv, McpTypeOK, CallSteps
  <2>3. QED
    BY <1>1, <2>1, <2>2 DEF McpIndInv, McpTypeOK, Ops
<1>7. StepsFitKinds'
  BY <1>3, <1>4, <1>5 DEF McpIndInv, StepsFitKinds, Active
<1>8. \A d \in Calls, t \in Servers : Touches(d, t)' => Touches(d, t)
  BY <1>1, <1>2, <1>4, <1>5 DEF Touches, Active
<1>9. OneAtATime'
  BY <1>1, <1>8 DEF McpIndInv, OneAtATime
<1>10. HalfWayIsKnown'
  <2> SUFFICES ASSUME NEW t \in Servers \ raced
               PROVE  /\ \A d \in Calls : /\ Starts(d, t)' => t \in tools'
                                          /\ Stops(d, t)' => t \notin running
                      /\ (\A d \in Calls : ~Starts(d, t)' /\ ~Stops(d, t)')
                         => (t \in tools' <=> t \in running)
    BY <1>1 DEF HalfWayIsKnown
  <2>1. CASE t = s
    <3>1. t \notin running
      BY <1>1, <2>1, OwnerKnows DEF OfOneServer
    <3>2. \A d \in Calls : Starts(d, t) \/ Stops(d, t) => Touches(d, t)
      BY DEF McpIndInv, StepsFitKinds, Touches, Active, OfOneServer, Starts, Stops
    <3>3. Touches(c, t)
      BY <1>1, <1>2, <2>1 DEF Touches, Active
    <3>4. \A d \in Calls : ~Starts(d, t)' /\ ~Stops(d, t)'
      BY <1>3, <1>4, <3>2, <3>3 DEF McpIndInv, OneAtATime, Starts, Stops
    <3>5. QED
      BY <1>1, <2>1, <3>1, <3>4
  <2>2. CASE t # s
    <3>1. \A d \in Calls : (Starts(d, t)' <=> Starts(d, t)) /\ (Stops(d, t)' <=> Stops(d, t))
      BY <1>3, <1>4, <1>5, <2>2 DEF Starts, Stops
    <3>2. QED
      BY <1>1, <2>2, <3>1 DEF McpIndInv, HalfWayIsKnown
  <2>3. QED
    BY <2>1, <2>2
<1>11. QED
  BY <1>6, <1>7, <1>9, <1>10 DEF McpIndInv

\* stop_all takes a server and its tools at once.
LEMMA DrainOneInv ==
  ASSUME McpIndInv, NEW c \in Calls, NEW s \in Servers, DrainOne(c, s)
  PROVE  McpIndInv'
<1>1. /\ callPc[c] = "draining" /\ running' = running \ {s} /\ tools' = tools \ {s}
      /\ UNCHANGED <<registered, op, callPc, raced>>
  BY DEF DrainOne, AtStep
<1>2. McpTypeOK' /\ StepsFitKinds' /\ OneAtATime'
  BY <1>1 DEF McpIndInv, McpTypeOK, StepsFitKinds, OneAtATime, Touches, Active
<1>3. Touches(c, s)
  BY <1>1 DEF McpIndInv, StepsFitKinds, Touches, Active, Changes
<1>4. \A d \in Calls, t \in Servers : /\ (Starts(d, t)' <=> Starts(d, t))
                                      /\ (Stops(d, t)' <=> Stops(d, t))
                                      /\ Starts(d, t) \/ Stops(d, t) => Touches(d, t) /\ d # c
  BY <1>1 DEF McpIndInv, StepsFitKinds, Touches, Active, OfOneServer, Starts, Stops
<1>5. s \notin raced => \A d \in Calls : ~Starts(d, s) /\ ~Stops(d, s)
  BY <1>3, <1>4 DEF McpIndInv, OneAtATime
<1>6. HalfWayIsKnown'
  BY <1>1, <1>4, <1>5 DEF McpIndInv, HalfWayIsKnown
<1>7. QED
  BY <1>2, <1>6 DEF McpIndInv

LEMMA McpNextInv == McpIndInv /\ [McpNext]_mcpVars => McpIndInv'
<1> SUFFICES ASSUME McpIndInv, [McpNext]_mcpVars
             PROVE  McpIndInv'
  OBVIOUS
<1>1. ASSUME NEW c \in Calls, Step(c)
      PROVE  McpIndInv'
  BY <1>1, QuietCallsInv, ServerStepsInv, ForgetInv, DrainOneInv DEF Step
<1>2. ASSUME NEW c \in Calls, NEW k \in CallKinds, NEW s \in Servers, Begin(c, k, s)
      PROVE  McpIndInv'
  BY <1>2, BeginCallInv
<1>3. CASE UNCHANGED mcpVars
  BY <1>3 DEF mcpVars, McpIndInv, McpTypeOK, StepsFitKinds, OneAtATime, HalfWayIsKnown, Touches,
              Active, Starts, Stops
<1>4. QED
  BY <1>1, <1>2, <1>3 DEF McpNext

\* Every variable of the MCP servers keeps its type.
THEOREM McpTypeCorrect == McpSpec => []McpTypeOK
<1>1. McpIndInv => McpTypeOK
  BY DEF McpIndInv
<1>2. QED
  BY <1>1, McpInitInv, McpNextInv, PTL DEF McpSpec

\* Once no call is at work on a server, its tools are listed exactly when it
\* runs, unless two changes of it met. (lifecycle.rs)
THEOREM ToolsMatch == McpSpec => []ToolsMatchRunning
<1>1. ASSUME McpIndInv
      PROVE  ToolsMatchRunning
  <2>1. \A d \in Calls, s \in Servers : Starts(d, s) \/ Stops(d, s) => Touches(d, s)
    BY <1>1 DEF McpIndInv, StepsFitKinds, Touches, Active, OfOneServer, Starts, Stops
  <2>2. QED
    BY <1>1, <2>1 DEF McpIndInv, HalfWayIsKnown, ToolsMatchRunning
<1>2. QED
  BY <1>1, McpInitInv, McpNextInv, PTL DEF McpSpec

\* stop_all, which holds `running`, waits for the look at a registry of a tool
\* call; that look, a server that is spoken to and one that closes wait for
\* nothing: no circle of any number of calls closes.  (lifecycle.rs, client.rs)
THEOREM CallsNeverDeadlock == McpSpec => []NoCircularCalls
<1>1. NoCircularCalls
  <2> SUFFICES ASSUME NEW D \in SUBSET Calls, D # {}
               PROVE  \E c \in D : \A d \in D : ~CallWaitsFor(c, d)
    BY DEF NoCircularCalls
  <2> USE DEF CallWaitsFor, ReadsTools, WritesRunning, ReadsRunning
  <2>1. CASE \E c \in D : callPc[c] \in {"validating", "closing", "answer"}
    BY <2>1
  <2>2. CASE \A c \in D : callPc[c] \notin {"validating", "closing", "answer"}
    <3>1. CASE \E c \in D : callPc[c] = "draining"
      BY <2>2, <3>1
    <3>2. CASE \A c \in D : callPc[c] # "draining"
      BY <2>2, <3>2
    <3>3. QED
      BY <3>1, <3>2
  <2>3. QED
    BY <2>1, <2>2
<1>2. QED
  BY <1>1, PTL
-----------------------------------------------------------------------------
(* The chat.                                                               *)

LEMMA ChatInitInv == ChatInit => ChatIndInv
<1> SUFFICES ASSUME ChatInit PROVE ChatIndInv
  OBVIOUS
<1>1. ChatTypeOK
  BY DEF ChatInit, ChatTypeOK
<1>2. OneCallAtATime /\ ShownOrLanded
  BY DEF ChatInit, OneCallAtATime, ShownOrLanded
<1>3. QED
  BY <1>1, <1>2 DEF ChatIndInv

\* An append reads the active session and what is shown of it.
LEMMA AppendMessageInv ==
  ASSUME ChatIndInv, NEW message \in Messages, AppendMessage(message),
         chatRunning' \in BOOLEAN,
         turn' \in [Turns -> {"typed", "asking", "suggested", "prompted", "called", "over"}],
         UNCHANGED <<active, shown, stored, loads>>
  PROVE  ChatIndInv'
<1> DEFINE new == [message |-> message, to |-> active, before |-> shown, landed |-> FALSE]
<1>1. /\ appends' = appends \cup {new}
      /\ disturbed' = (disturbed \/ appends # {} \/ \E s \in Sessions : loads[s] # NoLoad)
  BY DEF AppendMessage
<1>2. new \in Appends
  BY DEF Appends, ChatIndInv, ChatTypeOK
<1>3. new.to = active /\ new.before = shown /\ new.landed = FALSE
  OBVIOUS
<1> HIDE DEF new
<1>4. ChatTypeOK'
  BY <1>1, <1>2 DEF ChatIndInv, ChatTypeOK
<1>5. ASSUME ~disturbed'
      PROVE  OneCallAtATime' /\ ShownOrLanded'
  <2>1. ~disturbed /\ appends = {} /\ appends' = {new} /\ \A s \in Sessions : loads[s] = NoLoad
    BY <1>1, <1>5
  <2>2. OneCallAtATime'
    BY <1>3, <2>1 DEF OneCallAtATime
  <2>3. ShownOrLanded'
    BY <2>1 DEF ChatIndInv, ShownOrLanded
  <2>4. QED
    BY <2>2, <2>3
<1>6. QED
  BY <1>4, <1>5 DEF ChatIndInv

\* Steps of a turn that append nothing.
LEMMA TurnOnlyInv ==
  ASSUME ChatIndInv, chatRunning' \in BOOLEAN,
         turn' \in [Turns -> {"typed", "asking", "suggested", "prompted", "called", "over"}],
         UNCHANGED <<active, shown, stored, appends, loads, disturbed>>
  PROVE  ChatIndInv'
<1>1. ChatTypeOK'
  BY DEF ChatIndInv, ChatTypeOK
<1>2. ~disturbed' => OneCallAtATime' /\ ShownOrLanded'
  BY DEF ChatIndInv, OneCallAtATime, ShownOrLanded
<1>3. QED
  BY <1>1, <1>2 DEF ChatIndInv

LEMMA TurnInv ==
  ASSUME ChatIndInv, NEW t \in Turns, SendPrompt(t) \/ Continue(t) \/ Proceed(t)
  PROVE  ChatIndInv'
<1>1. /\ turn \in [Turns -> {"typed", "asking", "suggested", "prompted", "called", "over"}]
      /\ chatRunning \in BOOLEAN
  BY DEF ChatIndInv, ChatTypeOK
<1>2. /\ [turn |-> t, role |-> "user"] \in Messages
      /\ [turn |-> t, role |-> "assistant"] \in Messages
  BY DEF Messages
<1>3. CASE SendPrompt(t) \/ Suggest(t) \/ CallModel(t) \/ Throw(t)
  BY <1>1, <1>3, TurnOnlyInv DEF SendPrompt, Suggest, CallModel, Throw, Freed
<1>4. CASE NoSuggestion(t)
  BY <1>1, <1>2, <1>4, AppendMessageInv DEF NoSuggestion, Prompt
<1>5. CASE Continue(t)
  <2>1. chatRunning' = TRUE /\ UNCHANGED <<active, shown, stored, loads>>
    BY <1>5 DEF Continue
  <2>2. CASE chatRunning
    BY <1>1, <1>5, <2>1, <2>2, TurnOnlyInv DEF Continue
  <2>3. CASE ~chatRunning
    BY <1>1, <1>2, <1>5, <2>1, <2>3, AppendMessageInv DEF Continue, Prompt
  <2>4. QED
    BY <2>2, <2>3
<1>6. CASE AnswerTurn(t)
  BY <1>1, <1>2, <1>6, AppendMessageInv DEF AnswerTurn
<1>7. QED
  BY <1>3, <1>4, <1>5, <1>6 DEF Proceed

\* The store takes a message.
LEMMA LandInv ==
  ASSUME ChatIndInv, NEW a \in appends, Land(a)
  PROVE  ChatIndInv'
<1> DEFINE landed == [a EXCEPT !.landed = TRUE]
<1>1. /\ stored' = [stored EXCEPT ![a.to] = @ \cup {a.message}]
      /\ appends' = (appends \ {a}) \cup {landed}
      /\ UNCHANGED <<chatRunning, active, shown, turn, loads, disturbed>>
  BY DEF Land
<1>2. a \in Appends
  BY DEF ChatIndInv, ChatTypeOK
<1>3. /\ landed \in Appends /\ landed.to = a.to /\ landed.before = a.before
      /\ landed.message = a.message /\ landed.landed = TRUE
      /\ a.to \in Sessions /\ a.message \in Messages
  BY <1>2 DEF Appends
<1> HIDE DEF landed
<1>4. ChatTypeOK'
  BY <1>1, <1>3 DEF ChatIndInv, ChatTypeOK
<1>5. ASSUME ~disturbed
      PROVE  OneCallAtATime' /\ ShownOrLanded'
  <2>1. /\ appends = {a} /\ a.to = active /\ a.before = shown
        /\ \A s \in Sessions : loads[s] = NoLoad
    BY <1>5 DEF ChatIndInv, OneCallAtATime
  <2>2. appends' = {landed} /\ stored'[active] = stored[active] \cup {a.message}
    BY <1>1, <1>3, <2>1 DEF ChatIndInv, ChatTypeOK
  <2>3. OneCallAtATime'
    BY <1>1, <1>3, <2>1, <2>2 DEF OneCallAtATime
  <2>4. stored[active] = shown
    <3>1. ~a.landed
      BY DEF Land
    <3>2. QED
      BY <1>5, <2>1, <3>1 DEF ChatIndInv, ShownOrLanded
  <2>5. ShownOrLanded'
    BY <1>1, <1>3, <2>2, <2>4 DEF ShownOrLanded
  <2>6. QED
    BY <2>3, <2>5
<1>6. QED
  BY <1>1, <1>4, <1>5 DEF ChatIndInv

\* The continuation shows what was stored.
LEMMA ShowInv ==
  ASSUME ChatIndInv, NEW a \in appends, Show(a)
  PROVE  ChatIndInv'
<1>1. /\ a.landed /\ shown' = a.before \cup {a.message} /\ appends' = appends \ {a}
      /\ UNCHANGED <<chatRunning, active, stored, turn, loads, disturbed>>
  BY DEF Show, MayShow
<1>2. a.before \subseteq Messages /\ a.message \in Messages
  BY DEF ChatIndInv, ChatTypeOK, Appends
<1>3. ChatTypeOK'
  BY <1>1, <1>2 DEF ChatIndInv, ChatTypeOK
<1>4. ASSUME ~disturbed
      PROVE  OneCallAtATime' /\ ShownOrLanded'
  <2>1. /\ appends = {a} /\ a.before = shown /\ a.message \in stored[active]
        /\ \A s \in Sessions : loads[s] = NoLoad
    BY <1>1, <1>4 DEF ChatIndInv, OneCallAtATime
  <2>2. appends' = {} /\ shown' = shown \cup {a.message}
    BY <1>1, <2>1
  <2>3. OneCallAtATime'
    BY <1>1, <2>1, <2>2 DEF OneCallAtATime
  <2>4. ShownOrLanded'
    BY <1>1, <1>4, <2>1, <2>2 DEF ChatIndInv, ShownOrLanded
  <2>5. QED
    BY <2>3, <2>4
<1>5. QED
  BY <1>1, <1>3, <1>4 DEF ChatIndInv

LEMMA RejectAppendInv ==
  ASSUME ChatIndInv, NEW a \in appends, RejectAppend(a)
  PROVE  ChatIndInv'
<1>1. /\ appends' = appends \ {a} /\ disturbed' = (disturbed \/ a.landed)
      /\ UNCHANGED <<chatRunning, active, shown, stored, turn, loads>>
  BY DEF RejectAppend
<1>2. a.landed \in BOOLEAN
  BY DEF ChatIndInv, ChatTypeOK, Appends
<1>3. ChatTypeOK'
  BY <1>1, <1>2 DEF ChatIndInv, ChatTypeOK
<1>4. ASSUME ~disturbed'
      PROVE  OneCallAtATime' /\ ShownOrLanded'
  <2>1. ~disturbed /\ ~a.landed
    BY <1>1, <1>4
  <2>2. OneCallAtATime'
    BY <1>1, <2>1 DEF ChatIndInv, OneCallAtATime
  <2>3. ShownOrLanded'
    BY <1>1, <2>1 DEF ChatIndInv, ShownOrLanded
  <2>4. QED
    BY <2>2, <2>3
<1>5. QED
  BY <1>3, <1>4 DEF ChatIndInv

\* The developer activates a session.
LEMMA LoadInv ==
  ASSUME ChatIndInv, NEW s \in Sessions, Load(s) \/ Activate(s)
  PROVE  ChatIndInv'
<1>1. CASE Load(s)
  <2>1. /\ loads' = [loads EXCEPT ![s] = stored[s]] /\ disturbed' = (disturbed \/ appends # {})
        /\ UNCHANGED <<chatRunning, active, shown, stored, turn, appends>>
    BY <1>1 DEF Load
  <2>2. ChatTypeOK'
    BY <2>1 DEF ChatIndInv, ChatTypeOK
  <2>3. ~disturbed' => OneCallAtATime' /\ ShownOrLanded'
    BY <2>1 DEF ChatIndInv, ChatTypeOK, OneCallAtATime, ShownOrLanded
  <2>4. QED
    BY <2>2, <2>3 DEF ChatIndInv
<1>2. CASE Activate(s)
  <2>1. /\ loads[s] # NoLoad /\ active' = s /\ shown' = loads[s]
        /\ loads' = [loads EXCEPT ![s] = NoLoad]
        /\ UNCHANGED <<chatRunning, stored, turn, appends, disturbed>>
    BY <1>2 DEF Activate
  <2>2. ChatTypeOK'
    BY <2>1 DEF ChatIndInv, ChatTypeOK
  <2>3. ASSUME ~disturbed
        PROVE  OneCallAtATime' /\ ShownOrLanded'
    <3>1. appends = {} /\ loads[s] = stored[s]
      BY <2>1, <2>3 DEF ChatIndInv, OneCallAtATime
    <3>2. OneCallAtATime'
      BY <2>1, <2>3, <3>1 DEF ChatIndInv, ChatTypeOK, OneCallAtATime
    <3>3. ShownOrLanded'
      BY <2>1, <3>1 DEF ShownOrLanded
    <3>4. QED
      BY <3>2, <3>3
  <2>4. QED
    BY <2>1, <2>2, <2>3 DEF ChatIndInv
<1>3. QED
  BY <1>1, <1>2

LEMMA ChatNextInv == ChatIndInv /\ [ChatNext]_chatVars => ChatIndInv'
<1> SUFFICES ASSUME ChatIndInv, [ChatNext]_chatVars
             PROVE  ChatIndInv'
  OBVIOUS
<1>1. ASSUME NEW t \in Turns, SendPrompt(t) \/ Continue(t) \/ Proceed(t)
      PROVE  ChatIndInv'
  BY <1>1, TurnInv
<1>2. ASSUME NEW a \in appends, Land(a) \/ Show(a) \/ RejectAppend(a)
      PROVE  ChatIndInv'
  BY <1>2, LandInv, ShowInv, RejectAppendInv
<1>3. ASSUME NEW s \in Sessions, Load(s) \/ Activate(s)
      PROVE  ChatIndInv'
  BY <1>3, LoadInv
<1>4. CASE UNCHANGED chatVars
  BY <1>4, TurnOnlyInv DEF chatVars, ChatIndInv, ChatTypeOK
<1>5. QED
  BY <1>1, <1>2, <1>3, <1>4 DEF ChatNext

\* Every variable of the chat keeps its type.
THEOREM ChatTypeCorrect == ChatSpec => []ChatTypeOK
<1>1. ChatIndInv => ChatTypeOK
  BY DEF ChatIndInv
<1>2. QED
  BY <1>1, ChatInitInv, ChatNextInv, PTL DEF ChatSpec

\* As long as appends and loads do not overlap and none fails, what is shown
\* is what is stored, but for a message that has just landed.
\* (appendChatMessage, activate)
THEOREM ShownMessagesAreStored == ChatSpec => []ShownIsStored
<1>1. ChatIndInv => ShownIsStored
  BY DEF ChatIndInv, ShownOrLanded, ShownIsStored
<1>2. QED
  BY <1>1, ChatInitInv, ChatNextInv, PTL DEF ChatSpec

\* One turn is under way at most, and only behind the flag.
LEMMA OnePromptStep == ChatIndInv /\ OnePrompt /\ [ChatNext]_chatVars => OnePrompt'
<1> SUFFICES ASSUME ChatIndInv, OnePrompt, [ChatNext]_chatVars
             PROVE  OnePrompt'
  OBVIOUS
<1> USE DEF OnePrompt, TurnUnderWay
<1>0. turn \in [Turns -> {"typed", "asking", "suggested", "prompted", "called", "over"}]
  BY DEF ChatIndInv, ChatTypeOK
<1>1. CASE UNCHANGED <<chatRunning, turn>>
  BY <1>1
<1>2. ASSUME NEW t \in Turns, SendPrompt(t)
      PROVE  OnePrompt'
  BY <1>0, <1>2 DEF SendPrompt
<1>3. ASSUME NEW t \in Turns, Continue(t)
      PROVE  OnePrompt'
  BY <1>0, <1>3 DEF Continue, Prompt
<1>4. ASSUME NEW t \in Turns, Suggest(t) \/ NoSuggestion(t) \/ CallModel(t)
      PROVE  OnePrompt'
  BY <1>0, <1>4 DEF Suggest, NoSuggestion, Prompt, CallModel
<1>5. ASSUME NEW t \in Turns, AnswerTurn(t) \/ Throw(t)
      PROVE  OnePrompt'
  BY <1>0, <1>5 DEF AnswerTurn, Throw
<1>6. QED
  BY <1>1, <1>2, <1>3, <1>4, <1>5
  DEF ChatNext, Proceed, Land, Show, RejectAppend, Load, Activate, chatVars

LEMMA OnePromptInductive == ChatSpec => [](ChatIndInv /\ OnePrompt)
<1>1. ChatInit => OnePrompt
  BY DEF ChatInit, OnePrompt, TurnUnderWay
<1>2. QED
  BY <1>1, ChatInitInv, ChatNextInv, OnePromptStep, PTL DEF ChatSpec

\* No second prompt is under way beside the first, for any number of prompts
\* and sessions.  (runChatOrchestrator)
THEOREM PromptsGoOneAtATime == ChatSpec => []OnePrompt
  BY OnePromptInductive, PTL

\* Every other step leaves the chat free: when no prompt is under way, one can
\* be sent.  (runChatOrchestrator and its finally)
THEOREM OnlyContinuingBlocks == ChatSpec => OnlySuggestionsBlock
<1>1. ChatIndInv /\ OnePrompt /\ [ChatNext]_chatVars
      => [ChatIsFree /\ ~ChatIsFree' => \E t \in Turns : Continue(t)]_chatVars
  <2> SUFFICES ASSUME ChatIndInv, [ChatNext]_chatVars, ChatIsFree, chatVars' # chatVars,
                      \A t \in Turns : ~Continue(t)
               PROVE  ChatIsFree'
    OBVIOUS
  <2> USE DEF ChatIsFree, TurnUnderWay
  <2>0. turn \in [Turns -> {"typed", "asking", "suggested", "prompted", "called", "over"}]
    BY DEF ChatIndInv, ChatTypeOK
  <2>1. CASE UNCHANGED <<chatRunning, turn>>
    BY <2>1
  <2>2. ASSUME NEW t \in Turns, SendPrompt(t)
        PROVE  ChatIsFree'
    BY <2>0, <2>2 DEF SendPrompt
  <2>3. ASSUME NEW t \in Turns, Suggest(t) \/ NoSuggestion(t) \/ CallModel(t)
        PROVE  ChatIsFree'
    BY <2>0, <2>3 DEF Suggest, NoSuggestion, Prompt, CallModel
  <2>4. ASSUME NEW t \in Turns, AnswerTurn(t) \/ Throw(t)
        PROVE  ChatIsFree'
    BY <2>4 DEF AnswerTurn, Throw, Freed
  <2>5. QED
    BY <2>1, <2>2, <2>3, <2>4
    DEF ChatNext, Proceed, Land, Show, RejectAppend, Load, Activate
<1>2. QED
  BY <1>1, OnePromptInductive, PTL DEF ChatSpec, OnlySuggestionsBlock

\* Continuing a suggestion only puts the prompt back, and leaves the flag up
\* with nothing under way: the call that should send it never does.
\* (continueSuggestedSkill)
THEOREM ContinuingNeverSends == ChatSpec => SuggestionIsNeverSent
<1>1. ChatIndInv /\ OnePrompt /\ [ChatNext]_chatVars
      => [\A t \in Turns : Continue(t) => turn'[t] = "typed" /\ ~ChatIsFree']_chatVars
  <2> SUFFICES ASSUME ChatIndInv, OnePrompt, NEW t \in Turns, Continue(t)
               PROVE  turn'[t] = "typed" /\ ~ChatIsFree'
    OBVIOUS
  <2>0. turn \in [Turns -> {"typed", "asking", "suggested", "prompted", "called", "over"}]
    BY DEF ChatIndInv, ChatTypeOK
  <2>1. chatRunning /\ \A u \in Turns : TurnUnderWay(u) => u = t
    BY DEF OnePrompt, TurnUnderWay, Continue
  <2>2. chatRunning' = TRUE /\ turn' = [turn EXCEPT ![t] = "typed"]
    BY <2>1 DEF Continue
  <2>3. \A u \in Turns : ~TurnUnderWay(u)'
    BY <2>0, <2>1, <2>2 DEF TurnUnderWay
  <2>4. QED
    BY <2>0, <2>2, <2>3 DEF ChatIsFree
<1>2. QED
  BY <1>1, OnePromptInductive, PTL DEF ChatSpec, SuggestionIsNeverSent
-----------------------------------------------------------------------------
(* The execution of a workflow.                                            *)

USE FlowAssumption

\* The orders of a finite set list each of its elements once.
LEMMA OrderOfSet ==
  ASSUME NEW S, IsFiniteSet(S), NEW s \in Orders(S)
  PROVE  s \in Seq(S) /\ IsInjective(s) /\ Range(s) = S
<1>1. Cardinality(S) \in Nat
  BY FS_CardinalityType
<1>2. s \in [1 .. Cardinality(S) -> S] /\ IsInjective(s)
  BY DEF Orders, SetToSeqs, IsInjective
<1>3. s \in Injection(1 .. Cardinality(S), S)
  BY <1>2 DEF Injection
<1>4. Cardinality(1 .. Cardinality(S)) = Cardinality(S)
  <2>1. 1 \in Int /\ Cardinality(S) \in Int
    BY <1>1
  <2>2. Cardinality(1 .. Cardinality(S)) =
          IF 1 > Cardinality(S) THEN 0 ELSE Cardinality(S) - 1 + 1
    BY <2>1, FS_Interval
  <2>3. QED
    BY <1>1, <2>2
<1>5. s \in Surjection(1 .. Cardinality(S), S)
  BY <1>3, <1>4, FS_Injection
<1>6. Range(s) = S
  BY <1>2, <1>5 DEF Surjection, Range
<1>7. QED
  BY <1>1, <1>2, <1>6

\* What Head and Tail make of a sequence without repetitions.
LEMMA TailOfInjective ==
  ASSUME NEW S, NEW s \in Seq(S), s # <<>>, IsInjective(s)
  PROVE  /\ Tail(s) \in Seq(S) /\ IsInjective(Tail(s))
         /\ Head(s) \in Range(s) /\ Range(Tail(s)) = Range(s) \ {Head(s)}
<1>1. /\ Len(s) \in Nat \ {0} /\ DOMAIN s = 1 .. Len(s)
      /\ Head(s) = s[1] /\ Tail(s) \in Seq(S) /\ Len(Tail(s)) = Len(s) - 1
      /\ \A i \in 1 .. Len(Tail(s)) : Tail(s)[i] = s[i + 1]
  BY EmptySeq, LenProperties, HeadTailProperties
<1>2. DOMAIN Tail(s) = 1 .. Len(s) - 1
  BY <1>1, LenProperties
<1>3. IsInjective(Tail(s))
  BY <1>1, <1>2 DEF IsInjective
<1>4. Head(s) \in Range(s)
  BY <1>1 DEF Range
<1>5. Range(Tail(s)) \subseteq Range(s) \ {Head(s)}
  BY <1>1, <1>2 DEF Range, IsInjective
<1>6. ASSUME NEW x \in Range(s), x # Head(s)
      PROVE  x \in Range(Tail(s))
  <2>1. PICK i \in 1 .. Len(s) : x = s[i]
    BY <1>1 DEF Range
  <2>2. i - 1 \in 1 .. Len(Tail(s))
    BY <2>1, <1>1, <1>6
  <2>3. x = Tail(s)[i - 1]
    BY <2>1, <2>2, <1>1
  <2>4. QED
    BY <2>2, <2>3, <1>1, <1>2 DEF Range
<1>7. QED
  BY <1>1, <1>3, <1>4, <1>5, <1>6

\* Two sequences without repetitions and without common elements make one.
LEMMA ConcatInjective ==
  ASSUME NEW S, NEW s \in Seq(S), NEW t \in Seq(S), IsInjective(s), IsInjective(t),
         Range(s) \cap Range(t) = {}
  PROVE  s \o t \in Seq(S) /\ IsInjective(s \o t) /\ Range(s \o t) = Range(s) \cup Range(t)
<1>1. /\ s \o t \in Seq(S) /\ Len(s \o t) = Len(s) + Len(t)
      /\ \A i \in 1 .. Len(s) + Len(t) :
           (s \o t)[i] = IF i <= Len(s) THEN s[i] ELSE t[i - Len(s)]
      /\ Len(s) \in Nat /\ DOMAIN s = 1 .. Len(s) /\ Len(t) \in Nat /\ DOMAIN t = 1 .. Len(t)
      /\ DOMAIN (s \o t) = 1 .. Len(s) + Len(t)
  BY ConcatProperties, LenProperties
<1>2. ASSUME NEW i \in 1 .. Len(s) + Len(t), NEW j \in 1 .. Len(s) + Len(t),
             (s \o t)[i] = (s \o t)[j]
      PROVE  i = j
  <2>1. \A x \in 1 .. Len(s), y \in 1 .. Len(t) : s[x] # t[y]
    BY <1>1 DEF Range
  <2>2. CASE i <= Len(s) /\ j <= Len(s)
    BY <1>1, <1>2, <2>2 DEF IsInjective
  <2>3. CASE i <= Len(s) /\ j > Len(s)
    <3>1. s[i] = t[j - Len(s)] /\ i \in 1 .. Len(s) /\ j - Len(s) \in 1 .. Len(t)
      BY <1>1, <1>2, <2>3
    <3>2. QED
      BY <2>1, <3>1
  <2>4. CASE i > Len(s) /\ j <= Len(s)
    <3>1. s[j] = t[i - Len(s)] /\ j \in 1 .. Len(s) /\ i - Len(s) \in 1 .. Len(t)
      BY <1>1, <1>2, <2>4
    <3>2. QED
      BY <2>1, <3>1
  <2>5. CASE i > Len(s) /\ j > Len(s)
    <3>1. /\ t[i - Len(s)] = t[j - Len(s)]
          /\ i - Len(s) \in 1 .. Len(t) /\ j - Len(s) \in 1 .. Len(t)
      BY <1>1, <1>2, <2>5
    <3>2. i - Len(s) = j - Len(s)
      BY <1>1, <3>1 DEF IsInjective
    <3>3. QED
      BY <1>1, <3>2
  <2>6. QED
    BY <1>1, <2>2, <2>3, <2>4, <2>5
<1>3. QED
  BY <1>1, <1>2, RangeConcatenation DEF IsInjective

\* The nodes that may come next are parts of a finite whole.
LEMMA NodesAreFinite ==
  ASSUME NEW S \in SUBSET Nodes
  PROVE  IsFiniteSet(S)
BY FS_Subset

LEMMA EdgesAreFinite ==
  ASSUME edges \in Graphs, NEW E \in SUBSET edges
  PROVE  IsFiniteSet(E) /\ Cardinality(E) \in Nat /\ (Cardinality(E) = 0 <=> E = {})
BY FS_Subset, FS_CardinalityType, FS_EmptySet

LEMMA ParentsAreNodes ==
  ASSUME edges \in Graphs, NEW n
  PROVE  Parents(n) \subseteq Nodes
BY DEF Parents

LEMMA FlowInitInv == FlowInit => FlowIndInv
<1> SUFFICES ASSUME FlowInit PROVE FlowIndInv
  OBVIOUS
<1> USE DEF FlowInit
<1>1. queue \in Seq(Nodes) /\ IsInjective(queue) /\ Range(queue) = {n \in Nodes : degree[n] = 0}
  <2> DEFINE free == {n \in Nodes : degree[n] = 0}
  <2>1. IsFiniteSet(free)
    BY NodesAreFinite
  <2>2. queue \in Seq(free) /\ IsInjective(queue) /\ Range(queue) = free
    BY <2>1, OrderOfSet
  <2>3. QED
    BY <2>2, SeqMonotonic
<1>2. Range(order) = {} /\ Range(step) = {} /\ Len(order) = 0
  BY DEF Range
<1>3. FlowTypeOK
  <2>1. degree \in [Nodes -> Nat]
    BY EdgesAreFinite DEF InDegree
  <2>2. strategy \in Strategies /\ attempt \in 0 .. MaxRetries
    BY DEF Strategies
  <2>3. QED
    BY <1>1, <2>1, <2>2, EmptySeq DEF FlowTypeOK
<1>4. DegreesAreLeft
  <2>1. \A c : {e \in edges : e.to = c /\ e.from \notin Range(order)} = {e \in edges : e.to = c}
    BY <1>2
  <2>2. QED
    BY <2>1 DEF DegreesAreLeft, InDegree
<1>5. FreeAreSorted
  BY <1>1, <1>2, FS_EmptySet DEF FreeAreSorted
<1>6. SortedAreAcyclic
  <2>1. \A C \in SUBSET Range(order) : C = {}
    BY <1>2
  <2>2. QED
    BY <2>1 DEF SortedAreAcyclic
<1>7. Visited = {} /\ RunsInBetween
  BY DEF Visited, RunsInBetween
<1>8. StepsAreReady
  BY <1>2, <1>7 DEF StepsAreReady, IsInjective
<1>9. EndsWithReason
  BY DEF EndsWithReason
<1>10. QED
  BY <1>3, <1>4, <1>5, <1>6, <1>7, <1>8, <1>9 DEF FlowIndInv

\* A node that is sorted takes its edges away: no degree gets below zero, the
\* nodes that lose their last edge come to wait, and a node whose parents are
\* all sorted closes no cycle.
LEMMA SortStep == FlowIndInv /\ Sort => FlowIndInv'
<1> SUFFICES ASSUME FlowIndInv, Sort PROVE FlowIndInv'
  OBVIOUS
<1> DEFINE sorted == Range(order)
           n == Head(queue)
           Left(c) == {e \in edges : e.to = c /\ e.from \notin sorted}
           freed == {c \in Nodes : degree[c] > 0 /\ degree'[c] = 0}
<1>1. /\ FlowTypeOK /\ run = "sorting" /\ queue # <<>>
      /\ degree' = Removed(n) /\ order' = Append(order, n)
      /\ \E s \in Orders(freed) : queue' = Tail(queue) \o s
      /\ UNCHANGED <<edges, run, step, node, strategy, attempt, results, outputs, cancel, broken>>
  BY DEF FlowIndInv, Sort
<1>2. edges \in Graphs /\ degree \in [Nodes -> Nat] /\ queue \in Seq(Nodes) /\ order \in Seq(Nodes)
  BY <1>1 DEF FlowTypeOK
<1>3. /\ Tail(queue) \in Seq(Nodes) /\ IsInjective(Tail(queue))
      /\ n \in Range(queue) /\ Range(Tail(queue)) = Range(queue) \ {n}
  BY <1>1, <1>2, TailOfInjective DEF FlowIndInv, FreeAreSorted
<1>4. /\ n \in Nodes /\ n \notin sorted /\ degree[n] = 0
      /\ sorted \subseteq Nodes /\ Range(queue) \subseteq Nodes
  BY <1>2, <1>3, RangeOfSeq DEF FlowIndInv, FreeAreSorted
<1>5. order' \in Seq(Nodes) /\ Range(order') = sorted \cup {n} /\ Len(order') = Len(order) + 1
  <2>1. /\ Append(order, n) \in Seq(Nodes) /\ Len(Append(order, n)) = Len(order) + 1
        /\ \A i \in 1 .. Len(order) : Append(order, n)[i] = order[i]
        /\ Append(order, n)[Len(order) + 1] = n
    BY <1>2, <1>4, AppendProperties
  <2>2. /\ Len(order) \in Nat /\ DOMAIN order = 1 .. Len(order)
        /\ DOMAIN Append(order, n) = 1 .. Len(order) + 1
    BY <1>2, <2>1, LenProperties
  <2>3. Range(Append(order, n)) = sorted \cup {n}
    BY <2>1, <2>2 DEF Range
  <2>4. QED
    BY <1>1, <2>1, <2>3
<1>6. ASSUME NEW c \in Nodes
      PROVE  /\ degree[c] = Cardinality(Left(c))
             /\ degree'[c] = Cardinality(Left(c) \ Between(n, c)) /\ degree'[c] \in Nat
             /\ Left(c) \ Between(n, c) = {e \in edges : e.to = c /\ e.from \notin sorted \cup {n}}
  <2>1. degree[c] = Cardinality(Left(c))
    BY DEF FlowIndInv, DegreesAreLeft
  <2>2. Between(n, c) \subseteq Left(c) /\ Left(c) \cap Between(n, c) = Between(n, c)
    BY <1>4 DEF Between
  <2>3. /\ IsFiniteSet(Left(c)) /\ IsFiniteSet(Left(c) \ Between(n, c))
        /\ Cardinality(Left(c) \ Between(n, c)) \in Nat
    BY <1>2, EdgesAreFinite
  <2>4. Cardinality(Left(c) \ Between(n, c)) = Cardinality(Left(c)) - Cardinality(Between(n, c))
    <3>1. Cardinality(Left(c) \ Between(n, c)) =
            Cardinality(Left(c)) - Cardinality(Left(c) \cap Between(n, c))
      BY <2>3, FS_Difference
    <3>2. QED
      BY <2>2, <3>1
  <2>5. degree'[c] = degree[c] - Cardinality(Between(n, c))
    BY <1>1 DEF Removed
  <2>6. Left(c) \ Between(n, c) = {e \in edges : e.to = c /\ e.from \notin sorted \cup {n}}
    BY DEF Between
  <2>7. QED
    BY <2>1, <2>3, <2>4, <2>5, <2>6
<1>7. \A c \in Nodes : degree[c] = 0 => degree'[c] = 0
  <2>1. ASSUME NEW c \in Nodes, degree[c] = 0
        PROVE  degree'[c] = 0
    <3>1. Left(c) = {}
      BY <2>1, <1>6, <1>2, EdgesAreFinite
    <3>2. Left(c) \ Between(n, c) = {}
      BY <3>1
    <3>3. QED
      BY <3>2, <1>6, FS_EmptySet
  <2>2. QED
    BY <2>1
<1>8. PICK s \in Orders(freed) : queue' = Tail(queue) \o s
  BY <1>1
<1>9. s \in Seq(Nodes) /\ IsInjective(s) /\ Range(s) = freed
  <2>1. IsFiniteSet(freed)
    BY NodesAreFinite
  <2>2. s \in Seq(freed) /\ IsInjective(s) /\ Range(s) = freed
    BY <2>1, <1>8, OrderOfSet
  <2>3. freed \subseteq Nodes
    OBVIOUS
  <2>4. QED
    BY <2>2, <2>3, SeqMonotonic
<1>10. sorted \cup Range(queue) = {c \in Nodes : degree[c] = 0} /\ sorted \cap Range(queue) = {}
  BY DEF FlowIndInv, FreeAreSorted
<1>11. /\ queue' \in Seq(Nodes) /\ IsInjective(queue')
       /\ Range(queue') = (Range(queue) \ {n}) \cup freed
  <2>1. Range(Tail(queue)) \cap Range(s) = {}
    BY <1>3, <1>9, <1>10
  <2>2. /\ Tail(queue) \o s \in Seq(Nodes) /\ IsInjective(Tail(queue) \o s)
        /\ Range(Tail(queue) \o s) = Range(Tail(queue)) \cup Range(s)
    <3>1. SUFFICES ASSUME NEW t, t = Tail(queue)
                   PROVE  t \o s \in Seq(Nodes) /\ IsInjective(t \o s)
                          /\ Range(t \o s) = Range(t) \cup Range(s)
      OBVIOUS
    <3>2. t \in Seq(Nodes) /\ s \in Seq(Nodes) /\ IsInjective(t) /\ IsInjective(s)
          /\ Range(t) \cap Range(s) = {}
      BY <1>3, <1>9, <2>1, <3>1
    <3>3. QED
      BY <3>2, ConcatInjective
  <2>3. QED
    BY <1>3, <1>8, <1>9, <2>2
<1>12. FlowTypeOK'
  <2>1. degree' \in [Nodes -> Nat]
    <3>1. degree' = [c \in Nodes |-> degree'[c]]
      BY <1>1 DEF Removed
    <3>2. QED
      BY <3>1, <1>6
  <2>2. QED
    BY <1>1, <2>1, <1>5, <1>11 DEF FlowTypeOK
<1>13. DegreesAreLeft'
  <2>1. ASSUME NEW c \in Nodes
        PROVE  degree'[c] = Cardinality({e \in edges : e.to = c /\ e.from \notin Range(order')})
    BY <1>5, <1>6
  <2>2. QED
    BY <1>1, <2>1 DEF DegreesAreLeft
<1>14. FreeAreSorted'
  <2>1. Cardinality(Range(order')) = Len(order')
    <3>1. IsFiniteSet(sorted) /\ Cardinality(sorted) = Len(order) /\ Len(order) \in Nat
      BY <1>2, <1>4, NodesAreFinite DEF FlowIndInv, FreeAreSorted
    <3>2. Cardinality(sorted \cup {n}) = Len(order) + 1
      BY <3>1, <1>4, FS_AddElement
    <3>3. QED
      BY <3>2, <1>5
  <2>2. Range(queue') \cap Range(order') = {}
    BY <1>4, <1>5, <1>10, <1>11
  <2>3. Range(queue') \cup Range(order') = {c \in Nodes : degree'[c] = 0}
    <3>1. Range(queue') \cup Range(order') = Range(queue) \cup sorted \cup freed
      BY <1>3, <1>5, <1>11
    <3>2. \A c \in Nodes : degree'[c] = 0 <=> degree[c] = 0 \/ c \in freed
      BY <1>2, <1>7
    <3>3. QED
      BY <3>1, <3>2, <1>10
  <2>4. QED
    BY <1>11, <2>1, <2>2, <2>3 DEF FreeAreSorted
<1>15. \A c \in Nodes : degree[c] = 0 => Parents(c) \subseteq sorted
  <2>1. ASSUME NEW c \in Nodes, degree[c] = 0
        PROVE  Parents(c) \subseteq sorted
    <3>1. Left(c) = {}
      BY <2>1, <1>6, <1>2, EdgesAreFinite
    <3>2. QED
      BY <3>1 DEF Parents
  <2>2. QED
    BY <2>1
<1>16. SortedAreAcyclic'
  <2>1. ASSUME NEW C \in SUBSET (sorted \cup {n}), C # {}
        PROVE  \E m \in C : Parents(m) \cap C = {}
    <3>1. CASE n \notin C
      <4>1. C \in SUBSET sorted
        BY <2>1, <3>1
      <4>2. QED
        BY <2>1, <4>1 DEF FlowIndInv, SortedAreAcyclic
    <3>2. CASE C = {n}
      BY <3>2, <1>4, <1>15
    <3>3. CASE n \in C /\ C # {n}
      <4>1. C \ {n} \in SUBSET sorted /\ C \ {n} # {}
        BY <2>1, <3>3
      <4>2. PICK m \in C \ {n} : Parents(m) \cap (C \ {n}) = {}
        BY <4>1 DEF FlowIndInv, SortedAreAcyclic
      <4>3. m \in Nodes /\ degree[m] = 0
        BY <4>1, <4>2, <1>4, <1>10
      <4>4. n \notin Parents(m)
        BY <4>3, <1>4, <1>15
      <4>5. QED
        BY <4>2, <4>4
    <3>4. QED
      BY <3>1, <3>2, <3>3
  <2>2. \A m : Parents(m)' = Parents(m)
    BY <1>1 DEF Parents
  <2>3. QED
    BY <2>1, <2>2, <1>5 DEF SortedAreAcyclic
<1>17. RunsInBetween' /\ StepsAreReady' /\ EndsWithReason'
  BY <1>1 DEF FlowIndInv, RunsInBetween, StepsAreReady, EndsWithReason, Visited, Parents
<1>18. QED
  BY <1>12, <1>13, <1>14, <1>16, <1>17 DEF FlowIndInv

\* What the sort has established is disturbed by nothing that comes later.
LEMMA SortedStays ==
  ASSUME FlowIndInv, UNCHANGED <<edges, degree, queue, order>>
  PROVE  /\ (DegreesAreLeft /\ FreeAreSorted /\ SortedAreAcyclic)' /\ Cyclic' = Cyclic
         /\ \A m : Parents(m)' = Parents(m)
BY DEF FlowIndInv, DegreesAreLeft, FreeAreSorted, SortedAreAcyclic, Cyclic, Parents

\* When no node waits any longer, the nodes that are not sorted have each a
\* parent among them; if there are none, no cycle was there.
LEMMA CycleIsFound ==
  ASSUME FlowIndInv, queue = <<>>
  PROVE  Cyclic <=> Len(order) # Cardinality(Nodes)
<1> DEFINE sorted == Range(order)
           rest == Nodes \ sorted
<1>1. Range(queue) = {}
  BY DEF Range
<1>2. edges \in Graphs /\ degree \in [Nodes -> Nat] /\ sorted \subseteq Nodes
  BY RangeOfSeq DEF FlowIndInv, FlowTypeOK
<1>3. sorted = {c \in Nodes : degree[c] = 0} /\ Cardinality(sorted) = Len(order)
  BY <1>1 DEF FlowIndInv, FreeAreSorted
<1>4. sorted = Nodes <=> Len(order) = Cardinality(Nodes)
  BY <1>2, <1>3, FS_Subset
<1>5. ASSUME rest # {}
      PROVE  Cyclic
  <2>1. ASSUME NEW c \in rest
        PROVE  Parents(c) \cap rest # {}
    <3>1. {e \in edges : e.to = c /\ e.from \notin sorted} # {}
      <4>1. Cardinality({e \in edges : e.to = c /\ e.from \notin sorted}) # 0
        BY <1>3, <2>1 DEF FlowIndInv, DegreesAreLeft
      <4>2. QED
        BY <4>1, FS_EmptySet
    <3>2. PICK e \in edges : e.to = c /\ e.from \notin sorted
      BY <3>1
    <3>3. e.from \in Parents(c) /\ e.from \in rest
      BY <1>2, <3>2 DEF Parents
    <3>4. QED
      BY <3>3
  <2>2. QED
    BY <1>5, <2>1 DEF Cyclic
<1>6. ASSUME rest = {}
      PROVE  ~Cyclic
  <2>1. SUBSET sorted = SUBSET Nodes
    BY <1>2, <1>6
  <2>2. QED
    BY <2>1 DEF FlowIndInv, SortedAreAcyclic, Cyclic
<1>7. rest = {} <=> sorted = Nodes
  BY <1>2
<1>8. QED
  BY <1>4, <1>5, <1>6, <1>7

LEMMA ScheduleStep == FlowIndInv /\ Schedule => FlowIndInv'
<1> SUFFICES ASSUME FlowIndInv, Schedule PROVE FlowIndInv'
  OBVIOUS
<1>1. /\ run = "sorting" /\ queue = <<>>
      /\ run' = IF Len(order) # Cardinality(Nodes) THEN "failed" ELSE "running"
      /\ UNCHANGED <<edges, degree, queue, order, step, node, strategy, attempt, results,
                     outputs, cancel, broken>>
  BY DEF Schedule
<1>2. Visited' = Visited /\ (Cyclic <=> run' = "failed")
  BY <1>1, CycleIsFound DEF Visited
<1>3. FlowTypeOK'
  BY <1>1 DEF FlowIndInv, FlowTypeOK
<1>4. (DegreesAreLeft /\ FreeAreSorted /\ SortedAreAcyclic)' /\ Cyclic' = Cyclic
      /\ \A m : Parents(m)' = Parents(m)
  BY <1>1, SortedStays
<1>5. RunsInBetween' /\ Visited = {}
  BY <1>1, <1>2 DEF FlowIndInv, RunsInBetween
<1>6. StepsAreReady'
  BY <1>1, <1>2, <1>4 DEF FlowIndInv, StepsAreReady
<1>7. EndsWithReason'
  BY <1>1, <1>2, <1>4, <1>5 DEF EndsWithReason
<1>8. QED
  BY <1>3, <1>4, <1>5, <1>6, <1>7 DEF FlowIndInv

LEMMA SetCancelStep == FlowIndInv /\ SetCancel => FlowIndInv'
<1> SUFFICES ASSUME FlowIndInv, SetCancel PROVE FlowIndInv'
  OBVIOUS
<1>1. /\ run \in {"sorting", "running"} /\ cancel' = TRUE
      /\ UNCHANGED <<edges, degree, queue, order, run, step, node, strategy, attempt, results,
                     outputs, broken>>
  BY DEF SetCancel
<1>2. (DegreesAreLeft /\ FreeAreSorted /\ SortedAreAcyclic)' /\ Cyclic' = Cyclic
      /\ \A m : Parents(m)' = Parents(m)
  BY <1>1, SortedStays
<1>3. FlowTypeOK' /\ Visited' = Visited
  BY <1>1 DEF FlowIndInv, FlowTypeOK, Visited
<1>4. RunsInBetween' /\ StepsAreReady'
  BY <1>1, <1>2, <1>3 DEF FlowIndInv, RunsInBetween, StepsAreReady
<1>5. EndsWithReason'
  BY <1>1, <1>2, <1>3 DEF FlowIndInv, EndsWithReason
<1>6. QED
  BY <1>2, <1>3, <1>4, <1>5 DEF FlowIndInv

\* A step consists of nodes that have not been run and whose parents have.
LEMMA NextStepStep == FlowIndInv /\ NextStep => FlowIndInv'
<1> SUFFICES ASSUME FlowIndInv, NextStep PROVE FlowIndInv'
  OBVIOUS
<1> DEFINE ready == {n \in Nodes : Ready(n)}
<1>1. /\ run = "running" /\ step = <<>> /\ node = NoNode /\ broken = {}
      /\ step' \in Orders(ready)
      /\ UNCHANGED <<edges, degree, queue, order, run, node, strategy, attempt, results,
                     outputs, cancel, broken>>
  BY DEF NextStep, BetweenSteps, MayGoOn, InOrder
<1>2. step' \in Seq(Nodes) /\ IsInjective(step') /\ Range(step') = ready
  <2>1. SUFFICES ASSUME NEW s \in Orders(ready)
                 PROVE  s \in Seq(Nodes) /\ IsInjective(s) /\ Range(s) = ready
    BY <1>1
  <2>2. IsFiniteSet(ready) /\ ready \subseteq Nodes
    BY NodesAreFinite
  <2>3. s \in Seq(ready) /\ IsInjective(s) /\ Range(s) = ready
    BY <2>2, OrderOfSet
  <2>4. QED
    BY <2>2, <2>3, SeqMonotonic
<1>3. (DegreesAreLeft /\ FreeAreSorted /\ SortedAreAcyclic)' /\ Cyclic' = Cyclic
      /\ \A m : Parents(m)' = Parents(m)
  BY <1>1, SortedStays
<1>4. FlowTypeOK' /\ Visited' = Visited
  BY <1>1, <1>2 DEF FlowIndInv, FlowTypeOK, Visited
<1>5. RunsInBetween'
  BY <1>1 DEF RunsInBetween
<1>6. StepsAreReady'
  <2>1. \A n \in ready : n \in Nodes /\ n \notin Visited /\ Parents(n) \subseteq Visited
    BY DEF Ready
  <2>2. Range(step') \cap (Visited \cup {node}) = {}
    BY <1>1, <1>2, <2>1
  <2>3. \A n \in Visited \cup Range(step') \cup ({node} \ {NoNode}) :
          Parents(n) \subseteq Visited \ broken
    BY <1>1, <1>2, <2>1 DEF FlowIndInv, StepsAreReady
  <2>4. node \notin Visited /\ broken \subseteq Visited
    BY DEF FlowIndInv, StepsAreReady
  <2>5. QED
    BY <1>1, <1>2, <1>3, <1>4, <2>2, <2>3, <2>4 DEF StepsAreReady
<1>7. EndsWithReason'
  BY <1>1, <1>3, <1>4 DEF FlowIndInv, EndsWithReason
<1>8. QED
  BY <1>3, <1>4, <1>5, <1>6, <1>7 DEF FlowIndInv

LEMMA EndRunStep == FlowIndInv /\ EndRun => FlowIndInv'
<1> SUFFICES ASSUME FlowIndInv, EndRun PROVE FlowIndInv'
  OBVIOUS
<1>1. /\ run = "running" /\ step = <<>> /\ node = NoNode
      /\ \/ broken # {} /\ run' = "failed"
         \/ broken = {} /\ Visited = Nodes /\ run' = "completed"
         \/ broken = {} /\ Visited # Nodes /\ cancel /\ run' = "cancelled"
      /\ UNCHANGED <<edges, degree, queue, order, step, node, strategy, attempt, results,
                     outputs, cancel, broken>>
  BY DEF EndRun, BetweenSteps, MayGoOn
<1>2. (DegreesAreLeft /\ FreeAreSorted /\ SortedAreAcyclic)' /\ Cyclic' = Cyclic
      /\ \A m : Parents(m)' = Parents(m)
  BY <1>1, SortedStays
<1>3. FlowTypeOK' /\ Visited' = Visited
  BY <1>1 DEF FlowIndInv, FlowTypeOK, Visited
<1>4. RunsInBetween' /\ StepsAreReady'
  BY <1>1, <1>2, <1>3 DEF FlowIndInv, RunsInBetween, StepsAreReady
<1>5. EndsWithReason'
  BY <1>1, <1>2, <1>3 DEF FlowIndInv, EndsWithReason
<1>6. QED
  BY <1>2, <1>3, <1>4, <1>5 DEF FlowIndInv

LEMMA EnterStep == FlowIndInv /\ Enter => FlowIndInv'
<1> SUFFICES ASSUME FlowIndInv, Enter PROVE FlowIndInv'
  OBVIOUS
<1>1. /\ node = NoNode /\ step # <<>> /\ node' = Head(step) /\ step' = Tail(step)
      /\ strategy' \in Strategies /\ attempt' = 0
      /\ UNCHANGED <<edges, degree, queue, order, run, results, outputs, cancel, broken>>
  BY DEF Enter
<1>2. /\ step' \in Seq(Nodes) /\ IsInjective(step')
      /\ node' \in Range(step) /\ Range(step') = Range(step) \ {node'}
      /\ Range(step) \subseteq Nodes
  BY <1>1, TailOfInjective, RangeOfSeq DEF FlowIndInv, FlowTypeOK, StepsAreReady
<1>3. (DegreesAreLeft /\ FreeAreSorted /\ SortedAreAcyclic)' /\ Cyclic' = Cyclic
      /\ \A m : Parents(m)' = Parents(m)
  BY <1>1, SortedStays
<1>4. FlowTypeOK' /\ Visited' = Visited
  BY <1>1, <1>2 DEF FlowIndInv, FlowTypeOK, Visited
<1>5. RunsInBetween'
  BY <1>1 DEF FlowIndInv, RunsInBetween
<1>6. StepsAreReady'
  BY <1>1, <1>2, <1>3, <1>4 DEF FlowIndInv, StepsAreReady
<1>7. EndsWithReason'
  BY <1>1, <1>3, <1>4 DEF FlowIndInv, EndsWithReason
<1>8. QED
  BY <1>3, <1>4, <1>5, <1>6, <1>7 DEF FlowIndInv

\* A node that gets its result has been run, whether it failed the run or not:
\* nothing that has been run or is about to be depends on it.
LEMMA LeaveStep ==
  ASSUME FlowIndInv, node # NoNode,
         NEW result \in {"value", "null"}, Leave(result),
         outputs' \subseteq Nodes, broken' \in {broken, broken \cup {node}}
  PROVE  FlowIndInv'
<1>1. /\ results' = [results EXCEPT ![node] = result] /\ node' = NoNode
      /\ UNCHANGED <<edges, degree, queue, order, run, step, strategy, attempt, cancel>>
  BY DEF Leave
<1>2. node \in Nodes /\ results \in [Nodes -> {"unset", "value", "null"}]
  BY DEF FlowIndInv, FlowTypeOK
<1>3. Visited' = Visited \cup {node}
  BY <1>1, <1>2 DEF Visited
<1>4. (DegreesAreLeft /\ FreeAreSorted /\ SortedAreAcyclic)' /\ Cyclic' = Cyclic
      /\ \A m : Parents(m)' = Parents(m)
  BY <1>1, SortedStays
<1>5. run = "running"
  BY DEF FlowIndInv, RunsInBetween
<1>6. FlowTypeOK'
  BY <1>1, <1>2 DEF FlowIndInv, FlowTypeOK
<1>7. RunsInBetween'
  BY <1>1, <1>5 DEF RunsInBetween
<1>8. StepsAreReady'
  <2>1. /\ node \notin Visited /\ broken \subseteq Visited /\ IsInjective(step)
        /\ Range(step) \cap (Visited \cup {node}) = {}
        /\ \A n \in Visited \cup Range(step) \cup {node} : Parents(n) \subseteq Visited \ broken
    BY DEF FlowIndInv, StepsAreReady
  <2>2. NoNode \notin Visited \cup {node} /\ NoNode \notin Range(step)
    BY <1>2, RangeOfSeq DEF Visited, FlowIndInv, FlowTypeOK
  <2>3. \A n \in Visited \cup Range(step) \cup {node} :
          Parents(n) \subseteq (Visited \cup {node}) \ broken'
    BY <2>1
  <2>4. broken' \subseteq Visited \cup {node}
    BY <2>1
  <2>5. /\ Range(step') = Range(step) /\ IsInjective(step') = IsInjective(step)
        /\ Visited' = Visited \cup {node} /\ node' = NoNode
        /\ \A m : Parents(m)' = Parents(m)
    BY <1>1, <1>3, <1>4
  <2>6. QED
    BY <2>1, <2>2, <2>3, <2>4, <2>5 DEF StepsAreReady
<1>9. EndsWithReason'
  BY <1>1, <1>4, <1>5 DEF FlowIndInv, EndsWithReason
<1>10. QED
  BY <1>4, <1>6, <1>7, <1>8, <1>9 DEF FlowIndInv

LEMMA NodeSteps ==
  FlowIndInv /\ (NodeSucceeds \/ Substitute \/ Break) => FlowIndInv'
<1>1. FlowIndInv /\ node # NoNode => node \in Nodes /\ outputs \subseteq Nodes
  BY DEF FlowIndInv, FlowTypeOK
<1>2. ASSUME FlowIndInv, NodeSucceeds PROVE FlowIndInv'
  <2>1. /\ node # NoNode /\ Leave("value") /\ outputs' = outputs \cup {node}
        /\ broken' = broken
    BY <1>2 DEF NodeSucceeds
  <2>2. QED
    BY <1>1, <1>2, <2>1, LeaveStep
<1>3. ASSUME FlowIndInv, Substitute PROVE FlowIndInv'
  <2>1. /\ node # NoNode /\ outputs' = outputs /\ broken' = broken
        /\ Leave(IF strategy.other \in outputs THEN "value" ELSE "null")
    BY <1>3 DEF Substitute
  <2>2. PICK result \in {"value", "null"} : Leave(result)
    BY <2>1
  <2>3. QED
    BY <1>1, <1>3, <2>1, <2>2, LeaveStep
<1>4. ASSUME FlowIndInv, Break PROVE FlowIndInv'
  <2>1. /\ node # NoNode /\ Leave("null") /\ outputs' = outputs
        /\ broken' = broken \cup {node}
    BY <1>4 DEF Break
  <2>2. QED
    BY <1>1, <1>4, <2>1, LeaveStep
<1>5. QED
  BY <1>2, <1>3, <1>4

LEMMA TryAgainStep == FlowIndInv /\ TryAgain => FlowIndInv'
<1> SUFFICES ASSUME FlowIndInv, TryAgain PROVE FlowIndInv'
  OBVIOUS
<1>1. /\ strategy.kind = "retry" /\ attempt < strategy.max /\ attempt' = attempt + 1
      /\ UNCHANGED <<edges, degree, queue, order, run, step, node, strategy, results, outputs,
                     cancel, broken>>
  BY DEF TryAgain
<1>2. FlowTypeOK'
  <2>1. strategy \in Strategies /\ attempt \in 0 .. MaxRetries
    BY DEF FlowIndInv, FlowTypeOK
  <2>2. strategy \in Retry
    BY <1>1, <2>1 DEF Strategies
  <2>3. strategy.max \in 0 .. MaxRetries
    BY <2>2 DEF Retry
  <2>4. attempt' \in 0 .. MaxRetries
    BY <1>1, <2>1, <2>3
  <2>5. QED
    BY <1>1, <2>4 DEF FlowIndInv, FlowTypeOK
<1>3. (DegreesAreLeft /\ FreeAreSorted /\ SortedAreAcyclic)' /\ Cyclic' = Cyclic
      /\ \A m : Parents(m)' = Parents(m)
  BY <1>1, SortedStays
<1>4. (RunsInBetween /\ StepsAreReady /\ EndsWithReason)'
  BY <1>1, <1>3 DEF FlowIndInv, RunsInBetween, StepsAreReady, EndsWithReason, Visited
<1>5. QED
  BY <1>2, <1>3, <1>4 DEF FlowIndInv

LEMMA FlowStutter == FlowIndInv /\ UNCHANGED flowVars => FlowIndInv'
<1> SUFFICES ASSUME FlowIndInv, UNCHANGED flowVars PROVE FlowIndInv'
  OBVIOUS
<1> USE DEF flowVars
<1>1. (DegreesAreLeft /\ FreeAreSorted /\ SortedAreAcyclic)' /\ Cyclic' = Cyclic
      /\ \A m : Parents(m)' = Parents(m)
  BY SortedStays
<1>2. FlowTypeOK'
  BY DEF FlowIndInv, FlowTypeOK
<1>3. (RunsInBetween /\ StepsAreReady /\ EndsWithReason)'
  BY <1>1 DEF FlowIndInv, RunsInBetween, StepsAreReady, EndsWithReason, Visited
<1>4. QED
  BY <1>1, <1>2, <1>3 DEF FlowIndInv

LEMMA FlowInductive == FlowSpec => []FlowIndInv
<1>1. FlowIndInv /\ [FlowNext]_flowVars => FlowIndInv'
  BY SortStep, ScheduleStep, SetCancelStep, NextStepStep, EndRunStep, EnterStep, NodeSteps,
     TryAgainStep, FlowStutter DEF FlowNext
<1>2. QED
  BY FlowInitInv, <1>1, PTL DEF FlowSpec

(* Every variable of an execution keeps its type.  (scheduler.rs)          *)
THEOREM FlowTypeCorrect == FlowSpec => []FlowTypeOK
<1>1. FlowIndInv => FlowTypeOK
  BY DEF FlowIndInv
<1>2. QED
  BY FlowInductive, <1>1, PTL

(* A workflow is refused before anything runs if its graph has a cycle and *)
(* only then: the counting down of degrees finds every cycle, however many *)
(* nodes there are and edges between them.  (topological_sort)             *)
THEOREM CyclesAreRefused == FlowSpec => []RefusedIffCyclic
<1>1. FlowIndInv => RefusedIffCyclic
  <2> SUFFICES ASSUME FlowIndInv, run # "sorting"
               PROVE  Cyclic <=> (run = "failed" /\ Visited = {})
    BY DEF RefusedIffCyclic
  <2>1. broken \subseteq Visited
    BY DEF FlowIndInv, StepsAreReady
  <2>2. QED
    BY <2>1 DEF FlowIndInv, FlowTypeOK, EndsWithReason
<1>2. QED
  BY FlowInductive, <1>1, PTL

(* What runs has had all that it depends on before it, nothing that        *)
(* depends on a failed node runs, and how a run ends is true of it.        *)
(* (build_steps, execute)                                                  *)
THEOREM DependenciesAreRespected == FlowSpec => []DependentsComeAfter
<1>1. FlowIndInv => DependentsComeAfter
  BY DEF FlowIndInv, StepsAreReady, EndsWithReason, DependentsComeAfter
<1>2. QED
  BY FlowInductive, <1>1, PTL
=============================================================================
