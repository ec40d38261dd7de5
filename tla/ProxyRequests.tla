--------------------------- MODULE ProxyRequests ---------------------------
(***************************************************************************)
(* What the gateway does with a request to a provider                      *)
(* (sano-shield-proxy/src/routes/proxy.ts): it evaluates the policy, keeps *)
(* the mapping of the tokenized values in Redis, forwards the payload with *)
(* retries, takes the mapping back, records the audit event, and only then *)
(* answers.                                                                *)
(*                                                                         *)
(* Between two awaits other requests run, storage may fail (also after it  *)
(* did what it was asked), and the process may die.  An attempt the client *)
(* gave up may still be handled by the provider.  Contents are abstracted  *)
(* to whether there is something to tokenize; a policy to whether there is *)
(* a snapshot and whether it blocks.  Time passes in ticks, and a storage  *)
(* call is over within the tick it began in.                               *)
(*                                                                         *)
(* A definition named "...Slip" is a mistake one could make in the         *)
(* definition below it; the specification uses none.                       *)
(***************************************************************************)
EXTENDS ProxyTiming

CONSTANT Requests

VARIABLES stage,     \* how far each request has come
          policy,    \* the snapshot it was evaluated with, "none" without one
          tokens,    \* whether something in it was tokenized
          sent,      \* how many attempts were sent to the provider
          clock,     \* for how long the attempt, or the pause, has lasted
          handled,   \* the attempts the provider has handled
          kept,      \* for how long its mapping will still be in Redis
          restored,  \* whether the answer was reversed with the mapping
          trail,     \* its event in platform_audit_events
          told,      \* what the client was told
          outage     \* whether the audit storage has ever failed

requestVars == <<stage, policy, tokens, sent, clock, handled, kept, restored, trail,
                 told, outage>>

InFlight == {"blocked", "store", "send", "pause", "take", "audit"}

RequestsTypeOK ==
  /\ stage \in [Requests -> InFlight \cup {"new", "done", "lost"}]
  /\ policy \in [Requests -> {"none", "allow", "block"}]
  /\ tokens \in [Requests -> BOOLEAN]
  /\ sent \in [Requests -> Attempts \cup {0}]
  /\ clock \in [Requests -> Nat]
  /\ handled \in [Requests -> SUBSET Attempts]
  /\ kept \in [Requests -> 0 .. Ttl]
  /\ restored \in [Requests -> BOOLEAN]
  /\ trail \in [Requests -> {"nothing", "BLOCK", "TOKENIZE", "ALLOW"}]
  /\ told \in [Requests -> {"nothing", "blocked", "upstream", "unavailable", "error"}]
  /\ outage \in BOOLEAN

RequestsInit ==
  /\ stage = [r \in Requests |-> "new"]
  /\ policy = [r \in Requests |-> "none"]
  /\ tokens = [r \in Requests |-> FALSE]
  /\ sent = [r \in Requests |-> 0]
  /\ clock = [r \in Requests |-> 0]
  /\ handled = [r \in Requests |-> {}]
  /\ kept = [r \in Requests |-> 0]
  /\ restored = [r \in Requests |-> FALSE]
  /\ trail = [r \in Requests |-> "nothing"]
  /\ told = [r \in Requests |-> "nothing"]
  /\ outage = FALSE

GoesTo(r, s) == stage' = [stage EXCEPT ![r] = s]

Answers(r, a) ==
  /\ GoesTo(r, "done")
  /\ told' = [told EXCEPT ![r] = a]

\* The next attempt is sent.
Sends(r) ==
  /\ GoesTo(r, "send")
  /\ sent' = [sent EXCEPT ![r] = sent[r] + 1]
  /\ clock' = [clock EXCEPT ![r] = 0]
-----------------------------------------------------------------------------
(* The part up to the first await that lasts: detection, tokenization and  *)
(* the decision.                                                           *)

EffectSlip(p) == "forward"
Effect(p) == IF p = "block" THEN "block" ELSE "forward"

Evaluates(r, p, t) ==
  /\ stage[r] = "new"
  /\ policy' = [policy EXCEPT ![r] = p]
  /\ tokens' = [tokens EXCEPT ![r] = t]

ReceiveBlocked(r) ==
  \E p \in {"none", "allow", "block"}, t \in BOOLEAN :
    /\ Effect(p) = "block"
    /\ Evaluates(r, p, t)
    /\ GoesTo(r, "blocked")
    /\ UNCHANGED <<sent, clock, handled, kept, restored, trail, told, outage>>

ReceiveTokens(r) ==
  \E p \in {"none", "allow", "block"} :
    /\ Effect(p) = "forward"
    /\ Evaluates(r, p, TRUE)
    /\ GoesTo(r, "store")
    /\ UNCHANGED <<sent, clock, handled, kept, restored, trail, told, outage>>

ReceivePlain(r) ==
  \E p \in {"none", "allow", "block"} :
    /\ Effect(p) = "forward"
    /\ Evaluates(r, p, FALSE)
    /\ Sends(r)
    /\ UNCHANGED <<handled, kept, restored, trail, told, outage>>

(* No such provider, no valid key, no body, or the detector fails.         *)
Reject(r) ==
  /\ stage[r] = "new"
  /\ Answers(r, "error")
  /\ UNCHANGED <<policy, tokens, sent, clock, handled, kept, restored, trail, outage>>
-----------------------------------------------------------------------------
(* tokenStore.put and tokenStore.take.                                     *)

Put(r) ==
  /\ stage[r] = "store"
  /\ kept' = [kept EXCEPT ![r] = Ttl]
  /\ Sends(r)
  /\ UNCHANGED <<policy, tokens, handled, restored, trail, told, outage>>

\* Redis may have applied the SET although the call throws.
PutThrows(r) ==
  /\ stage[r] = "store"
  /\ \E n \in {0, Ttl} : kept' = [kept EXCEPT ![r] = n]
  /\ Answers(r, "error")
  /\ UNCHANGED <<policy, tokens, sent, clock, handled, restored, trail, outage>>

AfterTake(r) == 0

Take(r) ==
  /\ stage[r] = "take"
  /\ restored' = [restored EXCEPT ![r] = kept[r] > 0]
  /\ kept' = [kept EXCEPT ![r] = AfterTake(r)]
  /\ GoesTo(r, "audit")
  /\ UNCHANGED <<policy, tokens, sent, clock, handled, trail, told, outage>>

\* Likewise the GETDEL; the request ends without an audit event.
TakeThrows(r) ==
  /\ stage[r] = "take"
  /\ \E n \in {0, kept[r]} : kept' = [kept EXCEPT ![r] = n]
  /\ Answers(r, "error")
  /\ UNCHANGED <<policy, tokens, sent, clock, handled, restored, trail, outage>>
-----------------------------------------------------------------------------
(* upstream.forward and the provider.                                      *)

\* The provider gets to an attempt, maybe after the gateway gave it up.
Handle(r) ==
  \E n \in 1 .. sent[r] :
    /\ n \notin handled[r]
    /\ handled' = [handled EXCEPT ![r] = handled[r] \cup {n}]
    /\ UNCHANGED <<stage, policy, tokens, sent, clock, kept, restored, trail, told, outage>>

Reply(r) ==
  /\ stage[r] = "send" /\ sent[r] \in handled[r]
  /\ GoesTo(r, "take")
  /\ UNCHANGED <<policy, tokens, sent, clock, handled, kept, restored, trail, told, outage>>

MayRetry(r) == sent[r] < RetryMax + 1

\* A timeout, a broken connection, or an answer that is not the JSON it says.
AttemptFails(r) ==
  /\ stage[r] = "send" /\ MayRetry(r)
  /\ GoesTo(r, "pause")
  /\ clock' = [clock EXCEPT ![r] = 0]
  /\ UNCHANGED <<policy, tokens, sent, handled, kept, restored, trail, told, outage>>

PauseIsOverSlip(r) == clock[r] = Backoff(sent[r] + 1)
PauseIsOver(r) == clock[r] = Backoff(sent[r])

Retry(r) ==
  /\ stage[r] = "pause" /\ PauseIsOver(r)
  /\ Sends(r)
  /\ UNCHANGED <<policy, tokens, handled, kept, restored, trail, told, outage>>

\* The last attempt fails: forward throws, and the mapping is left to its TTL.
ForwardThrows(r) ==
  /\ stage[r] = "send" /\ ~MayRetry(r)
  /\ Answers(r, "error")
  /\ UNCHANGED <<policy, tokens, sent, clock, handled, kept, restored, trail, outage>>
-----------------------------------------------------------------------------
(* audit.record.                                                           *)

Decision(r) ==
  IF stage[r] = "blocked" THEN "BLOCK" ELSE IF tokens[r] THEN "TOKENIZE" ELSE "ALLOW"

AnswerOf(r) == IF stage[r] = "blocked" THEN "blocked" ELSE "upstream"

\* Without a snapshot policyId is "", which is not a UUID.
IsStorable(r) == policy[r] # "none"

Record(r) ==
  /\ stage[r] \in {"blocked", "audit"} /\ IsStorable(r)
  /\ trail' = [trail EXCEPT ![r] = Decision(r)]
  /\ Answers(r, AnswerOf(r))
  /\ UNCHANGED <<policy, tokens, sent, clock, handled, kept, restored, outage>>

RecordIsRefused(r) ==
  /\ stage[r] \in {"blocked", "audit"} /\ ~IsStorable(r)
  /\ Answers(r, "unavailable")
  /\ UNCHANGED <<policy, tokens, sent, clock, handled, kept, restored, trail, outage>>

WithoutAuditSlip(r) == AnswerOf(r)
WithoutAudit(r) == "unavailable"

\* The storage fails, perhaps after it committed the event.
RecordThrows(r) ==
  /\ stage[r] \in {"blocked", "audit"}
  /\ \E e \in {trail[r]} \cup (IF IsStorable(r) THEN {Decision(r)} ELSE {}) :
       trail' = [trail EXCEPT ![r] = e]
  /\ Answers(r, WithoutAudit(r))
  /\ outage' = TRUE
  /\ UNCHANGED <<policy, tokens, sent, clock, handled, kept, restored>>
-----------------------------------------------------------------------------
(* The gateway process dies; what is in Redis and at the provider stays.   *)
Crash ==
  /\ \E r \in Requests : stage[r] \in InFlight
  /\ stage' = [r \in Requests |-> IF stage[r] \in InFlight THEN "lost" ELSE stage[r]]
  /\ UNCHANGED <<policy, tokens, sent, clock, handled, kept, restored, trail, told, outage>>

MayWait(r) ==
  \/ stage[r] \in {"new", "done", "lost"}
  \/ stage[r] = "send" /\ clock[r] < Timeout
  \/ stage[r] = "pause" /\ ~PauseIsOver(r)

AgedSlip(n) == n
Aged(n) == IF n > 0 THEN n - 1 ELSE 0

(* Timers are not late, and Redis expires what is Ttl old.                 *)
Elapse ==
  /\ \A r \in Requests : MayWait(r)
  /\ clock' = [r \in Requests |-> IF stage[r] \in {"send", "pause"} THEN clock[r] + 1 ELSE clock[r]]
  /\ kept' = [r \in Requests |-> Aged(kept[r])]
  /\ UNCHANGED <<stage, policy, tokens, sent, handled, restored, trail, told, outage>>

Forwards(r) == Reply(r) \/ AttemptFails(r) \/ Retry(r) \/ ForwardThrows(r)

Step(r) ==
  \/ Put(r) \/ PutThrows(r) \/ Take(r) \/ TakeThrows(r) \/ Forwards(r)
  \/ Record(r) \/ RecordIsRefused(r) \/ RecordThrows(r)

RequestsNext ==
  \/ Crash \/ Elapse
  \/ \E r \in Requests :
       ReceiveBlocked(r) \/ ReceiveTokens(r) \/ ReceivePlain(r) \/ Reject(r) \/ Handle(r) \/ Step(r)

RequestsSpec == RequestsInit /\ [][RequestsNext]_requestVars

(* Fairness: time passes, and an await is over at some time: storage calls *)
(* answer or throw, and an attempt is aborted when its timer fires.        *)
RequestsFairSpec ==
  RequestsSpec /\ WF_requestVars(Elapse) /\ \A r \in Requests : WF_requestVars(Step(r))
-----------------------------------------------------------------------------
(* Properties.                                                             *)

(* "fails closed": what a client gets from a provider, or as the refusal   *)
(* of a policy, is in the audit trail under that decision before it is     *)
(* sent, whatever the storage does.  (record before reply.send)            *)
AnswersAreAudited ==
  \A r \in Requests :
    /\ told[r] = "upstream" => trail[r] = IF tokens[r] THEN "TOKENIZE" ELSE "ALLOW"
    /\ told[r] = "blocked" => trail[r] = "BLOCK"

(* The trail tells the truth: a request it calls blocked never reaches the *)
(* provider, also not later; one it calls forwarded was handled there; and *)
(* only a published policy blocks.  (the order of record and forward)      *)
TrailIsTrue ==
  \A r \in Requests :
    /\ trail[r] = "BLOCK" => handled[r] = {} /\ policy[r] = "block"
    /\ trail[r] \in {"TOKENIZE", "ALLOW"} => handled[r] # {} /\ policy[r] = "allow"

(* If a mapping lives longer than all the attempts and pauses together,    *)
(* every answer to a tokenized request is restored.  (the TTL against the  *)
(* retries of the upstream client)                                         *)
RestoredInTime ==
  Ttl > LongestForward =>
    \A r \in Requests : told[r] = "upstream" => restored[r] = tokens[r]

(* Once the client has an answer other than an error of the gateway, no    *)
(* mapping of its values is left in Redis, also when the audit event could *)
(* not be written.  (take is a GETDEL and comes before the audit)          *)
NothingIsLeft ==
  \A r \in Requests : told[r] \in {"upstream", "blocked", "unavailable"} => kept[r] = 0

(* Every request that was accepted is answered or lost with its process,   *)
(* and its mapping goes away: again and again nothing is left to do.       *)
EveryRequestEnds ==
  []<>\A r \in Requests :
        stage[r] # "new" => stage[r] \in {"done", "lost"} /\ kept[r] = 0

(* What the code says: a client is told "Audit storage unavailable" only   *)
(* if the storage was.                                                     *)
UnavailableMeansDown ==
  \A r \in Requests : told[r] = "unavailable" => outage

(* Its only other cause is that there was no snapshot of a policy.         *)
UnavailableHasACause ==
  \A r \in Requests : told[r] = "unavailable" => outage \/ policy[r] = "none"

(* What the organization is promised: AuditedAnswers, where the trail and  *)
(* the answer are one step.  However storage fails, the process dies and   *)
(* attempts come late, the gateway keeps it.  (record before reply.send)   *)
Audited == INSTANCE AuditedAnswers WITH
  blocked <- {r \in Requests : policy[r] = "block"},
  reached <- {r \in Requests : handled[r] # {}}

ImplementsAuditedAnswers == Audited!Spec
-----------------------------------------------------------------------------
(* Why they hold.                                                          *)

StagesAgree ==
  \A r \in Requests :
    /\ stage[r] \in {"new", "blocked", "store"} => sent[r] = 0
    /\ stage[r] \in {"send", "pause", "take", "audit"} => sent[r] > 0 /\ policy[r] # "block"
    /\ stage[r] = "blocked" => policy[r] = "block"
    /\ stage[r] = "store" => tokens[r] /\ policy[r] # "block"
    /\ stage[r] = "pause" => sent[r] <= RetryMax
    /\ stage[r] \in {"take", "audit"} => handled[r] # {}
    /\ stage[r] # "done" => trail[r] = "nothing" /\ told[r] = "nothing"
    /\ stage[r] = "new" => kept[r] = 0 /\ policy[r] = "none"

HandledWereSent ==
  \A r \in Requests :
    /\ handled[r] \subseteq 1 .. sent[r]
    /\ policy[r] = "block" => sent[r] = 0

\* The mapping is there while it is needed, and no longer.
MappingOf(r) ==
  /\ stage[r] \in {"blocked", "store", "audit"} => kept[r] = 0
  /\ ~tokens[r] => kept[r] = 0
  /\ stage[r] = "send" /\ tokens[r] =>
       kept[r] + Begun[sent[r]] + clock[r] >= Ttl /\ clock[r] <= Timeout
  /\ stage[r] = "pause" /\ tokens[r] =>
       kept[r] + Begun[sent[r]] + Timeout + clock[r] >= Ttl /\ clock[r] <= Backoff(sent[r])
  /\ stage[r] = "take" /\ tokens[r] => kept[r] + LongestForward >= Ttl
  /\ stage[r] = "audit" /\ Ttl > LongestForward => restored[r] = tokens[r]

MappingIsThere == \A r \in Requests : MappingOf(r)

(* The inductive invariant.                                                *)
RequestsIndInv ==
  /\ RequestsTypeOK
  /\ StagesAgree
  /\ HandledWereSent
  /\ MappingIsThere
  /\ AnswersAreAudited
  /\ TrailIsTrue
  /\ RestoredInTime
  /\ NothingIsLeft
=============================================================================
