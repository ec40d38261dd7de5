------------------------ MODULE PolicySnapshotCache ------------------------
(***************************************************************************)
(* The gateway's cache of one organization's policy snapshot               *)
(* (sano-shield-proxy/src/policy/policy-snapshot-cache.ts) and the time it *)
(* depends on.                                                             *)
(*                                                                         *)
(* start() fetches once and then sets an interval timer; every firing      *)
(* sends a fetch of its own, whether or not the earlier ones are back.  A  *)
(* fetch reads the published version when the control API handles it and   *)
(* its answer may be late: answers can overtake each other.  What goes     *)
(* wrong on the way (a status that is not ok, a broken connection, a body  *)
(* that does not parse) leaves the cache alone.  get() serves what is      *)
(* cached unless it was stored more than MaxAge ago.                       *)
(*                                                                         *)
(* Time passes in ticks.  A fetch has no timeout of its own in the code;   *)
(* MaxDelay is when the HTTP client gives up.  MaxVersion bounds how often *)
(* a policy is published.                                                  *)
(*                                                                         *)
(* A definition named "...Slip" is a mistake one could make in the         *)
(* definition below it; the specification uses none.                       *)
(***************************************************************************)
EXTENDS Integers

CONSTANTS RefreshEvery,  \* POLICY_SNAPSHOT_REFRESH_MS
          MaxAge,        \* POLICY_SNAPSHOT_MAX_AGE_MS
          MaxDelay, MaxVersion,
          Fetches        \* the fetches that may be under way at a time

ASSUME CacheAssumption ==
  /\ RefreshEvery \in Nat \ {0} /\ MaxAge \in Nat \ {0}
  /\ MaxDelay \in Nat /\ MaxVersion \in Nat \ {0}

VARIABLES phase,      \* of the cache object: starting, running, closed
          timer,      \* ticks until the interval timer fires
          published,  \* the version the control API publishes
          gone,       \* for how long each version has been superseded
          fetch,      \* each fetch: idle, sent, answered
          answer,     \* the version it brings
          delay,      \* for how long it has been under way
          cached,     \* the version in the cache, 0 for none
          age         \* for how long it has been there

vars == <<phase, timer, published, gone, fetch, answer, delay, cached, age>>

Versions == 1 .. MaxVersion
TooOld == MaxAge + 1
LongGone == MaxAge + MaxDelay + 1

TypeOK ==
  /\ phase \in {"starting", "running", "closed"}
  /\ timer \in 0 .. RefreshEvery
  /\ published \in Versions
  /\ gone \in [Versions -> 0 .. LongGone]
  /\ fetch \in [Fetches -> {"idle", "sent", "answered"}]
  /\ answer \in [Fetches -> Versions]
  /\ delay \in [Fetches -> 0 .. MaxDelay]
  /\ cached \in Versions \cup {0}
  /\ age \in 0 .. TooOld

(* The constructor, and start() up to its await: one fetch is sent.        *)
Init ==
  /\ phase = "starting"
  /\ timer = RefreshEvery
  /\ published = 1
  /\ gone = [v \in Versions |-> 0]
  /\ fetch \in {[f \in Fetches |-> IF f = g THEN "sent" ELSE "idle"] : g \in Fetches}
  /\ answer = [f \in Fetches |-> 1]
  /\ delay = [f \in Fetches |-> 0]
  /\ cached = 0
  /\ age = 0

ServedSlip == cached
Served == IF age > MaxAge THEN 0 ELSE cached

UnderWay(f) == fetch[f] # "idle"
-----------------------------------------------------------------------------
(* The control API publishes another version of the bound policy set.      *)
Publish ==
  /\ published < MaxVersion
  /\ published' = published + 1
  /\ UNCHANGED <<phase, timer, gone, fetch, answer, delay, cached, age>>

(* It answers a fetch with the version published at this moment.           *)
Answer(f) ==
  /\ fetch[f] = "sent"
  /\ fetch' = [fetch EXCEPT ![f] = "answered"]
  /\ answer' = [answer EXCEPT ![f] = published]
  /\ UNCHANGED <<phase, timer, published, gone, delay, cached, age>>

StoredSlip(f) == IF cached = 0 THEN answer[f] ELSE cached
Stored(f) == answer[f]

StampedSlip == age
Stamped == 0

(* refresh() when all went well.                                           *)
Arrive(f) ==
  /\ fetch[f] = "answered"
  /\ fetch' = [fetch EXCEPT ![f] = "idle"]
  /\ cached' = Stored(f)
  /\ age' = Stamped
  /\ UNCHANGED <<phase, timer, published, gone, answer, delay>>

(* refresh() returns early, or its catch block swallows what was thrown.   *)
Fail(f) ==
  /\ UnderWay(f)
  /\ fetch' = [fetch EXCEPT ![f] = "idle"]
  /\ UNCHANGED <<phase, timer, published, gone, answer, delay, cached, age>>

(* start() goes on when its first fetch is done, however it ended.         *)
Start ==
  /\ phase = "starting" /\ \A f \in Fetches : ~UnderWay(f)
  /\ phase' = "running"
  /\ timer' = RefreshEvery
  /\ UNCHANGED <<published, gone, fetch, answer, delay, cached, age>>

Period == RefreshEvery

(* The interval timer fires, and refreshAll() is not awaited.              *)
Refresh(f) ==
  /\ phase = "running" /\ timer = 0 /\ ~UnderWay(f)
  /\ timer' = Period
  /\ fetch' = [fetch EXCEPT ![f] = "sent"]
  /\ delay' = [delay EXCEPT ![f] = 0]
  /\ UNCHANGED <<phase, published, gone, answer, cached, age>>

(* close() clears the timer; fetches under way still arrive.               *)
Close ==
  /\ phase = "running"
  /\ phase' = "closed"
  /\ UNCHANGED <<timer, published, gone, fetch, answer, delay, cached, age>>

Older(n, limit) == IF n < limit THEN n + 1 ELSE limit

(* Time passes: not beyond the moment the timer is due or a client gives up.*)
Tick ==
  /\ phase = "running" => timer > 0
  /\ \A f \in Fetches : UnderWay(f) => delay[f] < MaxDelay
  /\ timer' = IF phase = "running" THEN timer - 1 ELSE timer
  /\ gone' = [v \in Versions |-> IF v < published THEN Older(gone[v], LongGone) ELSE gone[v]]
  /\ delay' = [f \in Fetches |-> IF UnderWay(f) THEN delay[f] + 1 ELSE delay[f]]
  /\ age' = IF cached = 0 THEN age ELSE Older(age, TooOld)
  /\ UNCHANGED <<phase, published, fetch, answer, cached>>

Next ==
  \/ Publish \/ Start \/ Close \/ Tick
  \/ \E f \in Fetches : Answer(f) \/ Arrive(f) \/ Fail(f) \/ Refresh(f)

Spec == Init /\ [][Next]_vars

(* Fairness: time passes, the timer fires, start() goes on, and the HTTP   *)
(* client gives up a fetch that takes too long.                            *)
TimePasses ==
  /\ WF_vars(Tick) /\ WF_vars(Start)
  /\ WF_vars(\E f \in Fetches : Refresh(f))
  /\ \A f \in Fetches : WF_vars(Arrive(f) \/ Fail(f))

(* The control API is reachable again and again.                           *)
Reachable ==
  /\ SF_vars(\E f \in Fetches : Answer(f))
  /\ SF_vars(\E f \in Fetches : Arrive(f))

FairSpec == Spec /\ TimePasses
-----------------------------------------------------------------------------
(* Properties.                                                             *)

(* A policy the gateway still serves was superseded at most MaxAge plus    *)
(* one fetch ago, however many fetches overlap, overtake each other or     *)
(* fail: a late answer is stamped with its arrival.  (get, refresh)        *)
ServedIsRecent ==
  Served # 0 => gone[Served] <= MaxAge + MaxDelay

(* The cache goes back to an older version only if a fetch may outlast the *)
(* refresh period, and then only to the answer of a fetch under way for at *)
(* least as long as the newer one was cached: never further.  (refresh     *)
(* stores whatever arrives, whenever it was sent)                          *)
NoRegress ==
  [][cached' < cached =>
       /\ MaxDelay >= RefreshEvery
       /\ \E f \in Fetches : UnderWay(f) /\ ~UnderWay(f)' /\ delay[f] >= age]_vars

(* If the control API is reachable again and again, a gateway that keeps   *)
(* running serves the current policy again and again.                      *)
CurrentIsServed ==
  Reachable => []<>(Served = published \/ phase = "closed")
-----------------------------------------------------------------------------
(* Why they hold: what arrives is no older than its fetch took.            *)

AnswersAreRecent ==
  \A f \in Fetches : fetch[f] = "answered" => gone[answer[f]] <= delay[f]

CachedIsRecent ==
  cached # 0 /\ age <= MaxAge => gone[cached] <= age + MaxDelay

CurrentIsNotGone ==
  \A v \in Versions : v >= published => gone[v] = 0

NothingFromTheFuture ==
  /\ cached <= published
  /\ \A f \in Fetches : answer[f] <= published

InOrder ==
  MaxDelay < RefreshEvery =>
    /\ \A f, g \in Fetches : UnderWay(f) /\ UnderWay(g) => f = g
    /\ \A f \in Fetches :
         UnderWay(f) /\ phase = "running" => RefreshEvery <= delay[f] + timer
    /\ \A f \in Fetches : fetch[f] = "answered" => cached <= answer[f]

OvertakenIsOld ==
  \A f \in Fetches : fetch[f] = "answered" /\ answer[f] < cached => age <= delay[f]

(* The inductive invariant. PolicySnapshotCacheProofs proves that it is    *)
(* one, and that the properties above follow from it.                      *)
IndInv ==
  /\ TypeOK
  /\ AnswersAreRecent
  /\ CachedIsRecent
  /\ CurrentIsNotGone
  /\ NothingFromTheFuture
  /\ InOrder
  /\ OvertakenIsOld
=============================================================================
