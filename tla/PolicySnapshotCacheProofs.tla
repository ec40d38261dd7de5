--------------------- MODULE PolicySnapshotCacheProofs ---------------------
(***************************************************************************)
(* Theorems about PolicySnapshotCache for every refresh period, maximal    *)
(* age and delay, and every number of versions and of overlapping fetches. *)
(***************************************************************************)
EXTENDS PolicySnapshotCache, TLAPS

USE CacheAssumption

LEMMA InitInv == Init => IndInv
<1> SUFFICES ASSUME Init PROVE IndInv
  OBVIOUS
<1>1. PICK g \in Fetches : fetch = [f \in Fetches |-> IF f = g THEN "sent" ELSE "idle"]
  BY DEF Init
<1>2. TypeOK
  BY <1>1 DEF Init, TypeOK, Versions, LongGone, TooOld
<1>3. AnswersAreRecent /\ CachedIsRecent /\ CurrentIsNotGone /\ NothingFromTheFuture
  BY <1>1 DEF Init, AnswersAreRecent, CachedIsRecent, CurrentIsNotGone,
              NothingFromTheFuture, Versions
<1>4. InOrder /\ OvertakenIsOld
  BY <1>1 DEF Init, InOrder, OvertakenIsOld, UnderWay
<1>5. QED
  BY <1>2, <1>3, <1>4 DEF IndInv

LEMMA PublishInv == IndInv /\ Publish => IndInv'
<1> SUFFICES ASSUME IndInv, Publish PROVE IndInv'
  OBVIOUS
<1>1. TypeOK'
  BY DEF IndInv, TypeOK, Publish, Versions
<1>2. published' = published + 1 /\ published \in Nat
  BY DEF IndInv, TypeOK, Publish, Versions
<1>3. AnswersAreRecent' /\ CachedIsRecent'
  BY DEF IndInv, Publish, AnswersAreRecent, CachedIsRecent
<1>4. CurrentIsNotGone'
  BY <1>2 DEF IndInv, Publish, CurrentIsNotGone, Versions
<1>5. NothingFromTheFuture'
  BY <1>2 DEF IndInv, TypeOK, Publish, NothingFromTheFuture, Versions
<1>6. InOrder' /\ OvertakenIsOld'
  BY DEF IndInv, Publish, InOrder, OvertakenIsOld, UnderWay
<1>7. QED
  BY <1>1, <1>3, <1>4, <1>5, <1>6 DEF IndInv

LEMMA AnswerInv ==
  ASSUME IndInv, NEW f \in Fetches, Answer(f)
  PROVE  IndInv'
<1>1. TypeOK'
  BY DEF IndInv, TypeOK, Answer
<1>2. /\ fetch[f] = "sent" /\ fetch'[f] = "answered" /\ answer'[f] = published
      /\ \A g \in Fetches : g # f => fetch'[g] = fetch[g] /\ answer'[g] = answer[g]
      /\ published \in Versions /\ gone[published] = 0 /\ delay[f] \in Nat /\ cached <= published
  BY DEF IndInv, TypeOK, Answer, CurrentIsNotGone, NothingFromTheFuture, Versions
<1>3. AnswersAreRecent'
  BY <1>2 DEF IndInv, Answer, AnswersAreRecent
<1>4. CachedIsRecent' /\ CurrentIsNotGone'
  BY DEF IndInv, Answer, CachedIsRecent, CurrentIsNotGone
<1>5. NothingFromTheFuture'
  BY <1>2 DEF IndInv, Answer, NothingFromTheFuture, Versions
<1>6. InOrder' /\ OvertakenIsOld'
  BY <1>2 DEF IndInv, TypeOK, Answer, InOrder, OvertakenIsOld, UnderWay, Versions
<1>7. QED
  BY <1>1, <1>3, <1>4, <1>5, <1>6 DEF IndInv

LEMMA ArriveInv ==
  ASSUME IndInv, NEW f \in Fetches, Arrive(f)
  PROVE  IndInv'
<1>1. TypeOK'
  BY DEF IndInv, TypeOK, Arrive, Stored, Stamped, TooOld
<1>2. /\ fetch[f] = "answered" /\ fetch'[f] = "idle"
      /\ cached' = answer[f] /\ age' = 0
      /\ \A g \in Fetches : g # f => fetch'[g] = fetch[g]
  BY DEF IndInv, TypeOK, Arrive, Stored, Stamped
<1>3. AnswersAreRecent'
  BY <1>2 DEF IndInv, Arrive, AnswersAreRecent
<1>4. CachedIsRecent'
  <2>1. gone[answer[f]] <= delay[f]
    BY <1>2 DEF IndInv, AnswersAreRecent
  <2>2. delay[f] <= MaxDelay /\ delay[f] \in Nat /\ gone[answer[f]] \in Nat
    BY DEF IndInv, TypeOK, LongGone
  <2>3. gone' = gone
    BY DEF Arrive
  <2>4. QED
    BY <1>2, <2>1, <2>2, <2>3 DEF CachedIsRecent
<1>5. CurrentIsNotGone' /\ NothingFromTheFuture'
  BY <1>2 DEF IndInv, Arrive, CurrentIsNotGone, NothingFromTheFuture
<1>6. InOrder'
  BY <1>2 DEF IndInv, Arrive, InOrder, UnderWay
<1>7. OvertakenIsOld'
  BY <1>1, <1>2 DEF Arrive, OvertakenIsOld, TypeOK
<1>8. QED
  BY <1>1, <1>3, <1>4, <1>5, <1>6, <1>7 DEF IndInv

LEMMA FailInv ==
  ASSUME IndInv, NEW f \in Fetches, Fail(f)
  PROVE  IndInv'
<1>1. TypeOK'
  BY DEF IndInv, TypeOK, Fail
<1>2. \A g \in Fetches : fetch'[g] = fetch[g] \/ fetch'[g] = "idle"
  BY DEF IndInv, TypeOK, Fail
<1>3. AnswersAreRecent' /\ CachedIsRecent' /\ CurrentIsNotGone' /\ NothingFromTheFuture'
  BY <1>2 DEF IndInv, Fail, AnswersAreRecent, CachedIsRecent, CurrentIsNotGone,
              NothingFromTheFuture
<1>4. InOrder' /\ OvertakenIsOld'
  BY <1>2 DEF IndInv, Fail, InOrder, OvertakenIsOld, UnderWay
<1>5. QED
  BY <1>1, <1>3, <1>4 DEF IndInv

LEMMA StartCloseInv ==
  ASSUME IndInv, Start \/ Close
  PROVE  IndInv'
<1>1. TypeOK'
  BY DEF IndInv, TypeOK, Start, Close
<1>2. AnswersAreRecent' /\ CachedIsRecent' /\ CurrentIsNotGone' /\ NothingFromTheFuture'
  BY DEF IndInv, Start, Close, AnswersAreRecent, CachedIsRecent, CurrentIsNotGone,
         NothingFromTheFuture
<1>3. InOrder' /\ OvertakenIsOld'
  BY DEF IndInv, Start, Close, InOrder, OvertakenIsOld, UnderWay
<1>4. QED
  BY <1>1, <1>2, <1>3 DEF IndInv

LEMMA RefreshInv ==
  ASSUME IndInv, NEW f \in Fetches, Refresh(f)
  PROVE  IndInv'
<1>1. TypeOK'
  BY DEF IndInv, TypeOK, Refresh, Period
<1>2. /\ phase = "running" /\ timer = 0 /\ timer' = RefreshEvery /\ phase' = phase
      /\ fetch'[f] = "sent" /\ delay'[f] = 0 /\ fetch[f] = "idle"
      /\ \A g \in Fetches : g # f => fetch'[g] = fetch[g] /\ delay'[g] = delay[g]
      /\ \A g \in Fetches : delay[g] \in 0 .. MaxDelay
  BY DEF IndInv, TypeOK, Refresh, Period, UnderWay
<1>3. AnswersAreRecent' /\ CachedIsRecent' /\ CurrentIsNotGone' /\ NothingFromTheFuture'
  BY <1>2 DEF IndInv, Refresh, AnswersAreRecent, CachedIsRecent, CurrentIsNotGone,
              NothingFromTheFuture
<1>4. InOrder'
  <2>1. SUFFICES ASSUME MaxDelay < RefreshEvery
                 PROVE  \A g \in Fetches : UnderWay(g)' => g = f
    BY <1>2 DEF IndInv, Refresh, InOrder, UnderWay
  <2>2. \A g \in Fetches : UnderWay(g) => RefreshEvery <= delay[g]
    BY <1>2, <2>1 DEF IndInv, InOrder
  <2>3. \A g \in Fetches : ~UnderWay(g)
    BY <1>2, <2>1, <2>2
  <2>4. QED
    BY <1>2, <2>3 DEF UnderWay
<1>5. OvertakenIsOld'
  BY <1>2 DEF IndInv, Refresh, OvertakenIsOld
<1>6. QED
  BY <1>1, <1>3, <1>4, <1>5 DEF IndInv

LEMMA TickInv == IndInv /\ Tick => IndInv'
<1> SUFFICES ASSUME IndInv, Tick PROVE IndInv'
  OBVIOUS
<1>1. /\ TypeOK
      /\ \A v \in Versions : gone[v] \in Nat /\ gone'[v] \in Nat /\ gone'[v] <= gone[v] + 1
      /\ \A v \in Versions : v >= published => gone'[v] = gone[v]
  BY DEF IndInv, TypeOK, Tick, Older, LongGone, Versions
<1>2. /\ \A f \in Fetches : UnderWay(f) => delay'[f] = delay[f] + 1 /\ delay[f] < MaxDelay
      /\ \A f \in Fetches : delay[f] \in Nat
      /\ fetch' = fetch /\ answer' = answer /\ cached' = cached
      /\ published' = published /\ phase' = phase
  BY <1>1 DEF Tick, TypeOK
<1>3. TypeOK'
  <2>1. timer' \in 0 .. RefreshEvery
    BY <1>1 DEF Tick, TypeOK
  <2>2. gone' \in [Versions -> 0 .. LongGone]
    BY <1>1 DEF Tick, TypeOK, Older, LongGone
  <2>3. delay' \in [Fetches -> 0 .. MaxDelay]
    BY <1>1 DEF Tick, TypeOK
  <2>4. age' \in 0 .. TooOld
    BY <1>1 DEF Tick, TypeOK, Older, TooOld
  <2>5. QED
    BY <1>1, <1>2, <2>1, <2>2, <2>3, <2>4 DEF TypeOK
<1>4. AnswersAreRecent'
  <2>1. SUFFICES ASSUME NEW f \in Fetches, fetch[f] = "answered"
                 PROVE  gone'[answer[f]] <= delay'[f]
    BY <1>2 DEF AnswersAreRecent
  <2>2. gone[answer[f]] <= delay[f] /\ answer[f] \in Versions
    BY <1>1, <2>1 DEF IndInv, AnswersAreRecent, TypeOK
  <2>3. QED
    BY <1>1, <1>2, <2>1, <2>2 DEF UnderWay
<1>5. CachedIsRecent'
  <2>1. SUFFICES ASSUME cached # 0, age' <= MaxAge
                 PROVE  gone'[cached] <= age' + MaxDelay
    BY <1>2 DEF CachedIsRecent
  <2>2. age' = age + 1 /\ age \in Nat /\ age <= MaxAge /\ cached \in Versions
    BY <1>1, <2>1 DEF Tick, Older, TypeOK, TooOld
  <2>3. gone[cached] <= age + MaxDelay
    BY <2>1, <2>2 DEF IndInv, CachedIsRecent
  <2>4. QED
    BY <1>1, <2>2, <2>3
<1>6. CurrentIsNotGone' /\ NothingFromTheFuture'
  BY <1>1, <1>2 DEF IndInv, CurrentIsNotGone, NothingFromTheFuture
<1>7. InOrder'
  <2>1. phase = "running" => timer' = timer - 1 /\ timer \in Nat
    BY <1>1 DEF Tick, TypeOK
  <2>2. QED
    BY <1>2, <2>1 DEF IndInv, InOrder, UnderWay
<1>8. OvertakenIsOld'
  <2>1. age' <= age + 1 /\ age' \in Nat /\ age \in Nat
    BY <1>1 DEF Tick, TypeOK, Older, TooOld
  <2>2. QED
    BY <1>2, <2>1 DEF IndInv, OvertakenIsOld, UnderWay
<1>9. QED
  BY <1>3, <1>4, <1>5, <1>6, <1>7, <1>8 DEF IndInv

LEMMA NextInv == IndInv /\ [Next]_vars => IndInv'
<1> SUFFICES ASSUME IndInv, [Next]_vars PROVE IndInv'
  OBVIOUS
<1>1. CASE Publish
  BY <1>1, PublishInv
<1>2. CASE Start \/ Close
  BY <1>2, StartCloseInv
<1>3. CASE Tick
  BY <1>3, TickInv
<1>4. ASSUME NEW f \in Fetches, Answer(f) PROVE IndInv'
  BY <1>4, AnswerInv
<1>5. ASSUME NEW f \in Fetches, Arrive(f) PROVE IndInv'
  BY <1>5, ArriveInv
<1>6. ASSUME NEW f \in Fetches, Fail(f) PROVE IndInv'
  BY <1>6, FailInv
<1>7. ASSUME NEW f \in Fetches, Refresh(f) PROVE IndInv'
  BY <1>7, RefreshInv
<1>8. CASE UNCHANGED vars
  BY <1>8 DEF vars, IndInv, TypeOK, AnswersAreRecent, CachedIsRecent, CurrentIsNotGone,
              NothingFromTheFuture, InOrder, OvertakenIsOld, UnderWay
<1>9. QED
  BY <1>1, <1>2, <1>3, <1>4, <1>5, <1>6, <1>7, <1>8 DEF Next

(* The inductive invariant holds in every reachable state.                 *)
THEOREM Invariance == Spec => []IndInv
  BY InitInv, NextInv, PTL DEF Spec

(* Every variable keeps its type: the timer, the delays and the ages too.  *)
THEOREM TypeCorrect == Spec => []TypeOK
<1>1. IndInv => TypeOK
  BY DEF IndInv
<1>2. QED
  BY <1>1, Invariance, PTL

(* What get() serves was superseded at most MaxAge + MaxDelay ago, for any *)
(* number of fetches that overlap, overtake each other, fail or are late.  *)
THEOREM StalenessIsBounded == Spec => []ServedIsRecent
<1>1. ASSUME IndInv PROVE ServedIsRecent
  <2>1. SUFFICES ASSUME Served # 0 PROVE gone[Served] <= MaxAge + MaxDelay
    BY DEF ServedIsRecent
  <2>2. Served = cached /\ cached # 0 /\ age <= MaxAge /\ age \in Nat
    BY <1>1, <2>1 DEF Served, IndInv, TypeOK, TooOld
  <2>3. gone[cached] <= age + MaxDelay /\ gone[cached] \in Nat
    BY <1>1, <2>2 DEF IndInv, CachedIsRecent, TypeOK, LongGone
  <2>4. QED
    BY <2>2, <2>3
<1>2. QED
  BY <1>1, Invariance, PTL

(* The cache goes back only where fetches outlast the refresh period, and  *)
(* then only to a fetch sent before the newer policy was stored.           *)
THEOREM NeverGoesBack == Spec => NoRegress
<1>1. ASSUME IndInv, [Next]_vars, cached' < cached
      PROVE  /\ MaxDelay >= RefreshEvery
             /\ \E f \in Fetches : UnderWay(f) /\ ~UnderWay(f)' /\ delay[f] >= age
  <2>1. cached \in Nat
    BY <1>1 DEF IndInv, TypeOK, Versions
  <2>2. cached' # cached
    BY <1>1, <2>1
  <2>3. PICK f \in Fetches : Arrive(f)
    BY <1>1, <2>2 DEF Next, vars, Publish, Start, Close, Tick, Answer, Fail, Refresh
  <2>4. /\ fetch[f] = "answered" /\ fetch'[f] = "idle" /\ answer[f] < cached
        /\ delay[f] \in Nat /\ age \in Nat /\ answer[f] \in Nat
    BY <1>1, <2>3 DEF Arrive, Stored, IndInv, TypeOK, Versions, TooOld
  <2>5. UnderWay(f) /\ ~UnderWay(f)' /\ delay[f] >= age
    BY <1>1, <2>4 DEF IndInv, OvertakenIsOld, UnderWay
  <2>6. ~(MaxDelay < RefreshEvery)
    BY <1>1, <2>1, <2>4 DEF IndInv, InOrder
  <2>7. QED
    BY <2>5, <2>6
<1>2. QED
  BY <1>1, Invariance, PTL DEF Spec, NoRegress
=============================================================================
