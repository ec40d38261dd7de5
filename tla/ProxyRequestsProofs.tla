------------------------- MODULE ProxyRequestsProofs -------------------------
(***************************************************************************)
(* Theorems about ProxyRequests for any number of requests and retries and *)
(* any timeout, pause and TTL, and about PayloadTokens for any strings,    *)
(* types and reports: one lemma per action, one step per conjunct of the   *)
(* inductive invariant.                                                    *)
(***************************************************************************)
EXTENDS ProxyRequests, PayloadTokens, FiniteSetTheorems, SequenceTheorems,
        WellFoundedInduction, TLAPS

USE ProxyAssumption

LEMMA InitInv == RequestsInit => RequestsIndInv
<1> SUFFICES ASSUME RequestsInit PROVE RequestsIndInv
  OBVIOUS
<1>1. RequestsTypeOK
  <2>1. 0 \in 0 .. Ttl
    OBVIOUS
  <2>2. kept \in [Requests -> 0 .. Ttl]
    BY <2>1 DEF RequestsInit
  <2>3. tokens \in [Requests -> BOOLEAN] /\ restored \in [Requests -> BOOLEAN]
    BY Zenon DEF RequestsInit
  <2>4. handled \in [Requests -> SUBSET Attempts]
    BY DEF RequestsInit
  <2>5. QED
    BY <2>2, <2>3, <2>4 DEF RequestsInit, RequestsTypeOK, InFlight
<1>2. StagesAgree /\ HandledWereSent
  BY DEF RequestsInit, StagesAgree, HandledWereSent
<1>3. MappingIsThere
  BY DEF RequestsInit, MappingIsThere, MappingOf
<1>4. AnswersAreAudited /\ TrailIsTrue /\ RestoredInTime /\ NothingIsLeft
  BY DEF RequestsInit, AnswersAreAudited, TrailIsTrue, RestoredInTime, NothingIsLeft
<1>5. QED
  BY <1>1, <1>2, <1>3, <1>4 DEF RequestsIndInv

LEMMA ReceiveBlockedInv ==
  ASSUME RequestsIndInv, NEW r \in Requests, ReceiveBlocked(r)
  PROVE  RequestsIndInv'
<1> USE DEF RequestsIndInv, RequestsTypeOK, ReceiveBlocked, Evaluates, GoesTo, Effect
<1>1. RequestsTypeOK'
  BY DEF Attempts, InFlight
<1>2. StagesAgree'
  BY DEF StagesAgree, HandledWereSent
<1>3. HandledWereSent'
  BY DEF HandledWereSent, StagesAgree
<1>4. MappingIsThere'
  <2> SUFFICES ASSUME NEW q \in Requests PROVE MappingOf(q)'
    BY DEF MappingIsThere
  <2>1. MappingOf(q)
    BY DEF MappingIsThere
  <2>2. CASE q = r
    BY <2>1, <2>2 DEF MappingOf, StagesAgree, LongestForward
  <2>3. CASE q # r
    BY <2>1, <2>3 DEF MappingOf
  <2>4. QED
    BY <2>2, <2>3
<1>5. AnswersAreAudited'
  BY DEF AnswersAreAudited, StagesAgree
<1>6. TrailIsTrue'
  BY DEF TrailIsTrue, StagesAgree, HandledWereSent
<1>7. RestoredInTime'
  BY DEF RestoredInTime, StagesAgree, MappingIsThere, MappingOf
<1>8. NothingIsLeft'
  BY DEF NothingIsLeft, StagesAgree, MappingIsThere, MappingOf
<1>9. QED
  BY <1>1, <1>2, <1>3, <1>4, <1>5, <1>6, <1>7, <1>8

LEMMA ReceiveTokensInv ==
  ASSUME RequestsIndInv, NEW r \in Requests, ReceiveTokens(r)
  PROVE  RequestsIndInv'
<1> USE DEF RequestsIndInv, RequestsTypeOK, ReceiveTokens, Evaluates, GoesTo, Effect
<1>0. stage[r] = "new" /\ told[r] = "nothing" /\ told' = told /\ restored' = restored
      /\ stage'[r] = "store" /\ tokens'[r] = TRUE /\ kept[r] = 0
      /\ \A q \in Requests \ {r} : stage'[q] = stage[q] /\ tokens'[q] = tokens[q]
  BY DEF StagesAgree
<1>1. RequestsTypeOK'
  BY DEF Attempts, InFlight
<1>2. StagesAgree'
  BY DEF StagesAgree, HandledWereSent
<1>3. HandledWereSent'
  BY DEF HandledWereSent, StagesAgree
<1>4. MappingIsThere'
  <2> SUFFICES ASSUME NEW q \in Requests PROVE MappingOf(q)'
    BY DEF MappingIsThere
  <2>1. MappingOf(q)
    BY DEF MappingIsThere
  <2>2. CASE q = r
    BY <2>1, <2>2, <1>0 DEF MappingOf, StagesAgree, LongestForward
  <2>3. CASE q # r
    BY <2>1, <2>3 DEF MappingOf
  <2>4. QED
    BY <2>2, <2>3
<1>5. AnswersAreAudited'
  BY DEF AnswersAreAudited, StagesAgree
<1>6. TrailIsTrue'
  BY DEF TrailIsTrue, StagesAgree, HandledWereSent
<1>7. RestoredInTime'
  BY <1>0, ZenonT(60) DEF RestoredInTime
<1>8. NothingIsLeft'
  BY DEF NothingIsLeft, StagesAgree, MappingIsThere, MappingOf
<1>9. QED
  BY <1>1, <1>2, <1>3, <1>4, <1>5, <1>6, <1>7, <1>8

LEMMA ReceivePlainInv ==
  ASSUME RequestsIndInv, NEW r \in Requests, ReceivePlain(r)
  PROVE  RequestsIndInv'
<1> USE DEF RequestsIndInv, RequestsTypeOK, ReceivePlain, Evaluates, Sends, GoesTo, Effect
<1>0. stage[r] = "new" /\ told[r] = "nothing" /\ told' = told /\ restored' = restored
      /\ sent[r] = 0 /\ 0 + 1 \in Attempts
      /\ stage'[r] = "send" /\ tokens'[r] = FALSE /\ kept[r] = 0 /\ sent'[r] = 1
      /\ \A q \in Requests \ {r} :
           /\ stage'[q] = stage[q] /\ tokens'[q] = tokens[q]
           /\ sent'[q] = sent[q] /\ clock'[q] = clock[q]
  BY DEF StagesAgree, Attempts
<1>1. RequestsTypeOK'
  BY <1>0 DEF Attempts, InFlight
<1>2. StagesAgree'
  BY DEF StagesAgree, HandledWereSent
<1>3. HandledWereSent'
  BY DEF HandledWereSent, StagesAgree
<1>4. MappingIsThere'
  <2> SUFFICES ASSUME NEW q \in Requests PROVE MappingOf(q)'
    BY DEF MappingIsThere
  <2>1. MappingOf(q)
    BY DEF MappingIsThere
  <2>2. CASE q = r
    BY <2>1, <2>2, <1>0 DEF MappingOf, StagesAgree, LongestForward
  <2>3. CASE q # r
    BY <2>1, <2>3 DEF MappingOf
  <2>4. QED
    BY <2>2, <2>3
<1>5. AnswersAreAudited'
  BY DEF AnswersAreAudited, StagesAgree
<1>6. TrailIsTrue'
  BY DEF TrailIsTrue, StagesAgree, HandledWereSent
<1>7. RestoredInTime'
  BY <1>0, ZenonT(60) DEF RestoredInTime
<1>8. NothingIsLeft'
  BY DEF NothingIsLeft, StagesAgree, MappingIsThere, MappingOf
<1>9. QED
  BY <1>1, <1>2, <1>3, <1>4, <1>5, <1>6, <1>7, <1>8

LEMMA RejectInv ==
  ASSUME RequestsIndInv, NEW r \in Requests, Reject(r)
  PROVE  RequestsIndInv'
<1> USE DEF RequestsIndInv, RequestsTypeOK, Reject, Answers, GoesTo
<1>1. RequestsTypeOK'
  BY DEF Attempts, InFlight
<1>2. StagesAgree'
  BY DEF StagesAgree, HandledWereSent
<1>3. HandledWereSent'
  BY DEF HandledWereSent, StagesAgree
<1>4. MappingIsThere'
  <2> SUFFICES ASSUME NEW q \in Requests PROVE MappingOf(q)'
    BY DEF MappingIsThere
  <2>1. MappingOf(q)
    BY DEF MappingIsThere
  <2>2. CASE q = r
    BY <2>1, <2>2 DEF MappingOf, StagesAgree, LongestForward
  <2>3. CASE q # r
    BY <2>1, <2>3 DEF MappingOf
  <2>4. QED
    BY <2>2, <2>3
<1>5. AnswersAreAudited'
  BY DEF AnswersAreAudited, StagesAgree
<1>6. TrailIsTrue'
  BY DEF TrailIsTrue, StagesAgree, HandledWereSent
<1>7. RestoredInTime'
  BY DEF RestoredInTime, StagesAgree, MappingIsThere, MappingOf
<1>8. NothingIsLeft'
  BY DEF NothingIsLeft, StagesAgree, MappingIsThere, MappingOf
<1>9. QED
  BY <1>1, <1>2, <1>3, <1>4, <1>5, <1>6, <1>7, <1>8

LEMMA PutInv ==
  ASSUME RequestsIndInv, NEW r \in Requests, Put(r)
  PROVE  RequestsIndInv'
<1> USE DEF RequestsIndInv, RequestsTypeOK, Put, Sends, GoesTo
<1>0. stage[r] = "store" /\ sent[r] = 0 /\ 0 + 1 \in Attempts
      /\ stage'[r] = "send" /\ tokens[r] /\ kept'[r] = Ttl /\ sent'[r] = 1 /\ clock'[r] = 0
      /\ \A q \in Requests \ {r} :
           /\ stage'[q] = stage[q] /\ kept'[q] = kept[q]
           /\ sent'[q] = sent[q] /\ clock'[q] = clock[q]
  BY DEF StagesAgree, Attempts
<1>1. RequestsTypeOK'
  BY <1>0 DEF Attempts, InFlight
<1>2. StagesAgree'
  BY DEF StagesAgree, HandledWereSent
<1>3. HandledWereSent'
  BY DEF HandledWereSent, StagesAgree
<1>4. MappingIsThere'
  <2> SUFFICES ASSUME NEW q \in Requests PROVE MappingOf(q)'
    BY DEF MappingIsThere
  <2>1. MappingOf(q)
    BY DEF MappingIsThere
  <2>2. CASE q = r
    BY <2>1, <2>2, <1>0 DEF MappingOf, StagesAgree, LongestForward
  <2>3. CASE q # r
    BY <2>1, <2>3 DEF MappingOf
  <2>4. QED
    BY <2>2, <2>3
<1>5. AnswersAreAudited'
  BY DEF AnswersAreAudited, StagesAgree
<1>6. TrailIsTrue'
  BY DEF TrailIsTrue, StagesAgree, HandledWereSent
<1>7. RestoredInTime'
  BY DEF RestoredInTime, StagesAgree, MappingIsThere, MappingOf
<1>8. NothingIsLeft'
  BY DEF NothingIsLeft, StagesAgree, MappingIsThere, MappingOf
<1>9. QED
  BY <1>1, <1>2, <1>3, <1>4, <1>5, <1>6, <1>7, <1>8

LEMMA PutThrowsInv ==
  ASSUME RequestsIndInv, NEW r \in Requests, PutThrows(r)
  PROVE  RequestsIndInv'
<1> USE DEF RequestsIndInv, RequestsTypeOK, PutThrows, Answers, GoesTo
<1>1. RequestsTypeOK'
  BY DEF Attempts, InFlight
<1>2. StagesAgree'
  BY DEF StagesAgree, HandledWereSent
<1>3. HandledWereSent'
  BY DEF HandledWereSent, StagesAgree
<1>4. MappingIsThere'
  <2> SUFFICES ASSUME NEW q \in Requests PROVE MappingOf(q)'
    BY DEF MappingIsThere
  <2>1. MappingOf(q)
    BY DEF MappingIsThere
  <2>2. CASE q = r
    BY <2>1, <2>2 DEF MappingOf, StagesAgree, LongestForward
  <2>3. CASE q # r
    BY <2>1, <2>3 DEF MappingOf
  <2>4. QED
    BY <2>2, <2>3
<1>5. AnswersAreAudited'
  BY DEF AnswersAreAudited, StagesAgree
<1>6. TrailIsTrue'
  BY DEF TrailIsTrue, StagesAgree, HandledWereSent
<1>7. RestoredInTime'
  BY DEF RestoredInTime, StagesAgree, MappingIsThere, MappingOf
<1>8. NothingIsLeft'
  BY DEF NothingIsLeft, StagesAgree, MappingIsThere, MappingOf
<1>9. QED
  BY <1>1, <1>2, <1>3, <1>4, <1>5, <1>6, <1>7, <1>8

LEMMA TakeInv ==
  ASSUME RequestsIndInv, NEW r \in Requests, Take(r)
  PROVE  RequestsIndInv'
<1> USE DEF RequestsIndInv, RequestsTypeOK, Take, AfterTake, GoesTo
<1>0. stage[r] = "take" /\ stage'[r] = "audit" /\ kept'[r] = 0 /\ restored'[r] = (kept[r] > 0)
      /\ tokens'[r] = tokens[r] /\ LongestForward \in Nat
      /\ kept[r] \in Nat /\ tokens[r] \in BOOLEAN
  BY DEF LongestForward, Attempts
<1>1. RequestsTypeOK'
  BY DEF Attempts, InFlight
<1>2. StagesAgree'
  BY DEF StagesAgree, HandledWereSent
<1>3. HandledWereSent'
  BY DEF HandledWereSent, StagesAgree
<1>4. MappingIsThere'
  <2> SUFFICES ASSUME NEW q \in Requests PROVE MappingOf(q)'
    BY DEF MappingIsThere
  <2>1. MappingOf(q)
    BY DEF MappingIsThere
  <2>2. CASE q = r
    BY <2>1, <2>2, <1>0 DEF MappingOf, StagesAgree, LongestForward
  <2>3. CASE q # r
    BY <2>1, <2>3 DEF MappingOf
  <2>4. QED
    BY <2>2, <2>3
<1>5. AnswersAreAudited'
  BY DEF AnswersAreAudited, StagesAgree
<1>6. TrailIsTrue'
  BY DEF TrailIsTrue, StagesAgree, HandledWereSent
<1>7. RestoredInTime'
  BY DEF RestoredInTime, StagesAgree, MappingIsThere, MappingOf
<1>8. NothingIsLeft'
  BY DEF NothingIsLeft, StagesAgree, MappingIsThere, MappingOf
<1>9. QED
  BY <1>1, <1>2, <1>3, <1>4, <1>5, <1>6, <1>7, <1>8

LEMMA TakeThrowsInv ==
  ASSUME RequestsIndInv, NEW r \in Requests, TakeThrows(r)
  PROVE  RequestsIndInv'
<1> USE DEF RequestsIndInv, RequestsTypeOK, TakeThrows, Answers, GoesTo
<1>1. RequestsTypeOK'
  BY DEF Attempts, InFlight
<1>2. StagesAgree'
  BY DEF StagesAgree, HandledWereSent
<1>3. HandledWereSent'
  BY DEF HandledWereSent, StagesAgree
<1>4. MappingIsThere'
  <2> SUFFICES ASSUME NEW q \in Requests PROVE MappingOf(q)'
    BY DEF MappingIsThere
  <2>1. MappingOf(q)
    BY DEF MappingIsThere
  <2>2. CASE q = r
    BY <2>1, <2>2 DEF MappingOf, StagesAgree, LongestForward
  <2>3. CASE q # r
    BY <2>1, <2>3 DEF MappingOf
  <2>4. QED
    BY <2>2, <2>3
<1>5. AnswersAreAudited'
  BY DEF AnswersAreAudited, StagesAgree
<1>6. TrailIsTrue'
  BY DEF TrailIsTrue, StagesAgree, HandledWereSent
<1>7. RestoredInTime'
  BY DEF RestoredInTime, StagesAgree, MappingIsThere, MappingOf
<1>8. NothingIsLeft'
  BY DEF NothingIsLeft, StagesAgree, MappingIsThere, MappingOf
<1>9. QED
  BY <1>1, <1>2, <1>3, <1>4, <1>5, <1>6, <1>7, <1>8

LEMMA HandleInv ==
  ASSUME RequestsIndInv, NEW r \in Requests, Handle(r)
  PROVE  RequestsIndInv'
<1> USE DEF RequestsIndInv, RequestsTypeOK, Handle
<1>0. sent[r] \in Nat /\ sent[r] <= RetryMax + 1
  BY DEF Attempts
<1>1. RequestsTypeOK'
  <2>1. handled' \in [Requests -> SUBSET Attempts]
    BY <1>0 DEF Attempts
  <2>2. UNCHANGED <<stage, policy, tokens, sent, clock, kept, restored, trail, told, outage>>
    OBVIOUS
  <2>3. QED
    BY <2>1, <2>2
<1>2. StagesAgree'
  BY DEF StagesAgree, HandledWereSent
<1>3. HandledWereSent'
  BY DEF HandledWereSent, StagesAgree
<1>4. MappingIsThere'
  <2> SUFFICES ASSUME NEW q \in Requests PROVE MappingOf(q)'
    BY DEF MappingIsThere
  <2>1. MappingOf(q)
    BY DEF MappingIsThere
  <2>2. CASE q = r
    BY <2>1, <2>2 DEF MappingOf, StagesAgree, LongestForward
  <2>3. CASE q # r
    BY <2>1, <2>3 DEF MappingOf
  <2>4. QED
    BY <2>2, <2>3
<1>5. AnswersAreAudited'
  BY DEF AnswersAreAudited, StagesAgree
<1>6. TrailIsTrue'
  BY DEF TrailIsTrue, StagesAgree, HandledWereSent
<1>7. RestoredInTime'
  BY DEF RestoredInTime, StagesAgree, MappingIsThere, MappingOf
<1>8. NothingIsLeft'
  BY DEF NothingIsLeft, StagesAgree, MappingIsThere, MappingOf
<1>9. QED
  BY <1>1, <1>2, <1>3, <1>4, <1>5, <1>6, <1>7, <1>8

LEMMA ReplyInv ==
  ASSUME RequestsIndInv, NEW r \in Requests, Reply(r)
  PROVE  RequestsIndInv'
<1> USE DEF RequestsIndInv, RequestsTypeOK, Reply, GoesTo
<1>0. stage[r] = "send" /\ stage'[r] = "take" /\ sent[r] \in Attempts
      /\ Begun[sent[r]] <= Begun[RetryMax + 1] /\ LongestForward = Begun[RetryMax + 1] + Timeout
      /\ Begun[sent[r]] \in Nat /\ Begun[RetryMax + 1] \in Nat
      /\ clock[r] \in Nat /\ kept[r] \in Nat /\ kept'[r] = kept[r] /\ tokens'[r] = tokens[r]
      /\ \A q \in Requests \ {r} : stage'[q] = stage[q]
  BY DEF StagesAgree, Attempts, LongestForward
<1>1. RequestsTypeOK'
  BY DEF Attempts, InFlight
<1>2. StagesAgree'
  BY DEF StagesAgree, HandledWereSent
<1>3. HandledWereSent'
  BY DEF HandledWereSent, StagesAgree
<1>4. MappingIsThere'
  <2> SUFFICES ASSUME NEW q \in Requests PROVE MappingOf(q)'
    BY DEF MappingIsThere
  <2>1. MappingOf(q)
    BY DEF MappingIsThere
  <2>2. CASE q = r
    BY <2>1, <2>2, <1>0 DEF MappingOf, StagesAgree, LongestForward
  <2>3. CASE q # r
    BY <2>1, <2>3 DEF MappingOf
  <2>4. QED
    BY <2>2, <2>3
<1>5. AnswersAreAudited'
  BY DEF AnswersAreAudited, StagesAgree
<1>6. TrailIsTrue'
  BY DEF TrailIsTrue, StagesAgree, HandledWereSent
<1>7. RestoredInTime'
  BY DEF RestoredInTime, StagesAgree, MappingIsThere, MappingOf
<1>8. NothingIsLeft'
  BY DEF NothingIsLeft, StagesAgree, MappingIsThere, MappingOf
<1>9. QED
  BY <1>1, <1>2, <1>3, <1>4, <1>5, <1>6, <1>7, <1>8

LEMMA AttemptFailsInv ==
  ASSUME RequestsIndInv, NEW r \in Requests, AttemptFails(r)
  PROVE  RequestsIndInv'
<1> USE DEF RequestsIndInv, RequestsTypeOK, AttemptFails, MayRetry, GoesTo
<1>0. stage[r] = "send" /\ stage'[r] = "pause" /\ sent[r] \in 1 .. RetryMax /\ clock'[r] = 0
      /\ sent[r] \in Attempts /\ Backoff(sent[r]) \in Nat /\ policy[r] # "block"
      /\ trail[r] = "nothing" /\ told[r] = "nothing"
      /\ \A q \in Requests \ {r} : stage'[q] = stage[q] /\ clock'[q] = clock[q]
  BY DEF StagesAgree, Attempts
<1>1. RequestsTypeOK'
  BY DEF Attempts, InFlight
<1>2. StagesAgree'
  BY <1>0 DEF StagesAgree, HandledWereSent
<1>3. HandledWereSent'
  BY DEF HandledWereSent, StagesAgree
<1>4. MappingIsThere'
  <2> SUFFICES ASSUME NEW q \in Requests PROVE MappingOf(q)'
    BY DEF MappingIsThere
  <2>1. MappingOf(q)
    BY DEF MappingIsThere
  <2>2. CASE q = r
    BY <2>1, <2>2, <1>0 DEF MappingOf, StagesAgree, LongestForward
  <2>3. CASE q # r
    BY <2>1, <2>3 DEF MappingOf
  <2>4. QED
    BY <2>2, <2>3
<1>5. AnswersAreAudited'
  BY DEF AnswersAreAudited, StagesAgree
<1>6. TrailIsTrue'
  BY DEF TrailIsTrue, StagesAgree, HandledWereSent
<1>7. RestoredInTime'
  BY DEF RestoredInTime, StagesAgree, MappingIsThere, MappingOf
<1>8. NothingIsLeft'
  BY DEF NothingIsLeft, StagesAgree, MappingIsThere, MappingOf
<1>9. QED
  BY <1>1, <1>2, <1>3, <1>4, <1>5, <1>6, <1>7, <1>8

\* The attempt after a pause begins within its time.
LEMMA NextAttempt ==
  ASSUME NEW n \in 1 .. RetryMax
  PROVE  n + 1 \in Attempts /\ Begun[n] + Timeout + Backoff(n) <= Begun[n + 1]
<1>1. n \in Attempts /\ n + 1 \in Attempts /\ n < n + 1
  BY DEF Attempts
<1>2. QED
  BY <1>1

LEMMA RetryInv ==
  ASSUME RequestsIndInv, NEW r \in Requests, Retry(r)
  PROVE  RequestsIndInv'
<1> USE DEF RequestsIndInv, RequestsTypeOK, Retry, PauseIsOver, Sends, GoesTo
<1>a. stage[r] = "pause" /\ sent[r] \in 1 .. RetryMax /\ policy[r] # "block"
      /\ trail[r] = "nothing" /\ told[r] = "nothing"
  BY DEF StagesAgree, Attempts
<1>b. stage'[r] = "send" /\ clock'[r] = 0 /\ sent'[r] = sent[r] + 1 /\ clock[r] = Backoff(sent[r])
      /\ \A q \in Requests \ {r} :
           stage'[q] = stage[q] /\ clock'[q] = clock[q] /\ sent'[q] = sent[q]
  OBVIOUS
<1>c. sent[r] + 1 \in Attempts /\ Begun[sent[r]] + Timeout + Backoff(sent[r]) <= Begun[sent[r] + 1]
  BY <1>a, NextAttempt
<1>0. stage[r] = "pause" /\ stage'[r] = "send" /\ sent[r] \in 1 .. RetryMax /\ clock'[r] = 0
      /\ sent'[r] = sent[r] + 1 /\ sent[r] + 1 \in Attempts /\ policy[r] # "block"
      /\ trail[r] = "nothing" /\ told[r] = "nothing" /\ clock[r] = Backoff(sent[r])
      /\ Begun[sent[r]] + Timeout + Backoff(sent[r]) <= Begun[sent[r] + 1]
      /\ \A q \in Requests \ {r} :
           stage'[q] = stage[q] /\ clock'[q] = clock[q] /\ sent'[q] = sent[q]
  BY <1>a, <1>b, <1>c
<1>1. RequestsTypeOK'
  BY <1>0 DEF Attempts, InFlight
<1>2. StagesAgree'
  BY <1>0 DEF StagesAgree, HandledWereSent
<1>3. HandledWereSent'
  BY <1>0 DEF HandledWereSent, StagesAgree
<1>4. MappingIsThere'
  <2> SUFFICES ASSUME NEW q \in Requests PROVE MappingOf(q)'
    BY DEF MappingIsThere
  <2>1. MappingOf(q)
    BY DEF MappingIsThere
  <2>2. CASE q = r
    BY <2>1, <2>2, <1>0 DEF MappingOf, StagesAgree, LongestForward
  <2>3. CASE q # r
    BY <2>1, <2>3 DEF MappingOf
  <2>4. QED
    BY <2>2, <2>3
<1>5. AnswersAreAudited'
  BY DEF AnswersAreAudited, StagesAgree
<1>6. TrailIsTrue'
  BY DEF TrailIsTrue, StagesAgree, HandledWereSent
<1>7. RestoredInTime'
  BY DEF RestoredInTime, StagesAgree, MappingIsThere, MappingOf
<1>8. NothingIsLeft'
  BY DEF NothingIsLeft, StagesAgree, MappingIsThere, MappingOf
<1>9. QED
  BY <1>1, <1>2, <1>3, <1>4, <1>5, <1>6, <1>7, <1>8

LEMMA ForwardThrowsInv ==
  ASSUME RequestsIndInv, NEW r \in Requests, ForwardThrows(r)
  PROVE  RequestsIndInv'
<1> USE DEF RequestsIndInv, RequestsTypeOK, ForwardThrows, Answers, GoesTo
<1>1. RequestsTypeOK'
  BY DEF Attempts, InFlight
<1>2. StagesAgree'
  BY DEF StagesAgree, HandledWereSent
<1>3. HandledWereSent'
  BY DEF HandledWereSent, StagesAgree
<1>4. MappingIsThere'
  <2> SUFFICES ASSUME NEW q \in Requests PROVE MappingOf(q)'
    BY DEF MappingIsThere
  <2>1. MappingOf(q)
    BY DEF MappingIsThere
  <2>2. CASE q = r
    BY <2>1, <2>2 DEF MappingOf, StagesAgree, LongestForward
  <2>3. CASE q # r
    BY <2>1, <2>3 DEF MappingOf
  <2>4. QED
    BY <2>2, <2>3
<1>5. AnswersAreAudited'
  BY DEF AnswersAreAudited, StagesAgree
<1>6. TrailIsTrue'
  BY DEF TrailIsTrue, StagesAgree, HandledWereSent
<1>7. RestoredInTime'
  BY DEF RestoredInTime, StagesAgree, MappingIsThere, MappingOf
<1>8. NothingIsLeft'
  BY DEF NothingIsLeft, StagesAgree, MappingIsThere, MappingOf
<1>9. QED
  BY <1>1, <1>2, <1>3, <1>4, <1>5, <1>6, <1>7, <1>8

LEMMA RecordInv ==
  ASSUME RequestsIndInv, NEW r \in Requests, Record(r)
  PROVE  RequestsIndInv'
<1> USE DEF RequestsIndInv, RequestsTypeOK, Record, IsStorable, Decision, AnswerOf, Answers, GoesTo
<1>1. RequestsTypeOK'
  BY DEF Attempts, InFlight
<1>2. StagesAgree'
  BY DEF StagesAgree, HandledWereSent
<1>3. HandledWereSent'
  BY DEF HandledWereSent, StagesAgree
<1>4. MappingIsThere'
  <2> SUFFICES ASSUME NEW q \in Requests PROVE MappingOf(q)'
    BY DEF MappingIsThere
  <2>1. MappingOf(q)
    BY DEF MappingIsThere
  <2>2. CASE q = r
    BY <2>1, <2>2 DEF MappingOf, StagesAgree, LongestForward
  <2>3. CASE q # r
    BY <2>1, <2>3 DEF MappingOf
  <2>4. QED
    BY <2>2, <2>3
<1>5. AnswersAreAudited'
  BY DEF AnswersAreAudited, StagesAgree
<1>6. TrailIsTrue'
  BY DEF TrailIsTrue, StagesAgree, HandledWereSent
<1>7. RestoredInTime'
  BY DEF RestoredInTime, StagesAgree, MappingIsThere, MappingOf
<1>8. NothingIsLeft'
  BY DEF NothingIsLeft, StagesAgree, MappingIsThere, MappingOf
<1>9. QED
  BY <1>1, <1>2, <1>3, <1>4, <1>5, <1>6, <1>7, <1>8

LEMMA RecordIsRefusedInv ==
  ASSUME RequestsIndInv, NEW r \in Requests, RecordIsRefused(r)
  PROVE  RequestsIndInv'
<1> USE DEF RequestsIndInv, RequestsTypeOK, RecordIsRefused, IsStorable, Answers, GoesTo
<1>1. RequestsTypeOK'
  BY DEF Attempts, InFlight
<1>2. StagesAgree'
  BY DEF StagesAgree, HandledWereSent
<1>3. HandledWereSent'
  BY DEF HandledWereSent, StagesAgree
<1>4. MappingIsThere'
  <2> SUFFICES ASSUME NEW q \in Requests PROVE MappingOf(q)'
    BY DEF MappingIsThere
  <2>1. MappingOf(q)
    BY DEF MappingIsThere
  <2>2. CASE q = r
    BY <2>1, <2>2 DEF MappingOf, StagesAgree, LongestForward
  <2>3. CASE q # r
    BY <2>1, <2>3 DEF MappingOf
  <2>4. QED
    BY <2>2, <2>3
<1>5. AnswersAreAudited'
  BY DEF AnswersAreAudited, StagesAgree
<1>6. TrailIsTrue'
  BY DEF TrailIsTrue, StagesAgree, HandledWereSent
<1>7. RestoredInTime'
  BY DEF RestoredInTime, StagesAgree, MappingIsThere, MappingOf
<1>8. NothingIsLeft'
  BY DEF NothingIsLeft, StagesAgree, MappingIsThere, MappingOf
<1>9. QED
  BY <1>1, <1>2, <1>3, <1>4, <1>5, <1>6, <1>7, <1>8

LEMMA RecordThrowsInv ==
  ASSUME RequestsIndInv, NEW r \in Requests, RecordThrows(r)
  PROVE  RequestsIndInv'
<1> USE DEF RequestsIndInv, RequestsTypeOK, RecordThrows, IsStorable, Decision, WithoutAudit,
            Answers, GoesTo
<1>0. PICK e : e \in {"nothing", "BLOCK", "TOKENIZE", "ALLOW"} /\ trail' = [trail EXCEPT ![r] = e]
  OBVIOUS
<1>1. RequestsTypeOK'
  BY <1>0 DEF Attempts, InFlight
<1>2. StagesAgree'
  BY DEF StagesAgree, HandledWereSent
<1>3. HandledWereSent'
  BY DEF HandledWereSent, StagesAgree
<1>4. MappingIsThere'
  <2> SUFFICES ASSUME NEW q \in Requests PROVE MappingOf(q)'
    BY DEF MappingIsThere
  <2>1. MappingOf(q)
    BY DEF MappingIsThere
  <2>2. CASE q = r
    BY <2>1, <2>2 DEF MappingOf, StagesAgree, LongestForward
  <2>3. CASE q # r
    BY <2>1, <2>3 DEF MappingOf
  <2>4. QED
    BY <2>2, <2>3
<1>5. AnswersAreAudited'
  BY DEF AnswersAreAudited, StagesAgree
<1>6. TrailIsTrue'
  BY DEF TrailIsTrue, StagesAgree, HandledWereSent
<1>7. RestoredInTime'
  BY DEF RestoredInTime, StagesAgree, MappingIsThere, MappingOf
<1>8. NothingIsLeft'
  BY DEF NothingIsLeft, StagesAgree, MappingIsThere, MappingOf
<1>9. QED
  BY <1>1, <1>2, <1>3, <1>4, <1>5, <1>6, <1>7, <1>8

LEMMA CrashInv == RequestsIndInv /\ Crash => RequestsIndInv'
<1> SUFFICES ASSUME RequestsIndInv, Crash PROVE RequestsIndInv'
  OBVIOUS
<1> USE DEF RequestsIndInv, RequestsTypeOK, Crash, InFlight
<1>1. RequestsTypeOK'
  OBVIOUS
<1>2. StagesAgree' /\ HandledWereSent'
  BY DEF StagesAgree, HandledWereSent
<1>3. MappingIsThere'
  BY DEF MappingIsThere, MappingOf
<1>4. AnswersAreAudited' /\ TrailIsTrue' /\ RestoredInTime' /\ NothingIsLeft'
  BY DEF AnswersAreAudited, TrailIsTrue, RestoredInTime, NothingIsLeft
<1>5. QED
  BY <1>1, <1>2, <1>3, <1>4

LEMMA TickInv == RequestsIndInv /\ Elapse => RequestsIndInv'
<1> SUFFICES ASSUME RequestsIndInv, Elapse PROVE RequestsIndInv'
  OBVIOUS
<1> USE DEF RequestsIndInv, RequestsTypeOK, Elapse, Aged
<1>1. RequestsTypeOK'
  OBVIOUS
<1>2. StagesAgree' /\ HandledWereSent'
  BY DEF StagesAgree, HandledWereSent
<1>3. MappingIsThere'
  <2> SUFFICES ASSUME NEW q \in Requests PROVE MappingOf(q)'
    BY DEF MappingIsThere
  <2>1. MappingOf(q) /\ MayWait(q)
    BY DEF MappingIsThere
  <2>2. CASE stage[q] = "send"
    <3>1. Begun[sent[q]] \in Nat
      BY <2>2 DEF StagesAgree, Attempts
    <3>2. QED
      BY <2>1, <2>2, <3>1 DEF MappingOf, MayWait
  <2>3. CASE stage[q] = "pause"
    <3>1. Begun[sent[q]] \in Nat /\ Backoff(sent[q]) \in Nat
      BY <2>3 DEF StagesAgree, Attempts
    <3>2. QED
      BY <2>1, <2>3, <3>1 DEF MappingOf, MayWait, PauseIsOver
  <2>4. CASE stage[q] \notin {"send", "pause"}
    BY <2>1, <2>4 DEF MappingOf, MayWait
  <2>5. QED
    BY <2>2, <2>3, <2>4
<1>4. AnswersAreAudited' /\ TrailIsTrue' /\ RestoredInTime' /\ NothingIsLeft'
  BY DEF AnswersAreAudited, TrailIsTrue, RestoredInTime, NothingIsLeft
<1>5. QED
  BY <1>1, <1>2, <1>3, <1>4

LEMMA NextInv == RequestsIndInv /\ [RequestsNext]_requestVars => RequestsIndInv'
<1> SUFFICES ASSUME RequestsIndInv, [RequestsNext]_requestVars PROVE RequestsIndInv'
  OBVIOUS
<1>1. CASE UNCHANGED requestVars
  BY <1>1 DEF requestVars, RequestsIndInv, RequestsTypeOK, StagesAgree, HandledWereSent,
     MappingIsThere, MappingOf,
              AnswersAreAudited, TrailIsTrue, RestoredInTime, NothingIsLeft
<1>2. CASE RequestsNext
  BY <1>2, CrashInv, TickInv, ReceiveBlockedInv, ReceiveTokensInv, ReceivePlainInv,
     RejectInv, PutInv, PutThrowsInv, TakeInv, TakeThrowsInv, HandleInv, ReplyInv,
     AttemptFailsInv, RetryInv, ForwardThrowsInv, RecordInv, RecordIsRefusedInv,
     RecordThrowsInv DEF RequestsNext, Step, Forwards
<1>3. QED
  BY <1>1, <1>2

(* RequestsIndInv is inductive.                                                    *)
THEOREM Invariance == RequestsSpec => []RequestsIndInv
  BY InitInv, NextInv, PTL DEF RequestsSpec

(* Every variable keeps its type: the counters of attempts and of the time *)
(* a mapping has left stay within their bounds.                            *)
THEOREM TypeCorrect == RequestsSpec => []RequestsTypeOK
<1>1. RequestsIndInv => RequestsTypeOK
  BY DEF RequestsIndInv
<1>2. QED
  BY <1>1, Invariance, PTL

(* record is over before the client is told anything but an error: what it *)
(* is told is in the trail.                                                *)
THEOREM FailsClosed == RequestsSpec => []AnswersAreAudited
<1>1. RequestsIndInv => AnswersAreAudited
  BY DEF RequestsIndInv
<1>2. QED
  BY <1>1, Invariance, PTL

(* The trail never calls a request blocked that the provider gets, nor one *)
(* forwarded that it did not handle.                                       *)
THEOREM TrailIsReliable == RequestsSpec => []TrailIsTrue
<1>1. RequestsIndInv => TrailIsTrue
  BY DEF RequestsIndInv
<1>2. QED
  BY <1>1, Invariance, PTL

(* A TTL beyond all attempts and pauses is enough: every answer to a       *)
(* tokenized request is restored.                                          *)
THEOREM TtlSuffices == RequestsSpec => []RestoredInTime
<1>1. RequestsIndInv => RestoredInTime
  BY DEF RequestsIndInv
<1>2. QED
  BY <1>1, Invariance, PTL

(* record answers "unavailable" only when the storage failed or there was  *)
(* no snapshot, so that the event has no policy to name.                   *)
THEOREM UnavailableIsExplained == RequestsSpec => []UnavailableHasACause
<1>1. RequestsInit => UnavailableHasACause
  BY DEF RequestsInit, UnavailableHasACause
<1>2. RequestsIndInv /\ UnavailableHasACause /\ [RequestsNext]_requestVars
      => UnavailableHasACause'
  <2> SUFFICES ASSUME RequestsIndInv, UnavailableHasACause, [RequestsNext]_requestVars
               PROVE  UnavailableHasACause'
    OBVIOUS
  <2>0. /\ told \in [Requests -> {"nothing", "blocked", "upstream", "unavailable", "error"}]
        /\ policy \in [Requests -> {"none", "allow", "block"}]
        /\ \A r \in Requests : stage[r] = "new" => told[r] = "nothing"
    BY DEF RequestsIndInv, RequestsTypeOK, StagesAgree
  <2> USE DEF UnavailableHasACause
  <2>1. CASE UNCHANGED <<told, policy, outage>>
    BY <2>1
  <2>2. ASSUME NEW r \in Requests, NEW p \in {"none", "allow", "block"},
               stage[r] = "new", policy' = [policy EXCEPT ![r] = p], UNCHANGED <<told, outage>>
        PROVE  UnavailableHasACause'
    BY <2>0, <2>2
  <2>3. ASSUME NEW r \in Requests, NEW a \in {"error", "blocked", "upstream"},
               Answers(r, a), UNCHANGED <<policy, outage>>
        PROVE  UnavailableHasACause'
    BY <2>0, <2>3 DEF Answers
  <2>4. ASSUME NEW r \in Requests, RecordIsRefused(r)
        PROVE  UnavailableHasACause'
    BY <2>0, <2>4 DEF RecordIsRefused, IsStorable, Answers
  <2>5. ASSUME NEW r \in Requests, RecordThrows(r)
        PROVE  UnavailableHasACause'
    BY <2>5 DEF RecordThrows
  <2>6. ASSUME NEW r \in Requests, Record(r)
        PROVE  UnavailableHasACause'
    BY <2>3, <2>6 DEF Record, AnswerOf
  <2>7. ASSUME NEW r \in Requests,
               Reject(r) \/ PutThrows(r) \/ TakeThrows(r) \/ ForwardThrows(r)
        PROVE  UnavailableHasACause'
    BY <2>3, <2>7 DEF Reject, PutThrows, TakeThrows, ForwardThrows
  <2>8. ASSUME NEW r \in Requests, ReceiveBlocked(r) \/ ReceiveTokens(r) \/ ReceivePlain(r)
        PROVE  UnavailableHasACause'
    BY <2>2, <2>8 DEF ReceiveBlocked, ReceiveTokens, ReceivePlain, Evaluates
  <2>9. QED
    BY <2>1, <2>4, <2>5, <2>6, <2>7, <2>8
    DEF RequestsNext, Step, Forwards, Crash, Elapse, Handle, Put, Take, Reply, AttemptFails,
        Retry, requestVars
<1>3. QED
  BY <1>1, <1>2, Invariance, PTL DEF RequestsSpec

(* A request that is still under way has no answer and no event; one that  *)
(* waits for its refusal to be recorded was never handled, and one that    *)
(* waits for its answer to be recorded was.                                *)
LEMMA UnderWay ==
  ASSUME RequestsIndInv, NEW r \in Requests, stage[r] # "done"
  PROVE  /\ told[r] = "nothing" /\ trail[r] = "nothing"
         /\ stage[r] = "new" => handled[r] = {}
         /\ stage[r] = "blocked" =>
              handled[r] = {} /\ policy[r] = "block" /\ Decision(r) = "BLOCK"
         /\ stage[r] = "audit" =>
              handled[r] # {} /\ Decision(r) \in Audited!Forwarded
<1>1. /\ told[r] = "nothing" /\ trail[r] = "nothing"
      /\ stage[r] \in {"new", "blocked"} => sent[r] = 0
      /\ stage[r] = "blocked" => policy[r] = "block"
      /\ stage[r] = "audit" => handled[r] # {}
      /\ handled[r] \subseteq 1 .. sent[r]
  BY DEF RequestsIndInv, StagesAgree, HandledWereSent
<1>2. 1 .. 0 = {}
  OBVIOUS
<1>3. QED
  BY <1>1, <1>2 DEF Decision, Audited!Forwarded

(* An answer, with whatever may be said of it in the trail, is one of the  *)
(* promised ones.                                                          *)
LEMMA AnswerIsPromised ==
  ASSUME RequestsIndInv, NEW r \in Requests, stage[r] # "done", NEW a, NEW e,
         Answers(r, a), trail' = [trail EXCEPT ![r] = e], UNCHANGED <<policy, handled>>,
         \/ a \in {"error", "unavailable"} /\ e = "nothing"
         \/ /\ stage[r] \in {"blocked", "audit"}
            /\ a \in {"unavailable", AnswerOf(r)} /\ e = Decision(r)
  PROVE  Audited!Next
<1>1. Audited!Answer(r, a, e)
  BY UnderWay DEF Answers, Audited!Answer
<1>2. CASE a \in {"error", "unavailable"} /\ e = "nothing"
  BY <1>1, <1>2 DEF Audited!Next, Audited!Fail
<1>3. CASE /\ stage[r] \in {"blocked", "audit"}
           /\ a \in {"unavailable", AnswerOf(r)} /\ e = Decision(r)
  <2>1. e \in Audited!Truth(r)
    BY <1>3, UnderWay DEF Audited!Truth
  <2>2. CASE a = "unavailable"
    BY <1>1, <2>1, <2>2 DEF Audited!Next, Audited!Fail
  <2>3. CASE a = AnswerOf(r) /\ stage[r] = "blocked"
    BY <1>1, <1>3, <2>3, UnderWay DEF Audited!Next, Audited!Refuse, AnswerOf
  <2>4. CASE a = AnswerOf(r) /\ stage[r] = "audit"
    <3>1. handled[r] # {} /\ a = "upstream"
      BY <2>4, UnderWay DEF AnswerOf
    <3>2. Audited!Pass(r)
      BY <1>1, <2>1, <3>1 DEF Audited!Pass
    <3>3. QED
      BY <3>2 DEF Audited!Next
  <2>5. QED
    BY <1>3, <2>2, <2>3, <2>4
<1>4. QED
  BY <1>2, <1>3

(* Each step of the gateway is one of the promise, or is not seen there.   *)
LEMMA AuditedStep ==
  ASSUME RequestsIndInv, [RequestsNext]_requestVars
  PROVE  [Audited!Next]_(Audited!vars)
<1>1. /\ trail \in [Requests -> {"nothing", "BLOCK", "TOKENIZE", "ALLOW"}]
      /\ handled \in [Requests -> SUBSET Attempts]
      /\ policy \in [Requests -> {"none", "allow", "block"}]
  BY DEF RequestsIndInv, RequestsTypeOK
<1>2. CASE UNCHANGED <<policy, handled, trail, told>>
  BY <1>2 DEF Audited!vars
<1>3. ASSUME NEW r \in Requests, NEW p \in {"none", "allow"}, NEW t, Evaluates(r, p, t),
             UNCHANGED <<handled, trail, told>>
      PROVE  [Audited!Next]_(Audited!vars)
  <2>1. policy[r] # "block"
    BY <1>3 DEF Evaluates, RequestsIndInv, StagesAgree
  <2>2. {q \in Requests : policy'[q] = "block"} = {q \in Requests : policy[q] = "block"}
    BY <1>1, <1>3, <2>1 DEF Evaluates
  <2>3. QED
    BY <1>3, <2>2 DEF Audited!vars
<1>4. ASSUME NEW r \in Requests, ReceiveTokens(r) \/ ReceivePlain(r)
      PROVE  [Audited!Next]_(Audited!vars)
  BY <1>3, <1>4 DEF ReceiveTokens, ReceivePlain, Effect
<1>5. ASSUME NEW r \in Requests, ReceiveBlocked(r)
      PROVE  Audited!Next
  <2>1. /\ policy' = [policy EXCEPT ![r] = "block"] /\ UNCHANGED <<handled, trail, told>>
        /\ stage[r] = "new"
    BY <1>5 DEF ReceiveBlocked, Evaluates, Effect
  <2>2. {q \in Requests : policy'[q] = "block"}
        = {q \in Requests : policy[q] = "block"} \cup {r}
    BY <1>1, <2>1
  <2>3. Audited!Block(r)
    BY <2>1, <2>2, UnderWay DEF Audited!Block
  <2>4. QED
    BY <2>3 DEF Audited!Next
<1>6. ASSUME NEW r \in Requests, Handle(r)
      PROVE  Audited!Next
  <2>1. PICK n \in 1 .. sent[r] : handled' = [handled EXCEPT ![r] = handled[r] \cup {n}]
    BY <1>6 DEF Handle
  <2>2. policy[r] # "block"
    <3>1. policy[r] = "block" => sent[r] = 0
      BY DEF RequestsIndInv, HandledWereSent
    <3>2. QED
      BY <2>1, <3>1
  <2>3. {q \in Requests : handled'[q] # {}} = {q \in Requests : handled[q] # {}} \cup {r}
    BY <1>1, <2>1
  <2>4. UNCHANGED <<policy, trail, told>>
    BY <1>6 DEF Handle
  <2>5. QED
    BY <2>2, <2>3, <2>4 DEF Audited!Next, Audited!Reach
<1>7. ASSUME NEW r \in Requests, NEW a \in {"error", "unavailable"},
             stage[r] # "done", Answers(r, a), UNCHANGED <<policy, handled, trail>>
      PROVE  Audited!Next
  <2>1. trail' = [trail EXCEPT ![r] = "nothing"]
    BY <1>1, <1>7, UnderWay
  <2>2. QED
    BY <1>7, <2>1, AnswerIsPromised
<1>8. ASSUME NEW r \in Requests,
             Reject(r) \/ PutThrows(r) \/ TakeThrows(r) \/ ForwardThrows(r) \/ RecordIsRefused(r)
      PROVE  Audited!Next
  BY <1>7, <1>8 DEF Reject, PutThrows, TakeThrows, ForwardThrows, RecordIsRefused
<1>9. ASSUME NEW r \in Requests, Record(r)
      PROVE  Audited!Next
  BY <1>9, AnswerIsPromised DEF Record
<1>10. ASSUME NEW r \in Requests, RecordThrows(r)
       PROVE  Audited!Next
  <2>1. /\ stage[r] \in {"blocked", "audit"} /\ stage[r] # "done"
        /\ Answers(r, "unavailable") /\ UNCHANGED <<policy, handled>>
        /\ \E e \in {"nothing", Decision(r)} : trail' = [trail EXCEPT ![r] = e]
    <3>1. stage[r] \in {"blocked", "audit"} /\ stage[r] # "done"
      BY <1>10 DEF RecordThrows
    <3>2. QED
      BY <1>10, <3>1, UnderWay DEF RecordThrows, WithoutAudit
  <2>2. QED
    BY <2>1, AnswerIsPromised
<1>11. QED
  BY <1>2, <1>4, <1>5, <1>6, <1>8, <1>9, <1>10
  DEF RequestsNext, Step, Forwards, Crash, Elapse, Put, Take, Reply, AttemptFails, Retry,
      requestVars

(* The gateway keeps its promise, for any number of requests and attempts  *)
(* and any settings of time: what is blocked never reaches a provider, and *)
(* each request is answered once, with its event in the trail.             *)
THEOREM KeepsAuditedAnswers == RequestsSpec => ImplementsAuditedAnswers
<1>1. RequestsInit => Audited!Init
  BY DEF RequestsInit, Audited!Init
<1>2. QED
  BY <1>1, AuditedStep, Invariance, PTL
  DEF RequestsSpec, ImplementsAuditedAnswers, Audited!Spec

(* Every request that was answered or blocked has left Redis clean.        *)
THEOREM MappingsAreConsumed == RequestsSpec => []NothingIsLeft
<1>1. RequestsIndInv => NothingIsLeft
  BY DEF RequestsIndInv
<1>2. QED
  BY <1>1, Invariance, PTL
-----------------------------------------------------------------------------
HIDE ProxyAssumption

(* A set of numbers has a least one: of the intervals from zero to one of  *)
(* them, one has no other within it.                                       *)
LEMMA LeastNumber ==
  ASSUME NEW S \in SUBSET Nat, S # {}
  PROVE  \E m \in S : \A k \in S : m <= k
<1> DEFINE T == {0 .. n : n \in S}
<1>1. T \subseteq FiniteSubsetsOf(Nat)
  <2> SUFFICES ASSUME NEW n \in S PROVE 0 .. n \in FiniteSubsetsOf(Nat)
    OBVIOUS
  <2>1. IsFiniteSet(0 .. n)
    BY FS_Interval
  <2>2. 0 .. n \subseteq Nat
    OBVIOUS
  <2>3. QED
    BY <2>1, <2>2 DEF FiniteSubsetsOf
<1>2. T # {}
  OBVIOUS
<1>3. IsWellFoundedOn(StrictSubsetOrdering(Nat), FiniteSubsetsOf(Nat))
  BY FS_StrictSubsetOrderingWellFounded
<1>4. PICK I \in T : \A J \in T : <<J, I>> \notin StrictSubsetOrdering(Nat)
  <2> HIDE DEF T
  <2>1. QED
    BY <1>1, <1>2, <1>3, WFMin
<1>5. PICK m \in S : I = 0 .. m
  OBVIOUS
<1>6. ASSUME NEW k \in S, k < m PROVE FALSE
  <2>1. 0 .. k \in SUBSET Nat /\ 0 .. m \in SUBSET Nat /\ m \in Nat /\ k \in Nat
    OBVIOUS
  <2>2. 0 .. k \subseteq 0 .. m /\ 0 .. k # 0 .. m
    <3>1. m \in 0 .. m /\ m \notin 0 .. k
      BY <1>6, <2>1
    <3>2. QED
      BY <1>6, <2>1, <3>1
  <2>3. <<0 .. k, 0 .. m>> \in StrictSubsetOrdering(Nat)
    BY <2>1, <2>2, Zenon DEF StrictSubsetOrdering
  <2>4. QED
    BY <2>3, <1>4, <1>5
<1>7. QED
  BY <1>6

(* A string between two strings.                                           *)
LEMMA Joined ==
  ASSUME NEW S, NEW p \in Seq(S), NEW y \in Seq(S), NEW q \in Seq(S), NEW r, r = p \o y \o q
  PROVE  /\ r \in Seq(S) /\ Len(r) = Len(p) + Len(y) + Len(q)
         /\ \A k \in 1 .. Len(p) : r[k] = p[k]
         /\ \A k \in 1 .. Len(y) : r[Len(p) + k] = y[k]
         /\ \A k \in 1 .. Len(q) : r[Len(p) + Len(y) + k] = q[k]
<1> DEFINE h == p \o y
<1>1. /\ h \in Seq(S) /\ Len(h) = Len(p) + Len(y)
      /\ \A k \in 1 .. Len(p) + Len(y) : h[k] = IF k <= Len(p) THEN p[k] ELSE y[k - Len(p)]
  BY ConcatProperties
<1>2. r = h \o q
  OBVIOUS
<1> HIDE DEF h
<1>3. /\ r \in Seq(S) /\ Len(r) = Len(h) + Len(q)
      /\ \A k \in 1 .. Len(h) + Len(q) : r[k] = IF k <= Len(h) THEN h[k] ELSE q[k - Len(h)]
  <2>1. h \in Seq(S)
    BY <1>1
  <2>2. /\ h \o q \in Seq(S) /\ Len(h \o q) = Len(h) + Len(q)
        /\ \A k \in 1 .. Len(h) + Len(q) :
             (h \o q)[k] = IF k <= Len(h) THEN h[k] ELSE q[k - Len(h)]
    BY <2>1, ConcatProperties
  <2>3. QED
    BY <1>2, <2>2, Zenon
<1>4. Len(p) \in Nat /\ Len(q) \in Nat /\ Len(y) \in Nat
  OBVIOUS
<1>5. ASSUME NEW k \in 1 .. Len(p) PROVE r[k] = p[k]
  BY <1>1, <1>3, <1>4
<1>6. ASSUME NEW k \in 1 .. Len(y) PROVE r[Len(p) + k] = y[k]
  BY <1>1, <1>3, <1>4
<1>7. ASSUME NEW k \in 1 .. Len(q) PROVE r[Len(p) + Len(y) + k] = q[k]
  BY <1>1, <1>3, <1>4
<1>8. QED
  BY <1>1, <1>3, <1>5, <1>6, <1>7

(* A string r that is s with the piece from a + 1 to b replaced by y.      *)
IsSpliced(r, s, a, b, y) ==
  /\ Len(r) = Len(s) + a + Len(y) - b
  /\ \A k \in 1 .. a : r[k] = s[k]
  /\ \A k \in 1 .. Len(y) : r[a + k] = y[k]
  /\ \A k \in a + Len(y) + 1 .. Len(r) : r[k] = s[k - Len(y) - a + b]

(* Spliced() makes such a string of any string.                            *)
LEMMA Splice ==
  ASSUME NEW S, NEW s \in Seq(S), NEW y \in Seq(S), NEW a \in Nat, NEW b \in Nat,
         a <= b, b <= Len(s), NEW r, r = Spliced(s, a, b, y)
  PROVE  r \in Seq(S) /\ IsSpliced(r, s, a, b, y)
<1> DEFINE p == SubSeq(s, 1, a)
           q == SubSeq(s, b + 1, Len(s))
<1>1. Len(s) \in Nat /\ Len(y) \in Nat
  OBVIOUS
<1>2. p \in Seq(S) /\ Len(p) = a
  OBVIOUS
<1>3. \A k \in 1 .. a : p[k] = s[k]
  OBVIOUS
<1>4. q \in Seq(S) /\ Len(q) = Len(s) - b
  OBVIOUS
<1>5. \A k \in 1 .. Len(s) - b : q[k] = s[k + b]
  OBVIOUS
<1>6. r = p \o y \o q
  BY DEF Spliced, Slice
<1> HIDE DEF p, q
<1>7. /\ r \in Seq(S) /\ Len(r) = Len(p) + Len(y) + Len(q)
      /\ \A k \in 1 .. Len(p) : r[k] = p[k]
      /\ \A k \in 1 .. Len(y) : r[Len(p) + k] = y[k]
      /\ \A k \in 1 .. Len(q) : r[Len(p) + Len(y) + k] = q[k]
  <2>1. p \in Seq(S) /\ q \in Seq(S)
    BY <1>2, <1>4
  <2>2. r \in Seq(S)
    BY <2>1, <1>6, Joined
  <2>3. Len(r) = Len(p) + Len(y) + Len(q)
    <3>1. p \o y \in Seq(S) /\ Len(p \o y) = Len(p) + Len(y)
      BY <2>1
    <3>2. Len(p \o y \o q) = Len(p \o y) + Len(q)
      BY <3>1, <2>1
    <3>3. QED
      BY <3>1, <3>2, <1>6
  <2>4. \A k \in 1 .. Len(p) : r[k] = p[k]
    BY <2>1, <1>6, Joined
  <2>5. \A k \in 1 .. Len(y) : r[Len(p) + k] = y[k]
    BY <2>1, <1>6, Joined
  <2>6. \A k \in 1 .. Len(q) : r[Len(p) + Len(y) + k] = q[k]
    BY <2>1, <1>6, Joined
  <2>7. QED
    BY <2>2, <2>3, <2>4, <2>5, <2>6, Zenon
<1>8. Len(r) = Len(s) + a + Len(y) - b
  BY <1>1, <1>2, <1>4, <1>7
<1>9. ASSUME NEW k \in a + Len(y) + 1 .. Len(r) PROVE r[k] = s[k - Len(y) - a + b]
  <2>1. /\ k - (a + Len(y)) \in 1 .. Len(q) /\ Len(p) + Len(y) + (k - (a + Len(y))) = k
        /\ k - (a + Len(y)) + b = k - Len(y) - a + b
    BY <1>1, <1>2, <1>4, <1>8
  <2>2. r[k] = q[k - (a + Len(y))]
    BY <1>7, <2>1
  <2>3. QED
    BY <1>4, <1>5, <2>1, <2>2
<1>10. QED
  BY <1>2, <1>3, <1>7, <1>8, <1>9 DEF IsSpliced

(* The piece replaced by one symbol x.                                     *)
IsSplice(r, s, a, b, x) ==
  /\ Len(r) = Len(s) + a + 1 - b
  /\ \A k \in 1 .. a : r[k] = s[k]
  /\ r[a + 1] = x
  /\ \A k \in a + 2 .. Len(r) : r[k] = s[k - 1 - a + b]

(* That is what Spliced() does with a token.                               *)
LEMMA SpliceToken ==
  ASSUME NEW S, NEW s \in Seq(S), NEW x \in S, NEW a \in Nat, NEW b \in Nat,
         a <= b, b <= Len(s), NEW r, r = Spliced(s, a, b, <<x>>)
  PROVE  r \in Seq(S) /\ IsSplice(r, s, a, b, x)
<1> DEFINE y == <<x>>
<1>1. y \in Seq(S) /\ Len(y) = 1 /\ y[1] = x
  OBVIOUS
<1>2. r = Spliced(s, a, b, y)
  OBVIOUS
<1> HIDE DEF y
<1>3. r \in Seq(S) /\ IsSpliced(r, s, a, b, y)
  BY <1>1, <1>2, Splice
<1>4. r[a + 1] = x /\ a + 2 = a + Len(y) + 1
  BY <1>1, <1>3 DEF IsSpliced
<1>5. ASSUME NEW k \in a + 2 .. Len(r) PROVE r[k] = s[k - 1 - a + b]
  BY <1>1, <1>3, <1>4 DEF IsSpliced
<1>6. QED
  BY <1>1, <1>3, <1>4, <1>5 DEF IsSplice, IsSpliced

USE TextsAssumption

(* Among the numbers tried there is one whose token neither the string nor *)
(* an entry of the mapping has: there are more of them than symbols and    *)
(* entries.  So the loop of the code ends, and with a free token.          *)
LEMMA IndexIsFree ==
  ASSUME PayloadTypeOK, at \in Places, NEW type \in Types
  PROVE  Index(type) \in Nat /\ IsFree(<<type, Index(type)>>)
<1> DEFINE L == Len(texts[at])
           M == Len(mapping)
           Tried == indices[type] .. indices[type] + L + M
           HasAt(i) == IF i <= L THEN texts[at][i] ELSE mapping[i - L].token
<1>1. L \in Nat /\ M \in Nat /\ indices[type] \in Nat
  BY DEF PayloadTypeOK
<1>2. IsFiniteSet(Tried) /\ Cardinality(Tried) = L + M + 1
      /\ IsFiniteSet(1 .. L + M) /\ Cardinality(1 .. L + M) = L + M
  <2>1. \A a, b \in Int : a <= b + 1 => IsFiniteSet(a .. b) /\ Cardinality(a .. b) = b - a + 1
    BY FS_Interval
  <2> HIDE DEF L, M
  <2>2. SUFFICES ASSUME NEW a \in Nat, a = indices[type], NEW b \in Nat, b = indices[type] + L + M
                 PROVE  Cardinality(a .. b) = L + M + 1 /\ IsFiniteSet(a .. b)
                        /\ IsFiniteSet(1 .. L + M) /\ Cardinality(1 .. L + M) = L + M
    BY <1>1
  <2>3. IsFiniteSet(a .. b) /\ Cardinality(a .. b) = b - a + 1
    BY <1>1, <2>1, <2>2
  <2>4. IsFiniteSet(1 .. L + M) /\ Cardinality(1 .. L + M) = L + M - 1 + 1
    BY <1>1, <2>1
  <2>5. QED
    BY <1>1, <2>2, <2>3, <2>4
<1>3. \E n \in Tried : IsFree(<<type, n>>)
  <2> SUFFICES ASSUME \A n \in Tried : ~IsFree(<<type, n>>) PROVE FALSE
    OBVIOUS
  <2>1. ASSUME NEW n \in Tried PROVE \E i \in 1 .. L + M : HasAt(i) = <<type, n>>
    <3>1. CASE Contains(texts[at], <<type, n>>)
      <4>1. PICK i \in 1 .. L : texts[at][i] = <<type, n>>
        BY <3>1 DEF Contains
      <4>2. i \in 1 .. L + M /\ HasAt(i) = <<type, n>>
        BY <4>1, <1>1
      <4>3. QED
        BY <4>2
    <3>2. CASE \E i \in DOMAIN mapping : mapping[i].token = <<type, n>>
      <4>1. PICK i \in DOMAIN mapping : mapping[i].token = <<type, n>>
        BY <3>2
      <4>2. i \in 1 .. M
        BY <4>1, LenProperties DEF PayloadTypeOK
      <4>3. L + i \in 1 .. L + M /\ ~(L + i <= L) /\ (L + i) - L = i
        BY <4>2, <1>1, SMTT(30)
      <4>4. HasAt(L + i) = <<type, n>>
        BY <4>1, <4>3
      <4>5. QED
        BY <4>3, <4>4
    <3>3. QED
      BY <3>1, <3>2 DEF IsFree
  <2> DEFINE f == [n \in Tried |-> CHOOSE i \in 1 .. L + M : HasAt(i) = <<type, n>>]
  <2>2. \A n \in Tried : f[n] \in 1 .. L + M /\ HasAt(f[n]) = <<type, n>>
    <3> HIDE DEF HasAt, Tried
    <3>1. QED
      BY <2>1
  <2>3. f \in [Tried -> 1 .. L + M]
    BY <2>2
  <2> HIDE DEF f, HasAt, Tried
  <2>4. PICK x \in Tried, y \in Tried : x # y /\ f[x] = f[y]
    <3>1. Cardinality(1 .. L + M) < Cardinality(Tried)
      BY <1>1, <1>2
    <3>2. QED
      BY <1>2, <2>3, <3>1, FS_PigeonHole
  <2>5. <<type, x>> = <<type, y>>
    BY <2>2, <2>4
  <2>6. QED
    BY <2>4, <2>5
<1>4. PICK n \in {m \in Tried : IsFree(<<type, m>>)} :
        \A k \in {m \in Tried : IsFree(<<type, m>>)} : n <= k
  <2>1. {m \in Tried : IsFree(<<type, m>>)} \in SUBSET Nat
    BY <1>1
  <2>2. QED
    BY <1>3, <2>1, LeastNumber
<1>5. \E m \in Tried : IsFree(<<type, m>>) /\ \A k \in Tried : IsFree(<<type, k>>) => m <= k
  BY <1>4
<1>6. Index(type) \in Tried /\ IsFree(<<type, Index(type)>>)
  BY <1>5 DEF Index
<1>7. QED
  BY <1>1, <1>6

(* A text stands for itself.                                               *)
LEMMA TextStands ==
  ASSUME NEW t \in Seq(Symbols), NEW entries
  PROVE  \E g \in [0 .. Len(t) -> 0 .. Len(t)] :
           /\ StandsFor(g, t, t, entries)
           /\ \A k \in 0 .. Len(t) : g[k] = k
<1> DEFINE g == [k \in 0 .. Len(t) |-> k]
<1>1. Len(t) \in Nat
  OBVIOUS
<1>2. g \in [0 .. Len(t) -> 0 .. Len(t)] /\ \A k \in 0 .. Len(t) : g[k] = k
  OBVIOUS
<1> HIDE DEF g
<1>3. g[0] = 0 /\ g[Len(t)] = Len(t)
  BY <1>1, <1>2
<1>4. ASSUME NEW k \in 1 .. Len(t) PROVE g[k] = g[k - 1] + 1 /\ t[k] = t[g[k]]
  BY <1>1, <1>2
<1>5. StandsFor(g, t, t, entries)
  BY <1>2, <1>3, <1>4 DEF StandsFor
<1>6. QED
  BY <1>2, <1>5

(* It does with more entries, and without one whose token is not there.    *)
LEMMA EntriesChange ==
  ASSUME NEW g, NEW s, NEW t, NEW entries, NEW others, StandsFor(g, s, t, entries),
         \A e \in entries : e \in others \/ \A k \in 1 .. Len(s) : s[k] # e.token
  PROVE  StandsFor(g, s, t, others)
<1>1. ASSUME NEW k \in 1 .. Len(s), NEW e \in entries, e.token = s[k] PROVE e \in others
  BY <1>1
<1>2. QED
  BY <1>1 DEF StandsFor

(* Without tokens it stands for nothing but itself.                        *)
LEMMA NothingToReplace ==
  ASSUME NEW s \in Seq(Symbols), NEW t \in Seq(Symbols),
         NEW g \in [0 .. Len(s) -> 0 .. Len(t)], StandsFor(g, s, t, {})
  PROVE  s = t
<1>1. Len(s) \in Nat /\ Len(t) \in Nat
  OBVIOUS
<1>2. /\ g[0] = 0 /\ g[Len(s)] = Len(t)
      /\ \A k \in 1 .. Len(s) : g[k] = g[k - 1] + 1 /\ s[k] = t[g[k]]
  BY DEF StandsFor
<1>3. \A k \in 0 .. Len(s) : g[k] = k
  <2> SUFFICES ASSUME {k \in 0 .. Len(s) : g[k] # k} # {} PROVE FALSE
    OBVIOUS
  <2>1. {k \in 0 .. Len(s) : g[k] # k} \in SUBSET Nat
    BY <1>1
  <2>2. PICK m \in {k \in 0 .. Len(s) : g[k] # k} :
          \A k \in {k \in 0 .. Len(s) : g[k] # k} : m <= k
    BY <2>1, LeastNumber
  <2>3. m \in 1 .. Len(s) /\ m - 1 \in 0 .. Len(s) /\ m \in Nat
    BY <1>1, <1>2, <2>2
  <2>4. g[m - 1] = m - 1
    BY <2>2, <2>3
  <2>5. QED
    BY <1>2, <2>2, <2>3, <2>4
<1>4. Len(s) = Len(t)
  BY <1>1, <1>2, <1>3
<1>5. \A k \in 1 .. Len(s) : s[k] = t[k]
  BY <1>1, <1>2, <1>3
<1>6. QED
  BY <1>4, <1>5, SeqEqual

(* There is an entry of a token and its original.                          *)
Covers(entries, token, original) ==
  \E e \in entries : e.token = token /\ e.original = original

(* A token put for a piece of the start that is as in the text stands for  *)
(* that piece.                                                             *)
LEMMA TokenStands ==
  ASSUME NEW s \in Seq(Symbols), NEW t \in Seq(Symbols), NEW entries,
         NEW g, StandsFor(g, s, t, entries),
         NEW a \in Nat, NEW b \in Nat, a < b, b <= Len(s), \A k \in 0 .. b : g[k] = k,
         NEW x, NEW r \in Seq(Symbols), IsSplice(r, s, a, b, x),
         Covers(entries, x, Slice(t, a, b))
  PROVE  \E h : StandsFor(h, r, t, entries) /\ \A k \in 0 .. a : h[k] = k
<1> g \in [0 .. Len(s) -> 0 .. Len(t)]
  BY DEF StandsFor
<1>1. Len(s) \in Nat /\ Len(t) \in Nat /\ Len(r) \in Nat
  OBVIOUS
<1>2. /\ Len(r) = Len(s) + a + 1 - b
      /\ \A k \in 1 .. a : r[k] = s[k]
      /\ r[a + 1] = x
      /\ \A k \in a + 2 .. Len(r) : r[k] = s[k - 1 - a + b]
  BY DEF IsSplice
<1>3. /\ g[0] = 0 /\ g[Len(s)] = Len(t)
      /\ \A k \in 1 .. Len(s) :
           \/ g[k] = g[k - 1] + 1 /\ s[k] = t[g[k]]
           \/ /\ g[k - 1] <= g[k]
              /\ \E f \in entries : f.token = s[k] /\ f.original = Slice(t, g[k - 1], g[k])
  BY DEF StandsFor
<1> DEFINE h == [k \in 0 .. Len(r) |-> IF k <= a THEN k ELSE g[k - 1 - a + b]]
<1>4. b <= Len(t)
  BY <1>1
<1>5. h \in [0 .. Len(r) -> 0 .. Len(t)]
  <2> SUFFICES ASSUME NEW k \in 0 .. Len(r)
               PROVE  (IF k <= a THEN k ELSE g[k - 1 - a + b]) \in 0 .. Len(t)
    OBVIOUS
  <2>1. k <= a => k \in 0 .. Len(t)
    BY <1>1, <1>4
  <2>2. ~(k <= a) => g[k - 1 - a + b] \in 0 .. Len(t)
    <3>1. ~(k <= a) => k - 1 - a + b \in 0 .. Len(s)
      BY <1>1, <1>2
    <3>2. QED
      BY <3>1
  <2>3. QED
    BY <2>1, <2>2, Zenon
<1>6. /\ \A k \in 0 .. a : h[k] = k
      /\ \A k \in a + 1 .. Len(r) : h[k] = g[k - 1 - a + b]
  BY <1>1, <1>2
<1> HIDE DEF h
<1>7. h[0] = 0 /\ h[Len(r)] = Len(t)
  <2>1. 0 \in 0 .. a /\ Len(r) \in a + 1 .. Len(r) /\ Len(r) - 1 - a + b = Len(s)
    BY <1>1, <1>2, SMTT(30)
  <2>2. h[Len(r)] = g[Len(r) - 1 - a + b]
    BY <1>6, <2>1
  <2>3. QED
    BY <1>3, <1>6, <2>1, <2>2
<1>8. ASSUME NEW k \in 1 .. Len(r)
      PROVE  \/ h[k] = h[k - 1] + 1 /\ r[k] = t[h[k]]
             \/ /\ h[k - 1] <= h[k]
                /\ \E f \in entries :
                     f.token = r[k] /\ f.original = Slice(t, h[k - 1], h[k])
  <2>1. CASE k <= a
    <3>1. k \in 0 .. a /\ k - 1 \in 0 .. a /\ k \in 0 .. b /\ k - 1 \in 0 .. b
          /\ k \in 1 .. Len(s) /\ k \in 1 .. a
      BY <2>1, <1>1
    <3>2. h[k] = g[k] /\ h[k - 1] = g[k - 1] /\ r[k] = s[k]
      BY <3>1, <1>2, <1>6
    <3>3. QED
      BY <3>1, <3>2, <1>3
  <2>2. CASE k = a + 1
    <3>1. h[k - 1] = a /\ h[k] = b
      <4>1. k - 1 \in 0 .. a /\ k \in a + 1 .. Len(r) /\ k - 1 - a + b = b /\ b \in 0 .. b
        BY <2>2, <1>1
      <4>2. QED
        BY <4>1, <2>2, <1>6
    <3>2. \E e \in entries : e.token = r[k] /\ e.original = Slice(t, h[k - 1], h[k])
      BY <2>2, <3>1, <1>2 DEF Covers
    <3>3. QED
      BY <3>1, <3>2
  <2>3. CASE k > a + 1
    <3> DEFINE m == k - 1 - a + b
    <3>1. m \in 1 .. Len(s) /\ m - 1 = (k - 1) - 1 - a + b
          /\ k \in a + 2 .. Len(r) /\ k \in a + 1 .. Len(r) /\ k - 1 \in a + 1 .. Len(r)
      BY <2>3, <1>1, <1>2, SMTT(30)
    <3>2. h[k] = g[m] /\ h[k - 1] = g[m - 1] /\ r[k] = s[m]
      BY <3>1, <1>2, <1>6
    <3> HIDE DEF m
    <3>3. QED
      BY <3>1, <3>2, <1>3
  <2>4. QED
    BY <2>1, <2>2, <2>3, <1>1
<1>9. StandsFor(h, r, t, entries)
  BY <1>5, <1>7, <1>8 DEF StandsFor
<1>10. QED
  BY <1>5, <1>6, <1>9

(* All entries of a token have the same original.                          *)
StandsOnlyFor(entries, token, original) ==
  \A e \in entries : e.token = token => e.original = original

(* The symbol at a place replaced by a string y.                           *)
IsPutFor(r, s, p, y) == IsSpliced(r, s, p - 1, p, y)

(* The original put for a token stands for itself, and the token is not in *)
(* it.                                                                     *)
LEMMA OriginalStands ==
  ASSUME NEW s \in Seq(Symbols), NEW t \in Seq(Symbols), NEW entries,
         NEW g, StandsFor(g, s, t, entries),
         NEW p \in 1 .. Len(s), ~Contains(t, s[p]), NEW y \in Seq(Symbols),
         StandsOnlyFor(entries, s[p], y), NEW r \in Seq(Symbols), IsPutFor(r, s, p, y)
  PROVE  (\E h : StandsFor(h, r, t, entries)) /\ \A k \in 1 .. Len(y) : y[k] # s[p]
<1> g \in [0 .. Len(s) -> 0 .. Len(t)]
  BY DEF StandsFor
<1>1. Len(s) \in Nat /\ Len(t) \in Nat /\ Len(r) \in Nat /\ Len(y) \in Nat /\ p \in Nat
  OBVIOUS
<1> DEFINE L == Len(y)
           u == g[p - 1]
           v == g[p]
<1>2. /\ Len(r) = Len(s) - 1 + L
      /\ \A k \in 1 .. p - 1 : r[k] = s[k]
      /\ \A k \in 1 .. L : r[p - 1 + k] = y[k]
      /\ \A k \in p + L .. Len(r) : r[k] = s[k - L + 1]
  <2>1. p - 1 \in Nat /\ Len(s) + (p - 1) + Len(y) - p = Len(s) - 1 + Len(y)
        /\ (p - 1) + Len(y) + 1 = p + Len(y)
    BY <1>1, SMTT(30)
  <2>2. \A k \in p + L .. Len(r) : k - Len(y) - (p - 1) + p = k - L + 1
    BY <1>1
  <2>3. /\ Len(r) = Len(s) + (p - 1) + Len(y) - p
        /\ \A k \in 1 .. p - 1 : r[k] = s[k]
        /\ \A k \in 1 .. Len(y) : r[(p - 1) + k] = y[k]
        /\ \A k \in (p - 1) + Len(y) + 1 .. Len(r) : r[k] = s[k - Len(y) - (p - 1) + p]
    BY DEF IsPutFor, IsSpliced
  <2>4. \A k \in p + L .. Len(r) : r[k] = s[k - L + 1]
    BY <2>1, <2>2, <2>3
  <2>5. QED
    BY <2>1, <2>3, <2>4
<1>3. /\ g[0] = 0 /\ g[Len(s)] = Len(t)
      /\ \A k \in 1 .. Len(s) :
           \/ g[k] = g[k - 1] + 1 /\ s[k] = t[g[k]]
           \/ /\ g[k - 1] <= g[k]
              /\ \E f \in entries : f.token = s[k] /\ f.original = Slice(t, g[k - 1], g[k])
  BY DEF StandsFor
<1>4. u \in 0 .. Len(t) /\ v \in 0 .. Len(t) /\ u <= v /\ y = Slice(t, u, v)
  <2>1. u \in 0 .. Len(t) /\ v \in 0 .. Len(t)
    <3>1. p - 1 \in 0 .. Len(s) /\ p \in 0 .. Len(s)
      BY <1>1
    <3>2. QED
      BY <3>1
  <2>2. ~(v = u + 1 /\ s[p] = t[v])
    <3>1. v = u + 1 => v \in 1 .. Len(t)
      BY <1>1, <2>1
    <3>2. QED
      BY <3>1 DEF Contains
  <2>3. QED
    BY <1>3, <2>1, <2>2 DEF StandsOnlyFor
<1>5. L = v - u /\ \A k \in 1 .. L : y[k] = t[u + k]
  BY <1>1, <1>4, SMTT(30) DEF Slice
<1> HIDE DEF L, u, v
<1> DEFINE h == [k \in 0 .. Len(r) |-> IF k <= p - 1 THEN g[k]
                                       ELSE IF k <= p - 1 + L THEN u + (k - (p - 1))
                                       ELSE g[k - L + 1]]
<1>6. L \in Nat
  BY <1>1 DEF L
<1>7. h \in [0 .. Len(r) -> 0 .. Len(t)]
  <2> SUFFICES ASSUME NEW k \in 0 .. Len(r)
               PROVE  (IF k <= p - 1 THEN g[k] ELSE IF k <= p - 1 + L THEN u + (k - (p - 1))
                       ELSE g[k - L + 1]) \in 0 .. Len(t)
    OBVIOUS
  <2>1. k <= p - 1 => g[k] \in 0 .. Len(t)
    BY <1>1
  <2>2. ~(k <= p - 1 + L) => g[k - L + 1] \in 0 .. Len(t)
    <3>1. ~(k <= p - 1 + L) => k - L + 1 \in 0 .. Len(s)
      BY <1>1, <1>2, <1>6
    <3>2. QED
      BY <3>1
  <2>3. ~(k <= p - 1) /\ k <= p - 1 + L => u + (k - (p - 1)) \in 0 .. Len(t)
    BY <1>1, <1>4, <1>5
  <2>4. QED
    BY <2>1, <2>2, <2>3, Zenon
<1>8. /\ \A k \in 0 .. p - 1 : h[k] = g[k]
      /\ \A k \in p - 1 .. p - 1 + L : h[k] = u + (k - (p - 1))
      /\ \A k \in p - 1 + L .. Len(r) : h[k] = g[k - L + 1]
  <2>1. \A k \in 0 .. p - 1 : h[k] = g[k]
    BY <1>1, <1>2, <1>6
  <2>2. \A k \in p .. p - 1 + L : h[k] = u + (k - (p - 1))
    BY <1>1, <1>2, <1>6
  <2>3. \A k \in p + L .. Len(r) : h[k] = g[k - L + 1]
    BY <1>1, <1>2, <1>6
  <2> HIDE DEF h
  <2>4. h[p - 1] = u + ((p - 1) - (p - 1))
    <3>1. p - 1 \in 0 .. p - 1 /\ u \in Nat /\ u + ((p - 1) - (p - 1)) = u
      BY <1>1, <1>4
    <3>2. h[p - 1] = g[p - 1]
      BY <2>1, <3>1
    <3>3. QED
      BY <3>1, <3>2 DEF u
  <2>5. h[p - 1 + L] = v
    <3>1. CASE L = 0
      BY <2>4, <3>1, <1>1, <1>4, <1>5
    <3>2. CASE L # 0
      <4>1. p - 1 + L \in p .. p - 1 + L /\ u + ((p - 1 + L) - (p - 1)) = v
        BY <3>2, <1>1, <1>4, <1>5, <1>6
      <4>2. QED
        BY <4>1, <2>2
    <3>3. QED
      BY <3>1, <3>2
  <2>6. p - 1 + L - L + 1 = p /\ g[p] = v
    BY <1>1, <1>6 DEF v
  <2>7. ASSUME NEW k \in p - 1 .. p - 1 + L PROVE h[k] = u + (k - (p - 1))
    <3>1. k = p - 1 \/ k \in p .. p - 1 + L
      BY <1>1, <1>6
    <3>2. QED
      BY <3>1, <2>2, <2>4
  <2>8. ASSUME NEW k \in p - 1 + L .. Len(r) PROVE h[k] = g[k - L + 1]
    <3>1. k = p - 1 + L \/ k \in p + L .. Len(r)
      BY <1>1, <1>6
    <3>2. CASE k = p - 1 + L
      <4>1. k - L + 1 = p
        BY <3>2, <1>1, <1>6
      <4>2. QED
        BY <3>2, <4>1, <2>5, <2>6
    <3>3. CASE k \in p + L .. Len(r)
      BY <3>3, <2>3
    <3>4. QED
      BY <3>1, <3>2, <3>3
  <2>9. QED
    BY <2>1, <2>7, <2>8
<1> HIDE DEF h
<1>9. h[0] = 0 /\ h[Len(r)] = Len(t)
  <2>1. 0 \in 0 .. p - 1 /\ Len(r) \in p - 1 + L .. Len(r) /\ Len(r) - L + 1 = Len(s)
    BY <1>1, <1>2, <1>6
  <2>2. QED
    BY <2>1, <1>3, <1>8
<1>10. ASSUME NEW k \in 1 .. Len(r)
       PROVE  \/ h[k] = h[k - 1] + 1 /\ r[k] = t[h[k]]
              \/ /\ h[k - 1] <= h[k]
                 /\ \E f \in entries : f.token = r[k] /\ f.original = Slice(t, h[k - 1], h[k])
  <2>1. CASE k <= p - 1
    <3>1. k \in 0 .. p - 1 /\ k - 1 \in 0 .. p - 1 /\ k \in 1 .. p - 1 /\ k \in 1 .. Len(s)
      BY <2>1, <1>1
    <3>2. h[k] = g[k] /\ h[k - 1] = g[k - 1] /\ r[k] = s[k]
      BY <3>1, <1>2, <1>8
    <3>3. QED
      BY <3>1, <3>2, <1>3
  <2>2. CASE k > p - 1 /\ k <= p - 1 + L
    <3> DEFINE m == k - (p - 1)
    <3>1. k \in p - 1 .. p - 1 + L /\ k - 1 \in p - 1 .. p - 1 + L
          /\ m \in 1 .. L /\ p - 1 + m = k /\ (k - 1) - (p - 1) = m - 1
      BY <2>2, <1>1, <1>6
    <3>2. h[k] = u + m /\ h[k - 1] = u + (m - 1) /\ r[k] = y[m] /\ y[m] = t[u + m]
      BY <3>1, <1>2, <1>5, <1>8
    <3> HIDE DEF m
    <3>3. h[k] = h[k - 1] + 1 /\ r[k] = t[h[k]]
      BY <3>1, <3>2, <1>4
    <3>4. QED
      BY <3>3
  <2>3. CASE k > p - 1 + L
    <3> DEFINE m == k - L + 1
    <3>1. k \in p - 1 + L .. Len(r) /\ k - 1 \in p - 1 + L .. Len(r) /\ k \in p + L .. Len(r)
          /\ m \in 1 .. Len(s) /\ (k - 1) - L + 1 = m - 1
      BY <2>3, <1>1, <1>2, <1>6, SMTT(30)
    <3>2. h[k] = g[m] /\ h[k - 1] = g[m - 1] /\ r[k] = s[m]
      BY <3>1, <1>2, <1>8
    <3> HIDE DEF m
    <3>3. QED
      BY <3>1, <3>2, <1>3
  <2>4. QED
    BY <2>1, <2>2, <2>3, <1>1, <1>6
<1>11. StandsFor(h, r, t, entries)
  BY <1>7, <1>9, <1>10 DEF StandsFor
<1>12. ASSUME NEW k \in 1 .. L PROVE y[k] # s[p]
  <2>1. u + k \in 1 .. Len(t) /\ y[k] = t[u + k]
    BY <1>1, <1>4, <1>5
  <2>2. QED
    BY <2>1 DEF Contains
<1>13. QED
  BY <1>7, <1>11, <1>12 DEF L

(* Until the payload is sent there is no answer.                           *)
LEMMA NotAnswered ==
  ASSUME PayloadIndInv, ~AllSent, UNCHANGED backVars, PayloadTypeOK'
  PROVE  BackStandsFor' /\ SeenIsReplaced'
<1>1. \A i \in Places : due'[i] = 0 /\ seen'[i] = 0
  BY DEF PayloadIndInv, BackStandsFor, PayloadTypeOK, backVars
<1>2. DOMAIN mapping' = 1 .. Len(mapping')
  BY DEF PayloadTypeOK
<1>3. \A i \in Places : due'[i] \notin DOMAIN mapping' /\ ~(due'[i] > 0)
  BY <1>1, <1>2
<1>4. QED
  BY <1>1, <1>3 DEF BackStandsFor, SeenIsReplaced

(* What is sent stands for the texts as long as it does not change.        *)
LEMMA SentIsKept ==
  ASSUME SentStandsFor, UNCHANGED <<texts, out, mapping, at>>, left' \subseteq left
  PROVE  SentStandsFor'
<1>1. \A i : EntriesFrom(1, i)' = EntriesFrom(1, i)
  BY DEF EntriesFrom
<1>2. QED
  BY <1>1 DEF SentStandsFor

(* The invariant of PayloadTokens holds when the payload has arrived, and  *)
(* every step keeps it: here, as below, one step per conjunct.             *)
LEMMA PayloadInitInv == PayloadInit => PayloadIndInv
<1> SUFFICES ASSUME PayloadInit PROVE PayloadIndInv
  OBVIOUS
<1>1. PayloadTypeOK
  <2>1. texts \in [Places -> Texts] /\ out \in [Places -> Seq(Symbols)]
    BY DEF PayloadInit
  <2>2. reported \in [Places -> SUBSET Reports] /\ found \in [Places -> SUBSET Reports]
    BY DEF PayloadInit
  <2>3. at \in 0 .. NumTexts + 1
    BY DEF PayloadInit
  <2>4. QED
    BY <2>1, <2>2, <2>3 DEF PayloadInit, PayloadTypeOK
<1>2. AcceptedAreApart
  BY DEF PayloadInit, AcceptedAreApart
<1>3. InTurn /\ StartIsUntouched /\ PassedAreHidden
  <2>1. ~Tokenizing /\ \A i \in Places : ~(i < at)
    BY DEF PayloadInit, Tokenizing, Places
  <2>2. QED
    BY <2>1 DEF PayloadInit, InTurn, StartIsUntouched, PassedAreHidden
<1>4. TokensAreDistinct
  BY DEF PayloadInit, TokensAreDistinct, ToSet
<1>5. SentStandsFor
  <2> SUFFICES ASSUME NEW i \in Places
               PROVE  \E g \in [0 .. Len(texts[i]) -> 0 .. Len(texts[i])] :
                        StandsFor(g, texts[i], texts[i], EntriesFrom(1, i))
    BY DEF PayloadInit, SentStandsFor
  <2>1. QED
    BY <1>1, TextStands DEF PayloadTypeOK
<1>6. BackStandsFor /\ SeenIsReplaced
  BY DEF PayloadInit, BackStandsFor, SeenIsReplaced
<1>7. QED
  BY <1>1, <1>2, <1>3, <1>4, <1>5, <1>6 DEF PayloadIndInv

(* A report that is accepted is apart from those accepted before it.       *)
LEMMA NormalizeInv ==
  ASSUME PayloadIndInv, NEW i \in Places, NEW d \in reported[i], Normalize(i, d)
  PROVE  PayloadIndInv'
<1> USE DEF PayloadIndInv, Normalize, backVars
<1>1. d \in Reports /\ d.start \in Nat /\ d.end \in Nat /\ d.end <= Len(texts[i])
  BY DEF PayloadTypeOK, AcceptedAreApart
<1>2. PayloadTypeOK'
  <2>1. reported' \in [Places -> SUBSET Reports] /\ found' \in [Places -> SUBSET Reports]
    <3>1. reported \in [Places -> SUBSET Reports] /\ found \in [Places -> SUBSET Reports]
      BY DEF PayloadTypeOK
    <3>2. reported[i] \ {d} \in SUBSET Reports /\ found[i] \cup {d} \in SUBSET Reports
      BY <1>1, <3>1
    <3>3. QED
      BY <3>1, <3>2
  <2>2. QED
    BY <2>1 DEF PayloadTypeOK
<1>3. AcceptedAreApart'
  <2> SUFFICES ASSUME NEW j \in Places
               PROVE  /\ \A e \in reported'[j] : e.end <= Len(texts[j])
                      /\ \A e \in found'[j] : e.start < e.end /\ e.end <= Len(texts[j])
                      /\ \A e, f \in found'[j] : e = f \/ ~Overlap(e, f)
    BY DEF AcceptedAreApart
  <2>1. reported'[j] \subseteq reported[j]
    BY DEF PayloadTypeOK
  <2>2. CASE j = i /\ Accepts(found[i], d)
    <3>1. found'[j] = found[i] \cup {d}
      BY <2>2 DEF PayloadTypeOK
    <3>2. \A e \in found[i] : ~Overlap(d, e) /\ ~Overlap(e, d)
      <4> SUFFICES ASSUME NEW e \in found[i] PROVE ~Overlap(d, e) /\ ~Overlap(e, d)
        OBVIOUS
      <4>1. e.start \in Nat /\ e.end \in Nat
        BY DEF PayloadTypeOK
      <4>2. QED
        BY <4>1, <1>1, <2>2 DEF Accepts, Overlap
    <3>3. \A e \in found'[j] : e.start < e.end /\ e.end <= Len(texts[j])
      BY <3>1, <1>1, <2>2 DEF Accepts, AcceptedAreApart
    <3>4. \A e, f \in found'[j] : e = f \/ ~Overlap(e, f)
      BY <3>1, <3>2, <2>2 DEF AcceptedAreApart
    <3>5. QED
      BY <2>1, <3>3, <3>4 DEF AcceptedAreApart
  <2>3. CASE ~(j = i /\ Accepts(found[i], d))
    <3>1. found'[j] = found[j]
      BY <2>3 DEF PayloadTypeOK
    <3>2. QED
      BY <2>1, <3>1 DEF AcceptedAreApart
  <2>4. QED
    BY <2>2, <2>3
<1>4. at = 0 /\ ~Tokenizing /\ \A j \in Places : ~(j < at)
  <2>1. at = 0
    BY DEF InTurn, PayloadTypeOK
  <2>2. QED
    BY <2>1 DEF Tokenizing, Places
<1>5. InTurn' /\ StartIsUntouched' /\ PassedAreHidden'
  BY <1>4 DEF InTurn, StartIsUntouched, PassedAreHidden, Tokenizing, PayloadTypeOK
<1>6. TokensAreDistinct'
  BY DEF TokensAreDistinct
<1>7. SentStandsFor'
  BY SentIsKept
<1>8. BackStandsFor' /\ SeenIsReplaced'
  BY <1>2, <1>4, NotAnswered DEF AllSent
<1>9. QED
  BY <1>2, <1>3, <1>5, <1>6, <1>7, <1>8

(* Tokenizing begins with the first string, of which nothing is replaced.  *)
LEMMA TokenizePayloadInv ==
  ASSUME PayloadIndInv, NEW types \in SUBSET Types, TokenizePayload(types)
  PROVE  PayloadIndInv'
<1> USE DEF PayloadIndInv, TokenizePayload, backVars
<1>1. 1 \in Places /\ at' = 1 /\ Tokenizing'
  BY DEF Places, Tokenizing
<1>2. PayloadTypeOK'
  BY <1>1 DEF PayloadTypeOK, Places
<1>3. AcceptedAreApart'
  BY DEF AcceptedAreApart, Overlap
<1>4. \A i \in Places : i > 0 /\ ~(i < 1)
  BY DEF Places
<1>5. out = texts
  BY <1>4 DEF InTurn, PayloadTypeOK
<1>6. InTurn'
  BY <1>1, <1>4, <1>5 DEF InTurn, PayloadTypeOK
<1>7. StartIsUntouched'
  <2> SUFFICES ASSUME NEW d \in found[1] PROVE UntouchedUpTo(d.end, texts[1], texts[1])
    BY <1>1, <1>5 DEF StartIsUntouched
  <2>1. QED
    BY <1>1 DEF AcceptedAreApart, UntouchedUpTo
<1>8. PassedAreHidden'
  BY <1>1, <1>4 DEF PassedAreHidden
<1>9. TokensAreDistinct'
  BY DEF TokensAreDistinct
<1>10. SentStandsFor'
  <2> SUFFICES ASSUME NEW i \in Places
               PROVE  \E g \in [0 .. Len(texts[i]) -> 0 .. Len(texts[i])] :
                        /\ StandsFor(g, texts[i], texts[i], EntriesFrom(1, i)')
                        /\ i = 1 => \A d \in found[1] : \A k \in 0 .. d.end : g[k] = k
    BY <1>1, <1>5 DEF SentStandsFor
  <2>1. PICK g \in [0 .. Len(texts[i]) -> 0 .. Len(texts[i])] :
          /\ StandsFor(g, texts[i], texts[i], EntriesFrom(1, i)')
          /\ \A k \in 0 .. Len(texts[i]) : g[k] = k
    BY TextStands DEF PayloadTypeOK
  <2>2. ASSUME i = 1, NEW d \in found[1], NEW k \in 0 .. d.end PROVE g[k] = k
    <3>1. k \in 0 .. Len(texts[i])
      BY <2>2 DEF AcceptedAreApart, PayloadTypeOK
    <3>2. QED
      BY <2>1, <3>1
  <2>3. QED
    BY <2>1, <2>2
<1>11. BackStandsFor' /\ SeenIsReplaced'
  BY <1>2, NotAnswered DEF AllSent
<1>12. QED
  BY <1>2, <1>3, <1>6, <1>7, <1>8, <1>9, <1>10, <1>11

(* The report that is taken is the last one: it begins where all others    *)
(* that are left have ended.                                               *)
LEMMA TakenIsLast ==
  ASSUME PayloadIndInv, left # {}
  PROVE  /\ Tokenizing /\ Taken \in left /\ Taken \in found[at] /\ Taken \in Reports
         /\ Taken.start \in Nat /\ Taken.end \in Nat
         /\ Taken.start < Taken.end /\ Taken.end <= Len(texts[at])
         /\ \A e \in left \ {Taken} : e.end <= Taken.start
<1> USE DEF PayloadIndInv
<1>1. Tokenizing /\ left \subseteq found[at] /\ left \subseteq Reports
  BY DEF InTurn, PayloadTypeOK
<1> DEFINE L == Len(texts[at])
<1>2. L \in Nat
  BY <1>1 DEF PayloadTypeOK, Tokenizing
<1>3. \A d \in left : d.start \in Nat /\ d.end \in Nat /\ d.start < d.end /\ d.end <= L
  BY <1>1 DEF AcceptedAreApart, Tokenizing
<1>4. \A d, e \in left : d = e \/ ~Overlap(d, e)
  BY <1>1 DEF AcceptedAreApart, Tokenizing
<1> HIDE DEF L
<1>5. PICK d \in left : \A e \in left : e.start <= d.start
  <2>1. {L - e.start : e \in left} \in SUBSET Nat /\ {L - e.start : e \in left} # {}
    BY <1>2, <1>3
  <2>2. PICK m \in {L - e.start : e \in left} : \A k \in {L - e.start : e \in left} : m <= k
    BY <2>1, LeastNumber
  <2>3. PICK d \in left : m = L - d.start
    BY <2>2
  <2>4. \A e \in left : L - d.start <= L - e.start
    BY <2>2, <2>3
  <2>5. QED
    BY <1>2, <1>3, <2>4
<1>6. Taken \in left /\ \A e \in left : e.start <= Taken.start
  BY <1>5 DEF Taken
<1>7. ASSUME NEW e \in left \ {Taken} PROVE e.end <= Taken.start
  BY <1>3, <1>4, <1>6 DEF Overlap
<1>8. QED
  BY <1>1, <1>3, <1>6, <1>7 DEF L

(* What is left to do and what is done, once the last report is taken.     *)
LEMMA TakenAway ==
  ASSUME PayloadIndInv, left # {}, left' = left \ {Taken}, UNCHANGED <<reported, found, at>>
  PROVE  /\ at' > 0 => \A i \in Places : reported'[i] = {}
         /\ Tokenizing' /\ left' \subseteq found'[at']
         /\ \A d \in left', e \in found'[at'] \ left' : d.end <= e.start
<1>1. Tokenizing /\ Taken \in found[at] /\ \A e \in left \ {Taken} : e.end <= Taken.start
  BY TakenIsLast
<1>2. ASSUME NEW d \in left', NEW e \in found[at] \ left' PROVE d.end <= e.start
  <2>1. CASE e = Taken
    BY <1>1, <2>1
  <2>2. CASE e # Taken
    BY <1>1, <2>2 DEF PayloadIndInv, InTurn
  <2>3. QED
    BY <2>1, <2>2
<1>3. QED
  BY <1>1, <1>2 DEF PayloadIndInv, InTurn, Tokenizing

(* A report of a type that is not tokenized has nothing to hide.           *)
LEMMA SkipInv ==
  ASSUME PayloadIndInv, Skip
  PROVE  PayloadIndInv'
<1> USE DEF PayloadIndInv, Skip, backVars
<1>1. Tokenizing /\ Taken \in left
  BY TakenIsLast
<1>2. PayloadTypeOK'
  BY DEF PayloadTypeOK
<1>3. AcceptedAreApart'
  BY DEF AcceptedAreApart, Overlap
<1>4. InTurn'
  BY TakenAway DEF InTurn
<1>5. StartIsUntouched'
  BY DEF StartIsUntouched, Tokenizing
<1>6. PassedAreHidden'
  <2>1. \A i, d : Hidden(i, d)' <=> Hidden(i, d)
    BY DEF Hidden
  <2>2. ASSUME NEW d \in found[at] \ left' PROVE Hidden(at, d)
    <3>1. CASE d = Taken
      BY <3>1 DEF Hidden
    <3>2. CASE d # Taken
      BY <1>1, <3>2 DEF PassedAreHidden
    <3>3. QED
      BY <3>1, <3>2
  <2>3. QED
    BY <2>1, <2>2 DEF PassedAreHidden
<1>7. TokensAreDistinct'
  BY DEF TokensAreDistinct
<1>8. SentStandsFor'
  BY SentIsKept
<1>9. BackStandsFor' /\ SeenIsReplaced'
  BY <1>1, <1>2, NotAnswered DEF AllSent, Tokenizing, Places
<1>10. QED
  BY <1>2, <1>3, <1>4, <1>5, <1>6, <1>7, <1>8, <1>9

(* A string is left when none of its reports is, and the next one is as it *)
(* arrived.                                                                *)
LEMMA AdvanceInv ==
  ASSUME PayloadIndInv, Advance
  PROVE  PayloadIndInv'
<1> USE DEF PayloadIndInv, Advance, backVars
<1>1. at \in 1 .. NumTexts /\ NumTexts \in Nat /\ at' = at + 1 /\ Tokenizing
  BY DEF Places, Tokenizing
<1>2. Tokenizing' <=> at < NumTexts
  BY <1>1 DEF Tokenizing, Places
<1>3. at < NumTexts => at + 1 \in Places /\ left' = found[at + 1] /\ out[at + 1] = texts[at + 1]
  BY <1>1 DEF Places, InTurn
<1>4. PayloadTypeOK'
  BY <1>1, <1>3 DEF PayloadTypeOK
<1>5. AcceptedAreApart'
  BY DEF AcceptedAreApart, Overlap
<1>6. InTurn'
  BY <1>1, <1>2, <1>3 DEF InTurn, Places
<1>7. StartIsUntouched'
  <2> SUFFICES ASSUME at < NumTexts, NEW d \in found[at + 1]
               PROVE  UntouchedUpTo(d.end, texts[at + 1], texts[at + 1])
    BY <1>1, <1>2, <1>3 DEF StartIsUntouched
  <2>1. QED
    BY <1>3 DEF AcceptedAreApart, UntouchedUpTo
<1>8. PassedAreHidden'
  <2>1. \A i, d : Hidden(i, d)' <=> Hidden(i, d)
    BY DEF Hidden
  <2>2. Tokenizing' => found'[at'] \ left' = {}
    BY <1>1, <1>2, <1>3
  <2>3. ASSUME NEW i \in Places, i < at + 1, NEW d \in found[i] PROVE Hidden(i, d)
    <3>1. i < at \/ i = at
      BY <1>1, <2>3 DEF Places
    <3>2. QED
      BY <1>1, <3>1 DEF PassedAreHidden
  <2>4. QED
    BY <1>1, <2>1, <2>2, <2>3 DEF PassedAreHidden
<1>9. TokensAreDistinct'
  BY DEF TokensAreDistinct
<1>10. SentStandsFor'
  <2> SUFFICES ASSUME NEW i \in Places
               PROVE  \E g \in [0 .. Len(out[i]) -> 0 .. Len(texts[i])] :
                        /\ StandsFor(g, out[i], texts[i], EntriesFrom(1, i)')
                        /\ i = at + 1 => \A d \in left' : \A k \in 0 .. d.end : g[k] = k
    BY <1>1 DEF SentStandsFor
  <2>1. CASE i = at + 1
    <3>1. at < NumTexts /\ out[i] = texts[i] /\ left' = found[i]
      BY <1>1, <1>3, <2>1 DEF Places
    <3>2. PICK g \in [0 .. Len(texts[i]) -> 0 .. Len(texts[i])] :
            /\ StandsFor(g, texts[i], texts[i], EntriesFrom(1, i)')
            /\ \A k \in 0 .. Len(texts[i]) : g[k] = k
      BY TextStands DEF PayloadTypeOK
    <3>3. ASSUME NEW d \in found[i], NEW k \in 0 .. d.end PROVE g[k] = k
      <4>1. k \in 0 .. Len(texts[i])
        BY <3>3 DEF AcceptedAreApart, PayloadTypeOK
      <4>2. QED
        BY <3>2, <4>1
    <3>4. QED
      BY <3>1, <3>2, <3>3
  <2>2. CASE i # at + 1
    <3>1. EntriesFrom(1, i)' = EntriesFrom(1, i)
      BY DEF EntriesFrom
    <3>2. QED
      BY <2>2, <3>1 DEF SentStandsFor
  <2>3. QED
    BY <2>1, <2>2
<1>11. BackStandsFor' /\ SeenIsReplaced'
  BY <1>1, <1>4, NotAnswered DEF AllSent
<1>12. QED
  BY <1>4, <1>5, <1>6, <1>7, <1>8, <1>9, <1>10, <1>11

(* The letters of a piece of a string are those at its places.             *)
LEMMA LettersOfSlice ==
  ASSUME NEW t \in Seq(Symbols), NEW a \in Nat, NEW b \in Nat, b <= Len(t),
         NEW x \in Letters(Slice(t, a, b))
  PROVE  x[1] = "letter" /\ \E j \in a + 1 .. b : t[j] = x
<1>1. x \in ToSet(SubSeq(t, a + 1, b)) /\ x[1] = "letter"
  BY DEF Letters, Slice
<1>2. PICK i \in DOMAIN SubSeq(t, a + 1, b) : x = SubSeq(t, a + 1, b)[i]
  BY <1>1 DEF ToSet
<1>3. a + i \in a + 1 .. b /\ t[a + i] = x
  BY <1>2
<1>4. QED
  BY <1>1, <1>3

(* A piece of a string that is replaced by a token brings no new letter.   *)
LEMMA NoNewLetters ==
  ASSUME NEW o \in Seq(Symbols), NEW a \in Nat, NEW b \in Nat, a < b, b <= Len(o),
         NEW token \in Symbols, token[1] # "letter",
         NEW r \in Seq(Symbols), IsSplice(r, o, a, b, token)
  PROVE  Letters(r) \subseteq Letters(o)
<1>1. Len(o) \in Nat
  OBVIOUS
<1>2. /\ Len(r) = Len(o) + a + 1 - b
      /\ \A k \in 1 .. a : r[k] = o[k]
      /\ r[a + 1] = token
      /\ \A k \in a + 2 .. Len(r) : r[k] = o[k - 1 - a + b]
  BY DEF IsSplice
<1>3. ASSUME NEW x \in Letters(r) PROVE x \in Letters(o)
  <2>1. PICK k \in 1 .. Len(r) : r[k] = x /\ x[1] = "letter"
    BY <1>2 DEF Letters, ToSet
  <2>2. k # a + 1
    BY <2>1, <1>2
  <2>3. PICK m \in 1 .. Len(o) : o[m] = x
    <3>1. CASE k <= a
      <4>1. k \in 1 .. a /\ k \in 1 .. Len(o)
        BY <3>1, <2>1, <1>1
      <4>2. QED
        BY <4>1, <2>1, <1>2
    <3>2. CASE k > a + 1
      <4>1. k \in a + 2 .. Len(r) /\ k - 1 - a + b \in 1 .. Len(o)
        BY <3>2, <2>1, <1>1, <1>2
      <4>2. QED
        BY <4>1, <2>1, <1>2
    <3>3. QED
      BY <3>1, <3>2, <2>1, <2>2
  <2>4. QED
    BY <2>1, <2>3 DEF Letters, ToSet
<1>4. QED
  BY <1>3

(* What is untouched up to a place before the piece stays so.              *)
LEMMA StartStays ==
  ASSUME NEW t \in Seq(Symbols), NEW o \in Seq(Symbols),
         NEW a \in Nat, NEW b \in Nat, a < b, UntouchedUpTo(b, o, t),
         NEW c \in Nat, c <= a, UntouchedUpTo(c, o, t),
         NEW token \in Symbols, token[1] # "letter",
         NEW r \in Seq(Symbols), IsSplice(r, o, a, b, token)
  PROVE  UntouchedUpTo(c, r, t)
<1> USE DEF UntouchedUpTo
<1>1. Len(o) \in Nat
  OBVIOUS
<1>2. Len(r) = Len(o) + a + 1 - b
  BY DEF IsSplice
<1>3. \A k \in 1 .. a : r[k] = o[k]
  BY DEF IsSplice
<1>4. r[a + 1] = token
  BY DEF IsSplice
<1>5. \A k \in a + 2 .. Len(r) : r[k] = o[k - 1 - a + b]
  BY DEF IsSplice
<1>6. c <= Len(r)
  BY <1>1, <1>2
<1>7. ASSUME NEW k \in 1 .. c PROVE r[k] = t[k]
  <2>1. k \in 1 .. a /\ k \in 1 .. b
    OBVIOUS
  <2>2. QED
    BY <2>1, <1>3
<1>8. ASSUME NEW k \in c + 1 .. Len(r), r[k][1] = "letter"
      PROVE  \E j \in c + 1 .. Len(t) : r[k] = t[j]
  <2>1. k # a + 1
    BY <1>4, <1>8
  <2>2. PICK m \in c + 1 .. Len(o) : o[m] = r[k]
    <3>1. CASE k <= a
      <4>1. k \in 1 .. a /\ k \in c + 1 .. Len(o)
        BY <3>1, <1>1
      <4>2. QED
        BY <4>1, <1>3
    <3>2. CASE k > a + 1
      <4>1. k \in Nat /\ c + 1 <= k /\ k <= Len(r) /\ a + 1 < k
        BY <3>2, <1>1, <1>2
      <4>2. k \in a + 2 .. Len(r)
        BY <4>1, <1>1, <1>2
      <4>3. k - 1 - a + b \in c + 1 .. Len(o)
        BY <4>1, <1>1, <1>2
      <4>4. QED
        BY <4>2, <4>3, <1>5
    <3>3. QED
      BY <3>1, <3>2, <2>1, <1>1, <1>2
  <2>3. QED
    BY <2>2, <1>8
<1>9. QED
  BY <1>6, <1>7, <1>8

(* The letters of the piece are nowhere in the string any more: what is    *)
(* before it is as it was, what follows it comes from behind it, and a     *)
(* letter names one place.                                                 *)
LEMMA PieceIsGone ==
  ASSUME NEW t \in Seq(Symbols), NEW o \in Seq(Symbols),
         NEW a \in Nat, NEW b \in Nat, a < b, b <= Len(t), UntouchedUpTo(b, o, t),
         \A i, j \in DOMAIN t : t[i] = t[j] /\ t[i][1] = "letter" => i = j,
         NEW token \in Symbols, token[1] # "letter",
         NEW r \in Seq(Symbols), IsSplice(r, o, a, b, token)
  PROVE  Letters(Slice(t, a, b)) \cap Letters(r) = {}
<1> USE DEF UntouchedUpTo
<1>1. Len(o) \in Nat /\ Len(t) \in Nat
  OBVIOUS
<1>2. Len(r) = Len(o) + a + 1 - b /\ r \in Seq(Symbols)
  BY DEF IsSplice
<1>3. \A k \in 1 .. a : r[k] = o[k]
  BY DEF IsSplice
<1>4. r[a + 1] = token
  BY DEF IsSplice
<1>5. \A k \in a + 2 .. Len(r) : r[k] = o[k - 1 - a + b]
  BY DEF IsSplice
<1> SUFFICES ASSUME NEW x \in Letters(Slice(t, a, b)), x \in Letters(r) PROVE FALSE
  OBVIOUS
<1>6. x[1] = "letter" /\ \E j \in a + 1 .. b : t[j] = x
  BY LettersOfSlice
<1>7. PICK j \in a + 1 .. b : t[j] = x
  BY <1>6
<1>8. \A i \in 1 .. Len(t) : t[i] = x => i = j
  BY <1>1, <1>6, <1>7
<1>9. PICK k \in 1 .. Len(r) : r[k] = x
  BY <1>2 DEF Letters, ToSet
<1>10. k # a + 1
  BY <1>4, <1>6, <1>9
<1>11. CASE k <= a
  <2>1. k \in 1 .. a /\ k \in 1 .. b /\ k \in 1 .. Len(t) /\ k # j
    BY <1>11, <1>1, <1>7
  <2>2. t[k] = x
    BY <2>1, <1>3, <1>9
  <2>3. QED
    BY <2>1, <2>2, <1>8
<1>12. CASE k > a + 1
  <2>1. k \in a + 2 .. Len(r) /\ k - 1 - a + b \in b + 1 .. Len(o)
    BY <1>12, <1>1, <1>2
  <2>2. o[k - 1 - a + b] = x
    BY <2>1, <1>5, <1>9
  <2>3. PICK i \in b + 1 .. Len(t) : t[i] = x
    BY <2>1, <2>2, <1>6
  <2>4. i \in 1 .. Len(t) /\ i # j
    BY <2>3, <1>1, <1>7
  <2>5. QED
    BY <2>3, <2>4, <1>8
<1>13. QED
  BY <1>9, <1>10, <1>11, <1>12, <1>1, <1>2

(* The three facts together, for a string of the payload.                  *)
LEMMA TokenIsPut ==
  ASSUME NEW t \in Texts, NEW o \in Seq(Symbols), NEW a \in Nat, NEW b \in Nat, a < b, b <= Len(t),
         UntouchedUpTo(b, o, t), NEW token \in Symbols, token[1] # "letter"
  PROVE  /\ Spliced(o, a, b, <<token>>) \in Seq(Symbols)
         /\ IsSplice(Spliced(o, a, b, <<token>>), o, a, b, token)
         /\ Letters(Spliced(o, a, b, <<token>>)) \subseteq Letters(o)
         /\ Letters(Slice(t, a, b)) \cap Letters(Spliced(o, a, b, <<token>>)) = {}
         /\ \A c \in 0 .. a :
              UntouchedUpTo(c, o, t) => UntouchedUpTo(c, Spliced(o, a, b, <<token>>), t)
<1>1. a <= b /\ b <= Len(o)
  BY DEF UntouchedUpTo
<1>2. t \in Seq(Symbols) /\ \A i, j \in DOMAIN t : t[i] = t[j] /\ t[i][1] = "letter" => i = j
  OBVIOUS
<1> DEFINE r == Spliced(o, a, b, <<token>>)
<1>3. r \in Seq(Symbols) /\ IsSplice(r, o, a, b, token)
  BY <1>1, SpliceToken, Zenon
<1> HIDE DEF r
<1>4. Letters(r) \subseteq Letters(o)
  BY <1>1, <1>3, NoNewLetters
<1>5. Letters(Slice(t, a, b)) \cap Letters(r) = {}
  BY <1>2, <1>3, PieceIsGone
<1>6. \A c \in 0 .. a : UntouchedUpTo(c, o, t) => UntouchedUpTo(c, r, t)
  BY <1>2, <1>3, StartStays
<1>7. QED
  BY <1>3, <1>4, <1>5, <1>6 DEF r

(* A report is replaced: it is hidden, and those that are left, which all  *)
(* end before it starts, are where they were.                              *)
LEMMA TokenizeInv ==
  ASSUME PayloadIndInv, Tokenize
  PROVE  PayloadIndInv'
<1> USE DEF PayloadIndInv, backVars
<1> DEFINE d == Taken
           a == d.start
           b == d.end
           o == out[at]
           t == texts[at]
           n == Index(d.type)
           tok == <<d.type, n>>
           r == Spliced(o, a, b, <<tok>>)
           entry == [token |-> tok, place |-> at, original |-> Slice(t, a, b)]
<1>1. left # {} /\ d.type \in allowed /\ left' = left \ {d}
      /\ UNCHANGED <<texts, reported, found, allowed, at, backVars>>
  BY DEF Tokenize
<1>2. /\ indices' = [indices EXCEPT ![d.type] = n + 1]
      /\ mapping' = Append(mapping, entry)
      /\ out' = [out EXCEPT ![at] = r]
  BY DEF Tokenize
<1>3. /\ at \in Places /\ d \in left /\ d \in found[at] /\ d \in Reports
      /\ a \in Nat /\ b \in Nat /\ a < b /\ b <= Len(t)
      /\ \A e \in left \ {d} : e.end <= a
  BY <1>1, TakenIsLast DEF Tokenizing
<1>4. d.type \in Types
  BY <1>1 DEF PayloadTypeOK
<1>5. n \in Nat /\ IsFree(tok)
  BY <1>3, <1>4, IndexIsFree
<1>6. t \in Texts /\ o \in Seq(Symbols) /\ t \in Seq(Symbols)
  BY <1>3 DEF PayloadTypeOK
<1>7. tok \in Symbols /\ tok[1] # "letter"
  BY <1>4, <1>5 DEF Symbols
<1>8. UntouchedUpTo(b, o, t)
  BY <1>3 DEF StartIsUntouched, Tokenizing
<1> HIDE DEF d, a, b, o, t, n, tok, r
<1>9. /\ r \in Seq(Symbols) /\ IsSplice(r, o, a, b, tok)
      /\ Letters(r) \subseteq Letters(o)
      /\ Letters(Slice(t, a, b)) \cap Letters(r) = {}
      /\ \A c \in 0 .. a : UntouchedUpTo(c, o, t) => UntouchedUpTo(c, r, t)
  BY <1>3, <1>6, <1>7, <1>8, TokenIsPut DEF r
<1>10. out'[at] = r /\ \A i \in Places : i # at => out'[i] = out[i]
  BY <1>2, <1>3 DEF PayloadTypeOK
<1>11. PayloadTypeOK'
  <2>1. Slice(t, a, b) \in Seq(Symbols)
    BY <1>3, <1>6 DEF Slice
  <2>2. entry \in [token : Types \X Nat, place : Places, original : Seq(Symbols)]
    BY <2>1, <1>3, <1>4, <1>5 DEF tok
  <2>3. mapping' \in Seq([token : Types \X Nat, place : Places, original : Seq(Symbols)])
    BY <2>2, <1>2, AppendProperties DEF PayloadTypeOK
  <2>4. indices' \in [Types -> Nat]
    BY <1>2, <1>4, <1>5 DEF PayloadTypeOK
  <2>5. out' \in [Places -> Seq(Symbols)]
    BY <1>2, <1>3, <1>9 DEF PayloadTypeOK
  <2>6. QED
    BY <2>3, <2>4, <2>5, <1>1 DEF PayloadTypeOK
<1>12. AcceptedAreApart'
  BY <1>1 DEF AcceptedAreApart, Overlap
<1>13. InTurn'
  <2>1. \A i \in Places : i > at => i # at
    BY DEF Places
  <2>2. \A i \in Places : i > at' => out'[i] = texts'[i]
    BY <2>1, <1>1, <1>10 DEF InTurn
  <2>3. QED
    BY <2>2, <1>1, TakenAway DEF InTurn, d
<1>14. StartIsUntouched'
  <2> SUFFICES ASSUME NEW e \in left \ {d} PROVE UntouchedUpTo(e.end, r, t)
    BY <1>1, <1>10 DEF StartIsUntouched, Tokenizing, t
  <2>1. e.end \in 0 .. a
    BY <1>3 DEF PayloadTypeOK
  <2>2. UntouchedUpTo(e.end, o, t)
    BY <1>3 DEF StartIsUntouched, Tokenizing, o, t
  <2>3. QED
    BY <2>1, <2>2, <1>9
<1>15. PassedAreHidden'
  <2>1. ASSUME NEW e \in found[at] \ left' PROVE Hidden(at, e)'
    <3>1. CASE e = d
      BY <3>1, <1>1, <1>9, <1>10 DEF Hidden, a, b, t
    <3>2. CASE e # d
      <4>1. Hidden(at, e)
        BY <3>2, <1>1, <1>3 DEF PassedAreHidden, Tokenizing
      <4>2. QED
        BY <4>1, <1>1, <1>9, <1>10 DEF Hidden, o
    <3>3. QED
      BY <3>1, <3>2
  <2>2. ASSUME NEW i \in Places, i < at, NEW e \in found[i] PROVE Hidden(i, e)'
    <3>1. i # at
      BY <2>2 DEF Places
    <3>2. Hidden(i, e)
      BY <2>2 DEF PassedAreHidden
    <3>3. QED
      BY <3>1, <3>2, <1>1, <1>10 DEF Hidden
  <2>3. QED
    BY <2>1, <2>2, <1>1 DEF PassedAreHidden
<1>16. TokensAreDistinct'
  <2>1. /\ entry.token = tok /\ entry.place = at
        /\ mapping' = Append(mapping, entry)
    BY <1>2
  <2> HIDE DEF entry
  <2>2. /\ DOMAIN mapping' = 1 .. Len(mapping) + 1 /\ DOMAIN mapping = 1 .. Len(mapping)
        /\ \A j \in 1 .. Len(mapping) : mapping'[j] = mapping[j]
        /\ mapping'[Len(mapping) + 1] = entry /\ Len(mapping) \in Nat
    BY <2>1 DEF PayloadTypeOK
  <2>3. \A j \in 1 .. Len(mapping) : mapping[j].token # tok
    BY <2>2, <1>5 DEF IsFree
  <2>4. \A j, k \in DOMAIN mapping' : mapping'[j].token = mapping'[k].token => j = k
    <3> SUFFICES ASSUME NEW j \in 1 .. Len(mapping) + 1, NEW k \in 1 .. Len(mapping) + 1,
                        mapping'[j].token = mapping'[k].token
                 PROVE  j = k
      BY <2>2
    <3>1. CASE j \in 1 .. Len(mapping) /\ k \in 1 .. Len(mapping)
      BY <3>1, <2>2 DEF TokensAreDistinct
    <3>2. CASE j = Len(mapping) + 1 \/ k = Len(mapping) + 1
      BY <3>2, <2>1, <2>2, <2>3
    <3>3. QED
      BY <3>1, <3>2, <2>2
  <2>5. \A e \in ToSet(mapping') : e \in ToSet(mapping) \/ e = entry
    BY <2>2 DEF ToSet
  <2>6. \A e \in ToSet(mapping') : ~Contains(texts[e.place], e.token)
    BY <2>1, <2>5, <1>5 DEF TokensAreDistinct, IsFree
  <2>7. QED
    BY <2>4, <2>6, <1>1 DEF TokensAreDistinct, Contains
<1>17. SentStandsFor'
  <2>1. /\ entry.token = tok /\ entry.place = at /\ entry.original = Slice(t, a, b)
        /\ mapping' = Append(mapping, entry)
    BY <1>2
  <2> HIDE DEF entry
  <2>2. /\ DOMAIN mapping' = 1 .. Len(mapping) + 1 /\ DOMAIN mapping = 1 .. Len(mapping)
        /\ \A m \in 1 .. Len(mapping) : mapping'[m] = mapping[m]
        /\ mapping'[Len(mapping) + 1] = entry /\ Len(mapping) \in Nat
    BY <2>1 DEF PayloadTypeOK
  <2>3. /\ entry \in EntriesFrom(1, at)'
        /\ \A i \in Places : EntriesFrom(1, i) \subseteq EntriesFrom(1, i)'
    <3>1. Len(mapping) + 1 \in {m \in DOMAIN mapping' : m >= 1 /\ mapping'[m].place = at}
      BY <2>1, <2>2
    <3>2. entry \in EntriesFrom(1, at)'
      BY <3>1, <2>2, <1>1 DEF EntriesFrom
    <3>3. ASSUME NEW i \in Places, NEW m \in DOMAIN mapping, m >= 1, mapping[m].place = i
          PROVE  mapping[m] \in EntriesFrom(1, i)'
      <4>1. m \in DOMAIN mapping' /\ mapping'[m] = mapping[m]
        BY <2>2
      <4>2. QED
        BY <3>3, <4>1 DEF EntriesFrom
    <3>4. QED
      BY <3>2, <3>3 DEF EntriesFrom
  <2>4. ASSUME NEW i \in Places, i # at
        PROVE  \E g \in [0 .. Len(out[i]) -> 0 .. Len(texts[i])] :
                 StandsFor(g, out[i], texts[i], EntriesFrom(1, i)')
    <3>1. PICK g \in [0 .. Len(out[i]) -> 0 .. Len(texts[i])] :
            StandsFor(g, out[i], texts[i], EntriesFrom(1, i))
      BY DEF SentStandsFor
    <3>2. StandsFor(g, out[i], texts[i], EntriesFrom(1, i)')
      BY <2>3, <3>1, EntriesChange
    <3>3. QED
      BY <3>2
  <2>5. \E h \in [0 .. Len(r) -> 0 .. Len(t)] :
          /\ StandsFor(h, r, t, EntriesFrom(1, at)')
          /\ \A e \in left \ {d} : \A k \in 0 .. e.end : h[k] = k
    <3>1. PICK g \in [0 .. Len(o) -> 0 .. Len(t)] :
            /\ StandsFor(g, o, t, EntriesFrom(1, at))
            /\ \A k \in 0 .. b : g[k] = k
      BY <1>3 DEF SentStandsFor, o, t, b
    <3>2. b <= Len(o)
      BY <1>8 DEF UntouchedUpTo
    <3> DEFINE old == EntriesFrom(1, at)
               new == EntriesFrom(1, at)'
    <3>3. StandsFor(g, o, t, old) /\ old \subseteq new /\ entry \in new
      <4>1. at \in Places
        BY <1>3 DEF Places
      <4>2. StandsFor(g, o, t, old)
        BY <3>1
      <4>3. QED
        BY <2>3, <4>1, <4>2
    <3> HIDE DEF old, new
    <3>4. StandsFor(g, o, t, new)
      BY <3>3, EntriesChange
    <3>5. Covers(new, tok, Slice(t, a, b))
      BY <2>1, <3>3 DEF Covers
    <3>6. PICK h : StandsFor(h, r, t, new) /\ \A k \in 0 .. a : h[k] = k
      <4>1. /\ o \in Seq(Symbols) /\ t \in Seq(Symbols) /\ r \in Seq(Symbols)
            /\ IsSplice(r, o, a, b, tok) /\ a \in Nat /\ b \in Nat /\ a < b /\ b <= Len(o)
            /\ \A k \in 0 .. b : g[k] = k
        BY <1>3, <1>6, <1>9, <3>1, <3>2
      <4>2. QED
        BY <3>4, <3>5, <4>1, TokenStands
    <3>7. h \in [0 .. Len(r) -> 0 .. Len(t)]
      BY <3>6 DEF StandsFor
    <3>8. ASSUME NEW e \in left \ {d}, NEW k \in 0 .. e.end PROVE h[k] = k
      <4>1. k \in 0 .. a
        BY <1>3 DEF PayloadTypeOK
      <4>2. QED
        BY <3>6, <4>1
    <3>9. QED
      BY <3>6, <3>8, <3>7 DEF new
  <2>6. QED
    BY <1>1, <1>10, <2>4, <2>5 DEF SentStandsFor, t
<1>18. BackStandsFor' /\ SeenIsReplaced'
  BY <1>1, <1>3, <1>11, NotAnswered DEF AllSent, Places
<1>19. QED
  BY <1>11, <1>12, <1>13, <1>14, <1>15, <1>16, <1>17, <1>18

(* What the invariant says of the payload that is sent.                    *)
SentPart ==
  /\ AcceptedAreApart /\ InTurn /\ StartIsUntouched /\ PassedAreHidden
  /\ TokensAreDistinct /\ SentStandsFor

(* The answer does not change it.                                          *)
LEMMA SentStays ==
  ASSUME PayloadIndInv, UNCHANGED sentVars
  PROVE  SentPart'
<1> USE DEF sentVars, PayloadIndInv
<1>1. AcceptedAreApart' /\ InTurn' /\ TokensAreDistinct'
  BY DEF AcceptedAreApart, Overlap, InTurn, TokensAreDistinct, Tokenizing
<1>2. StartIsUntouched'
  BY DEF StartIsUntouched, Tokenizing
<1>3. PassedAreHidden'
  BY DEF PassedAreHidden, Hidden, Tokenizing
<1>4. SentStandsFor'
  BY SentIsKept
<1>5. QED
  BY <1>1, <1>2, <1>3, <1>4 DEF SentPart

(* The answer stands for the texts as what was sent does.                  *)
LEMMA EchoInv ==
  ASSUME PayloadIndInv, Echo
  PROVE  PayloadIndInv'
<1> USE DEF PayloadIndInv, Echo
<1>1. SentPart'
  BY SentStays
<1>2. PayloadTypeOK'
  BY DEF sentVars, PayloadTypeOK
<1>3. /\ AllSent' /\ back' = out' /\ \A i \in Places : due'[i] = 1 /\ seen'[i] = 0
  BY DEF sentVars, BackStandsFor, AllSent
<1>4. BackStandsFor'
  BY <1>1, <1>3 DEF SentPart, SentStandsFor, BackStandsFor
<1>5. SeenIsReplaced'
  <2> SUFFICES ASSUME NEW i \in Places, NEW k \in DOMAIN back'[i], k <= seen'[i] PROVE FALSE
    BY DEF SeenIsReplaced
  <2>1. k > 0 /\ seen'[i] = 0
    BY <1>2, <1>3 DEF PayloadTypeOK
  <2>2. QED
    BY <2>1, <1>2 DEF PayloadTypeOK
<1>6. QED
  BY <1>1, <1>2, <1>4, <1>5 DEF SentPart

(* A token of the entry is replaced: the answer stands for the same text,  *)
(* and the original does not have that token.                              *)
LEMMA ReplaceInv ==
  ASSUME PayloadIndInv, NEW i \in Places, Replace(i)
  PROVE  PayloadIndInv'
<1> USE DEF PayloadIndInv
<1> DEFINE n == due[i]
           e == mapping[n]
           s == back[i]
           t == texts[i]
           p == CHOOSE k \in Occurrences(i) : \A m \in Occurrences(i) : k <= m
           y == Replacement(e)
           r == Spliced(s, p - 1, p, y)
<1>1. /\ n \in DOMAIN mapping /\ Occurrences(i) # {} /\ UNCHANGED sentVars /\ due' = due
      /\ back' = [back EXCEPT ![i] = r] /\ seen' = [seen EXCEPT ![i] = p - 1 + Len(y)]
  BY DEF Replace, Reversing
<1>2. s \in Seq(Symbols) /\ t \in Seq(Symbols) /\ seen[i] \in Nat /\ n \in Nat
  BY DEF PayloadTypeOK
<1>3. p \in Occurrences(i) /\ \A m \in Occurrences(i) : p <= m
  <2>1. Occurrences(i) \in SUBSET Nat
    BY DEF Occurrences
  <2>2. \E k \in Occurrences(i) : \A m \in Occurrences(i) : k <= m
    BY <1>1, <2>1, LeastNumber
  <2>3. QED
    BY <2>2
<1>4. e \in [token : Types \X Nat, place : Places, original : Seq(Symbols)]
  <2>1. mapping \in Seq([token : Types \X Nat, place : Places, original : Seq(Symbols)])
    BY DEF PayloadTypeOK
  <2>2. n \in 1 .. Len(mapping)
    BY <1>1, <2>1, LenProperties
  <2>3. QED
    BY <2>1, <2>2, ElementOfSeq
<1>5. e.token \in Symbols /\ e.original \in Seq(Symbols)
  BY <1>4 DEF Symbols
<1>6. y \in Seq(Symbols) /\ (~Contains(e.original, Dollar) => y = e.original)
  <2> DEFINE z == e.original
  <2>1. z \in Seq(Symbols) /\ DOMAIN z = 1 .. Len(z) /\ Len(z) \in Nat
        /\ \A k \in 1 .. Len(z) : z[k] \in Symbols
    BY <1>5
  <2>2. y = [k \in 1 .. Len(z) |-> IF z[k] = Dollar THEN e.token ELSE z[k]]
    BY <2>1 DEF Replacement
  <2> HIDE DEF y, z
  <2>3. y \in [1 .. Len(z) -> Symbols]
    BY <1>5, <2>1, <2>2
  <2>4. y \in Seq(Symbols) /\ Len(y) = Len(z)
    BY <2>1, <2>3, IsASeq, LenProperties
  <2>5. ASSUME ~Contains(z, Dollar) PROVE y = z
    <3>1. \A k \in 1 .. Len(z) : y[k] = z[k]
      BY <2>2, <2>5 DEF Contains
    <3>2. QED
      BY <2>1, <2>4, <3>1, SeqEqual
  <2>6. QED
    BY <2>4, <2>5 DEF z
<1>7. p \in 1 .. Len(s) /\ p > seen[i] /\ s[p] = e.token
  BY <1>3 DEF Occurrences
<1>8. \A k \in 1 .. Len(s) : k > seen[i] /\ s[k] = e.token => p <= k
  BY <1>3 DEF Occurrences
<1> HIDE DEF n, e, s, t, p, y, r
<1> DEFINE q == p - 1
<1>9. r \in Seq(Symbols) /\ IsSpliced(r, s, q, p, y)
  <2>1. p - 1 \in Nat /\ p \in Nat /\ p - 1 <= p /\ p <= Len(s)
    BY <1>2, <1>7
  <2>2. QED
    BY <1>2, <1>6, <2>1, Splice DEF r
<1>10. SentPart'
  BY <1>1, SentStays
<1>11. PayloadTypeOK'
  <2>1. p - 1 + Len(y) \in Nat
    BY <1>2, <1>6, <1>7
  <2>2. back' \in [Places -> Seq(Symbols)] /\ seen' \in [Places -> Nat]
    BY <1>1, <1>9, <2>1 DEF PayloadTypeOK
  <2>3. QED
    BY <1>1, <2>2 DEF sentVars, PayloadTypeOK
<1>12. ASSUME Plain(i)
       PROVE  /\ \E h \in [0 .. Len(r) -> 0 .. Len(t)] : StandsFor(h, r, t, EntriesFrom(n, i))
              /\ \A k \in 1 .. Len(y) : y[k] # e.token
  <2> DEFINE E == EntriesFrom(n, i)
  <2>1. PICK g \in [0 .. Len(s) -> 0 .. Len(t)] : StandsFor(g, s, t, E)
    <3>1. n > 0
      BY <1>1 DEF PayloadTypeOK
    <3>2. QED
      BY <3>1, <1>12 DEF BackStandsFor, n, s, t
  <2>2. e \in ToSet(mapping)
    BY <1>1 DEF e, ToSet
  <2>3. ~Contains(t, s[p])
    BY <1>7, <1>12, <2>2 DEF Plain, TokensAreDistinct, t
  <2>4. ASSUME NEW f \in E, f.token = s[p] PROVE f.original = y
    <3>1. PICK m \in DOMAIN mapping : f = mapping[m] /\ mapping[m].place = i
      BY DEF EntriesFrom
    <3>2. m = n
      BY <1>1, <1>7, <2>4, <3>1 DEF TokensAreDistinct, e
    <3>3. f = e /\ e.place = i
      BY <3>1, <3>2 DEF e
    <3>4. QED
      BY <1>6, <1>12, <2>2, <3>3 DEF Plain
  <2>5. StandsOnlyFor(E, s[p], y)
    BY <2>4 DEF StandsOnlyFor
  <2> HIDE DEF E
  <2>6. IsPutFor(r, s, p, y)
    BY <1>9, Zenon DEF IsPutFor
  <2> HIDE DEF q
  <2>7. (\E h : StandsFor(h, r, t, E)) /\ \A k \in 1 .. Len(y) : y[k] # s[p]
    BY <1>2, <1>6, <1>7, <1>9, <2>1, <2>3, <2>5, <2>6, OriginalStands
  <2>8. \A h : StandsFor(h, r, t, E) => h \in [0 .. Len(r) -> 0 .. Len(t)]
    BY DEF StandsFor
  <2>9. QED
    BY <1>7, <2>7, <2>8 DEF E
<1>13. /\ back'[i] = r /\ seen'[i] = p - 1 + Len(y)
       /\ \A j \in Places : j # i => back'[j] = back[j] /\ seen'[j] = seen[j]
       /\ \A j \in Places : Plain(j)' = Plain(j)
       /\ \A m, j : EntriesFrom(m, j)' = EntriesFrom(m, j)
       /\ texts' = texts /\ mapping' = mapping /\ AllSent' = AllSent
  BY <1>1 DEF PayloadTypeOK, sentVars, Plain, EntriesFrom, AllSent
<1>14. BackStandsFor'
  <2>1. n > 0
    BY <1>1 DEF PayloadTypeOK
  <2>2. EntriesFrom(due[i], i)' = EntriesFrom(n, i)
    BY <1>1 DEF sentVars, EntriesFrom, n
  <2>3. Plain(i) => \E h \in [0 .. Len(back'[i]) -> 0 .. Len(texts'[i])] :
                      StandsFor(h, back'[i], texts'[i], EntriesFrom(due[i], i)')
    BY <1>12, <1>13, <2>2 DEF t
  <2>4. ASSUME NEW j \in Places, j # i PROVE EntriesFrom(due[j], j)' = EntriesFrom(due[j], j)
    BY <1>1 DEF sentVars, EntriesFrom
  <2>5. AllSent
    BY <2>1 DEF BackStandsFor, n
  <2>6. QED
    BY <1>1, <1>13, <2>1, <2>3, <2>4, <2>5 DEF BackStandsFor, n
<1>15. SeenIsReplaced'
  <2>1. ASSUME Plain(i), NEW k \in DOMAIN r, k <= p - 1 + Len(y) PROVE r[k] # e.token
    <3>1. k \in Nat /\ k > 0 /\ Len(y) \in Nat /\ p \in Nat
      BY <1>2, <1>6, <1>7, <1>9
    <3>2. CASE k <= p - 1
      <4>1. r[k] = s[k] /\ k \in 1 .. Len(s) /\ k \in DOMAIN back[i]
        BY <1>2, <1>7, <1>9, <3>1, <3>2 DEF IsSpliced, s
      <4>2. CASE k <= seen[i]
        BY <1>1, <2>1, <4>1, <4>2 DEF SeenIsReplaced, n, e, s
      <4>3. CASE k > seen[i]
        BY <1>7, <1>8, <3>1, <3>2, <4>1, <4>3
      <4>4. QED
        BY <1>2, <3>1, <4>2, <4>3
    <3>3. CASE k > p - 1
      <4>1. k - (p - 1) \in 1 .. Len(y) /\ (p - 1) + (k - (p - 1)) = k
        BY <2>1, <3>1, <3>3
      <4>2. r[k] = y[k - (p - 1)]
        BY <1>9, <4>1 DEF IsSpliced
      <4>3. QED
        BY <1>12, <2>1, <4>1, <4>2
    <3>4. QED
      BY <3>1, <3>2, <3>3
  <2>2. QED
    BY <1>1, <1>13, <2>1 DEF SeenIsReplaced, n, e
<1>16. QED
  BY <1>10, <1>11, <1>14, <1>15 DEF SentPart

(* Its token is in the answer no more, so that the entry can be left out.  *)
LEMMA NextEntryInv ==
  ASSUME PayloadIndInv, NEW i \in Places, NextEntry(i)
  PROVE  PayloadIndInv'
<1> USE DEF PayloadIndInv
<1>1. /\ due[i] \in DOMAIN mapping /\ Occurrences(i) = {} /\ UNCHANGED sentVars /\ back' = back
      /\ due' = [due EXCEPT ![i] = due[i] + 1] /\ seen' = [seen EXCEPT ![i] = 0]
  BY DEF NextEntry, Reversing
<1>2. SentPart'
  BY <1>1, SentStays
<1>3. PayloadTypeOK'
  <2>1. due' \in [Places -> Nat] /\ seen' \in [Places -> Nat]
    <3>1. due[i] + 1 \in Nat
      BY DEF PayloadTypeOK
    <3>2. QED
      BY <1>1, <3>1 DEF PayloadTypeOK
  <2>2. QED
    BY <1>1, <2>1 DEF sentVars, PayloadTypeOK
<1>4. /\ due'[i] = due[i] + 1 /\ seen'[i] = 0 /\ due[i] \in Nat /\ due[i] > 0
      /\ \A j \in Places : j # i => due'[j] = due[j] /\ seen'[j] = seen[j]
      /\ \A j \in Places : Plain(j)' = Plain(j)
      /\ \A m, j : EntriesFrom(m, j)' = EntriesFrom(m, j)
      /\ texts' = texts /\ mapping' = mapping /\ AllSent' = AllSent
  <2>1. due[i] \in Nat /\ due[i] > 0
    <3>1. DOMAIN mapping = 1 .. Len(mapping)
      BY DEF PayloadTypeOK
    <3>2. QED
      BY <1>1, <3>1
  <2>2. due \in [Places -> Nat] /\ seen \in [Places -> Nat]
    BY DEF PayloadTypeOK
  <2>3. /\ due'[i] = due[i] + 1 /\ seen'[i] = 0
        /\ \A j \in Places : j # i => due'[j] = due[j] /\ seen'[j] = seen[j]
    BY <1>1, <2>2
  <2>4. QED
    BY <1>1, <2>1, <2>3 DEF sentVars, Plain, EntriesFrom, AllSent
<1>5. ASSUME Plain(i)
      PROVE  \E h \in [0 .. Len(back[i]) -> 0 .. Len(texts[i])] :
               StandsFor(h, back[i], texts[i], EntriesFrom(due[i] + 1, i))
  <2>1. PICK g \in [0 .. Len(back[i]) -> 0 .. Len(texts[i])] :
          StandsFor(g, back[i], texts[i], EntriesFrom(due[i], i))
    BY <1>4, <1>5 DEF BackStandsFor
  <2>2. \A k \in 1 .. Len(back[i]) : back[i][k] # mapping[due[i]].token
    <3> SUFFICES ASSUME NEW k \in 1 .. Len(back[i]), back[i][k] = mapping[due[i]].token
                 PROVE  FALSE
      OBVIOUS
    <3>1. k \in DOMAIN back[i] /\ seen[i] \in Nat
      BY DEF PayloadTypeOK
    <3>2. k <= seen[i]
      BY <1>1, <3>1 DEF Occurrences
    <3>3. QED
      BY <1>1, <1>5, <3>1, <3>2 DEF SeenIsReplaced
  <2>3. ASSUME NEW e \in EntriesFrom(due[i], i)
        PROVE  e \in EntriesFrom(due[i] + 1, i) \/ \A k \in 1 .. Len(back[i]) : back[i][k] # e.token
    <3>1. PICK m \in DOMAIN mapping : e = mapping[m] /\ mapping[m].place = i /\ m >= due[i]
      BY DEF EntriesFrom
    <3>2. m = due[i] \/ m >= due[i] + 1
      BY <1>4, <3>1 DEF PayloadTypeOK
    <3>3. QED
      BY <2>2, <3>1, <3>2 DEF EntriesFrom
  <2>4. StandsFor(g, back[i], texts[i], EntriesFrom(due[i] + 1, i))
    BY <2>1, <2>3, EntriesChange
  <2>5. QED
    BY <2>4
<1>6. BackStandsFor'
  BY <1>1, <1>4, <1>5 DEF BackStandsFor
<1>7. SeenIsReplaced'
  <2>1. \A k \in DOMAIN back[i] : ~(k <= 0)
    BY DEF PayloadTypeOK
  <2>2. QED
    BY <1>1, <1>4, <2>1 DEF SeenIsReplaced
<1>8. QED
  BY <1>2, <1>3, <1>6, <1>7 DEF SentPart

(* All actions together.                                                   *)
LEMMA PayloadNextInv == PayloadIndInv /\ [PayloadNext]_tokenVars => PayloadIndInv'
<1> SUFFICES ASSUME PayloadIndInv, [PayloadNext]_tokenVars PROVE PayloadIndInv'
  OBVIOUS
<1>1. CASE \E i \in Places : \E d \in reported[i] : Normalize(i, d)
  BY <1>1, NormalizeInv
<1>2. CASE \E types \in SUBSET Types : TokenizePayload(types)
  BY <1>2, TokenizePayloadInv
<1>3. CASE Skip
  BY <1>3, SkipInv
<1>4. CASE Tokenize
  BY <1>4, TokenizeInv
<1>5. CASE Advance
  BY <1>5, AdvanceInv
<1>6. CASE Echo
  BY <1>6, EchoInv
<1>7. CASE \E i \in Places : Replace(i) \/ NextEntry(i)
  BY <1>7, ReplaceInv, NextEntryInv
<1>8. CASE UNCHANGED tokenVars
  <2>1. SentPart'
    BY <1>8, SentStays DEF tokenVars
  <2>2. PayloadTypeOK'
    BY <1>8 DEF tokenVars, sentVars, backVars, PayloadIndInv, PayloadTypeOK
  <2>3. /\ \A i : Plain(i)' <=> Plain(i)
        /\ \A i : EntriesFrom(due[i], i)' = EntriesFrom(due[i], i)
        /\ UNCHANGED <<texts, mapping, back, due, seen>> /\ AllSent' = AllSent
    BY <1>8 DEF tokenVars, sentVars, backVars, Plain, EntriesFrom, AllSent
  <2>4. BackStandsFor'
    BY <2>3 DEF PayloadIndInv, BackStandsFor
  <2>5. SeenIsReplaced'
    BY <2>3 DEF PayloadIndInv, SeenIsReplaced
  <2>6. QED
    BY <2>1, <2>2, <2>4, <2>5 DEF PayloadIndInv, SentPart
<1>9. QED
  BY <1>1, <1>2, <1>3, <1>4, <1>5, <1>6, <1>7, <1>8 DEF PayloadNext

(* The invariant holds throughout.                                         *)
LEMMA PayloadInvariance == PayloadSpec => []PayloadIndInv
<1>1. QED
  BY PayloadInitInv, PayloadNextInv, PTL DEF PayloadSpec

(* Every variable of the sanitizer keeps its type; above all, the next     *)
(* number of a token always exists.                                        *)
THEOREM PayloadTypeCorrect == PayloadSpec => []PayloadTypeOK
<1>1. PayloadIndInv => PayloadTypeOK
  BY DEF PayloadIndInv
<1>2. QED
  BY <1>1, PayloadInvariance, PTL

(* Of a report that was accepted and is of a type to be tokenized nothing  *)
(* is sent, however many reports and strings there are.                    *)
THEOREM DetectionsAreHidden == PayloadSpec => []DetectedIsHidden
<1>1. PayloadIndInv => DetectedIsHidden
  <2> SUFFICES ASSUME PayloadIndInv, AllSent, NEW i \in Places, NEW d \in found[i]
               PROVE  Hidden(i, d)
    BY DEF DetectedIsHidden, Hidden
  <2>1. i < at
    BY DEF AllSent, Places, PayloadIndInv, PayloadTypeOK
  <2>2. QED
    BY <2>1 DEF PayloadIndInv, PassedAreHidden
<1>2. QED
  BY <1>1, PayloadInvariance, PTL

(* A string that comes back as it was sent is restored to what it was,     *)
(* whatever it holds and however many tokens there are, unless the user    *)
(* typed a token of another string or a "$&" was given one.                *)
THEOREM EchoesAreRestored == PayloadSpec => []EchoIsRestored
<1>1. PayloadIndInv => EchoIsRestored
  <2> SUFFICES ASSUME PayloadIndInv, AllReversed, NEW i \in Places, Plain(i)
               PROVE  back[i] = texts[i]
    BY DEF EchoIsRestored
  <2>1. /\ due[i] > Len(mapping) /\ due[i] \in Nat /\ Len(mapping) \in Nat
        /\ DOMAIN mapping = 1 .. Len(mapping)
        /\ back[i] \in Seq(Symbols) /\ texts[i] \in Seq(Symbols)
    BY DEF AllReversed, PayloadIndInv, PayloadTypeOK
  <2>2. EntriesFrom(due[i], i) = {}
    BY <2>1 DEF EntriesFrom
  <2>3. due[i] > 0
    BY <2>1
  <2>4. PICK g \in [0 .. Len(back[i]) -> 0 .. Len(texts[i])] :
          StandsFor(g, back[i], texts[i], EntriesFrom(due[i], i))
    BY <2>3 DEF PayloadIndInv, BackStandsFor
  <2>5. QED
    BY <2>1, <2>2, <2>4, NothingToReplace
<1>2. QED
  BY <1>1, PayloadInvariance, PTL

(* A token is given out once, and never one that the user typed in the     *)
(* string it is put into.                                                  *)
THEOREM TokensAreGivenOnce == PayloadSpec => []TokensAreDistinct
<1>1. PayloadIndInv => TokensAreDistinct
  BY DEF PayloadIndInv
<1>2. QED
  BY <1>1, PayloadInvariance, PTL
=============================================================================
