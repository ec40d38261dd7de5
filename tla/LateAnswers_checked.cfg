SPECIFICATION PartsSpec
CONSTANTS
  Parts = {"cache", "proxy", "signin", "chat"}
  Sessions = {s1, s2}
  Turns = {t1, t2}
  MaxLoads = 1
  MaxAppends = 2
  f1 = f1
  f2 = f2
  f3 = f3
  q1 = q1
  q2 = q2
  a1 = a1
  a2 = a2
  s1 = s1
  t1 = t1
  t2 = t2
  NoLoad = NoLoad
  RefreshEvery = 1
  MaxAge = 2
  MaxDelay = 2
  MaxVersion = 2
  Fetches = {f1, f2, f3}
  Requests = {q1, q2}
  RetryMax = 1
  Ttl = 4
  Timeout = 1
  BackoffUnit = 1
  Begun <- BegunOnce
INVARIANTS ServedIsRecent AnswersAreAudited RestoredInTime ShownIsStored
PROPERTIES ImplementsAuditedAnswers CurrentIsServed NoRegress WaitEnds EveryRequestEnds EveryTurnEnds
