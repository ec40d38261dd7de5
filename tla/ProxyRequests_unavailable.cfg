SPECIFICATION RequestsSpec
CONSTANTS
  q1 = q1
  q2 = q2
  Requests = {q1}
  RetryMax = 1
  Ttl = 4
  Timeout = 1
  BackoffUnit = 1
  Begun <- BegunOnce
INVARIANTS UnavailableMeansDown
