SPECIFICATION PartsSpec
CONSTANTS
  r1 = r1
  r2 = r2
  k1 = k1
  k2 = k2
  Requests = {r1, r2}
  Keys = {k1, k2}
  Amounts = {0, 1}
  Limits = {0, 1}
  MaxDay = 2
  Nobody = Nobody
  NoEntry = NoEntry
  NoOp = NoOp
  s1 = s1
  s2 = s2
  m1 = m1
  Unbound = Unbound
  Untouched = Untouched
INVARIANTS CounterIsExact NoCircularWait
PROPERTIES ImplementsAtomicLedger EveryRequestEnds EveryTransactionEnds
