CONSTANTS
  r1 = r1
  r2 = r2
  k1 = k1
  k2 = k2
  Requests = {r1, r2}
  Keys = {k1, k2}
  Amounts = {1, 2}
  Limits = {2}
  MaxDay = 2
  Nobody = Nobody
  NoEntry = NoEntry
  NoOp = NoOp
SPECIFICATION Spec
INVARIANTS DayWithinLimit
