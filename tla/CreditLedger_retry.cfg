CONSTANTS
  r1 = r1
  r2 = r2
  k1 = k1
  k2 = k2
  Requests = {r1, r2}
  Keys = {k1}
  Amounts = {1}
  Limits = {1}
  MaxDay = 1
  Nobody = Nobody
  NoEntry = NoEntry
  NoOp = NoOp
SPECIFICATION Spec
PROPERTIES RetryNotRefused
