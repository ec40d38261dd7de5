CONSTANTS
  t1 = t1
  t2 = t2
  s1 = s1
  s2 = s2
  m1 = m1
  m2 = m2
  Txns = {t1, t2}
  Modules = {m1, m2}
  ModuleOf <- SetModules
  Nobody = Nobody
  Unbound = Unbound
  Untouched = Untouched
  NoOp = NoOp
  Sets = {s1}
  MaxVersion = 3
  k1 = k1
  k2 = k2
  k3 = k3
  NoKey = NoKey
  u1 = u1
  u2 = u2
  o1 = o1
  NoState = NoState
  email = email
  card = card
  upload = upload
  ann = ann
  bob = bob
  Codes = {c1}
  NoNode = NoNode
  Original = Original
  Requests = {t1, t2}
  NoRequest = NoRequest
  Orgs = {o1}
  Users = {u1, u2}
  CodeOrg <- CreatorOf
  Conns = {t1, t2}
  Keys = {k1, k2, k3}
  Unlocked = Unlocked
  NoKeyRequest = NoKeyRequest
  Callbacks = {t1, t2}
  States = {s1, s2}
  NoCallback = NoCallback
  Rules <- SomeRules
  NumRules = 2
  Contexts <- SomeContexts
  Day = 3
  Week = 2
  MaxTicks = 1
  Events = {k1, k2, k3}
  Dispatches = {t1, t2}
  LogSize = 2
  BatchSize = 1
  MaxWrites = 2
  Types = {email, card}
  Texts <- SomeTexts
  Reports <- SomeReports
  NumTexts = 2
  MaxReports = 2
  Nodes = {k1, k2, k3}
  Graphs <- SomeGraphs
  MaxRetries = 1
  Changes = {k1, k2}
  MaxReverts = 2
  Parts = {"tokens"}
SPECIFICATION PartsSpec
INVARIANTS TokensAreNew
