SPECIFICATION PartsSpec
CONSTANTS
  s1 = s1
  s2 = s2
  Sessions = {s1, s2}
  s3 = s3
  NoOne = NoOne
  Roles <- AllRoles
  Kinds = {"critical", "plain"}
  Sequential = {"critical"}
  Pipeline <- Pipelines
  Paths <- AllPaths
  Protected = {"secret"}
  Targets <- SomeTargets
  Default <- DefaultPath
  MaxCancels = 1
  h1 = h1
  h2 = h2
  h1 = h1
  h2 = h2
  Handoffs = {h1, h2}
  Cards = {t1, t2}
  NoHandoff = NoHandoff
  MaxSaves = 1
  PhantomSessions = {s1, s2}
  Tasks = {t1, t2}
  NoSession = NoSession
  NoTask = NoTask
  c1 = c1
  c2 = c2
  c3 = c3
  Calls = {c1, c2, c3}
  Servers = {server}
  NoOp = NoOp
PROPERTIES EverySessionEnds HandoffReachesReview QueuedIsServed EveryCallEnds
INVARIANTS LocksAreOwned ExclusivePaths SessionIsActive DefaultsNeverRefused AtWorkIsShown StoredCatchesUp ExecutedOnce ToolsMatchRunning
CHECK_DEADLOCK FALSE
