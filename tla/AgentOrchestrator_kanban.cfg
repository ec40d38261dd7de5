SPECIFICATION Spec
CONSTANTS
  s1 = s1
  s2 = s2
  s3 = s3
  NoOne = NoOne
  Roles <- AllRoles
  Paths <- AllPaths
  Protected = {"secret"}
  Default <- DefaultPath
  Sessions = {s1}
  Kinds = {"critical", "plain"}
  Sequential = {"critical"}
  Pipeline <- Pipelines
  Targets <- KanbanTargets
  MaxCancels = 0
INVARIANTS BuilderRuns
CHECK_DEADLOCK FALSE
