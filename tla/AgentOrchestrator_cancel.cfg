SPECIFICATION Spec
CONSTANTS
  s1 = s1
  s2 = s2
  s3 = s3
  NoOne = NoOne
  Roles <- AllRoles
  Paths <- AllPaths
  Protected = {"secret"}
  Default <- DefaultPath
  Sessions = {s1, s2, s3}
  Kinds = {"plain"}
  Sequential = {}
  Pipeline <- Plain
  Targets <- KanbanTargets
  MaxCancels = 1
SYMMETRY SessionSymmetry
INVARIANTS OneSessionRuns
CHECK_DEADLOCK FALSE
