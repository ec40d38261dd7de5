------------------------ MODULE MCAgentOrchestrator ------------------------
(* The pipelines, default paths and protected files of the code.           *)
EXTENDS AgentOrchestrator, TLC

CONSTANTS s1, s2, s3

AllRoles == {"architect", "builder", "reviewer", "security", "qa", "docs"}

\* createPlan: a critical request, and any other one outside AGI mode.
Pipelines ==
  [critical |-> <<"architect", "builder", "reviewer", "security", "qa", "docs">>,
   plain    |-> <<"architect", "builder", "qa", "reviewer", "docs">>]

\* defaultPathsForRole; "file" and "secret" are paths a caller names.
DefaultPath ==
  [architect |-> {"docs"}, docs |-> {"docs"}, qa |-> {"tests"},
   builder |-> {"zone1"}, reviewer |-> {"zone2"}, security |-> {"zone3"}]

AllPaths == {"docs", "tests", "zone1", "zone2", "zone3", "file", "secret"}

SomeTargets ==
  {DefaultPath} \cup {[r \in AllRoles |-> ps] : ps \in {{"file"}, {"file", "secret"}}}

KanbanTargets == {DefaultPath, [r \in AllRoles |-> {"file"}]}

Plain == [plain |-> Pipelines.plain]

SessionSymmetry == Permutations(Sessions)
=============================================================================
