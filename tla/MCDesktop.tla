------------------------------ MODULE MCDesktop ------------------------------
(***************************************************************************)
(* Small instances, for one run of TLC, of the parts of the desktop that   *)
(* have properties of liveness: the agent orchestrator, the Kanban board,  *)
(* the phantom scheduler and the MCP client.  The parts share no state.  A *)
(* behaviour is about one of them, picked at the start, while the others   *)
(* stay as they begin, where none of their fair actions is enabled: TLC    *)
(* explores the sum of the parts, not their product.                       *)
(***************************************************************************)
EXTENDS MCAgentOrchestrator, KanbanBoard, PhantomScheduler, McpServers

CONSTANTS h1, h2, c1, c2, c3   \* hand-offs and calls

VARIABLE part
-----------------------------------------------------------------------------
Parts == {"agents", "board", "phantom", "mcp"}

PartsInit ==
  /\ part \in Parts
  /\ Init /\ BoardInit /\ PhantomInit /\ McpInit
  /\ part # "agents" => kind = [s \in Sessions |-> "plain"]

Pick(p) == part = p /\ UNCHANGED part

PartsNext ==
  \/ Pick("agents") /\ Next /\ UNCHANGED <<boardVars, phantomVars, mcpVars>>
  \/ Pick("board") /\ BoardNext /\ UNCHANGED <<vars, phantomVars, mcpVars>>
  \/ Pick("phantom") /\ PhantomNext /\ UNCHANGED <<vars, boardVars, mcpVars>>
  \/ Pick("mcp") /\ McpNext /\ UNCHANGED <<vars, boardVars, phantomVars>>

partsVars == <<part, vars, boardVars, phantomVars, mcpVars>>

\* Whoever is number i of its part goes on: a run of the orchestrator, a
\* hand-off, a loop of the scheduler, a call.
PartProceeds(i) ==
  \/ /\ Pick("agents") /\ i <= 2 /\ Proceed(<<s1, s2>>[i])
     /\ UNCHANGED <<boardVars, phantomVars, mcpVars>>
  \/ /\ Pick("board") /\ i <= 2 /\ HandoffProceeds(<<h1, h2>>[i])
     /\ UNCHANGED <<vars, phantomVars, mcpVars>>
  \/ /\ Pick("phantom") /\ i <= 2 /\ Loop(<<s1, s2>>[i])
     /\ UNCHANGED <<vars, boardVars, mcpVars>>
  \/ /\ Pick("mcp") /\ Step(<<c1, c2, c3>>[i])
     /\ UNCHANGED <<vars, boardVars, phantomVars>>

\* The properties are those of the parts.
PartsSpec ==
  /\ PartsInit /\ [][PartsNext]_partsVars
  /\ \A i \in 1 .. 3 : WF_partsVars(PartProceeds(i))
=============================================================================
