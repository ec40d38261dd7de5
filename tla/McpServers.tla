----------------------------- MODULE McpServers -----------------------------
(***************************************************************************)
(* The servers of the MCP client (packages/mcp-client: client.rs, bridge.rs,*)
(* server_manager/lifecycle.rs and health.rs).                             *)
(*                                                                         *)
(* The commands of the desktop share one mutex, but the health monitor     *)
(* restarts servers beside them, so any calls may overlap.  A registry     *)
(* lock is held for one look or one change; the lock of `running` also     *)
(* while a server is spoken to.  Who holds a lock follows from how far its *)
(* call is.  Tools stand for the tools, resources and prompts of a server, *)
(* which are registered and removed alike.                                 *)
(*                                                                         *)
(* A definition named "...Slip" is a mistake one could make in the         *)
(* definition below it; the specification uses none.                       *)
(***************************************************************************)
CONSTANTS Calls, Servers, NoOp

VARIABLES registered, \* ServerRegistry: the servers that are configured
          running,    \* ServerLifecycle.running
          tools,      \* ToolRegistry: the servers whose tools it lists
          op,         \* a call: what it does, and to which server
          callPc,     \* how far it is
          raced       \* history: servers that two calls changed at a time

mcpVars == <<registered, running, tools, op, callPc, raced>>

Changes == {"connect", "disconnect", "restart", "unregister", "shutdown", "stopAll"}
CallKinds == Changes \cup {"callTool", "ping"}
CallSteps == {"new", "lookup", "open", "register", "insert", "ask", "unlink", "closing",
          "forget", "erase", "validate", "validating", "send", "answer", "drain",
          "draining", "done"}

McpTypeOK ==
  /\ registered \subseteq Servers /\ running \subseteq Servers /\ tools \subseteq Servers
  /\ op \in [Calls -> [kind : CallKinds, server : Servers] \cup {NoOp}]
  /\ callPc \in [Calls -> CallSteps]
  /\ raced \subseteq Servers

McpInit ==
  /\ registered = Servers /\ running = {} /\ tools = {}
  /\ op = [c \in Calls |-> NoOp]
  /\ callPc = [c \in Calls |-> "new"]
  /\ raced = {}
-----------------------------------------------------------------------------
(* The locks.                                                              *)

ReadsToolsSlip(c) == callPc[c] \in {"validating", "send", "answer"}
ReadsTools(c) == callPc[c] = "validating"
ReadsRunning(c) == callPc[c] = "answer"
WritesRunning(c) == callPc[c] \in {"closing", "draining"}

MayWriteTools == \A d \in Calls : ~ReadsTools(d)
MayReadRunning == \A d \in Calls : ~WritesRunning(d)
MayWriteRunning == MayReadRunning /\ \A d \in Calls : ~ReadsRunning(d)
-----------------------------------------------------------------------------
AtStep(c, step) == callPc[c] = step
Goto(c, step) == callPc' = [callPc EXCEPT ![c] = step]

First(k) ==
  CASE k \in {"connect", "restart"} -> "lookup"
    [] k = "disconnect" -> "unlink"
    [] k = "unregister" -> "ask"
    [] k = "stopAll" -> "drain"
    [] k = "callTool" -> "validate"
    [] k \in {"ping", "shutdown"} -> "send"

Active(c) == callPc[c] \notin {"new", "done"}
Touches(c, s) == Active(c) /\ op[c].kind \in Changes /\ (op[c].server = s \/ op[c].kind = "stopAll")

Begin(c, k, s) ==
  /\ AtStep(c, "new") /\ Goto(c, First(k))
  /\ op' = [op EXCEPT ![c] = [kind |-> k, server |-> s]]
  /\ raced' = raced \cup
       {t \in Servers : /\ k \in Changes /\ (t = s \/ k = "stopAll")
                        /\ \E d \in Calls : Touches(d, t)}
  /\ UNCHANGED <<registered, running, tools>>

(* start_server: the transport starts, and the handshake succeeds or not.  *)
Lookup(c) ==
  /\ AtStep(c, "lookup")
  /\ Goto(c, IF op[c].server \notin registered THEN "done"
             ELSE IF op[c].kind = "restart" THEN "unlink" ELSE "open")
  /\ UNCHANGED <<registered, running, tools, op, raced>>

OpenedSlip == {"register", "insert", "done"}
Opened == {"register", "done"}
Open(c) ==
  /\ AtStep(c, "open") /\ \E next \in Opened : Goto(c, next)
  /\ UNCHANGED <<registered, running, tools, op, raced>>

Register(c) ==
  /\ AtStep(c, "register") /\ MayWriteTools
  /\ tools' = tools \cup {op[c].server}
  /\ Goto(c, "insert")
  /\ UNCHANGED <<registered, running, op, raced>>

Insert(c) ==
  /\ AtStep(c, "insert") /\ MayWriteRunning
  /\ running' = running \cup {op[c].server}
  /\ Goto(c, "done")
  /\ UNCHANGED <<registered, tools, op, raced>>

(* unregister_server asks is_running before it stops the server.           *)
Ask(c) ==
  /\ AtStep(c, "ask") /\ MayReadRunning
  /\ Goto(c, IF op[c].server \in running THEN "unlink" ELSE "erase")
  /\ UNCHANGED <<registered, running, tools, op, raced>>

(* stop_server; a restart goes on with start_server.                       *)
Unlink(c) ==
  /\ AtStep(c, "unlink") /\ MayWriteRunning
  /\ running' = running \ {op[c].server}
  /\ Goto(c, IF op[c].server \in running THEN "closing" ELSE "forget")
  /\ UNCHANGED <<registered, tools, op, raced>>

Closed(c) ==
  /\ AtStep(c, "closing") /\ Goto(c, "forget")
  /\ UNCHANGED <<registered, running, tools, op, raced>>

Forget(c) ==
  /\ AtStep(c, "forget") /\ MayWriteTools
  /\ tools' = tools \ {op[c].server}
  /\ Goto(c, CASE op[c].kind = "restart" -> "lookup"
               [] op[c].kind = "unregister" -> "erase"
               [] OTHER -> "done")
  /\ op' = IF op[c].kind = "restart" THEN [op EXCEPT ![c].kind = "connect"] ELSE op
  /\ UNCHANGED <<registered, running, raced>>

Erase(c) ==
  /\ AtStep(c, "erase")
  /\ registered' = registered \ {op[c].server}
  /\ Goto(c, "done")
  /\ UNCHANGED <<running, tools, op, raced>>

(* call_tool; an unknown tool, or one that is not approved, ends it.       *)
Validate(c) ==
  /\ AtStep(c, "validate") /\ Goto(c, "validating")
  /\ UNCHANGED <<registered, running, tools, op, raced>>

Validated(c) ==
  /\ AtStep(c, "validating")
  /\ \/ op[c].server \in tools /\ Goto(c, "send")
     \/ Goto(c, "done")
  /\ UNCHANGED <<registered, running, tools, op, raced>>

(* send_message; shutdown goes on with stop_server, whatever came of it.   *)
AfterSend(c) == IF op[c].kind = "shutdown" THEN "unlink" ELSE "done"

SendMessage(c) ==
  /\ AtStep(c, "send") /\ MayReadRunning
  /\ Goto(c, IF op[c].server \in running THEN "answer" ELSE AfterSend(c))
  /\ UNCHANGED <<registered, running, tools, op, raced>>

Reply(c) ==
  /\ AtStep(c, "answer") /\ Goto(c, AfterSend(c))
  /\ UNCHANGED <<registered, running, tools, op, raced>>

(* stop_all.                                                               *)
Drain(c) ==
  /\ AtStep(c, "drain") /\ MayWriteRunning /\ Goto(c, "draining")
  /\ UNCHANGED <<registered, running, tools, op, raced>>

DrainOne(c, s) ==
  /\ AtStep(c, "draining") /\ s \in running /\ MayWriteTools
  /\ running' = running \ {s}
  /\ tools' = tools \ {s}
  /\ UNCHANGED <<registered, op, callPc, raced>>

Drained(c) ==
  /\ AtStep(c, "draining") /\ running = {} /\ Goto(c, "done")
  /\ UNCHANGED <<registered, running, tools, op, raced>>

Step(c) ==
  \/ Lookup(c) \/ Open(c) \/ Register(c) \/ Insert(c) \/ Ask(c) \/ Unlink(c) \/ Closed(c)
  \/ Forget(c) \/ Erase(c) \/ Validate(c) \/ Validated(c) \/ SendMessage(c) \/ Reply(c)
  \/ Drain(c) \/ Drained(c) \/ \E s \in Servers : DrainOne(c, s)

McpNext ==
  \E c \in Calls : Step(c) \/ \E k \in CallKinds, s \in Servers : Begin(c, k, s)

(* Fairness: tasks are scheduled, and servers answer or close the line.    *)
McpFairness == \A c \in Calls : WF_mcpVars(Step(c))

McpSpec == McpInit /\ [][McpNext]_mcpVars

McpFairSpec == McpSpec /\ McpFairness
-----------------------------------------------------------------------------
(* Properties.                                                             *)

(* Once no call is at work on a server, its tools are listed exactly when  *)
(* it runs, whatever failed on the way: the handshake, the second half of  *)
(* a restart, a tool call into a server that went away.  Only two changes  *)
(* of one server at a time can leave it half-way.  (lifecycle.rs)          *)
ToolsMatchRunning ==
  \A s \in Servers :
    s \notin raced /\ (\A c \in Calls : ~Touches(c, s)) => (s \in tools <=> s \in running)

(* What the next step of a call waits for; a lock is free for the rest.    *)
CallWaitsFor(c, d) ==
  \/ /\ callPc[c] \in {"register", "forget"} \/ (callPc[c] = "draining" /\ running # {})
     /\ ReadsTools(d)
  \/ callPc[c] \in {"ask", "send"} /\ WritesRunning(d)
  \/ callPc[c] \in {"insert", "unlink", "drain"} /\ (WritesRunning(d) \/ ReadsRunning(d))

(* However many calls overlap, they do not wait for each other in a        *)
(* circle, although stop_all waits for the registries while it holds       *)
(* `running`: among any calls there is one that waits for none of them.    *)
(* (lifecycle.rs, client.rs)                                               *)
NoCircularCalls ==
  \A D \in SUBSET Calls : D # {} => \E c \in D : \A d \in D : ~CallWaitsFor(c, d)

(* No call waits for ever, so that again and again none is under way:      *)
(* stop_all takes the registries while it holds `running`, so nobody may   *)
(* wait for `running` with a registry in hand.  (lifecycle.rs, client.rs)  *)
EveryCallEnds == []<>(\A c \in Calls : ~Active(c))
-----------------------------------------------------------------------------
(* Why the tools match.                                                    *)

Ops == [kind : CallKinds, server : Servers]
OfOneServer == {"lookup", "open", "register", "insert", "ask", "unlink", "closing", "forget",
                "erase"}

\* What a call does says which steps it takes.
StepsFitKinds ==
  \A c \in Calls :
    /\ Active(c) => op[c] \in Ops
    /\ callPc[c] \in OfOneServer => op[c].kind \in Changes \ {"stopAll"}
    /\ callPc[c] \in {"drain", "draining"} => op[c].kind = "stopAll"
    /\ callPc[c] \in {"validate", "validating", "send", "answer"} => op[c].kind # "stopAll"

OneAtATime ==
  \A s \in Servers \ raced : \A c, d \in Calls : Touches(c, s) /\ Touches(d, s) => c = d

\* Tools are listed before their server runs, and forgotten after it stopped.
Starts(c, s) == callPc[c] = "insert" /\ op[c].server = s
Stops(c, s) == callPc[c] \in {"closing", "forget"} /\ op[c].server = s

HalfWayIsKnown ==
  \A s \in Servers \ raced :
    /\ \A c \in Calls : (Starts(c, s) => s \in tools) /\ (Stops(c, s) => s \notin running)
    /\ (\A c \in Calls : ~Starts(c, s) /\ ~Stops(c, s)) => (s \in tools <=> s \in running)

(* The inductive invariant.                                                *)
McpIndInv == McpTypeOK /\ StepsFitKinds /\ OneAtATime /\ HalfWayIsKnown
=============================================================================
